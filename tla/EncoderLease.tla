---------------------------- MODULE EncoderLease ----------------------------
(***************************************************************************)
(* What the meson_hcodec driver promises about its single encoder.  The    *)
(* chip has one set of reference frames and one set of canvases, so the    *)
(* driver leases it to one stream at a time (hc_streamer): an encode runs  *)
(* only for the stream that holds the lease, on hardware programmed for    *)
(* that stream, and neither the lease nor the programming changes while a  *)
(* frame is being encoded.                                                 *)
(***************************************************************************)
CONSTANTS
  Ctx,      \* the streams (one per open file handle)
  NoCtx     \* "nobody"

VARIABLES
  owner,      \* the stream that holds the lease, or NoCtx
  programmed, \* the stream whose picture the hardware is set up for, or NoCtx
  encoding    \* the stream whose frame is being encoded, or NoCtx

leaseVars == <<owner, programmed, encoding>>

LeaseTypeOK ==
  /\ owner \in Ctx \cup {NoCtx}
  /\ programmed \in Ctx \cup {NoCtx}
  /\ encoding \in Ctx \cup {NoCtx}

LeaseInit ==
  /\ owner = NoCtx
  /\ programmed = NoCtx
  /\ encoding = NoCtx

(* The hardware may be touched by c: idle, and free or leased to c already. *)
MayProgram(c) ==
  /\ encoding = NoCtx
  /\ owner \in {NoCtx, c}

(* c takes the lease, or keeps it, and sets the hardware up. *)
Program(c) ==
  /\ MayProgram(c)
  /\ owner' = c
  /\ programmed' = c
  /\ UNCHANGED encoding

(* Setting up fails half-way: the hardware is programmed for nobody. *)
ProgramFails(c) ==
  /\ MayProgram(c)
  /\ programmed' = NoCtx
  /\ UNCHANGED <<owner, encoding>>

Begin(c) ==
  /\ owner = c
  /\ programmed = c
  /\ encoding = NoCtx
  /\ encoding' = c
  /\ UNCHANGED <<owner, programmed>>

End(c) ==
  /\ encoding = c
  /\ encoding' = NoCtx
  /\ UNCHANGED <<owner, programmed>>

Drop(c) ==
  /\ owner = c
  /\ encoding = NoCtx
  /\ owner' = NoCtx
  /\ UNCHANGED <<programmed, encoding>>

LeaseNext ==
  \E c \in Ctx : Program(c) \/ ProgramFails(c) \/ Begin(c) \/ End(c) \/ Drop(c)

LeaseSpec == LeaseInit /\ [][LeaseNext]_leaseVars
=============================================================================

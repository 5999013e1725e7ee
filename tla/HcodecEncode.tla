---------------------------- MODULE HcodecEncode ----------------------------
(***************************************************************************)
(* What hc_work of tools/hcodec-mod/meson_hcodec.c computes for the stream *)
(* that holds the encoder: the choice between an IDR and a P picture, the  *)
(* QP, the cached SPS/PPS (hc_hdr), the retries of a hung ucode with the   *)
(* QP floor they raise, the rate control, and the picture counters.        *)
(*                                                                         *)
(* hc_work takes no lock, so VIDIOC_S_CTRL (hc_s_ctrl) interleaves with    *)
(* its steps; STREAMON and STREAMOFF do not (module HcodecM2M).  Reading   *)
(* the CAPTURE buffers is a decoder, modelled from what the comments of    *)
(* the driver say of one.                                                  *)
(***************************************************************************)
EXTENDS Integers

CONSTANTS
  QpLow, QpTop,  \* the QP range of the controls (10 and 51)
  QpStep,        \* what a hang adds to the QP (4)
  QpDrift,       \* the drift that is worth an IDR (2)
  IdrGap,        \* HC_QP_IDR_GAP
  Tries,         \* attempts before the floor rises (3)
  NumMod,        \* frame_num modulus: 2^log2_max_frame_num
  GopTop,        \* the largest GOP_SIZE (300)
  QpI,           \* values of the I-frame QP, MIN_QP, MAX_QP and GOP controls
  QpMin, QpMax, Gop

ASSUME ConstantsOK ==
  /\ QpLow \in Nat \ {0} /\ QpTop \in Nat /\ QpLow < QpTop
  /\ QpStep \in Nat \ {0} /\ QpDrift \in Nat \ {0} /\ IdrGap \in Nat \ {0}
  /\ Tries \in Nat \ {0}
  /\ NumMod \in Nat /\ NumMod > 2
  /\ QpI # {} /\ QpI \subseteq QpLow..QpTop
  /\ QpMin # {} /\ QpMin \subseteq QpLow..QpTop
  /\ QpMax # {} /\ QpMax \subseteq QpLow..QpTop
  /\ GopTop \in Nat /\ Gop # {} /\ Gop \subseteq 0..GopTop

VARIABLES
  gop, qpMin, qpMax, \* controls: ctx->gop, qp_min, qp_max
  forceIdr,          \* ctx->force_idr
  streaming,         \* both queues stream, with the hardware set up
  curQp,             \* ctx->cur_qp
  sinceIdr,          \* ctx->since_idr, up to the largest value it is
                     \* compared with
  hdrQp,             \* hc_hdr_qp, 0 before the first headers
  qpFloor,           \* hc_qp_floor
  frameNum,          \* wq->pic.frame_number modulo NumMod
  pc,                \* where hc_work is
  idr, q, retries,   \* its locals
  hangs,             \* history: timeouts of this picture at this QP
  pps,               \* the decoder: QP of the last PPS it was given, 0 if none
  decNum,            \* frame_num of the picture it decoded last
  inSync,            \* its reference picture is the encoder's
  shown,             \* how the last picture came out
  lost,              \* history: an IDR failed, or a finished picture was
                     \* dropped, since the last delivered IDR
  asked              \* history: what has become of the last key frame request
                     \* ("late": it came between the read and the clear,
                     \* "taken": hc_work is at it, "wiped": by the clear)

ctlVars == <<gop, qpMin, qpMax>>
encVars == <<hdrQp, qpFloor, frameNum>>
jobVars == <<idr, q, retries, hangs>>
decVars == <<pps, decNum, inSync, shown>>
vars    == <<ctlVars, forceIdr, streaming, curQp, sinceIdr, encVars, pc,
             jobVars, decVars, lost, asked>>

Qp == 0..QpTop
Lower(x, y)  == IF x <= y THEN x ELSE y
Higher(x, y) == IF x <= y THEN y ELSE x
Clamp(x, lo, hi) == Lower(Higher(x, lo), hi)

SinceCap == Higher(GopTop, IdrGap)

TypeOK ==
  /\ gop \in Gop /\ qpMin \in QpMin /\ qpMax \in QpMax
  /\ forceIdr \in BOOLEAN /\ streaming \in BOOLEAN
  /\ curQp \in Qp
  /\ sinceIdr \in 0..SinceCap
  /\ hdrQp \in Qp /\ qpFloor \in Qp /\ frameNum \in 0..(NumMod - 1)
  /\ pc \in {"idle", "read", "cleared", "attempt", "frame", "encoded", "failed"}
  /\ idr \in BOOLEAN /\ q \in Qp /\ retries \in 0..Tries /\ hangs \in 0..Tries
  /\ pps \in Qp /\ decNum \in 0..(NumMod - 1) /\ inSync \in BOOLEAN
  /\ shown \in {"none", "right", "wrongQp", "wrongRef"}
  /\ lost \in BOOLEAN
  /\ asked \in {"no", "open", "late", "taken", "wiped"}

Init ==
  /\ gop \in Gop /\ qpMin \in QpMin /\ qpMax \in QpMax
  /\ forceIdr = FALSE /\ streaming = FALSE
  /\ curQp = 0 /\ sinceIdr = 0
  /\ hdrQp = 0 /\ qpFloor = 0 /\ frameNum = 0
  /\ pc = "idle" /\ idr = FALSE /\ q = 0 /\ retries = 0 /\ hangs = 0
  /\ pps = 0 /\ decNum = 0 /\ inSync = FALSE /\ shown = "none"
  /\ lost = FALSE /\ asked = "no"

-----------------------------------------------------------------------------
(* STREAMON, STREAMOFF and the controls                                     *)

(* hc_hw_setup, which forgets the QP floor and restarts the counters and    *)
(* sends SPS/PPS, then the end of hc_start_streaming.                       *)
StreamOn ==
  /\ ~streaming
  /\ qpFloor' = 0
  /\ frameNum' = 0
  /\ \E i \in QpI : curQp' = Clamp(i, qpMin, qpMax)
  /\ hdrQp' = curQp'
  /\ sinceIdr' = 0
  /\ forceIdr' = TRUE
  /\ streaming' = TRUE
  /\ inSync' = FALSE
  /\ shown' = "none"
  /\ lost' = FALSE
  /\ UNCHANGED <<ctlVars, pc, jobVars, pps, decNum, asked>>

(* hc_hw_setup fails after hc_wq_init: before or after the choice of QP. *)
StreamOnFails ==
  /\ ~streaming
  /\ qpFloor' = 0
  /\ frameNum' = 0
  /\ \/ UNCHANGED curQp
     \/ \E i \in QpI : curQp' = Clamp(i, qpMin, qpMax)
  /\ UNCHANGED <<ctlVars, forceIdr, streaming, sinceIdr, hdrQp, pc, jobVars,
                 decVars, lost, asked>>

(* hc_stop_streaming of either queue waits for the job. *)
StreamOff ==
  /\ streaming
  /\ pc = "idle"
  /\ streaming' = FALSE
  /\ UNCHANGED <<ctlVars, forceIdr, curQp, sinceIdr, encVars, pc, jobVars,
                 decVars, lost, asked>>

SetControl ==
  /\ \/ gop' \in Gop /\ UNCHANGED <<qpMin, qpMax>>
     \/ qpMin' \in QpMin /\ UNCHANGED <<gop, qpMax>>
     \/ qpMax' \in QpMax /\ UNCHANGED <<gop, qpMin>>
  /\ UNCHANGED <<forceIdr, streaming, curQp, sinceIdr, encVars, pc, jobVars,
                 decVars, lost, asked>>

(* FORCE_KEY_FRAME, which may arrive between hc_work's read and clear of    *)
(* force_idr.                                                               *)
ForceKeyFrame ==
  /\ forceIdr' = TRUE
  /\ asked' = IF pc = "read" THEN "late" ELSE "open"
  /\ UNCHANGED <<ctlVars, streaming, curQp, sinceIdr, encVars, pc, jobVars,
                 decVars, lost>>

-----------------------------------------------------------------------------
(* hc_work                                                                  *)

(* mutants: only the GOP makes an IDR; a forced key frame is overlooked. *)
WantsIdrByGop    == gop # 0 /\ sinceIdr >= gop
WantsIdrUnforced == sinceIdr = 0 \/ (gop # 0 /\ sinceIdr >= gop)

(* Is this picture an IDR? *)
WantsIdr == forceIdr \/ sinceIdr = 0 \/ (gop # 0 /\ sinceIdr >= gop)

WorkRead ==
  /\ pc = "idle"
  /\ streaming
  /\ idr' = WantsIdr
  /\ pc' = "read"
  /\ asked' = IF asked = "open" THEN "taken" ELSE asked
  /\ UNCHANGED <<ctlVars, forceIdr, streaming, curQp, sinceIdr, encVars, q,
                 retries, hangs, decVars, lost>>

(* Wipes out a request that came after the read: an IDR in hand answers it, *)
(* a P picture does not.                                                    *)
WorkClear ==
  /\ pc = "read"
  /\ forceIdr' = FALSE
  /\ pc' = "cleared"
  /\ asked' = IF asked # "late" THEN asked ELSE IF idr THEN "taken" ELSE "wiped"
  /\ UNCHANGED <<ctlVars, streaming, curQp, sinceIdr, encVars, jobVars,
                 decVars, lost>>

(* A CAPTURE buffer without a kernel mapping (DMABUF) fails with -EFAULT. *)
NoMapping ==
  /\ pc = "cleared"
  /\ pc' = "failed"
  /\ UNCHANGED <<ctlVars, forceIdr, streaming, curQp, sinceIdr, encVars,
                 jobVars, decVars, lost, asked>>

(* mutant: the floor only forces an IDR. *)
AboveFloorNot(x) == x

AboveFloor(x) == Higher(x, qpFloor)

(* The QP only changes on an IDR: one is inserted when the rate control has *)
(* drifted far enough and long enough, or to get above the floor.           *)
Drifted(cur) ==
  /\ sinceIdr >= IdrGap
  /\ cur - hdrQp >= QpDrift \/ hdrQp - cur >= QpDrift

ChooseQp ==
  /\ pc = "cleared"
  /\ curQp' = Clamp(curQp, qpMin, qpMax)
  /\ LET key  == idr \/ Drifted(curQp')
         want == IF key THEN curQp' ELSE hdrQp
     IN  /\ q' = AboveFloor(want)
         /\ idr' = (key \/ want < qpFloor)
  /\ pc' = "attempt"
  /\ UNCHANGED <<ctlVars, forceIdr, streaming, sinceIdr, encVars, retries,
                 hangs, decVars, lost, asked>>

(* mutant: headers are sent once per stream. *)
NeedsHeadersOnce == idr /\ hdrQp = 0

(* The top of the retry loop: an IDR at a new QP needs new headers first. *)
NeedsHeaders == idr /\ q # hdrQp

SendHeaders ==
  /\ pc = "attempt"
  /\ hdrQp' = IF NeedsHeaders THEN q ELSE hdrQp
  /\ pc' = "frame"
  /\ UNCHANGED <<ctlVars, forceIdr, streaming, curQp, sinceIdr, qpFloor,
                 frameNum, jobVars, decVars, lost, asked>>

HeadersFail ==
  /\ pc = "attempt"
  /\ NeedsHeaders
  /\ pc' = "failed"
  /\ UNCHANGED <<ctlVars, forceIdr, streaming, curQp, sinceIdr, encVars,
                 jobVars, decVars, lost, asked>>

(* hc_frame succeeds: the counters move on and the reconstructed picture    *)
(* becomes the reference.                                                   *)
FrameDone ==
  /\ pc = "frame"
  /\ frameNum' = IF idr THEN 1 ELSE (frameNum + 1) % NumMod
  /\ pc' = "encoded"
  /\ UNCHANGED <<ctlVars, forceIdr, streaming, curQp, sinceIdr, hdrQp, qpFloor,
                 jobVars, decVars, lost, asked>>

(* hc_frame fails: an ENCODER_ERROR, a bad input, or the last timeout. *)
FrameFails ==
  /\ pc = "frame"
  /\ pc' = "failed"
  /\ UNCHANGED <<ctlVars, forceIdr, streaming, curQp, sinceIdr, encVars,
                 jobVars, decVars, lost, asked>>

(* hc_frame times out and the same attempt is made again. *)
TimeoutRetry ==
  /\ pc = "frame"
  /\ q < QpTop
  /\ retries + 1 < Tries
  /\ retries' = retries + 1
  /\ hangs' = hangs + 1
  /\ pc' = "attempt"
  /\ UNCHANGED <<ctlVars, forceIdr, streaming, curQp, sinceIdr, encVars, idr,
                 q, decVars, lost, asked>>

(* mutant: the step is forgotten. *)
RaisedNot(x) == Lower(x, QpTop)

Raised(x) == Lower(x + QpStep, QpTop)

(* hc_frame times out: a higher QP, for good, and the picture becomes IDR.  *)
(* retries is not reset, so at the new QP one timeout is enough.            *)
TimeoutRaise ==
  /\ pc = "frame"
  /\ q < QpTop
  /\ retries + 1 >= Tries
  /\ retries' = Tries
  /\ hangs' = 0
  /\ q' = Raised(q)
  /\ qpFloor' = q'
  /\ idr' = TRUE
  /\ pc' = "attempt"
  /\ UNCHANGED <<ctlVars, forceIdr, streaming, curQp, sinceIdr, hdrQp,
                 frameNum, decVars, lost, asked>>

(* mutant: hc_rate does not stop at the limits. *)
RateUnlimited ==
  \/ UNCHANGED curQp
  \/ ~idr /\ curQp' \in {curQp + 1, curQp - 1}

(* hc_rate: only P pictures steer, by one step, within the limits. *)
Rate ==
  \/ UNCHANGED curQp
  \/ ~idr /\ curQp < qpMax /\ curQp' = curQp + 1
  \/ ~idr /\ curQp > qpMin /\ curQp' = curQp - 1

(* hc_work ends, and its locals with it. *)
JobOver ==
  /\ pc' = "idle"
  /\ idr' = FALSE
  /\ q' = 0
  /\ retries' = 0
  /\ hangs' = 0

(* The decoder is given the picture, an IDR behind its SPS/PPS. *)
Decode ==
  /\ pps' = IF idr THEN hdrQp ELSE pps
  /\ decNum' = (frameNum - 1) % NumMod
  /\ inSync' = (idr \/ inSync)
  /\ shown' = IF pps' # q THEN "wrongQp"
              ELSE IF idr \/ (inSync /\ decNum' = (decNum + 1) % NumMod)
              THEN "right" ELSE "wrongRef"

(* An IDR uses up the request it was made for, even if it fails; delivered, *)
(* it also makes up for one that was wiped out.                             *)
AskedUsedUp(over) == asked' = IF idr /\ asked \in over THEN "no" ELSE asked

Deliver ==
  /\ pc = "encoded"
  /\ sinceIdr' = IF idr THEN 1 ELSE Lower(sinceIdr + 1, SinceCap)
  /\ Rate
  /\ Decode
  /\ lost' = (lost /\ ~idr)
  /\ AskedUsedUp({"taken", "wiped"})
  /\ JobOver
  /\ UNCHANGED <<ctlVars, forceIdr, streaming, encVars>>

(* The picture does not fit its CAPTURE buffer: -ENOSPC, and the decoder    *)
(* never sees what is now the encoder's reference.                          *)
NoSpace ==
  /\ pc = "encoded"
  /\ inSync' = FALSE
  /\ lost' = TRUE
  /\ AskedUsedUp({"taken"})
  /\ JobOver
  /\ UNCHANGED <<ctlVars, forceIdr, streaming, curQp, sinceIdr, encVars,
                 pps, decNum, shown>>

(* done: with an error, an empty buffer.  since_idr stays as it was. *)
Fail ==
  /\ pc = "failed"
  /\ lost' = (lost \/ idr)
  /\ AskedUsedUp({"taken"})
  /\ JobOver
  /\ UNCHANGED <<ctlVars, forceIdr, streaming, curQp, sinceIdr, encVars,
                 decVars>>

-----------------------------------------------------------------------------
WorkStep ==
  \/ WorkClear \/ NoMapping \/ ChooseQp
  \/ SendHeaders \/ HeadersFail
  \/ FrameDone \/ FrameFails \/ TimeoutRetry \/ TimeoutRaise
  \/ Deliver \/ NoSpace \/ Fail

Next ==
  \/ StreamOn \/ StreamOnFails \/ StreamOff
  \/ SetControl \/ ForceKeyFrame
  \/ WorkRead \/ WorkStep

(* The workqueue runs hc_work to its end once it has begun. *)
Spec == Init /\ [][Next]_vars /\ WF_vars(WorkStep)

-----------------------------------------------------------------------------
(* Properties                                                               *)

(* The quantiser only ever runs at the QP of the cached headers: the ucode  *)
(* writes slice_qp_delta 0, so any other QP would be dequantised wrongly.   *)
(* Through drift, floor, retries, restarts and control changes alike.       *)
QuantIsHeaderQp == pc \in {"frame", "encoded"} => q = hdrQp

(* A QP the ucode has been given up on (Tries timeouts, or one at a raised  *)
(* QP) is not tried again, by any later picture either, until the hardware  *)
(* is set up anew.                                                          *)
FloorHolds == pc \in {"attempt", "frame"} => q >= qpFloor

(* A decoder shows every picture it is given right, from the first one      *)
(* after STREAMON on, unless an IDR failed or an encoded picture was        *)
(* dropped: a P picture that fails in the encoder costs only itself, and    *)
(* the next IDR repairs everything.                                         *)
OnlyLossGarbles == shown \in {"wrongQp", "wrongRef"} => lost

(* A key frame that was asked for stays due, across failures of P pictures  *)
(* and restarts of the stream, until hc_work takes it up, and the picture   *)
(* that takes it up is an IDR to its end.  That leaves the two ways in      *)
(* which the code does lose a request: one that comes between the read and  *)
(* the clear of force_idr is wiped out with a P picture, and one whose IDR  *)
(* fails or does not fit is not repeated.                                   *)
KeyFrameStaysDue ==
  /\ asked \in {"open", "late"} => forceIdr
  /\ asked = "taken" => pc # "idle" /\ idr

(* hc_work comes to an end however the ucode hangs: STREAMOFF and close     *)
(* wait for it with hc_lock held.                                           *)
WorkEnds == pc # "idle" ~> pc = "idle"

(* "slice QP only follows the PPS": a picture that comes out wrong is never *)
(* due to a PPS the decoder was not given.                                  *)
SliceQpFollowsPps == shown # "wrongQp"

(* "Retry 3 times before raising the QP floor for good: an occasional slow  *)
(* picture must not affect all later ones."                                 *)
FloorRisesAfterTries == [][qpFloor' > qpFloor => hangs + 1 >= Tries]_vars
=============================================================================

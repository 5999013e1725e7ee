-------------------------- MODULE HcodecM2M_proofs --------------------------
(***************************************************************************)
(* Proofs about module HcodecM2M, for any number of handles, buffers and   *)
(* geometries: type correctness, the safety of the encoder lease, that the *)
(* driver implements module EncoderLease, and that a drain yields one LAST *)
(* and a quiet stream.                                                     *)
(***************************************************************************)
EXTENDS HcodecM2M, Integers, TLAPS

(* hc_lock and the cancelled job: while an ioctl of c sleeps with the lock, *)
(* no job of c is scheduled.                                                *)
LockInv ==
  /\ lock.op = "free" => lock = Free
  /\ lock.op # "free" =>
       /\ lock.ctx \in Ctx
       /\ lock.ctx \notin queued
       /\ fileState[lock.ctx] # "closed"

(* A streaming queue belongs to an open handle and has buffers. *)
StreamInv ==
  \A x \in streaming : bufSize[x] # 0 /\ fileState[x[1]] # "closed"

(* Streaming both queues takes the lease and working hardware. *)
LeaseInv == \A c \in Ctx : Streams(c) => streamer = c /\ c \in hwReady

(* hw_ready means what its name says, and only of the lease holder. *)
ReadyInv ==
  \A c \in hwReady :
    /\ streamer = c
    /\ hw = [ctx |-> c, geom |-> geom[c], running |-> TRUE]

(* A job waits or runs only for a context that streams and has buffers. *)
HasBuffers(c) ==
  /\ Streams(c)
  /\ queue[<<c, "out">>] # << >>
  /\ queue[<<c, "cap">>] # << >>

JobInv ==
  /\ \A c \in Ctx : c \in queued \/ curr = c => HasBuffers(c)
  /\ curr \notin queued
  /\ pc = "idle" <=> curr = NoCtx

(* next_buf_last stands for a drain that waits for a CAPTURE buffer: the    *)
(* driver has none, since it would have been flagged.                       *)
WaitInv ==
  \A c \in nextLast :
    /\ c \in draining
    /\ <<c, "cap">> \in streaming => queue[<<c, "cap">>] = << >>

IInv ==
  /\ TypeOK
  /\ LockInv
  /\ StreamInv
  /\ LeaseInv
  /\ ReadyInv
  /\ JobInv
  /\ LeaseNotLeaked
  /\ WaitInv
  /\ StoppedIsQuiet
  /\ LastExactlyOnce

(* The initial states satisfy the inductive invariant. *)
LEMMA InitInv == Init => IInv
<1> SUFFICES ASSUME Init PROVE IInv
  OBVIOUS
<1> USE ConstantsOK DEF Init
<1>1. TypeOK
  BY DEF TypeOK, FilesOK, DrainsOK, EncoderOK, JobsOK, Queue, Free
<1>2. LockInv /\ StreamInv
  BY DEF LockInv, StreamInv, Free
<1>3. LeaseInv /\ ReadyInv /\ LeaseNotLeaked
  BY DEF LeaseInv, ReadyInv, LeaseNotLeaked, Streams
<1>4. JobInv
  BY DEF JobInv
<1>5. WaitInv /\ StoppedIsQuiet /\ LastExactlyOnce
  BY DEF WaitInv, StoppedIsQuiet, LastExactlyOnce
<1>6. QED
  BY <1>1, <1>2, <1>3, <1>4, <1>5 DEF IInv

-----------------------------------------------------------------------------
(* Types                                                                    *)

(* Want is a natural number, and positive. *)
LEMMA WantType == \A q \in Queue, g \in Geom : Want(q, g) \in Nat \ {0}
  BY ConstantsOK DEF Want, Queue

LEMMA QueueNames == "out" \in Queue /\ "cap" \in Queue
  BY DEF Queue

LEMMA EmptyType == << >> \in Seq(Buf)
  OBVIOUS

LEMMA AppendNonEmpty ==
  ASSUME NEW s \in Seq(Buf), NEW b \in Buf
  PROVE  Append(s, b) # << >>
<1>1. Len(Append(s, b)) = Len(s) + 1 /\ Len(s) \in Nat
  OBVIOUS
<1>2. Append(s, b) = << >> => Len(Append(s, b)) = 0
  OBVIOUS
<1>3. QED
  BY <1>1, <1>2

(* The tail of a queue that has a buffer. *)
LEMMA RestType ==
  ASSUME FilesOK, NEW c \in Ctx, NEW q \in Queue, queue[<<c, q>>] # << >>
  PROVE  Rest(c, q) \in Seq(Buf)
  BY DEF FilesOK, Rest

(* Replacing the contents of one queue of a handle, or of both. *)
LEMMA SetQueue ==
  ASSUME FilesOK, NEW c \in Ctx, NEW q \in Queue, NEW s \in Seq(Buf)
  PROVE  [queue EXCEPT ![<<c, q>>] = s] \in [Ctx \X Queue -> Seq(Buf)]
  BY DEF FilesOK

LEMMA SetQueues ==
  ASSUME FilesOK, NEW c \in Ctx, NEW s \in Seq(Buf), NEW t \in Seq(Buf)
  PROVE  [queue EXCEPT ![<<c, "out">>] = s, ![<<c, "cap">>] = t]
           \in [Ctx \X Queue -> Seq(Buf)]
  BY QueueNames DEF FilesOK

(* Handing the queued buffers over at STREAMON. *)
LEMMA GiveType ==
  ASSUME FilesOK, NEW c \in Ctx, NEW q \in Queue, GiveBuffers(c, q)
  PROVE  queue' \in [Ctx \X Queue -> Seq(Buf)]
<1>1. CASE /\ queue[<<c, q>>] # << >>
           /\ queue' = [queue EXCEPT ![<<c, q>>] = Rest(c, q)]
  BY <1>1, RestType, SetQueue
<1>2. CASE queue' = queue
  BY <1>2 DEF FilesOK
<1>3. QED
  BY <1>1, <1>2 DEF GiveBuffers

(* Every step keeps the types of the file handles and their queues. *)
LEMMA FilesStep ==
  ASSUME IInv, Next
  PROVE  FilesOK'
<1> USE ConstantsOK, QueueNames DEF IInv, TypeOK, FilesOK, ctxVars
<1>u. CASE UNCHANGED ctxVars
  BY <1>u
<1>1. ASSUME NEW c \in Ctx, FileStep(c) PROVE FilesOK'
  <2>1. CASE Open(c)
    BY <2>1 DEF Open
  <2>2. CASE ReleaseBegin(c)
    BY <2>2 DEF ReleaseBegin
  <2>3. CASE ReleaseFinish(c)
    <3>1. queue' \in [Ctx \X Queue -> Seq(Buf)]
      BY <2>3, EmptyType, SetQueues DEF ReleaseFinish
    <3>2. bufSize' \in [Ctx \X Queue -> Nat]
      BY <2>3 DEF ReleaseFinish
    <3>3. QED
      BY <2>3, <3>1, <3>2 DEF ReleaseFinish
  <2>4. CASE EncStopEmpty(c)
    <3>1. queue' \in [Ctx \X Queue -> Seq(Buf)]
      <4>1. CASE queue' = queue
        BY <4>1
      <4>2. CASE /\ queue[<<c, "cap">>] # << >>
                 /\ queue' = [queue EXCEPT ![<<c, "cap">>] = Rest(c, "cap")]
        BY <4>2, RestType, SetQueue
      <4>3. QED
        BY <2>4, <4>1, <4>2 DEF EncStopEmpty, Ready
    <3>2. bufSize' \in [Ctx \X Queue -> Nat]
      BY <2>4 DEF EncStopEmpty, Ready
    <3>3. QED
      BY <2>4, <3>1, <3>2 DEF EncStopEmpty, Ready
  <2>5. CASE EncStopPending(c) \/ EncStart(c)
    BY <2>5 DEF EncStopPending, EncStart
  <2>6. QED
    BY <1>1, <2>1, <2>2, <2>3, <2>4, <2>5 DEF FileStep
<1>2. ASSUME NEW c \in Ctx, NEW q \in Queue, QueueStep(c, q) PROVE FilesOK'
  <2>1. ASSUME NEW g \in Geom, SetFormat(c, q, g) PROVE FilesOK'
    BY <2>1 DEF SetFormat
  <2>2. CASE RequestBuffers(c, q)
    <3>1. queue' \in [Ctx \X Queue -> Seq(Buf)]
      BY <2>2 DEF RequestBuffers
    <3>2. bufSize' \in [Ctx \X Queue -> Nat]
      <4>1. PICK size \in {0, Want(q, geom[c])} :
                   bufSize' = [bufSize EXCEPT ![<<c, q>>] = size]
        BY <2>2 DEF RequestBuffers
      <4>2. size \in Nat
        BY <4>1, WantType
      <4>3. QED
        BY <4>1, <4>2
    <3>3. QED
      BY <2>2, <3>1, <3>2 DEF RequestBuffers
  <2>3. ASSUME NEW b \in Buf, QueueBuffer(c, q, b) PROVE FilesOK'
    <3>1. queue' \in [Ctx \X Queue -> Seq(Buf)]
      BY <2>3 DEF QueueBuffer
    <3>2. bufSize' \in [Ctx \X Queue -> Nat]
      BY <2>3 DEF QueueBuffer
    <3>3. QED
      BY <2>3, <3>1, <3>2 DEF QueueBuffer
  <2>4. CASE StreamOnBusy(c, q)
    <3>1. queue' \in [Ctx \X Queue -> Seq(Buf)]
      BY <2>4, GiveType DEF StreamOnBusy
    <3>2. bufSize' \in [Ctx \X Queue -> Nat]
      BY <2>4 DEF StreamOnBusy
    <3>3. QED
      BY <2>4, <3>1, <3>2 DEF StreamOnBusy
  <2>5. CASE StreamOnFails(c, q)
    <3>1. queue' \in [Ctx \X Queue -> Seq(Buf)]
      BY <2>5, GiveType DEF StreamOnFails
    <3>2. bufSize' \in [Ctx \X Queue -> Nat]
      BY <2>5 DEF StreamOnFails
    <3>3. QED
      BY <2>5, <3>1, <3>2 DEF StreamOnFails
  <2>6. CASE StreamOn(c, q)
    <3>1. queue' \in [Ctx \X Queue -> Seq(Buf)]
      BY <2>6, GiveType DEF StreamOn
    <3>2. bufSize' \in [Ctx \X Queue -> Nat]
      BY <2>6 DEF StreamOn
    <3>3. QED
      BY <2>6, <3>1, <3>2 DEF StreamOn
  <2>7. CASE StreamOffBegin(c, q)
    BY <2>7 DEF StreamOffBegin
  <2>8. CASE StreamOffFinish(c, q)
    <3>1. queue' \in [Ctx \X Queue -> Seq(Buf)]
      <4>1. CASE queue' = [queue EXCEPT ![<<c, q>>] = << >>]
        BY <4>1, SetQueue
      <4>2. CASE /\ queue[<<c, "cap">>] # << >>
                 /\ queue' = [queue EXCEPT ![<<c, "out">>] = << >>,
                                           ![<<c, "cap">>] = Rest(c, "cap")]
        BY <4>2, RestType, EmptyType, SetQueues
      <4>3. QED
        <5>1. CASE <<c, q>> \notin streaming
          BY <2>8, <4>1, <5>1 DEF StreamOffFinish
        <5>2. CASE <<c, q>> \in streaming
          BY <2>8, <4>1, <4>2, <5>2 DEF StreamOffFinish, StopDrain, Ready, Queue
        <5>3. QED
          BY <5>1, <5>2
    <3>2. bufSize' \in [Ctx \X Queue -> Nat]
      BY <2>8 DEF StreamOffFinish, StopDrain, Ready
    <3>3. QED
      BY <2>8, <3>1, <3>2 DEF StreamOffFinish, StopDrain, Ready
  <2>9. QED
    BY <1>2, <2>1, <2>2, <2>3, <2>4, <2>5, <2>6, <2>7, <2>8 DEF QueueStep
<1>3. ASSUME NEW c \in Ctx, NEW b \in Buf, QueueLastBuffer(c, b)
      PROVE  FilesOK'
  BY <1>3 DEF QueueLastBuffer
<1>4. ASSUME NEW c \in Ctx, JobStep(c) PROVE FilesOK'
  <2>1. CASE WorkFinish(c)
    <3>1. Rest(c, "out") \in Seq(Buf) /\ Rest(c, "cap") \in Seq(Buf)
      BY <2>1, RestType DEF WorkFinish, JobInv, HasBuffers
    <3>2. queue' \in [Ctx \X Queue -> Seq(Buf)]
      BY <2>1, <3>1, SetQueues DEF WorkFinish
    <3>3. QED
      BY <2>1, <3>2 DEF WorkFinish
  <2>2. CASE RunJob(c) \/ WorkBegin(c) \/ WorkTail(c)
    BY <2>2 DEF RunJob, WorkBegin, WorkTail
  <2>3. QED
    BY <1>4, <2>1, <2>2 DEF JobStep
<1>5. QED
  BY <1>1, <1>2, <1>3, <1>4 DEF Next

(* Marking LAST, and what STREAMON may make of a pending drain. *)
LEMMA MarkLastType ==
  ASSUME DrainsOK, NEW c \in Ctx, MarkLast(c)
  PROVE  /\ draining' \subseteq Ctx
         /\ nextLast' \subseteq Ctx
         /\ stopped' \subseteq Ctx
         /\ lastCount' \in [Ctx -> Nat]
  BY DEF DrainsOK, MarkLast

LEMMA GiveDrainType ==
  ASSUME DrainsOK, NEW c \in Ctx, NEW q \in Queue, GiveBuffers(c, q)
  PROVE  /\ draining' \subseteq Ctx
         /\ nextLast' \subseteq Ctx
         /\ stopped' \subseteq Ctx
         /\ lastCount' \in [Ctx -> Nat]
<1>1. CASE MarkLast(c)
  BY <1>1, MarkLastType
<1>2. CASE UNCHANGED <<draining, nextLast, stopped, lastCount>>
  BY <1>2 DEF DrainsOK
<1>3. QED
  BY <1>1, <1>2 DEF GiveBuffers

(* Every step keeps the types of the drain state and the frame numbers. *)
LEMMA DrainsStep ==
  ASSUME IInv, Next
  PROVE  DrainsOK'
<1> USE ConstantsOK, QueueNames DEF IInv, TypeOK, DrainsOK, drainVars
<1>1. ASSUME NEW c \in Ctx, FileStep(c) PROVE DrainsOK'
  <2>1. CASE Open(c) \/ ReleaseBegin(c) \/ EncStart(c)
    BY <2>1 DEF Open, ReleaseBegin, EncStart
  <2>2. CASE ReleaseFinish(c)
    BY <2>2 DEF ReleaseFinish
  <2>3. CASE EncStopPending(c)
    <3>1. queue[<<c, "out">>][Len(queue[<<c, "out">>])] \in Buf
      BY <2>3 DEF EncStopPending, Ready, FilesOK
    <3>2. QED
      BY <2>3, <3>1 DEF EncStopPending
  <2>4. CASE EncStopEmpty(c)
    <3>1. CASE Ready(c, "cap") = << >>
      BY <2>4, <3>1 DEF EncStopEmpty
    <3>2. CASE Ready(c, "cap") # << >>
      <4>1. lastSrc' \in [Ctx -> Buf \cup {NoBuf}]
        BY <2>4 DEF EncStopEmpty
      <4>2. lastCount' \in [Ctx -> Nat]
        <5>1. lastCount' = [lastCount EXCEPT ![c] = 1]
          BY <2>4, <3>2 DEF EncStopEmpty
        <5>2. QED
          BY <5>1
      <4>3. /\ draining' \subseteq Ctx /\ nextLast' \subseteq Ctx
            /\ stopped' \subseteq Ctx /\ seqno' = seqno
        BY <2>4, <3>2 DEF EncStopEmpty
      <4>4. QED
        BY <4>1, <4>2, <4>3
    <3>3. QED
      BY <3>1, <3>2
  <2>5. QED
    BY <1>1, <2>1, <2>2, <2>3, <2>4 DEF FileStep
<1>2. ASSUME NEW c \in Ctx, NEW q \in Queue, QueueStep(c, q) PROVE DrainsOK'
  <2>1. ASSUME NEW g \in Geom, SetFormat(c, q, g) PROVE DrainsOK'
    BY <2>1 DEF SetFormat
  <2>2. ASSUME NEW b \in Buf, QueueBuffer(c, q, b) PROVE DrainsOK'
    BY <2>2 DEF QueueBuffer
  <2>3. CASE RequestBuffers(c, q) \/ StreamOffBegin(c, q)
    BY <2>3 DEF RequestBuffers, StreamOffBegin
  <2>4. CASE StreamOnBusy(c, q)
    BY <2>4, GiveDrainType DEF StreamOnBusy
  <2>5. CASE StreamOnFails(c, q)
    BY <2>5, GiveDrainType DEF StreamOnFails
  <2>6. CASE StreamOn(c, q)
    <3>1. lastSrc' \in [Ctx -> Buf \cup {NoBuf}] /\ seqno' \in [Ctx -> 0..MaxSeq]
      BY <2>6 DEF StreamOn, NewSequence
    <3>2. QED
      BY <2>6, <3>1, GiveDrainType DEF StreamOn
  <2>7. CASE StreamOffFinish(c, q)
    <3>1. /\ draining' \subseteq Ctx
          /\ nextLast' \subseteq Ctx
          /\ stopped' \subseteq Ctx
          /\ lastCount' \in [Ctx -> Nat]
      <4>1. CASE MarkLast(c)
        BY <4>1, MarkLastType
      <4>2. CASE ~MarkLast(c)
        BY <2>7, <4>2 DEF StreamOffFinish, StopDrain
      <4>3. QED
        BY <4>1, <4>2
    <3>2. lastSrc' \in [Ctx -> Buf \cup {NoBuf}]
      BY <2>7 DEF StreamOffFinish, StopDrain
    <3>3. QED
      BY <2>7, <3>1, <3>2 DEF StreamOffFinish
  <2>8. QED
    BY <1>2, <2>1, <2>2, <2>3, <2>4, <2>5, <2>6, <2>7 DEF QueueStep
<1>3. ASSUME NEW c \in Ctx, NEW b \in Buf, QueueLastBuffer(c, b)
      PROVE  DrainsOK'
  BY <1>3 DEF QueueLastBuffer, MarkLast
<1>4. ASSUME NEW c \in Ctx, JobStep(c) PROVE DrainsOK'
  <2>1. CASE WorkTail(c)
    BY <2>1 DEF WorkTail, MarkLast
  <2>2. CASE RunJob(c) \/ WorkBegin(c) \/ WorkFinish(c)
    BY <2>2 DEF RunJob, WorkBegin, WorkFinish
  <2>3. QED
    BY <1>4, <2>1, <2>2 DEF JobStep
<1>5. QED
  BY <1>1, <1>2, <1>3, <1>4 DEF Next

(* Every step keeps the types of the lease and the encoder. *)
LEMMA EncoderStep ==
  ASSUME IInv, Next
  PROVE  EncoderOK'
<1> USE ConstantsOK DEF IInv, TypeOK, EncoderOK, leaseVars
<1>1. ASSUME NEW c \in Ctx, FileStep(c) PROVE EncoderOK'
  BY <1>1 DEF FileStep, Open, ReleaseBegin, ReleaseFinish, DropLease,
              EncStopPending, EncStopEmpty, EncStart
<1>2. ASSUME NEW c \in Ctx, NEW q \in Queue, QueueStep(c, q) PROVE EncoderOK'
  <2>1. ASSUME NEW g \in Geom, SetFormat(c, q, g) PROVE EncoderOK'
    BY <2>1 DEF SetFormat
  <2>2. ASSUME NEW b \in Buf, QueueBuffer(c, q, b) PROVE EncoderOK'
    BY <2>2 DEF QueueBuffer
  <2>3. CASE RequestBuffers(c, q) \/ StreamOnBusy(c, q) \/ StreamOffBegin(c, q)
    BY <2>3 DEF RequestBuffers, StreamOnBusy, StreamOffBegin
  <2>4. CASE StreamOnFails(c, q)
    BY <2>4 DEF StreamOnFails, FilesOK
  <2>5. CASE StreamOn(c, q)
    BY <2>5 DEF StreamOn, HwSetup, FilesOK
  <2>6. CASE StreamOffFinish(c, q)
    BY <2>6 DEF StreamOffFinish, DropLease
  <2>7. QED
    BY <1>2, <2>1, <2>2, <2>3, <2>4, <2>5, <2>6 DEF QueueStep
<1>3. ASSUME NEW c \in Ctx, NEW b \in Buf, QueueLastBuffer(c, b)
      PROVE  EncoderOK'
  BY <1>3 DEF QueueLastBuffer
<1>4. ASSUME NEW c \in Ctx, JobStep(c) PROVE EncoderOK'
  BY <1>4 DEF JobStep, RunJob, WorkBegin, WorkTail, WorkFinish
<1>5. QED
  BY <1>1, <1>2, <1>3, <1>4 DEF Next

(* Every step keeps the types of the job state and hc_lock. *)
LEMMA JobsStep ==
  ASSUME IInv, Next
  PROVE  JobsOK'
<1> USE ConstantsOK, QueueNames DEF IInv, TypeOK, JobsOK, jobVars, Free
<1>1. ASSUME NEW c \in Ctx, FileStep(c) PROVE JobsOK'
  BY <1>1 DEF FileStep, Open, ReleaseBegin, ReleaseFinish,
              EncStopPending, EncStopEmpty, EncStart
<1>2. ASSUME NEW c \in Ctx, NEW q \in Queue, QueueStep(c, q) PROVE JobsOK'
  <2>1. ASSUME NEW g \in Geom, SetFormat(c, q, g) PROVE JobsOK'
    BY <2>1 DEF SetFormat
  <2>2. ASSUME NEW b \in Buf, QueueBuffer(c, q, b) PROVE JobsOK'
    BY <2>2 DEF QueueBuffer, TrySchedule
  <2>3. CASE RequestBuffers(c, q) \/ StreamOnBusy(c, q) \/ StreamOnFails(c, q)
    BY <2>3 DEF RequestBuffers, StreamOnBusy, StreamOnFails
  <2>4. CASE StreamOn(c, q)
    BY <2>4 DEF StreamOn, TrySchedule
  <2>5. CASE StreamOffBegin(c, q)
    BY <2>5 DEF StreamOffBegin
  <2>6. CASE StreamOffFinish(c, q)
    BY <2>6 DEF StreamOffFinish
  <2>7. QED
    BY <1>2, <2>1, <2>2, <2>3, <2>4, <2>5, <2>6 DEF QueueStep
<1>3. ASSUME NEW c \in Ctx, NEW b \in Buf, QueueLastBuffer(c, b)
      PROVE  JobsOK'
  BY <1>3 DEF QueueLastBuffer, TrySchedule
<1>4. ASSUME NEW c \in Ctx, JobStep(c) PROVE JobsOK'
  BY <1>4 DEF JobStep, RunJob, WorkBegin, WorkTail, WorkFinish, TrySchedule
<1>5. QED
  BY <1>1, <1>2, <1>3, <1>4 DEF Next

-----------------------------------------------------------------------------
(* The inductive invariant                                                  *)

(* Only the handle that sleeps in an ioctl holds hc_lock.                   *)
LEMMA LockStep ==
  ASSUME IInv, Next
  PROVE  LockInv'
<1> USE DEF IInv, TypeOK, FilesOK, JobsOK, LockInv, Free
<1>1. ASSUME NEW c \in Ctx, FileStep(c) PROVE LockInv'
  BY <1>1 DEF FileStep, Open, ReleaseBegin, ReleaseFinish, EncStopPending,
              EncStopEmpty, EncStart, StopCommand, Ioctl, jobVars, ctxVars
<1>2. ASSUME NEW c \in Ctx, NEW q \in Queue, QueueStep(c, q) PROVE LockInv'
  <2>1. CASE \/ StreamOnBusy(c, q) \/ StreamOnFails(c, q)
             \/ RequestBuffers(c, q) \/ \E g \in Geom : SetFormat(c, q, g)
    BY <2>1 DEF StreamOnBusy, StreamOnFails, RequestBuffers, SetFormat, jobVars
  <2>2. CASE StreamOn(c, q) \/ \E b \in Buf : QueueBuffer(c, q, b)
    BY <2>2 DEF StreamOn, StreamOnAllowed, QueueBuffer, Ioctl
  <2>3. CASE StreamOffBegin(c, q) \/ StreamOffFinish(c, q)
    BY <2>3 DEF StreamOffBegin, StreamOffFinish, Ioctl, ctxVars, jobVars
  <2>4. QED
    BY <1>2, <2>1, <2>2, <2>3 DEF QueueStep
<1>3. ASSUME NEW c \in Ctx, NEW b \in Buf, QueueLastBuffer(c, b)
      PROVE  LockInv'
  BY <1>3 DEF QueueLastBuffer, Ioctl
<1>4. ASSUME NEW c \in Ctx, JobStep(c) PROVE LockInv'
  BY <1>4 DEF JobStep, RunJob, WorkBegin, WorkTail, WorkFinish, TrySchedule,
              JobReady, ctxVars
<1>5. QED
  BY <1>1, <1>2, <1>3, <1>4 DEF Next

(* A queue streams only while its handle is open and its buffers exist.     *)
LEMMA StreamStep ==
  ASSUME IInv, Next
  PROVE  StreamInv'
<1> USE DEF IInv, TypeOK, FilesOK, StreamInv, ctxVars
<1>1. ASSUME NEW c \in Ctx, FileStep(c) PROVE StreamInv'
  <2>1. CASE ReleaseFinish(c)
    BY <2>1 DEF ReleaseFinish, Queue
  <2>2. CASE Open(c) \/ ReleaseBegin(c)
    BY <2>2 DEF Open, ReleaseBegin
  <2>3. CASE EncStopPending(c) \/ EncStopEmpty(c) \/ EncStart(c)
    BY <2>3 DEF EncStopPending, EncStopEmpty, EncStart
  <2>4. QED
    BY <1>1, <2>1, <2>2, <2>3 DEF FileStep
<1>2. ASSUME NEW c \in Ctx, NEW q \in Queue, QueueStep(c, q) PROVE StreamInv'
  <2>1. CASE RequestBuffers(c, q)
    BY <2>1 DEF RequestBuffers
  <2>2. CASE StreamOn(c, q)
    <3>1. /\ UNCHANGED <<bufSize, fileState>>
          /\ streaming' = streaming \cup {<<c, q>>}
          /\ bufSize[<<c, q>>] # 0 /\ fileState[<<c, q>>[1]] # "closed"
      BY <2>2 DEF StreamOn, StreamOnAllowed, Ioctl
    <3>2. QED
      BY <3>1
  <2>3. CASE StreamOffFinish(c, q)
    BY <2>3 DEF StreamOffFinish
  <2>4. CASE \/ StreamOnBusy(c, q) \/ StreamOnFails(c, q) \/ StreamOffBegin(c, q)
             \/ (\E g \in Geom : SetFormat(c, q, g))
             \/ (\E b \in Buf : QueueBuffer(c, q, b))
    BY <2>4 DEF StreamOnBusy, StreamOnFails, StreamOffBegin, SetFormat, QueueBuffer
  <2>5. QED
    BY <1>2, <2>1, <2>2, <2>3, <2>4 DEF QueueStep
<1>3. ASSUME NEW c \in Ctx, NEW b \in Buf, QueueLastBuffer(c, b)
      PROVE  StreamInv'
  BY <1>3 DEF QueueLastBuffer
<1>4. ASSUME NEW c \in Ctx, JobStep(c) PROVE StreamInv'
  BY <1>4 DEF JobStep, RunJob, WorkBegin, WorkTail, WorkFinish
<1>5. QED
  BY <1>1, <1>2, <1>3, <1>4 DEF Next

(* The lease, what it is held for and the hardware it comes with.           *)
LEMMA LeaseStep ==
  ASSUME IInv, Next
  PROVE  LeaseInv' /\ ReadyInv' /\ LeaseNotLeaked'
<1> DEFINE Goal == LeaseInv' /\ ReadyInv' /\ LeaseNotLeaked'
<1> USE ConstantsOK, QueueNames
        DEF IInv, TypeOK, FilesOK, EncoderOK, LeaseInv, ReadyInv,
            LeaseNotLeaked, Streams, ctxVars, leaseVars
<1>u. CASE UNCHANGED <<leaseVars, geom, streaming>>
  BY <1>u
<1>1. ASSUME NEW c \in Ctx, FileStep(c) PROVE Goal
  <2>1. CASE ReleaseFinish(c)
    <3>1. \A d \in Ctx \ {c}, q \in Queue :
            <<d, q>> \in streaming' <=> <<d, q>> \in streaming
      BY <2>1 DEF ReleaseFinish
    <3>2. /\ ~Streams(c)'
          /\ streamer' = IF streamer = c THEN NoCtx ELSE streamer
          /\ hwReady' = hwReady \ {c}
          /\ hw' = hw /\ \A d \in Ctx \ {c} : geom'[d] = geom[d]
      BY <2>1 DEF ReleaseFinish, DropLease
    <3>3. LeaseInv'
      BY <3>1, <3>2
    <3>4. LeaseNotLeaked'
      BY <3>1, <3>2
    <3>5. ReadyInv'
      BY <3>2
    <3>6. QED
      BY <3>3, <3>4, <3>5
  <2>2. CASE ~ReleaseFinish(c)
    BY <1>1, <2>2, <1>u DEF FileStep, Open, ReleaseBegin, EncStopPending,
                            EncStopEmpty, EncStart
  <2>3. QED
    BY <2>1, <2>2
<1>2. ASSUME NEW c \in Ctx, NEW q \in Queue, QueueStep(c, q) PROVE Goal
  <2>1. ASSUME NEW g \in Geom, SetFormat(c, q, g) PROVE Goal
    <3>1. <<c, q>> \notin streaming
      BY <2>1 DEF SetFormat, StreamInv
    <3>2. ~Streams(c)
      BY <3>1 DEF Queue
    <3>3. QED
      BY <2>1, <3>2 DEF SetFormat
  <2>2. CASE StreamOn(c, q)
    <3>1. hwReady \subseteq {c}
      BY <2>2 DEF StreamOn, GateOpen
    <3>2. LeaseInv'
      BY <2>2, <3>1 DEF StreamOn, HwSetup, GateOpen
    <3>3. ReadyInv'
      BY <2>2, <3>1 DEF StreamOn, HwSetup, GateOpen
    <3>4. LeaseNotLeaked'
      BY <2>2 DEF StreamOn
    <3>5. QED
      BY <3>2, <3>3, <3>4
  <2>3. CASE StreamOnFails(c, q)
    <3>1. hwReady = {}
      BY <2>3 DEF StreamOnFails, GateOpen
    <3>2. QED
      BY <2>3, <3>1 DEF StreamOnFails
  <2>4. CASE StreamOffFinish(c, q)
    <3>1. CASE <<c, q>> \in streaming
      <4>1. ~Streams(c)'
        BY <2>4, <3>1 DEF StreamOffFinish, Queue
      <4>2. \A d \in Ctx \ {c}, p \in Queue :
              <<d, p>> \in streaming' <=> <<d, p>> \in streaming
        BY <2>4, <3>1 DEF StreamOffFinish
      <4>3. /\ streamer' = IF streamer = c THEN NoCtx ELSE streamer
            /\ hwReady' = hwReady \ {c}
            /\ hw' = hw /\ geom' = geom
        BY <2>4, <3>1 DEF StreamOffFinish, DropLease
      <4>4. LeaseInv'
        BY <4>1, <4>2, <4>3
      <4>5. LeaseNotLeaked'
        <5>1. SUFFICES ASSUME NEW d \in Ctx, streamer' = d
                       PROVE  \E p \in Queue : <<d, p>> \in streaming'
          OBVIOUS
        <5>2. d # c /\ streamer = d
          BY <4>3, <5>1
        <5>3. QED
          BY <4>2, <5>2
      <4>6. ReadyInv'
        BY <4>3
      <4>7. QED
        BY <4>4, <4>5, <4>6
    <3>2. CASE <<c, q>> \notin streaming
      BY <2>4, <3>2, <1>u DEF StreamOffFinish
    <3>3. QED
      BY <3>1, <3>2
  <2>5. CASE \/ StreamOnBusy(c, q) \/ StreamOffBegin(c, q) \/ RequestBuffers(c, q)
             \/ (\E b \in Buf : QueueBuffer(c, q, b))
    BY <2>5, <1>u DEF StreamOnBusy, StreamOffBegin, RequestBuffers, QueueBuffer
  <2>6. QED
    BY <1>2, <2>1, <2>2, <2>3, <2>4, <2>5 DEF QueueStep
<1>3. ASSUME NEW c \in Ctx, NEW b \in Buf, QueueLastBuffer(c, b) PROVE Goal
  BY <1>3, <1>u DEF QueueLastBuffer
<1>4. ASSUME NEW c \in Ctx, JobStep(c) PROVE Goal
  BY <1>4, <1>u DEF JobStep, RunJob, WorkBegin, WorkTail, WorkFinish
<1>5. QED
  BY <1>1, <1>2, <1>3, <1>4 DEF Next

(* A step that may schedule a job of c, and leaves every context with a job *)
(* its buffers, keeps JobInv.                                               *)
LEMMA ScheduleKeeps ==
  ASSUME JobInv, JobsOK, NEW c \in Ctx, TrySchedule(c) \/ queued' \subseteq queued,
         UNCHANGED <<curr, pc>>,
         \A d \in Ctx : (d \in queued' /\ d \in queued) \/ curr = d =>
           (HasBuffers(d) => HasBuffers(d)')
  PROVE  JobInv'
  BY DEF JobInv, TrySchedule, JobReady, HasBuffers, Streams

(* Nobody loses a buffer that a job of his was scheduled for.               *)
LEMMA JobInvStep ==
  ASSUME IInv, Next
  PROVE  JobInv'
<1> USE ConstantsOK, QueueNames DEF IInv, TypeOK, ctxVars, jobVars
<1>u. ASSUME NEW c \in Ctx, TrySchedule(c) \/ queued' \subseteq queued,
             UNCHANGED <<curr, pc, queue, streaming>>
      PROVE  JobInv'
  BY <1>u, ScheduleKeeps DEF HasBuffers, Streams
<1>1. ASSUME NEW c \in Ctx, FileStep(c) PROVE JobInv'
  <2>1. CASE ReleaseFinish(c)
    <3>1. c \notin queued /\ curr # c
      BY <2>1 DEF ReleaseFinish, LockInv
    <3>2. \A d \in Ctx \ {c} : HasBuffers(d) => HasBuffers(d)'
      BY <2>1 DEF ReleaseFinish, HasBuffers, Streams, FilesOK
    <3>3. QED
      BY <2>1, <3>1, <3>2, ScheduleKeeps DEF ReleaseFinish
  <2>2. CASE EncStopEmpty(c)
    <3>1. ~HasBuffers(c)
      BY <2>2 DEF EncStopEmpty, Ready, HasBuffers, Streams
    <3>2. \A d \in Ctx \ {c} : HasBuffers(d) => HasBuffers(d)'
      BY <2>2 DEF EncStopEmpty, HasBuffers, Streams, FilesOK
    <3>3. QED
      BY <2>2, <3>1, <3>2, ScheduleKeeps DEF EncStopEmpty
  <2>3. CASE Open(c) \/ EncStopPending(c) \/ EncStart(c)
    BY <2>3, <1>u DEF Open, EncStopPending, EncStart
  <2>4. CASE ReleaseBegin(c)
    BY <2>4, <1>u DEF ReleaseBegin
  <2>5. QED
    BY <1>1, <2>1, <2>2, <2>3, <2>4 DEF FileStep
<1>2. ASSUME NEW c \in Ctx, NEW q \in Queue, QueueStep(c, q) PROVE JobInv'
  <2>1. ASSUME NEW g \in Geom, SetFormat(c, q, g) PROVE JobInv'
    BY <2>1, <1>u DEF SetFormat
  <2>2. CASE RequestBuffers(c, q)
    <3>1. ~HasBuffers(c)
      BY <2>2 DEF RequestBuffers, HasBuffers, Streams, Queue
    <3>2. \A d \in Ctx \ {c} : HasBuffers(d) => HasBuffers(d)'
      BY <2>2 DEF RequestBuffers, HasBuffers, Streams, FilesOK
    <3>3. QED
      BY <2>2, <3>1, <3>2, ScheduleKeeps DEF RequestBuffers
  <2>3. ASSUME NEW b \in Buf, QueueBuffer(c, q, b) PROVE JobInv'
    <3>1. Append(queue[<<c, q>>], b) # << >>
      BY <2>3, AppendNonEmpty DEF FilesOK
    <3>2. \A d \in Ctx, p \in Queue :
            queue[<<d, p>>] # << >> => queue'[<<d, p>>] # << >>
      BY <2>3, <3>1 DEF QueueBuffer, FilesOK
    <3>3. \A d \in Ctx : HasBuffers(d) => HasBuffers(d)'
      BY <2>3, <3>2 DEF QueueBuffer, HasBuffers, Streams
    <3>4. QED
      BY <2>3, <3>3, ScheduleKeeps DEF QueueBuffer
  <2>4. ASSUME <<c, q>> \notin streaming, GiveBuffers(c, q),
               UNCHANGED <<curr, pc>>, streaming \subseteq streaming',
               TrySchedule(c) \/ queued' \subseteq queued
        PROVE  JobInv'
    <3>1. ~HasBuffers(c)
      BY <2>4 DEF HasBuffers, Streams, Queue
    <3>2. \A d \in Ctx \ {c}, p \in Queue : queue'[<<d, p>>] = queue[<<d, p>>]
      BY <2>4 DEF GiveBuffers, FilesOK
    <3>3. \A d \in Ctx \ {c} : HasBuffers(d) => HasBuffers(d)'
      BY <2>4, <3>2 DEF HasBuffers, Streams
    <3>4. QED
      BY <2>4, <3>1, <3>3, ScheduleKeeps DEF HasBuffers
  <2>5. CASE StreamOnBusy(c, q)
    BY <2>4, <2>5 DEF StreamOnBusy, StreamOnAllowed
  <2>6. CASE StreamOnFails(c, q)
    BY <2>4, <2>6 DEF StreamOnFails, StreamOnAllowed
  <2>7. CASE StreamOn(c, q)
    BY <2>4, <2>7 DEF StreamOn, StreamOnAllowed
  <2>8. CASE StreamOffBegin(c, q)
    BY <2>8, <1>u DEF StreamOffBegin
  <2>9. CASE StreamOffFinish(c, q)
    <3>1. c \notin queued /\ curr # c
      BY <2>9 DEF StreamOffFinish, LockInv
    <3>2. \A d \in Ctx \ {c}, p \in Queue :
            <<d, p>> \in streaming => <<d, p>> \in streaming'
      BY <2>9 DEF StreamOffFinish
    <3>3. \A d \in Ctx \ {c}, p \in Queue : queue'[<<d, p>>] = queue[<<d, p>>]
      BY <2>9 DEF StreamOffFinish, StopDrain, FilesOK
    <3>4. \A d \in Ctx \ {c} : HasBuffers(d) => HasBuffers(d)'
      BY <3>2, <3>3 DEF HasBuffers, Streams
    <3>5. QED
      BY <2>9, <3>1, <3>4, ScheduleKeeps DEF StreamOffFinish
  <2>10. QED
    BY <1>2, <2>1, <2>2, <2>3, <2>5, <2>6, <2>7, <2>8, <2>9 DEF QueueStep
<1>3. ASSUME NEW c \in Ctx, NEW b \in Buf, QueueLastBuffer(c, b)
      PROVE  JobInv'
  BY <1>3, <1>u DEF QueueLastBuffer
<1>4. ASSUME NEW c \in Ctx, JobStep(c) PROVE JobInv'
  <2>1. CASE RunJob(c)
    BY <2>1 DEF RunJob, JobInv, JobsOK, HasBuffers, Streams
  <2>2. CASE WorkBegin(c)
    <3>1. ~Starved(c)
      BY <2>2 DEF WorkBegin, JobInv, HasBuffers, Streams, Starved, Ready
    <3>2. QED
      BY <2>2, <3>1 DEF WorkBegin, JobInv, HasBuffers, Streams
  <2>3. CASE WorkTail(c)
    BY <2>3 DEF WorkTail, JobInv, HasBuffers, Streams
  <2>4. CASE WorkFinish(c)
    <3>1. \A d \in Ctx \ {c} : HasBuffers(d) => HasBuffers(d)'
      BY <2>4 DEF WorkFinish, HasBuffers, Streams, FilesOK
    <3>2. c \in queued' => c \in queued \/ HasBuffers(c)'
      BY <2>4 DEF WorkFinish, TrySchedule, JobReady, HasBuffers
    <3>3. c \notin queued
      BY <2>4 DEF WorkFinish, JobInv
    <3>4. curr = c /\ curr' = NoCtx /\ pc' = "idle"
          /\ queued' \subseteq queued \cup {c}
      BY <2>4 DEF WorkFinish, TrySchedule
    <3>5. NoCtx \notin queued'
      BY <3>4 DEF JobsOK
    <3>6. QED
      BY <3>1, <3>2, <3>3, <3>4, <3>5 DEF JobInv
  <2>5. QED
    BY <1>4, <2>1, <2>2, <2>3, <2>4 DEF JobStep
<1>5. QED
  BY <1>1, <1>2, <1>3, <1>4 DEF Next

(* A drain waits only while the driver has no CAPTURE buffer.               *)
LEMMA WaitStep ==
  ASSUME IInv, Next
  PROVE  WaitInv'
<1> USE ConstantsOK, QueueNames DEF IInv, TypeOK, FilesOK, DrainsOK, WaitInv,
        ctxVars, drainVars
<1>1. ASSUME NEW c \in Ctx, FileStep(c) PROVE WaitInv'
  <2>1. CASE Open(c) \/ ReleaseBegin(c) \/ EncStopPending(c) \/ EncStart(c)
    BY <2>1 DEF Open, ReleaseBegin, EncStopPending, EncStart
  <2>2. CASE ReleaseFinish(c)
    BY <2>2 DEF ReleaseFinish
  <2>3. CASE EncStopEmpty(c)
    <3>1. CASE Ready(c, "cap") = << >>
      BY <2>3, <3>1 DEF EncStopEmpty, Ready
    <3>2. CASE Ready(c, "cap") # << >>
      BY <2>3, <3>2 DEF EncStopEmpty, Ready
    <3>3. QED
      BY <3>1, <3>2
  <2>4. QED
    BY <1>1, <2>1, <2>2, <2>3 DEF FileStep
<1>2. ASSUME NEW c \in Ctx, NEW q \in Queue, QueueStep(c, q) PROVE WaitInv'
  <2>1. ASSUME NEW g \in Geom, SetFormat(c, q, g) PROVE WaitInv'
    BY <2>1 DEF SetFormat
  <2>2. CASE RequestBuffers(c, q)
    BY <2>2 DEF RequestBuffers
  <2>3. ASSUME NEW b \in Buf, QueueBuffer(c, q, b) PROVE WaitInv'
    BY <2>3 DEF QueueBuffer, Queue
  <2>4. ASSUME <<c, q>> \notin streaming, GiveBuffers(c, q),
               streaming' \subseteq streaming \cup {<<c, q>>}
        PROVE  WaitInv'
    BY <2>4 DEF GiveBuffers, MarkLast, Queue
  <2>5. CASE StreamOnBusy(c, q) \/ StreamOnFails(c, q) \/ StreamOn(c, q)
    BY <2>4, <2>5 DEF StreamOnBusy, StreamOnFails, StreamOn, StreamOnAllowed
  <2>6. CASE StreamOffBegin(c, q)
    BY <2>6 DEF StreamOffBegin
  <2>7. CASE StreamOffFinish(c, q)
    <3>1. CASE <<c, q>> \notin streaming
      <4>1. queue' = [queue EXCEPT ![<<c, q>>] = << >>]
            /\ UNCHANGED <<draining, nextLast, streaming>>
        BY <2>7, <3>1 DEF StreamOffFinish
      <4>2. \A d \in Ctx : queue[<<d, "cap">>] = << >> => queue'[<<d, "cap">>] = << >>
        BY <4>1
      <4>3. QED
        BY <4>1, <4>2
    <3>2. CASE <<c, q>> \in streaming
      <4>1. StopDrain(c, q) /\ streaming' = streaming \ {<<c, q>>}
        BY <2>7, <3>2 DEF StreamOffFinish
      <4>2. CASE q = "cap"
        BY <4>1, <4>2 DEF StopDrain
      <4>3. CASE q = "out"
        <5>1. \A d \in Ctx \ {c} : queue'[<<d, "cap">>] = queue[<<d, "cap">>]
          BY <4>1, <4>3 DEF StopDrain
        <5>2. nextLast' \subseteq nextLast \cup {c}
              /\ \A d \in Ctx \ {c} : d \in draining => d \in draining'
          BY <4>1, <4>3 DEF StopDrain, MarkLast
        <5>3. CASE c \in draining /\ Ready(c, "cap") # << >>
          <6>1. c \notin nextLast'
            BY <4>1, <4>3, <5>3 DEF StopDrain, MarkLast
          <6>2. QED
            BY <4>1, <5>1, <5>2, <6>1
        <5>4. CASE ~(c \in draining /\ Ready(c, "cap") # << >>)
          <6>1. draining' = draining
                /\ queue' = [queue EXCEPT ![<<c, "out">>] = << >>]
                /\ (c \in nextLast' => c \in draining /\ Ready(c, "cap") = << >>)
            BY <4>1, <4>3, <5>4 DEF StopDrain
          <6>2. queue'[<<c, "cap">>] = queue[<<c, "cap">>]
            BY <6>1
          <6>3. c \in nextLast' =>
                  (<<c, "cap">> \in streaming' => queue'[<<c, "cap">>] = << >>)
            BY <4>1, <6>1, <6>2 DEF Ready
          <6>4. ASSUME NEW d \in nextLast', d # c
                PROVE  /\ d \in draining'
                       /\ <<d, "cap">> \in streaming' => queue'[<<d, "cap">>] = << >>
            <7>1. d \in Ctx /\ d \in nextLast
              BY <5>2, <6>4
            <7>2. queue'[<<d, "cap">>] = queue[<<d, "cap">>]
              BY <5>1, <6>4, <7>1
            <7>3. QED
              BY <4>1, <6>1, <7>1, <7>2
          <6>5. QED
            BY <6>1, <6>3, <6>4
        <5>5. QED
          BY <5>3, <5>4
      <4>4. QED
        BY <4>2, <4>3 DEF Queue
    <3>3. QED
      BY <3>1, <3>2
  <2>8. QED
    BY <1>2, <2>1, <2>2, <2>3, <2>5, <2>6, <2>7 DEF QueueStep
<1>3. ASSUME NEW c \in Ctx, NEW b \in Buf, QueueLastBuffer(c, b)
      PROVE  WaitInv'
  BY <1>3 DEF QueueLastBuffer, MarkLast
<1>4. ASSUME NEW c \in Ctx, JobStep(c) PROVE WaitInv'
  <2>1. CASE RunJob(c) \/ WorkBegin(c)
    BY <2>1 DEF RunJob, WorkBegin
  <2>2. CASE WorkTail(c)
    BY <2>2 DEF WorkTail, MarkLast
  <2>3. CASE WorkFinish(c)
    <3>1. c \notin nextLast
      BY <2>3 DEF WorkFinish, JobInv, HasBuffers, Streams
    <3>2. QED
      BY <2>3, <3>1 DEF WorkFinish
  <2>4. QED
    BY <1>4, <2>1, <2>2, <2>3 DEF JobStep
<1>5. QED
  BY <1>1, <1>2, <1>3, <1>4 DEF Next

(* LAST is marked when the context has no job, or at the end of one.        *)
LEMMA MarkedQuiet ==
  ASSUME StoppedIsQuiet, NEW c \in Ctx,
         stopped' \subseteq stopped \cup {c},
         c \notin queued, curr = c => pc = "checked",
         queued' \subseteq queued, UNCHANGED <<curr, pc>>
  PROVE  StoppedIsQuiet'
  BY DEF StoppedIsQuiet

(* A job is only scheduled or begun for a stream that is not stopped.       *)
LEMMA ScheduledQuiet ==
  ASSUME StoppedIsQuiet, NEW c \in Ctx, TrySchedule(c),
         stopped' \subseteq stopped, UNCHANGED <<curr, pc>>
  PROVE  StoppedIsQuiet'
  BY DEF StoppedIsQuiet, TrySchedule, JobReady

(* Once LAST is marked the stream is quiet.                                 *)
LEMMA QuietStep ==
  ASSUME IInv, Next
  PROVE  StoppedIsQuiet'
<1> USE ConstantsOK, QueueNames DEF IInv, TypeOK, DrainsOK, JobsOK,
        drainVars, jobVars
<1>w. \A c \in Ctx : ~HasBuffers(c) => c \notin queued /\ curr # c
  BY DEF JobInv
<1>n. \A c \in nextLast : ~HasBuffers(c)
  BY DEF WaitInv, HasBuffers, Streams
<1>1. ASSUME NEW c \in Ctx, FileStep(c) PROVE StoppedIsQuiet'
  <2>1. CASE Open(c) \/ EncStopPending(c) \/ EncStart(c)
    BY <2>1 DEF Open, EncStopPending, EncStart, StoppedIsQuiet
  <2>2. CASE ReleaseBegin(c) \/ ReleaseFinish(c)
    BY <2>2 DEF ReleaseBegin, ReleaseFinish, StoppedIsQuiet
  <2>3. CASE EncStopEmpty(c)
    <3>1. ~HasBuffers(c)
      BY <2>3 DEF EncStopEmpty, Ready, HasBuffers, Streams
    <3>2. stopped' \subseteq stopped \cup {c}
      BY <2>3 DEF EncStopEmpty
    <3>3. QED
      BY <2>3, <3>1, <3>2, <1>w, MarkedQuiet DEF EncStopEmpty
  <2>4. QED
    BY <1>1, <2>1, <2>2, <2>3 DEF FileStep
<1>2. ASSUME NEW c \in Ctx, NEW q \in Queue, QueueStep(c, q)
      PROVE  StoppedIsQuiet'
  <2>1. CASE \/ \E g \in Geom : SetFormat(c, q, g)
             \/ RequestBuffers(c, q) \/ StreamOffBegin(c, q)
    BY <2>1 DEF SetFormat, RequestBuffers, StreamOffBegin, StoppedIsQuiet
  <2>2. ASSUME NEW b \in Buf, QueueBuffer(c, q, b) PROVE StoppedIsQuiet'
    BY <2>2, ScheduledQuiet DEF QueueBuffer
  <2>3. ASSUME <<c, q>> \notin streaming, GiveBuffers(c, q)
        PROVE  stopped' \subseteq stopped \cup {c} /\ c \notin queued /\ curr # c
    BY <2>3, <1>w DEF GiveBuffers, MarkLast, HasBuffers, Streams, Queue
  <2>4. CASE StreamOnBusy(c, q) \/ StreamOnFails(c, q)
    BY <2>3, <2>4, MarkedQuiet DEF StreamOnBusy, StreamOnFails, StreamOnAllowed
  <2>5. CASE StreamOn(c, q)
    BY <2>3, <2>5 DEF StreamOn, StreamOnAllowed, TrySchedule, JobReady,
                      StoppedIsQuiet
  <2>6. CASE StreamOffFinish(c, q)
    <3>1. c \notin queued /\ curr # c
      BY <2>6 DEF StreamOffFinish, LockInv
    <3>2. stopped' \subseteq stopped \cup {c}
      BY <2>6 DEF StreamOffFinish, StopDrain, MarkLast
    <3>3. QED
      BY <2>6, <3>1, <3>2, MarkedQuiet DEF StreamOffFinish
  <2>7. QED
    BY <1>2, <2>1, <2>2, <2>4, <2>5, <2>6 DEF QueueStep
<1>3. ASSUME NEW c \in Ctx, NEW b \in Buf, QueueLastBuffer(c, b)
      PROVE  StoppedIsQuiet'
  <2>1. c \notin queued /\ curr # c
    BY <1>3, <1>w, <1>n DEF QueueLastBuffer
  <2>2. QED
    BY <1>3, <2>1 DEF QueueLastBuffer, MarkLast, TrySchedule, JobReady,
                      StoppedIsQuiet
<1>4. ASSUME NEW c \in Ctx, JobStep(c) PROVE StoppedIsQuiet'
  <2>1. CASE RunJob(c)
    BY <2>1 DEF RunJob, StoppedIsQuiet
  <2>2. CASE WorkBegin(c)
    BY <2>2 DEF WorkBegin, StoppedIsQuiet, TrySchedule, JobReady
  <2>3. CASE WorkTail(c)
    <3>1. c \notin queued
      BY <2>3 DEF WorkTail, JobInv
    <3>2. QED
      BY <2>3, <3>1 DEF WorkTail, MarkLast, StoppedIsQuiet
  <2>4. CASE WorkFinish(c)
    BY <2>4 DEF WorkFinish, StoppedIsQuiet, TrySchedule, JobReady
  <2>5. QED
    BY <1>4, <2>1, <2>2, <2>3, <2>4 DEF JobStep
<1>5. QED
  BY <1>1, <1>2, <1>3, <1>4 DEF Next

(* Marking the LAST of a drain counts it.                                   *)
LEMMA MarkedOnce ==
  ASSUME DrainsOK, LastExactlyOnce, NEW c \in Ctx, c \in draining, MarkLast(c)
  PROVE  LastExactlyOnce'
  BY DEF DrainsOK, LastExactlyOnce, MarkLast

(* Every way a drain ends marks one LAST.                                   *)
LEMMA OnceStep ==
  ASSUME IInv, Next
  PROVE  LastExactlyOnce'
<1> USE DEF IInv, TypeOK, DrainsOK, drainVars
<1>u. ASSUME UNCHANGED <<draining, nextLast, stopped, lastCount>>
      PROVE  LastExactlyOnce'
  BY <1>u DEF LastExactlyOnce
<1>1. ASSUME NEW c \in Ctx, FileStep(c) PROVE LastExactlyOnce'
  <2>1. CASE Open(c) \/ ReleaseBegin(c)
    BY <2>1, <1>u DEF Open, ReleaseBegin
  <2>2. CASE ReleaseFinish(c) \/ EncStart(c)
    BY <2>2 DEF ReleaseFinish, EncStart, LastExactlyOnce
  <2>3. CASE EncStopPending(c)
    BY <2>3 DEF EncStopPending, StopCommand, LastExactlyOnce
  <2>4. CASE EncStopEmpty(c)
    <3>1. CASE Ready(c, "cap") = << >>
      BY <2>4, <3>1 DEF EncStopEmpty, StopCommand, LastExactlyOnce
    <3>2. CASE Ready(c, "cap") # << >>
      BY <2>4, <3>2 DEF EncStopEmpty, StopCommand, LastExactlyOnce
    <3>3. QED
      BY <3>1, <3>2
  <2>5. QED
    BY <1>1, <2>1, <2>2, <2>3, <2>4 DEF FileStep
<1>2. ASSUME NEW c \in Ctx, NEW q \in Queue, QueueStep(c, q)
      PROVE  LastExactlyOnce'
  <2>1. CASE \/ \E g \in Geom : SetFormat(c, q, g)
             \/ \E b \in Buf : QueueBuffer(c, q, b)
             \/ RequestBuffers(c, q) \/ StreamOffBegin(c, q)
    BY <2>1, <1>u DEF SetFormat, QueueBuffer, RequestBuffers, StreamOffBegin
  <2>2. CASE StreamOnBusy(c, q) \/ StreamOnFails(c, q) \/ StreamOn(c, q)
    <3>1. GiveBuffers(c, q)
      BY <2>2 DEF StreamOnBusy, StreamOnFails, StreamOn
    <3>2. QED
      BY <3>1, <1>u, MarkedOnce DEF GiveBuffers
  <2>3. CASE StreamOffFinish(c, q)
    <3>1. CASE UNCHANGED drainVars
      BY <3>1, <1>u
    <3>2. CASE c \in draining /\ MarkLast(c)
      BY <3>2, MarkedOnce
    <3>3. CASE /\ UNCHANGED <<draining, stopped, lastCount>>
      BY <3>3 DEF LastExactlyOnce
    <3>4. CASE /\ draining' \subseteq draining /\ stopped' \subseteq stopped
               /\ UNCHANGED lastCount
      BY <3>4 DEF LastExactlyOnce
    <3>5. QED
      BY <2>3, <3>1, <3>2, <3>3, <3>4 DEF StreamOffFinish, StopDrain
  <2>4. QED
    BY <1>2, <2>1, <2>2, <2>3 DEF QueueStep
<1>3. ASSUME NEW c \in Ctx, NEW b \in Buf, QueueLastBuffer(c, b)
      PROVE  LastExactlyOnce'
  BY <1>3, MarkedOnce DEF QueueLastBuffer
<1>4. ASSUME NEW c \in Ctx, JobStep(c) PROVE LastExactlyOnce'
  <2>1. CASE RunJob(c) \/ WorkBegin(c) \/ WorkFinish(c)
    BY <2>1, <1>u DEF RunJob, WorkBegin, WorkFinish
  <2>2. CASE WorkTail(c)
    BY <2>2, <1>u, MarkedOnce DEF WorkTail, LastOfDrain
  <2>3. QED
    BY <1>4, <2>1, <2>2 DEF JobStep
<1>5. QED
  BY <1>1, <1>2, <1>3, <1>4 DEF Next

-----------------------------------------------------------------------------
(* Theorems                                                                 *)

(* Every step keeps the inductive invariant.                                *)
LEMMA NextInv == IInv /\ [Next]_vars => IInv'
<1> SUFFICES ASSUME IInv, [Next]_vars PROVE IInv'
  OBVIOUS
<1>1. CASE Next
  BY <1>1, FilesStep, DrainsStep, EncoderStep, JobsStep, LockStep, StreamStep,
     LeaseStep, JobInvStep, WaitStep, QuietStep, OnceStep DEF IInv, TypeOK
<1>2. CASE UNCHANGED vars
  <2> USE <1>2 DEF IInv, vars, ctxVars, drainVars, leaseVars, jobVars
  <2>1. TypeOK'
    BY DEF TypeOK, FilesOK, DrainsOK, EncoderOK, JobsOK
  <2>2. LockInv' /\ StreamInv' /\ WaitInv'
    BY DEF LockInv, StreamInv, WaitInv
  <2>3. LeaseInv' /\ ReadyInv' /\ LeaseNotLeaked'
    BY DEF LeaseInv, ReadyInv, LeaseNotLeaked, Streams
  <2>4. JobInv'
    BY DEF JobInv, HasBuffers, Streams
  <2>5. StoppedIsQuiet' /\ LastExactlyOnce'
    BY DEF StoppedIsQuiet, LastExactlyOnce
  <2>6. QED
    BY <2>1, <2>2, <2>3, <2>4, <2>5
<1>3. QED
  BY <1>1, <1>2

THEOREM Invariance == Spec => []IInv
  BY InitInv, NextInv, PTL DEF Spec

(* The variables of the driver keep their types.                            *)
THEOREM TypeCorrect == Spec => []TypeOK
<1>1. IInv => TypeOK
  BY DEF IInv
<1>2. QED
  BY Invariance, <1>1, PTL

(* A picture is only encoded on hardware set up for its own stream and      *)
(* geometry, by the stream that holds hc_streamer.                          *)
THEOREM OwnHardware == Spec => []JobOnOwnHardware
<1>1. IInv => JobOnOwnHardware
  <2> SUFFICES ASSUME IInv, curr # NoCtx
               PROVE  /\ streamer = curr
                      /\ curr \in hwReady
                      /\ hw = [ctx |-> curr, geom |-> geom[curr],
                               running |-> TRUE]
    BY DEF JobOnOwnHardware
  <2>1. curr \in Ctx /\ Streams(curr)
    BY DEF IInv, TypeOK, JobsOK, JobInv, HasBuffers
  <2>2. QED
    BY <2>1 DEF IInv, LeaseInv, ReadyInv
<1>2. QED
  BY Invariance, <1>1, PTL

(* hc_streamer is given back whenever its holder stops streaming.           *)
THEOREM NoLeak == Spec => []LeaseNotLeaked
<1>1. IInv => LeaseNotLeaked
  BY DEF IInv
<1>2. QED
  BY Invariance, <1>1, PTL

(* The early exit of hc_work is never taken.                                *)
THEOREM NoStarvedWork == Spec => []WorkNeverStarves
<1>1. IInv => WorkNeverStarves
  BY ConstantsOK
     DEF IInv, TypeOK, JobsOK, JobInv, HasBuffers, Streams, WorkNeverStarves,
         Starved, Ready
<1>2. QED
  BY Invariance, <1>1, PTL

(* Once LAST has been marked, nothing of the context is waiting or encoding *)
(* until ENC_CMD_START.                                                     *)
THEOREM Quiet == Spec => []StoppedIsQuiet
<1>1. IInv => StoppedIsQuiet
  BY DEF IInv
<1>2. QED
  BY Invariance, <1>1, PTL

(* A drain yields exactly one LAST buffer, whichever way it ends.           *)
THEOREM OneLast == Spec => []LastExactlyOnce
<1>1. IInv => LastExactlyOnce
  BY DEF IInv
<1>2. QED
  BY Invariance, <1>1, PTL

-----------------------------------------------------------------------------
(* Drains that no STOP in the tail of a job has begun                       *)

(* The last picture of a drain is queued where hc_work will still see it.   *)
Ending(c) ==
  /\ <<c, "out">> \in streaming
  /\ \E i \in 1..Len(queue[<<c, "out">>]) :
       queue[<<c, "out">>][i] = lastSrc[c] /\ (i = 1 => ~InTail(c))

EndInv == \A c \in draining \ nextLast : Ending(c)

LEMMA EndKept ==
  ASSUME NEW c \in Ctx, Ending(c), <<c, "out">> \in streaming',
         queue'[<<c, "out">>] = queue[<<c, "out">>], lastSrc'[c] = lastSrc[c],
         InTail(c)' => InTail(c)
  PROVE  Ending(c)'
  BY DEF Ending

(* A picture behind the first one moves up when the first one is done.      *)
LEMMA EndMovesUp ==
  ASSUME FilesOK, NEW c \in Ctx, Ending(c), InTail(c), ~InTail(c)',
         <<c, "out">> \in streaming',
         queue'[<<c, "out">>] = Rest(c, "out"), lastSrc'[c] = lastSrc[c]
  PROVE  Ending(c)'
<1> DEFINE s == queue[<<c, "out">>]
<1>1. s \in Seq(Buf)
  BY QueueNames DEF FilesOK
<1>2. PICK i \in 1..Len(s) : s[i] = lastSrc[c] /\ (i = 1 => ~InTail(c))
  BY DEF Ending
<1>3. i - 1 \in 1..Len(Tail(s)) /\ Tail(s)[i - 1] = s[i]
  BY <1>1, <1>2
<1>4. QED
  BY <1>2, <1>3 DEF Ending, Rest

LEMMA EndStep ==
  ASSUME ~StopMayRaceTail, IInv, EndInv, Next
  PROVE  EndInv'
<1> USE ConstantsOK, QueueNames DEF IInv, TypeOK, FilesOK, DrainsOK, EndInv,
        ctxVars, drainVars, jobVars
<1>f. ASSUME NEW c \in Ctx,
             draining' \subseteq draining \cup {c}, nextLast \subseteq nextLast' \cup {c},
             \A d \in Ctx \ {c} :
                /\ queue'[<<d, "out">>] = queue[<<d, "out">>]
                /\ lastSrc'[d] = lastSrc[d]
                /\ <<d, "out">> \in streaming => <<d, "out">> \in streaming'
                /\ InTail(d)' => InTail(d),
             c \in draining' \ nextLast' => Ending(c)'
      PROVE  EndInv'
  <2>1. ASSUME NEW d \in draining' \ nextLast', d # c PROVE Ending(d)'
    <3>1. d \in Ctx /\ d \in draining \ nextLast
      BY <1>f, <2>1
    <3>2. QED
      BY <1>f, <2>1, <3>1, EndKept DEF Ending
  <2>2. QED
    BY <1>f, <2>1
<1>u. ASSUME NEW c \in Ctx, draining' \subseteq draining, nextLast \subseteq nextLast',
             UNCHANGED <<queue, streaming, lastSrc>>,
             \A d \in Ctx : InTail(d)' => InTail(d)
      PROVE  EndInv'
  BY <1>u, EndKept DEF Ending
<1>1. ASSUME NEW c \in Ctx, FileStep(c) PROVE EndInv'
  <2>1. CASE Open(c) \/ ReleaseBegin(c) \/ EncStart(c)
    BY <2>1, <1>u DEF Open, ReleaseBegin, EncStart, InTail
  <2>2. CASE ReleaseFinish(c)
    BY <2>2, <1>f DEF ReleaseFinish, InTail
  <2>3. CASE EncStopPending(c)
    <3>1. c \in draining' \ nextLast' => Ending(c)'
      <4> DEFINE s == queue[<<c, "out">>]
      <4>1. <<c, "out">> \in streaming /\ s # << >> /\ ~InTail(c)
        BY <2>3 DEF EncStopPending, StopCommand, Ready
      <4>2. Len(s) \in 1..Len(s)
        BY <4>1
      <4>3. s' = s /\ lastSrc'[c] = s[Len(s)] /\ streaming' = streaming /\ ~InTail(c)'
        BY <2>3, <4>1 DEF EncStopPending, InTail
      <4>4. QED
        BY <4>1, <4>2, <4>3 DEF Ending
    <3>2. QED
      BY <2>3, <3>1, <1>f DEF EncStopPending, InTail
  <2>4. CASE EncStopEmpty(c)
    <3>1. CASE Ready(c, "cap") = << >>
      BY <2>4, <3>1, <1>f DEF EncStopEmpty, InTail
    <3>2. CASE Ready(c, "cap") # << >>
      <4>1. /\ c \notin draining' \ nextLast' /\ draining' \subseteq draining \cup {c}
            /\ nextLast \subseteq nextLast' \cup {c}
        BY <2>4, <3>2 DEF EncStopEmpty, StopCommand
      <4>2. /\ \A d \in Ctx \ {c} : queue'[<<d, "out">>] = queue[<<d, "out">>]
            /\ \A d \in Ctx \ {c} : lastSrc'[d] = lastSrc[d]
            /\ streaming' = streaming /\ \A d \in Ctx : InTail(d)' <=> InTail(d)
        BY <2>4, <3>2 DEF EncStopEmpty, InTail
      <4>3. QED
        BY <4>1, <4>2, <1>f
    <3>3. QED
      BY <3>1, <3>2
  <2>5. QED
    BY <1>1, <2>1, <2>2, <2>3, <2>4 DEF FileStep
<1>2. ASSUME NEW c \in Ctx, NEW q \in Queue, QueueStep(c, q) PROVE EndInv'
  <2>1. ASSUME NEW g \in Geom, SetFormat(c, q, g) PROVE EndInv'
    BY <2>1, <1>u DEF SetFormat, InTail
  <2>2. CASE RequestBuffers(c, q)
    <3>1. c \in draining' \ nextLast' => Ending(c)'
      <4>1. SUFFICES ASSUME c \in draining' \ nextLast' PROVE Ending(c)'
        OBVIOUS
      <4>2. Ending(c) /\ <<c, "out">> \in streaming /\ q # "out"
        BY <2>2, <4>1 DEF RequestBuffers, Ending
      <4>3. QED
        BY <2>2, <4>2, EndKept DEF RequestBuffers, InTail
    <3>2. QED
      BY <2>2, <3>1, <1>f DEF RequestBuffers, InTail
  <2>3. ASSUME NEW b \in Buf, QueueBuffer(c, q, b) PROVE EndInv'
    <3>1. c \in draining' \ nextLast' => Ending(c)'
      <4>1. CASE q = "cap"
        BY <2>3, <4>1, EndKept DEF QueueBuffer, InTail, Ending
      <4>2. CASE q = "out" /\ Ending(c)
        <5> DEFINE s == queue[<<c, "out">>]
        <5>1. PICK i \in 1..Len(s) : s[i] = lastSrc[c] /\ (i = 1 => ~InTail(c))
          BY <4>2 DEF Ending
        <5>2. s' = Append(s, b) /\ s \in Seq(Buf)
          BY <2>3, <4>2 DEF QueueBuffer
        <5>3. i \in 1..Len(s') /\ s'[i] = s[i]
          BY <5>1, <5>2
        <5>4. lastSrc' = lastSrc /\ streaming' = streaming /\ (InTail(c)' <=> InTail(c))
          BY <2>3 DEF QueueBuffer, InTail
        <5>5. QED
          BY <4>2, <5>1, <5>3, <5>4 DEF Ending
      <4>3. QED
        BY <2>3, <4>1, <4>2 DEF QueueBuffer, Queue
    <3>2. QED
      BY <2>3, <3>1, <1>f DEF QueueBuffer, InTail
  <2>4. ASSUME <<c, q>> \notin streaming, GiveBuffers(c, q), UNCHANGED <<curr, pc>>,
               streaming \subseteq streaming',
               lastSrc' = lastSrc \/ (q = "out" /\ lastSrc' = [lastSrc EXCEPT ![c] = NoBuf])
        PROVE  EndInv'
    <3>1. draining' \subseteq draining /\ nextLast \subseteq nextLast' \cup {c}
          /\ (c \in draining' \ nextLast' => c \in draining \ nextLast)
      BY <2>4 DEF GiveBuffers, MarkLast
    <3>2. \A d \in Ctx \ {c} : queue'[<<d, "out">>] = queue[<<d, "out">>]
      BY <2>4 DEF GiveBuffers
    <3>3. c \in draining' \ nextLast' => Ending(c)'
      <4>1. SUFFICES ASSUME c \in draining' \ nextLast' PROVE Ending(c)'
        OBVIOUS
      <4>2. Ending(c) /\ q # "out"
        BY <2>4, <3>1, <4>1 DEF Ending
      <4>3. queue'[<<c, "out">>] = queue[<<c, "out">>]
        BY <2>4, <4>2 DEF GiveBuffers
      <4>4. QED
        BY <2>4, <4>2, <4>3, EndKept DEF InTail, Ending
    <3>4. QED
      BY <2>4, <3>1, <3>2, <3>3, <1>f DEF InTail
  <2>5. CASE StreamOnBusy(c, q) \/ StreamOnFails(c, q) \/ StreamOn(c, q)
    BY <2>4, <2>5 DEF StreamOnBusy, StreamOnFails, StreamOn, StreamOnAllowed
  <2>6. CASE StreamOffBegin(c, q)
    BY <2>6, <1>u DEF StreamOffBegin, InTail
  <2>7. CASE StreamOffFinish(c, q)
    <3>1. \A d \in Ctx \ {c} :
             /\ queue'[<<d, "out">>] = queue[<<d, "out">>]
             /\ lastSrc'[d] = lastSrc[d]
             /\ <<d, "out">> \in streaming => <<d, "out">> \in streaming'
      BY <2>7 DEF StreamOffFinish, StopDrain
    <3>2. draining' \subseteq draining /\ nextLast \subseteq nextLast' \cup {c}
      BY <2>7 DEF StreamOffFinish, StopDrain, MarkLast
    <3>3. c \in draining' \ nextLast' => Ending(c)'
      <4>1. SUFFICES ASSUME c \in draining' \ nextLast' PROVE Ending(c)'
        OBVIOUS
      <4>2. <<c, q>> \notin streaming
        BY <2>7, <4>1, <3>2 DEF StreamOffFinish, StopDrain, MarkLast, Queue
      <4>3. UNCHANGED <<drainVars, streaming>> /\ queue' = [queue EXCEPT ![<<c, q>>] = << >>]
        BY <2>7, <4>2 DEF StreamOffFinish
      <4>4. Ending(c) /\ q # "out"
        BY <4>1, <4>2, <4>3 DEF Ending
      <4>5. queue'[<<c, "out">>] = queue[<<c, "out">>]
        BY <4>3, <4>4
      <4>6. QED
        BY <2>7, <4>3, <4>4, <4>5, EndKept DEF InTail, Ending, StreamOffFinish
    <3>4. QED
      BY <2>7, <3>1, <3>2, <3>3, <1>f DEF InTail, StreamOffFinish
  <2>8. QED
    BY <1>2, <2>1, <2>2, <2>3, <2>5, <2>6, <2>7 DEF QueueStep
<1>3. ASSUME NEW c \in Ctx, NEW b \in Buf, QueueLastBuffer(c, b)
      PROVE  EndInv'
  BY <1>3, <1>f DEF QueueLastBuffer, MarkLast, InTail
<1>4. ASSUME NEW c \in Ctx, JobStep(c) PROVE EndInv'
  <2>1. CASE RunJob(c) \/ WorkBegin(c)
    BY <2>1, <1>u DEF RunJob, WorkBegin, InTail
  <2>2. CASE WorkTail(c)
    <3>1. c \in draining' \ nextLast' => Ending(c)'
      <4>1. SUFFICES ASSUME c \in draining' \ nextLast' PROVE Ending(c)'
        OBVIOUS
      <4>2. ~LastOfDrain(c) /\ UNCHANGED <<draining, nextLast>>
        BY <2>2, <4>1 DEF WorkTail, MarkLast
      <4>3. PICK i \in 1..Len(queue[<<c, "out">>]) : queue[<<c, "out">>][i] = lastSrc[c]
        BY <4>1, <4>2 DEF Ending
      <4>4. i # 1
        BY <4>1, <4>2, <4>3 DEF LastOfDrain
      <4>5. <<c, "out">> \in streaming
        BY <4>1, <4>2 DEF Ending
      <4>6. QED
        BY <2>2, <4>3, <4>4, <4>5 DEF WorkTail, Ending
    <3>2. draining' \subseteq draining /\ nextLast \subseteq nextLast' \cup {c}
      BY <2>2 DEF WorkTail, MarkLast
    <3>3. QED
      BY <2>2, <3>1, <3>2, <1>f DEF WorkTail, InTail
  <2>3. CASE WorkFinish(c)
    <3>1. \A d \in Ctx \ {c} : queue'[<<d, "out">>] = queue[<<d, "out">>]
      BY <2>3 DEF WorkFinish
    <3>2. c \in draining \ nextLast => Ending(c)'
      <4>1. InTail(c) /\ ~InTail(c)'
        BY <2>3 DEF WorkFinish, InTail
      <4>2. queue'[<<c, "out">>] = Rest(c, "out") /\ lastSrc' = lastSrc
            /\ streaming' = streaming
        BY <2>3 DEF WorkFinish
      <4>3. QED
        BY <4>1, <4>2, EndMovesUp DEF Ending
    <3>3. QED
      BY <2>3, <3>1, <3>2, <1>f DEF WorkFinish, InTail
  <2>4. QED
    BY <1>4, <2>1, <2>2, <2>3 DEF JobStep
<1>5. QED
  BY <1>1, <1>2, <1>3, <1>4 DEF Next

(* Without a STOP between hc_work's drain check and its completion, a drain *)
(* in progress always has somebody left to end it.                          *)
THEOREM DrainsHaveEnding ==
  ASSUME ~StopMayRaceTail
  PROVE  Spec => []DrainHasEnding
<1>1. Init => EndInv
  BY DEF Init, EndInv
<1>2. IInv /\ EndInv /\ [Next]_vars => EndInv'
  <2>1. CASE UNCHANGED vars
    BY <2>1 DEF EndInv, Ending, InTail, vars, ctxVars, drainVars, jobVars
  <2>2. QED
    BY <2>1, EndStep
<1>3. IInv /\ EndInv => DrainHasEnding
  <2>1. ASSUME IInv, NEW c \in draining, Ending(c)
        PROVE  \E i \in DOMAIN queue[<<c, "out">>] :
                 queue[<<c, "out">>][i] = lastSrc[c] /\ (i = 1 => ~InTail(c))
    <3>1. queue[<<c, "out">>] \in Seq(Buf)
      BY <2>1, QueueNames DEF IInv, TypeOK, FilesOK, DrainsOK
    <3>2. DOMAIN queue[<<c, "out">>] = 1..Len(queue[<<c, "out">>])
      BY <3>1
    <3>3. QED
      BY <2>1, <3>2 DEF Ending
  <2>2. QED
    BY <2>1 DEF EndInv, DrainHasEnding
<1>4. QED
  BY Invariance, <1>1, <1>2, <1>3, PTL DEF Spec

(* Frame numbers only restart at the STREAMON of OUTPUT or at close.        *)
THEOREM NumbersGoOn == Spec => SequenceRestarts
<1> DEFINE Restarts ==
      \A c \in Ctx : seqno'[c] < seqno[c] =>
         \/ fileState'[c] = "closed"
         \/ <<c, "out">> \notin streaming /\ <<c, "out">> \in streaming'
<1>1. IInv /\ Next => Restarts
  <2> SUFFICES ASSUME IInv, Next PROVE Restarts
    OBVIOUS
  <2> USE ConstantsOK DEF IInv, TypeOK, DrainsOK, FilesOK
  <2>u. ASSUME seqno' = seqno PROVE Restarts
    BY <2>u
  <2>o. ASSUME NEW c \in Ctx, \A d \in Ctx \ {c} : seqno'[d] = seqno[d],
               seqno'[c] < seqno[c] =>
                 \/ fileState'[c] = "closed"
                 \/ <<c, "out">> \notin streaming /\ <<c, "out">> \in streaming'
        PROVE  Restarts
    <3>1. ASSUME NEW d \in Ctx, seqno'[d] < seqno[d] PROVE d = c
      <4>1. seqno[d] \in Nat
        OBVIOUS
      <4>2. QED
        BY <2>o, <3>1, <4>1
    <3>2. QED
      BY <2>o, <3>1
  <2>1. ASSUME NEW c \in Ctx, FileStep(c) PROVE Restarts
    <3>1. CASE ReleaseFinish(c)
      BY <3>1, <2>o DEF ReleaseFinish
    <3>2. CASE ~ReleaseFinish(c)
      BY <2>1, <3>2, <2>u DEF FileStep, Open, ReleaseBegin, EncStopPending,
                              EncStopEmpty, EncStart
    <3>3. QED
      BY <3>1, <3>2
  <2>2. ASSUME NEW c \in Ctx, NEW q \in Queue, QueueStep(c, q) PROVE Restarts
    <3>1. CASE StreamOn(c, q)
      <4>1. CASE q = "out"
        <5>1. seqno' = [seqno EXCEPT ![c] = 0] /\ <<c, "out">> \notin streaming
              /\ <<c, "out">> \in streaming'
          BY <3>1, <4>1 DEF StreamOn, StreamOnAllowed, NewSequence
        <5>2. QED
          BY <5>1, <2>o
      <4>2. CASE q # "out"
        BY <3>1, <4>2, <2>u DEF StreamOn, NewSequence
      <4>3. QED
        BY <4>1, <4>2
    <3>2. CASE ~StreamOn(c, q)
      BY <2>2, <3>2, <2>u
         DEF QueueStep, SetFormat, RequestBuffers, QueueBuffer, StreamOnBusy,
             StreamOnFails, StreamOffBegin, StreamOffFinish
    <3>3. QED
      BY <3>1, <3>2
  <2>3. ASSUME NEW c \in Ctx, NEW b \in Buf, QueueLastBuffer(c, b) PROVE Restarts
    BY <2>3, <2>u DEF QueueLastBuffer
  <2>4. ASSUME NEW c \in Ctx, JobStep(c) PROVE Restarts
    <3>1. CASE WorkTail(c)
      BY <3>1 DEF WorkTail
    <3>2. CASE ~WorkTail(c)
      BY <2>4, <3>2, <2>u DEF JobStep, RunJob, WorkBegin, WorkFinish
    <3>3. QED
      BY <3>1, <3>2
  <2>5. QED
    BY <2>1, <2>2, <2>3, <2>4 DEF Next
<1>2. IInv /\ [Next]_vars => [Restarts]_vars
  BY <1>1
<1>3. QED
  BY Invariance, <1>2, PTL DEF Spec, SequenceRestarts

-----------------------------------------------------------------------------
(* The refinement                                                           *)

(* Every step of the driver is a step of the lease or leaves it alone.      *)
LEMMA LeaseRefines ==
  ASSUME IInv, Next
  PROVE  Lease!LeaseNext \/ UNCHANGED <<streamer, hw.ctx, curr>>
<1> DEFINE Goal == Lease!LeaseNext \/ UNCHANGED <<streamer, hw.ctx, curr>>
<1> USE DEF IInv, leaseVars, jobVars
<1>d. ASSUME NEW c \in Ctx, DropLease(c), hw' = hw, curr' = curr,
             curr # NoCtx /\ streamer = c => FALSE
      PROVE  Goal
  BY <1>d DEF DropLease, Lease!LeaseNext, Lease!Drop
<1>1. ASSUME NEW c \in Ctx, FileStep(c) PROVE Goal
  <2>1. CASE ReleaseFinish(c)
    <3>1. curr # NoCtx => streamer # c
      BY <2>1 DEF ReleaseFinish, TypeOK, JobsOK, JobInv, HasBuffers, LeaseInv
    <3>2. QED
      BY <2>1, <3>1, <1>d DEF ReleaseFinish
  <2>2. CASE ~ReleaseFinish(c)
    BY <1>1, <2>2 DEF FileStep, Open, ReleaseBegin, EncStopPending,
                      EncStopEmpty, EncStart
  <2>3. QED
    BY <2>1, <2>2
<1>2. ASSUME NEW c \in Ctx, NEW q \in Queue, QueueStep(c, q) PROVE Goal
  <2>1. CASE StreamOnFails(c, q)
    <3>1. curr = NoCtx
      BY <2>1 DEF StreamOnFails, GateOpen, TypeOK, JobsOK, JobInv, HasBuffers,
                  LeaseInv
    <3>2. streamer' = streamer /\ curr' = curr /\ hw.ctx' = NoCtx
      BY <2>1 DEF StreamOnFails
    <3>3. Lease!ProgramFails(c)
      BY <2>1, <3>1, <3>2
         DEF StreamOnFails, GateOpen, Lease!ProgramFails, Lease!MayProgram
    <3>4. QED
      BY <3>3 DEF Lease!LeaseNext
  <2>2. CASE StreamOn(c, q)
    <3>1. curr' = curr /\ streamer' = c /\ hw.ctx' = c
      BY <2>2 DEF StreamOn, HwSetup, ReadyInv
    <3>2. CASE curr = NoCtx
      BY <2>2, <3>1, <3>2 DEF StreamOn, GateOpen, Lease!LeaseNext,
                              Lease!Program, Lease!MayProgram
    <3>3. CASE curr # NoCtx
      <4>1. streamer = curr /\ curr \in hwReady
        BY <3>3 DEF TypeOK, JobsOK, JobInv, HasBuffers, LeaseInv
      <4>2. curr = c
        BY <2>2, <3>3, <4>1 DEF StreamOn, GateOpen
      <4>3. UNCHANGED <<streamer, hw.ctx, curr>>
        BY <3>1, <4>1, <4>2 DEF ReadyInv
      <4>4. QED
        BY <4>3
    <3>4. QED
      BY <3>2, <3>3
  <2>3. CASE StreamOffFinish(c, q)
    <3>1. curr # NoCtx => streamer # c
      BY <2>3 DEF StreamOffFinish, TypeOK, JobsOK, JobInv, HasBuffers, LeaseInv
    <3>2. CASE <<c, q>> \in streaming
      BY <2>3, <3>1, <3>2, <1>d DEF StreamOffFinish
    <3>3. CASE <<c, q>> \notin streaming
      BY <2>3, <3>3 DEF StreamOffFinish
    <3>4. QED
      BY <3>2, <3>3
  <2>4. CASE \/ StreamOnBusy(c, q) \/ StreamOffBegin(c, q) \/ RequestBuffers(c, q)
             \/ (\E g \in Geom : SetFormat(c, q, g))
             \/ (\E b \in Buf : QueueBuffer(c, q, b))
    BY <2>4 DEF StreamOnBusy, StreamOffBegin, RequestBuffers, SetFormat,
                QueueBuffer
  <2>5. QED
    BY <1>2, <2>1, <2>2, <2>3, <2>4 DEF QueueStep
<1>3. ASSUME NEW c \in Ctx, NEW b \in Buf, QueueLastBuffer(c, b) PROVE Goal
  BY <1>3 DEF QueueLastBuffer
<1>4. ASSUME NEW c \in Ctx, JobStep(c) PROVE Goal
  <2>1. CASE RunJob(c)
    <3>1. streamer = c /\ c \in hwReady
      BY <2>1 DEF RunJob, JobInv, HasBuffers, LeaseInv
    <3>2. hw.ctx = c
      BY <3>1 DEF ReadyInv
    <3>3. QED
      BY <2>1, <3>1, <3>2 DEF RunJob, Lease!LeaseNext, Lease!Begin
  <2>2. CASE WorkBegin(c)
    BY <2>2 DEF WorkBegin, Lease!LeaseNext, Lease!End
  <2>3. CASE WorkTail(c)
    BY <2>3 DEF WorkTail
  <2>4. CASE WorkFinish(c)
    BY <2>4 DEF WorkFinish, Lease!LeaseNext, Lease!End
  <2>5. QED
    BY <1>4, <2>1, <2>2, <2>3, <2>4 DEF JobStep
<1>5. QED
  BY <1>1, <1>2, <1>3, <1>4 DEF Next

(* The driver implements the lease: the specification of module             *)
(* EncoderLease, with owner, programmed and encoding read off hc_streamer,  *)
(* the encoder and curr_ctx.                                                *)
THEOREM Implementation == Spec => ImplementsLease
<1>1. Init => Lease!LeaseInit
  BY DEF Init, Lease!LeaseInit
<1>2. IInv /\ [Next]_vars => [Lease!LeaseNext]_(Lease!leaseVars)
  BY LeaseRefines DEF vars, leaseVars, jobVars, Lease!leaseVars
<1>3. QED
  BY Invariance, <1>1, <1>2, PTL DEF Spec, ImplementsLease, Lease!LeaseSpec

-----------------------------------------------------------------------------
(* How long STREAMOFF and close sleep with hc_lock held.                    *)

(* Steps the kernel still has to make until no job is left, if nobody gets  *)
(* the lock: four for each picture queued by the stream that has the lease. *)
JobsLeft ==
  IF curr # NoCtx
  THEN 4 * Len(queue[<<curr, "out">>])
         - (IF pc = "queued" THEN 1 ELSE IF pc = "encoding" THEN 2 ELSE 3)
  ELSE IF queued # {} THEN 4 * Len(queue[<<streamer, "out">>]) ELSE 0

KernelStep == \E c \in Ctx : JobStep(c)

LEMMA LengthFacts ==
  \A s \in Seq(Buf) : /\ Len(s) \in Nat
                      /\ s # << >> => Len(s) >= 1 /\ Len(Tail(s)) = Len(s) - 1
  OBVIOUS

(* Only the stream that has the lease has jobs, and pictures for them.      *)
LEMMA JobsOfStreamer ==
  ASSUME IInv
  PROVE  /\ \A c \in Ctx : c \in queued \/ curr = c =>
               /\ streamer = c
               /\ Len(queue[<<c, "out">>]) \in Nat /\ Len(queue[<<c, "out">>]) >= 1
               /\ Len(Rest(c, "out")) = Len(queue[<<c, "out">>]) - 1
         /\ curr # NoCtx => curr \in Ctx /\ streamer = curr /\ queued = {}
         /\ queued # {} => streamer \in queued /\ streamer \in Ctx
<1>1. ASSUME NEW c \in Ctx, c \in queued \/ curr = c
      PROVE  /\ streamer = c
             /\ queue[<<c, "out">>] \in Seq(Buf) /\ queue[<<c, "out">>] # << >>
  <2>1. HasBuffers(c)
    BY <1>1 DEF IInv, JobInv
  <2>2. streamer = c
    BY <2>1 DEF IInv, LeaseInv, HasBuffers
  <2>3. queue[<<c, "out">>] \in Seq(Buf)
    BY QueueNames DEF IInv, TypeOK, FilesOK
  <2>4. QED
    BY <2>1, <2>2, <2>3 DEF HasBuffers
<1>2. \A c \in Ctx : c \in queued \/ curr = c =>
               /\ streamer = c
               /\ Len(queue[<<c, "out">>]) \in Nat /\ Len(queue[<<c, "out">>]) >= 1
               /\ Len(Rest(c, "out")) = Len(queue[<<c, "out">>]) - 1
  BY <1>1, LengthFacts DEF Rest
<1>3. queued \subseteq Ctx /\ curr \in Ctx \cup {NoCtx} /\ curr \notin queued
  BY DEF IInv, TypeOK, JobsOK, JobInv
<1>4. QED
  BY <1>2, <1>3

(* Every step of a job takes the kernel nearer to having none.              *)
LEMMA JobsGoOn ==
  ASSUME IInv, NEW c \in Ctx, JobStep(c)
  PROVE  JobsLeft \in Nat /\ JobsLeft' \in Nat /\ JobsLeft' < JobsLeft
<1> DEFINE left == Len(queue[<<c, "out">>])
<1>1. /\ c # NoCtx
      /\ c \in queued \/ curr = c
      /\ curr = c => queued = {}
      /\ curr = NoCtx => c \in queued
      /\ streamer = c /\ streamer' = streamer
      /\ left \in Nat /\ left >= 1 /\ Len(Rest(c, "out")) = left - 1
  <2>1. /\ c \in queued \/ curr = c
        /\ streamer' = streamer
        /\ curr = c \/ curr = NoCtx
    BY DEF JobStep, RunJob, WorkBegin, WorkTail, WorkFinish, leaseVars
  <2>2. QED
    BY <2>1, JobsOfStreamer, ConstantsOK
<1>2. CASE RunJob(c)
  <2>1. /\ curr = NoCtx /\ curr' = c /\ pc' = "queued" /\ queue' = queue
        /\ c \in queued
    BY <1>2 DEF RunJob, ctxVars
  <2>2. JobsLeft = 4 * left /\ JobsLeft' = 4 * left - 1
    BY <1>1, <2>1 DEF JobsLeft
  <2>3. QED
    BY <1>1, <2>2
<1>3. CASE WorkBegin(c)
  <2>1. ~Starved(c)
    BY <1>3 DEF WorkBegin, IInv, JobInv, HasBuffers, Streams, Starved, Ready
  <2>2. curr = c /\ curr' = c /\ pc = "queued" /\ pc' = "encoding" /\ queue' = queue
    BY <1>3, <2>1 DEF WorkBegin, ctxVars
  <2>3. JobsLeft = 4 * left - 1 /\ JobsLeft' = 4 * left - 2
    BY <1>1, <2>2 DEF JobsLeft
  <2>4. QED
    BY <1>1, <2>3
<1>4. CASE WorkTail(c)
  <2>1. curr = c /\ curr' = c /\ pc = "encoding" /\ pc' = "checked" /\ queue' = queue
    BY <1>4 DEF WorkTail, ctxVars
  <2>2. JobsLeft = 4 * left - 2 /\ JobsLeft' = 4 * left - 3
    BY <1>1, <2>1 DEF JobsLeft
  <2>3. QED
    BY <1>1, <2>2
<1>5. CASE WorkFinish(c)
  <2>1. curr = c /\ curr' = NoCtx /\ pc = "checked"
    BY <1>5 DEF WorkFinish
  <2>2. queue'[<<c, "out">>] = Rest(c, "out")
    BY <1>5, QueueNames DEF WorkFinish, IInv, TypeOK, FilesOK
  <2>3. JobsLeft = 4 * left - 3
    BY <1>1, <2>1 DEF JobsLeft
  <2>4. JobsLeft' \in {0, 4 * (left - 1)}
    BY <1>1, <2>1, <2>2 DEF JobsLeft
  <2>5. QED
    BY <1>1, <2>3, <2>4
<1>6. QED
  BY <1>2, <1>3, <1>4, <1>5 DEF JobStep

(* While an ioctl sleeps with the lock only the kernel's own steps and its  *)
(* own second half are left.                                                *)
LEMMA LockLeavesKernel ==
  ASSUME IInv, [Next]_vars, lock.op # "free"
  PROVE  \/ lock' = Free
         \/ lock' = lock /\ KernelStep
         \/ UNCHANGED vars
<1>1. lock # Free
  BY DEF Free
<1>2. ASSUME NEW c \in Ctx, FileStep(c) PROVE lock' = Free
  BY <1>1, <1>2 DEF FileStep, Open, ReleaseBegin, ReleaseFinish, EncStopPending,
              EncStopEmpty, EncStart, StopCommand, Ioctl
<1>3. ASSUME NEW c \in Ctx, NEW q \in Queue, QueueStep(c, q) PROVE lock' = Free
  BY <1>1, <1>3 DEF QueueStep, SetFormat, RequestBuffers, QueueBuffer, StreamOnBusy,
              StreamOnFails, StreamOn, StreamOnAllowed, StreamOffBegin, StreamOffFinish, Ioctl
<1>4. ASSUME NEW c \in Ctx, NEW b \in Buf PROVE ~QueueLastBuffer(c, b)
  BY <1>1 DEF QueueLastBuffer, Ioctl
<1>5. ASSUME NEW c \in Ctx, JobStep(c) PROVE lock' = lock /\ KernelStep
  BY <1>5 DEF JobStep, RunJob, WorkBegin, WorkTail, WorkFinish, KernelStep
<1>6. QED
  BY <1>2, <1>3, <1>4, <1>5 DEF Next

(* What makes WaitingIoctlReturns hold, for any number of handles and of    *)
(* queued pictures: while STREAMOFF or close sleeps with hc_lock held, only *)
(* jobs go on, none of them needs the lock, they are bounded in number, and *)
(* when none is left nothing keeps the ioctl from going on.                 *)
THEOREM WaitIsBounded ==
  Spec => /\ [](JobsLeft \in Nat
                  /\ (JobsLeft = 0 => curr = NoCtx /\ queued = {} /\ Flushed))
          /\ [][KernelStep => JobsLeft' < JobsLeft]_vars
          /\ [][lock.op # "free" => lock' = Free \/ (lock' = lock /\ KernelStep)]_vars
<1>1. IInv => JobsLeft \in Nat /\ (JobsLeft = 0 => curr = NoCtx /\ queued = {} /\ Flushed)
  <2> SUFFICES ASSUME IInv
               PROVE  /\ JobsLeft \in Nat
                      /\ JobsLeft = 0 => curr = NoCtx /\ queued = {} /\ Flushed
    OBVIOUS
  <2>1. CASE curr # NoCtx
    <3>1. Len(queue[<<curr, "out">>]) \in Nat /\ Len(queue[<<curr, "out">>]) >= 1
      BY <2>1, JobsOfStreamer
    <3>2. JobsLeft \in Nat /\ JobsLeft >= 1
      BY <2>1, <3>1 DEF JobsLeft
    <3>3. QED
      BY <3>2
  <2>2. CASE curr = NoCtx /\ queued # {}
    <3>1. Len(queue[<<streamer, "out">>]) \in Nat /\ Len(queue[<<streamer, "out">>]) >= 1
      BY <2>2, JobsOfStreamer
    <3>2. JobsLeft \in Nat /\ JobsLeft >= 1
      BY <2>2, <3>1 DEF JobsLeft
    <3>3. QED
      BY <3>2
  <2>3. CASE curr = NoCtx /\ queued = {}
    BY <2>3 DEF JobsLeft, Flushed, IInv, JobInv
  <2>4. QED
    BY <2>1, <2>2, <2>3
<1>2. IInv /\ [Next]_vars => [KernelStep => JobsLeft' < JobsLeft]_vars
  BY JobsGoOn DEF KernelStep
<1>3. IInv /\ [Next]_vars =>
        [lock.op # "free" => lock' = Free \/ (lock' = lock /\ KernelStep)]_vars
  BY LockLeavesKernel
<1>4. QED
  BY Invariance, <1>1, <1>2, <1>3, PTL DEF Spec

-----------------------------------------------------------------------------
(* How long a drain takes.                                                  *)

(* No buffer is twice in a queue. *)
Distinct ==
  \A x \in Ctx \X Queue : \A i, j \in 1..Len(queue[x]) :
    queue[x][i] = queue[x][j] => i = j

(* What a step does to a queue: nothing, all buffers back, the first one    *)
(* back, or a buffer that was not in it at the end.                         *)
QueueMove(x) ==
  \/ queue'[x] \in {queue[x], << >>}
  \/ queue[x] # << >> /\ queue'[x] = Tail(queue[x])
  \/ \E b \in Buf : /\ \A i \in DOMAIN queue[x] : queue[x][i] # b
                    /\ queue'[x] = Append(queue[x], b)

LEMMA QueueMoves ==
  ASSUME IInv, Next
  PROVE  \A x \in Ctx \X Queue : QueueMove(x)
<1> USE QueueNames DEF IInv, TypeOK, FilesOK, QueueMove, ctxVars, Rest
<1>1. ASSUME NEW c \in Ctx, FileStep(c) PROVE \A x \in Ctx \X Queue : QueueMove(x)
  <2>1. CASE ReleaseFinish(c)
    BY <2>1 DEF ReleaseFinish
  <2>2. CASE EncStopEmpty(c)
    <3>1. CASE queue' = queue
      BY <3>1
    <3>2. CASE /\ Ready(c, "cap") # << >>
               /\ queue' = [queue EXCEPT ![<<c, "cap">>] = Rest(c, "cap")]
      <4>1. queue[<<c, "cap">>] # << >>
        BY <3>2 DEF Ready
      <4>2. QED
        BY <3>2, <4>1
    <3>3. QED
      BY <2>2, <3>1, <3>2 DEF EncStopEmpty
  <2>3. CASE Open(c) \/ EncStopPending(c) \/ EncStart(c) \/ ReleaseBegin(c)
    BY <2>3 DEF Open, EncStopPending, EncStart, ReleaseBegin
  <2>4. QED
    BY <1>1, <2>1, <2>2, <2>3 DEF FileStep
<1>2. ASSUME NEW c \in Ctx, NEW q \in Queue, QueueStep(c, q)
      PROVE  \A x \in Ctx \X Queue : QueueMove(x)
  <2>1. ASSUME NEW g \in Geom, SetFormat(c, q, g)
        PROVE  \A x \in Ctx \X Queue : QueueMove(x)
    BY <2>1 DEF SetFormat
  <2>2. CASE RequestBuffers(c, q)
    BY <2>2 DEF RequestBuffers
  <2>3. ASSUME NEW b \in Buf, QueueBuffer(c, q, b)
        PROVE  \A x \in Ctx \X Queue : QueueMove(x)
    <3>1. /\ queue' = [queue EXCEPT ![<<c, q>>] = Append(@, b)]
          /\ \A i \in DOMAIN queue[<<c, q>>] : queue[<<c, q>>][i] # b
      BY <2>3 DEF QueueBuffer, QueuedBufs
    <3>2. QED
      BY <3>1
  <2>4. CASE GiveBuffers(c, q)
    BY <2>4 DEF GiveBuffers
  <2>5. CASE StreamOffFinish(c, q)
    <3>1. CASE queue' = [queue EXCEPT ![<<c, q>>] = << >>]
      BY <3>1
    <3>2. CASE StopDrain(c, q)
      <4>1. CASE queue' = [queue EXCEPT ![<<c, q>>] = << >>]
        BY <4>1
      <4>2. CASE /\ Ready(c, "cap") # << >>
                 /\ queue' = [queue EXCEPT ![<<c, "out">>] = << >>,
                                           ![<<c, "cap">>] = Rest(c, "cap")]
        <5>1. queue[<<c, "cap">>] # << >>
          BY <4>2 DEF Ready
        <5>2. QED
          BY <4>2, <5>1
      <4>3. QED
        BY <3>2, <4>1, <4>2 DEF StopDrain, Queue
    <3>3. QED
      BY <2>5, <3>1, <3>2 DEF StreamOffFinish
  <2>6. QED
    BY <1>2, <2>1, <2>2, <2>3, <2>4, <2>5
    DEF QueueStep, StreamOnBusy, StreamOnFails, StreamOn, StreamOffBegin
<1>3. ASSUME NEW c \in Ctx, NEW b \in Buf, QueueLastBuffer(c, b)
      PROVE  \A x \in Ctx \X Queue : QueueMove(x)
  BY <1>3 DEF QueueLastBuffer
<1>4. ASSUME NEW c \in Ctx, JobStep(c) PROVE \A x \in Ctx \X Queue : QueueMove(x)
  <2>1. CASE WorkFinish(c)
    <3>1. queue[<<c, "out">>] # << >> /\ queue[<<c, "cap">>] # << >>
      BY <2>1 DEF WorkFinish, JobInv, HasBuffers
    <3>2. queue' = [queue EXCEPT ![<<c, "out">>] = Rest(c, "out"),
                                 ![<<c, "cap">>] = Rest(c, "cap")]
      BY <2>1 DEF WorkFinish
    <3>3. QED
      BY <3>1, <3>2
  <2>2. QED
    BY <1>4, <2>1 DEF JobStep, RunJob, WorkBegin, WorkTail
<1>5. QED
  BY <1>1, <1>2, <1>3, <1>4 DEF Next

LEMMA DistinctStep ==
  ASSUME IInv, Distinct, Next
  PROVE  Distinct'
<1> SUFFICES ASSUME NEW x \in Ctx \X Queue
             PROVE  \A i, j \in 1..Len(queue'[x]) : queue'[x][i] = queue'[x][j] => i = j
  BY DEF Distinct
<1> DEFINE s == queue[x]
<1> DEFINE t == queue'[x]
<1>1. s \in Seq(Buf) /\ QueueMove(x) /\ \A i, j \in 1..Len(s) : s[i] = s[j] => i = j
  BY QueueMoves DEF IInv, TypeOK, FilesOK, Distinct
<1>2. CASE t \in {s, << >>}
  BY <1>1, <1>2
<1>3. CASE s # << >> /\ t = Tail(s)
  <2>1. Len(t) = Len(s) - 1 /\ \A i \in 1..Len(t) : t[i] = s[i + 1] /\ i + 1 \in 1..Len(s)
    BY <1>1, <1>3
  <2>2. ASSUME NEW i \in 1..Len(t), NEW j \in 1..Len(t), t[i] = t[j] PROVE i = j
    <3>1. s[i + 1] = s[j + 1] /\ i + 1 \in 1..Len(s) /\ j + 1 \in 1..Len(s)
      BY <2>1, <2>2
    <3>2. i + 1 = j + 1
      BY <1>1, <3>1
    <3>3. QED
      BY <3>2
  <2>3. QED
    BY <2>2
<1>4. ASSUME NEW b \in Buf, \A i \in DOMAIN s : s[i] # b, t = Append(s, b)
      PROVE  \A i, j \in 1..Len(t) : t[i] = t[j] => i = j
  <2>1. /\ Len(t) = Len(s) + 1 /\ t[Len(s) + 1] = b /\ Len(s) \in Nat
        /\ \A i \in 1..Len(s) : t[i] = s[i] /\ s[i] # b
    BY <1>1, <1>4
  <2>2. ASSUME NEW i \in 1..Len(t), NEW j \in 1..Len(t), t[i] = t[j] PROVE i = j
    <3>1. i \in 1..Len(s) \/ i = Len(s) + 1
      BY <2>1
    <3>2. j \in 1..Len(s) \/ j = Len(s) + 1
      BY <2>1
    <3> HIDE DEF s, t
    <3>3. QED
      BY <1>1, <2>1, <2>2, <3>1, <3>2
  <2>3. QED
    BY <2>2
<1>5. QED
  BY <1>1, <1>2, <1>3, <1>4 DEF QueueMove

(* The drain of c ends with the picture at position i of OUTPUT.            *)
LastAt(c, i) ==
  /\ c \in draining \ nextLast
  /\ <<c, "out">> \in streaming
  /\ i \in 1..Len(queue[<<c, "out">>])
  /\ queue[<<c, "out">>][i] = lastSrc[c]
  /\ i = 1 => ~InTail(c)

(* What a step may do with the drain of c: leave it alone, finish the       *)
(* picture in front of it, end it with its last picture, or stop streaming. *)
CountsDown(c, i) ==
  \/ LastAt(c, i)' /\ ~WorkFinish(c)
  \/ i > 1 /\ WorkFinish(c) /\ LastAt(c, i - 1)'
  \/ i = 1 /\ WorkTail(c) /\ c \in stopped' /\ c \notin draining'
  \/ \E q \in Queue : <<c, q>> \in streaming \ streaming'

LEMMA LastKept ==
  ASSUME NEW c \in Ctx, NEW i \in Nat, LastAt(c, i), ~WorkFinish(c),
         c \in draining' \ nextLast', <<c, "out">> \in streaming',
         queue'[<<c, "out">>] = queue[<<c, "out">>], lastSrc'[c] = lastSrc[c],
         InTail(c)' => InTail(c)
  PROVE  CountsDown(c, i)
  BY DEF LastAt, CountsDown

LEMMA DrainStep ==
  ASSUME IInv, Distinct, Next, NEW c \in Ctx, NEW i \in Nat, LastAt(c, i)
  PROVE  CountsDown(c, i)
<1> USE ConstantsOK, QueueNames DEF IInv, TypeOK, FilesOK, DrainsOK,
        ctxVars, drainVars, jobVars
<1> DEFINE s == queue[<<c, "out">>]
<1>s. s \in Seq(Buf) /\ s # << >> /\ <<c, "out">> \in Ctx \X Queue
  BY DEF LastAt
<1>d. c \in draining /\ c \notin nextLast /\ <<c, "out">> \in streaming
  BY DEF LastAt
<1>1. ASSUME NEW d \in Ctx, FileStep(d) PROVE CountsDown(c, i)
  <2>1. ~WorkFinish(c)
    BY <1>1 DEF FileStep, Open, ReleaseBegin, ReleaseFinish, EncStopPending,
                EncStopEmpty, EncStart, WorkFinish, StopCommand, Ioctl, Free
  <2>2. CASE ReleaseFinish(d)
    <3>1. CASE d = c
      BY <2>2, <3>1, <1>d DEF ReleaseFinish, CountsDown
    <3>2. CASE d # c
      BY <2>1, <2>2, <3>2, <1>d, LastKept DEF ReleaseFinish, InTail
    <3>3. QED
      BY <3>1, <3>2
  <2>3. CASE EncStopPending(d) \/ EncStopEmpty(d)
    <3>1. d # c
      BY <2>3, <1>d DEF EncStopPending, EncStopEmpty, StopCommand
    <3>2. QED
      BY <2>1, <2>3, <3>1, <1>d, LastKept DEF EncStopPending, EncStopEmpty, InTail
  <2>4. CASE Open(d) \/ ReleaseBegin(d) \/ EncStart(d)
    BY <2>1, <2>4, <1>d, LastKept DEF Open, ReleaseBegin, EncStart, InTail
  <2>5. QED
    BY <1>1, <2>2, <2>3, <2>4 DEF FileStep
<1>2. ASSUME NEW d \in Ctx, NEW q \in Queue, QueueStep(d, q) PROVE CountsDown(c, i)
  <2>1. ~WorkFinish(c)
    BY <1>2, <1>s DEF QueueStep, SetFormat, RequestBuffers, QueueBuffer, StreamOnBusy,
          StreamOnFails, StreamOn, StreamOffBegin, StreamOffFinish, WorkFinish
  <2>2. ASSUME NEW g \in Geom, SetFormat(d, q, g) PROVE CountsDown(c, i)
    BY <2>1, <2>2, <1>d, LastKept DEF SetFormat, InTail
  <2>3. CASE RequestBuffers(d, q)
    <3>1. <<d, q>> # <<c, "out">>
      BY <2>3, <1>d DEF RequestBuffers
    <3>2. QED
      BY <2>1, <2>3, <3>1, <1>d, LastKept DEF RequestBuffers, InTail
  <2>4. ASSUME NEW b \in Buf, QueueBuffer(d, q, b) PROVE CountsDown(c, i)
    <3>1. CASE <<d, q>> # <<c, "out">>
      BY <2>1, <2>4, <3>1, <1>d, LastKept DEF QueueBuffer, InTail
    <3>2. CASE <<d, q>> = <<c, "out">>
      <4>1. queue'[<<c, "out">>] = Append(s, b)
        BY <2>4, <3>2 DEF QueueBuffer
      <4>2. i \in 1..Len(queue'[<<c, "out">>]) /\ queue'[<<c, "out">>][i] = s[i]
        BY <4>1, <1>s DEF LastAt
      <4>3. UNCHANGED <<draining, nextLast, streaming, lastSrc, curr, pc>>
        BY <2>4 DEF QueueBuffer
      <4>4. LastAt(c, i)'
        BY <4>2, <4>3 DEF LastAt, InTail
      <4>5. QED
        BY <2>1, <4>4 DEF CountsDown
    <3>3. QED
      BY <3>1, <3>2
  <2>5. ASSUME <<d, q>> \notin streaming, GiveBuffers(d, q), UNCHANGED <<curr, pc>>,
               streaming \subseteq streaming',
               lastSrc' = lastSrc \/ (q = "out" /\ lastSrc' = [lastSrc EXCEPT ![d] = NoBuf])
        PROVE  CountsDown(c, i)
    <3>1. <<d, q>> # <<c, "out">>
      BY <2>5, <1>d
    <3>2. lastSrc'[c] = lastSrc[c]
      BY <2>5, <3>1
    <3>3. queue'[<<c, "out">>] = s /\ c \in draining' \ nextLast'
      BY <2>5, <3>1, <1>d DEF GiveBuffers, MarkLast
    <3>4. QED
      BY <2>1, <2>5, <3>2, <3>3, <1>d, LastKept DEF InTail
  <2>6. CASE StreamOnBusy(d, q) \/ StreamOnFails(d, q) \/ StreamOn(d, q)
    BY <2>5, <2>6 DEF StreamOnBusy, StreamOnFails, StreamOn, StreamOnAllowed
  <2>7. CASE StreamOffBegin(d, q)
    BY <2>1, <2>7, <1>d, LastKept DEF StreamOffBegin, InTail
  <2>8. CASE StreamOffFinish(d, q)
    <3>1. CASE d = c /\ <<c, q>> \in streaming
      BY <2>8, <3>1 DEF StreamOffFinish, CountsDown
    <3>2. CASE d = c /\ <<c, q>> \notin streaming
      <4>1. q # "out"
        BY <3>2, <1>d
      <4>2. QED
        BY <2>1, <2>8, <3>2, <4>1, <1>d, LastKept DEF StreamOffFinish, InTail
    <3>3. CASE d # c
      <4>1. <<c, "out">> \in streaming'
        BY <2>8, <3>3, <1>d DEF StreamOffFinish
      <4>2. /\ c \in draining' /\ c \notin nextLast' /\ lastSrc'[c] = lastSrc[c]
        BY <2>8, <3>3, <1>d DEF StreamOffFinish, StopDrain, MarkLast
      <4>3. InTail(c)' => InTail(c)
        BY <2>8 DEF StreamOffFinish, InTail
      <4>4. queue'[<<c, "out">>] = queue[<<c, "out">>]
        BY <2>8, <3>3 DEF StreamOffFinish, StopDrain
      <4>5. QED
        BY <2>1, <4>1, <4>2, <4>3, <4>4, LastKept
    <3>4. QED
      BY <3>1, <3>2, <3>3
  <2>9. QED
    BY <1>2, <2>2, <2>3, <2>4, <2>6, <2>7, <2>8 DEF QueueStep
<1>3. ASSUME NEW d \in Ctx, NEW b \in Buf, QueueLastBuffer(d, b) PROVE CountsDown(c, i)
  <2>1. d # c
    BY <1>3, <1>d DEF QueueLastBuffer
  <2>2. ~WorkFinish(c)
    BY <1>3, <1>s DEF QueueLastBuffer, WorkFinish
  <2>3. QED
    BY <1>3, <2>1, <2>2, <1>d, LastKept DEF QueueLastBuffer, MarkLast, InTail
<1>4. ASSUME NEW d \in Ctx, JobStep(d) PROVE CountsDown(c, i)
  <2>1. CASE RunJob(d) \/ WorkBegin(d)
    <3>1. ~WorkFinish(c)
      BY <2>1 DEF RunJob, WorkBegin, WorkFinish
    <3>2. QED
      BY <2>1, <3>1, <1>d, LastKept DEF RunJob, WorkBegin, InTail
  <2>2. CASE WorkTail(d)
    <3>1. ~WorkFinish(c)
      BY <2>2 DEF WorkTail, WorkFinish
    <3>2. CASE d # c
      BY <2>2, <3>1, <3>2, <1>d, LastKept DEF WorkTail, MarkLast, InTail
    <3>3. CASE d = c /\ i = 1
      <4>1. LastOfDrain(c)
        BY <3>3, <1>s, <1>d DEF LastAt, LastOfDrain
      <4>2. QED
        BY <2>2, <3>3, <4>1 DEF WorkTail, MarkLast, CountsDown
    <3>4. CASE d = c /\ i # 1
      <4>1. 1 \in 1..Len(s) /\ Head(s) = s[1] /\ i \in 1..Len(s) /\ s[i] = lastSrc[c]
        BY <1>s DEF LastAt
      <4>2. Head(s) # lastSrc[c]
        BY <3>4, <4>1, <1>s DEF Distinct
      <4>3. UNCHANGED <<draining, nextLast, queue, streaming, lastSrc>>
        BY <2>2, <3>4, <4>2 DEF WorkTail, LastOfDrain
      <4>4. LastAt(c, i)'
        BY <3>4, <4>1, <4>3, <1>d DEF LastAt
      <4>5. QED
        BY <3>1, <4>4 DEF CountsDown
    <3>5. QED
      BY <3>2, <3>3, <3>4
  <2>3. CASE WorkFinish(d)
    <3>1. CASE d # c
      <4>1. ~WorkFinish(c)
        BY <2>3, <3>1 DEF WorkFinish
      <4>2. QED
        BY <2>3, <3>1, <4>1, <1>d, LastKept DEF WorkFinish, InTail
    <3>2. CASE d = c
      <4>1. i # 1 /\ i \in 1..Len(s) /\ s[i] = lastSrc[c]
        BY <2>3, <3>2 DEF WorkFinish, LastAt, InTail
      <4>2. queue'[<<c, "out">>] = Tail(s)
        BY <2>3, <3>2 DEF WorkFinish, Rest
      <4>3. i > 1 /\ i - 1 \in 1..Len(Tail(s)) /\ Tail(s)[i - 1] = s[i]
        BY <4>1, <1>s
      <4>4. /\ UNCHANGED <<draining, nextLast, streaming, lastSrc>>
            /\ curr' = NoCtx
        BY <2>3 DEF WorkFinish
      <4>5. LastAt(c, i - 1)'
        BY <4>1, <4>2, <4>3, <4>4, <1>d DEF LastAt, InTail
      <4>6. QED
        BY <2>3, <3>2, <4>3, <4>5 DEF CountsDown
    <3>3. QED
      BY <3>1, <3>2
  <2>4. QED
    BY <1>4, <2>1, <2>2, <2>3 DEF JobStep
<1>5. QED
  BY <1>1, <1>2, <1>3, <1>4 DEF Next

(* What makes DrainEnds hold, for any number of queued pictures: a drain    *)
(* whose last picture is the i-th in OUTPUT ends with the i-th job, neither *)
(* earlier nor later, whatever is queued behind it and whoever else works,  *)
(* unless the application stops one of its queues.                          *)
THEOREM DrainsCountDown ==
  Spec => [][\A c \in Ctx, i \in Nat : LastAt(c, i) => CountsDown(c, i)]_vars
<1>1. Init => Distinct
  BY DEF Init, Distinct
<1>2. IInv /\ Distinct /\ [Next]_vars => Distinct'
  <2>1. CASE UNCHANGED vars
    BY <2>1 DEF Distinct, vars, ctxVars
  <2>2. QED
    BY <2>1, DistinctStep
<1>3. IInv /\ Distinct /\ [Next]_vars =>
        [\A c \in Ctx, i \in Nat : LastAt(c, i) => CountsDown(c, i)]_vars
  BY DrainStep
<1>4. QED
  BY Invariance, <1>1, <1>2, <1>3, PTL DEF Spec

-----------------------------------------------------------------------------
(* A running job is left alone.                                             *)

(* The first buffer of a queue stays where hc_work found it.                *)
KeepsFirst(c, q) ==
  /\ queue[<<c, q>>] # << >>
  /\ queue'[<<c, q>>] # << >>
  /\ Head(queue'[<<c, q>>]) = Head(queue[<<c, q>>])

(* The lease, what the hardware is set up for and the geometry stay.        *)
KeepsEncoder(c) ==
  /\ UNCHANGED <<streamer, hw>>
  /\ c \in hwReady'
  /\ geom'[c] = geom[c]

KeepsBuffers(c) ==
  /\ Streams(c)'
  /\ \A q \in Queue : KeepsFirst(c, q)

LEMMA FirstKept ==
  ASSUME IInv, NEW c \in Ctx, curr = c, NEW q \in Queue,
         \/ queue'[<<c, q>>] = queue[<<c, q>>]
         \/ \E b \in Buf : queue'[<<c, q>>] = Append(queue[<<c, q>>], b)
  PROVE  KeepsFirst(c, q)
<1> DEFINE s == queue[<<c, q>>]
<1>1. s \in Seq(Buf) /\ s # << >>
  BY DEF IInv, TypeOK, FilesOK, JobInv, HasBuffers, Queue
<1>2. ASSUME NEW b \in Buf
      PROVE  Append(s, b) # << >> /\ Head(Append(s, b)) = Head(s)
  <2>1. Len(s) >= 1 /\ Append(s, b)[1] = s[1] /\ Append(s, b) \in Seq(Buf)
    BY <1>1
  <2>2. QED
    BY <1>1, <2>1, AppendNonEmpty
<1>3. CASE queue'[<<c, q>>] = s
  BY <1>1, <1>3 DEF KeepsFirst
<1>4. ASSUME NEW b \in Buf, queue'[<<c, q>>] = Append(s, b)
      PROVE  KeepsFirst(c, q)
  <2> DEFINE t == queue'[<<c, q>>]
  <2>1. t = Append(s, b)
    BY <1>4
  <2> HIDE DEF t
  <2>2. t # << >> /\ Head(t) = Head(s)
    BY <1>2, <2>1
  <2>3. QED
    BY <1>1, <2>2 DEF KeepsFirst, t
<1>5. QED
  BY <1>3, <1>4

LEMMA JobLeftAlone ==
  ASSUME IInv, Next, NEW c \in Ctx, curr = c
  PROVE  /\ KeepsEncoder(c)
         /\ curr' = NoCtx \/ (curr' = c /\ KeepsBuffers(c))
<1> USE ConstantsOK, QueueNames DEF ctxVars, leaseVars, jobVars
<1>c. /\ Streams(c) /\ streamer = c /\ c \in hwReady /\ pc # "idle"
      /\ \A q \in Queue : <<c, q>> \in streaming /\ queue[<<c, q>>] # << >>
                            /\ bufSize[<<c, q>>] # 0
  BY DEF IInv, JobInv, HasBuffers, Streams, LeaseInv, StreamInv, Queue
<1>t. /\ geom \in [Ctx -> Geom] /\ queue \in [Ctx \X Queue -> Seq(Buf)]
  BY DEF IInv, TypeOK, FilesOK
<1>k. ASSUME UNCHANGED <<streamer, hw, hwReady, curr, queue>>, geom'[c] = geom[c],
             streaming \subseteq streaming'
      PROVE  KeepsEncoder(c) /\ curr' = c /\ KeepsBuffers(c)
  BY <1>c, <1>k, FirstKept DEF KeepsEncoder, KeepsBuffers, Streams
<1>q. ASSUME UNCHANGED <<streamer, hw, hwReady, curr, geom>>,
             streaming \subseteq streaming',
             \A q \in Queue : \/ queue'[<<c, q>>] = queue[<<c, q>>]
                              \/ \E b \in Buf : queue'[<<c, q>>] = Append(queue[<<c, q>>], b)
      PROVE  KeepsEncoder(c) /\ curr' = c /\ KeepsBuffers(c)
  BY <1>c, <1>q, FirstKept DEF KeepsEncoder, KeepsBuffers, Streams
<1>o. ASSUME NEW d \in Ctx, d # c, curr' = c, DropLease(d), hw' = hw, geom'[c] = geom[c],
             \A q \in Queue : /\ queue'[<<c, q>>] = queue[<<c, q>>]
                              /\ <<c, q>> \in streaming'
      PROVE  KeepsEncoder(c) /\ curr' = c /\ KeepsBuffers(c)
  <2>1. UNCHANGED <<streamer, hwReady>>
    BY <1>c, <1>o DEF DropLease
  <2>2. QED
    BY <1>c, <1>o, <2>1, FirstKept DEF KeepsEncoder, KeepsBuffers, Streams
<1>1. ASSUME NEW d \in Ctx, FileStep(d)
      PROVE  KeepsEncoder(c) /\ curr' = c /\ KeepsBuffers(c)
  <2>1. CASE Open(d) \/ ReleaseBegin(d) \/ EncStopPending(d) \/ EncStart(d)
    BY <1>k, <2>1 DEF Open, ReleaseBegin, EncStopPending, EncStart
  <2>2. CASE ReleaseFinish(d)
    <3>1. /\ d # c /\ curr' = c /\ hw' = hw /\ DropLease(d)
      BY <2>2 DEF ReleaseFinish
    <3>2. geom'[c] = geom[c]
      BY <1>t, <2>2, <3>1 DEF ReleaseFinish
    <3>3. \A q \in Queue : queue'[<<c, q>>] = queue[<<c, q>>] /\ <<c, q>> \in streaming'
      BY <1>c, <1>t, <2>2, <3>1 DEF ReleaseFinish
    <3>4. QED
      BY <1>o, <3>1, <3>2, <3>3
  <2>3. CASE EncStopEmpty(d)
    <3>1. d # c
      BY <1>c, <2>3 DEF EncStopEmpty, Ready
    <3>2. \A q \in Queue : queue'[<<c, q>>] = queue[<<c, q>>]
      BY <1>t, <2>3, <3>1 DEF EncStopEmpty
    <3>3. UNCHANGED <<streamer, hw, hwReady, curr, geom, streaming>>
      BY <2>3 DEF EncStopEmpty
    <3>4. QED
      BY <1>q, <3>2, <3>3
  <2>4. QED
    BY <1>1, <2>1, <2>2, <2>3 DEF FileStep
<1>2. ASSUME NEW d \in Ctx, NEW r \in Queue, QueueStep(d, r)
      PROVE  KeepsEncoder(c) /\ curr' = c /\ KeepsBuffers(c)
  <2>1. ASSUME NEW g \in Geom, SetFormat(d, r, g)
        PROVE  KeepsEncoder(c) /\ curr' = c /\ KeepsBuffers(c)
    <3>1. d # c
      BY <1>c, <2>1 DEF SetFormat
    <3>2. geom'[c] = geom[c] /\ c \in hwReady'
      BY <1>c, <1>t, <2>1, <3>1 DEF SetFormat
    <3>3. UNCHANGED <<streamer, hw, curr, queue, streaming>>
      BY <2>1 DEF SetFormat
    <3>4. QED
      BY <1>c, <3>2, <3>3, FirstKept DEF KeepsEncoder, KeepsBuffers, Streams
  <2>2. CASE RequestBuffers(d, r)
    <3>1. d # c
      BY <1>c, <2>2 DEF RequestBuffers
    <3>2. \A q \in Queue : queue'[<<c, q>>] = queue[<<c, q>>]
      BY <1>t, <2>2, <3>1 DEF RequestBuffers
    <3>3. UNCHANGED <<streamer, hw, hwReady, curr, geom, streaming>>
      BY <2>2 DEF RequestBuffers
    <3>4. QED
      BY <1>q, <3>2, <3>3
  <2>3. ASSUME NEW b \in Buf, QueueBuffer(d, r, b)
        PROVE  KeepsEncoder(c) /\ curr' = c /\ KeepsBuffers(c)
    <3>1. queue' = [queue EXCEPT ![<<d, r>>] = Append(@, b)]
      BY <2>3 DEF QueueBuffer
    <3>2. \A q \in Queue : \/ queue'[<<c, q>>] = queue[<<c, q>>]
                           \/ queue'[<<c, q>>] = Append(queue[<<c, q>>], b)
      BY <1>t, <3>1
    <3>3. UNCHANGED <<streamer, hw, hwReady, curr, geom, streaming>>
      BY <2>3 DEF QueueBuffer
    <3>4. QED
      BY <1>q, <3>2, <3>3
  <2>4. CASE StreamOnBusy(d, r) \/ StreamOnFails(d, r) \/ StreamOn(d, r)
    <3>1. StreamOnAllowed(d, r) /\ d # c /\ GiveBuffers(d, r)
      BY <1>c, <2>4 DEF StreamOnBusy, StreamOnFails, StreamOn, StreamOnAllowed
    <3>2. ~GateOpen(d)
      BY <1>c, <3>1 DEF GateOpen
    <3>3. UNCHANGED <<streamer, hw, hwReady, curr, geom, streaming>>
      BY <2>4, <3>2 DEF StreamOnBusy, StreamOnFails, StreamOn
    <3>4. \A q \in Queue : queue'[<<c, q>>] = queue[<<c, q>>]
      BY <1>t, <3>1 DEF GiveBuffers
    <3>5. QED
      BY <1>q, <3>3, <3>4
  <2>5. CASE StreamOffBegin(d, r)
    BY <1>k, <2>5 DEF StreamOffBegin
  <2>6. CASE StreamOffFinish(d, r)
    <3>1. d # c /\ <<d, r>> \notin streaming
      BY <1>c, <2>6, <1>2 DEF StreamOffFinish, Flushed
    <3>2. UNCHANGED <<streamer, hw, hwReady, curr, geom, streaming>>
          /\ queue' = [queue EXCEPT ![<<d, r>>] = << >>]
      BY <2>6, <3>1 DEF StreamOffFinish
    <3>3. \A q \in Queue : queue'[<<c, q>>] = queue[<<c, q>>]
      BY <1>t, <3>1, <3>2
    <3>4. QED
      BY <1>q, <3>2, <3>3
  <2>7. QED
    BY <1>2, <2>1, <2>2, <2>3, <2>4, <2>5, <2>6 DEF QueueStep
<1>3. ASSUME NEW d \in Ctx, NEW b \in Buf, QueueLastBuffer(d, b)
      PROVE  KeepsEncoder(c) /\ curr' = c /\ KeepsBuffers(c)
  BY <1>k, <1>3 DEF QueueLastBuffer
<1>4. ASSUME NEW d \in Ctx, JobStep(d)
      PROVE  KeepsEncoder(c) /\ (curr' = NoCtx \/ (curr' = c /\ KeepsBuffers(c)))
  <2>1. KeepsEncoder(c) /\ curr' \in {c, NoCtx}
    BY <1>c, <1>4 DEF JobStep, RunJob, WorkBegin, WorkTail, WorkFinish, KeepsEncoder
  <2>2. CASE curr' = c
    <3>1. UNCHANGED <<queue, streaming>>
      BY <1>c, <1>4, <2>2 DEF JobStep, RunJob, WorkBegin, WorkTail, WorkFinish
    <3>2. QED
      BY <1>c, <2>1, <2>2, <3>1, FirstKept DEF KeepsBuffers, Streams
  <2>3. QED
    BY <2>1, <2>2
<1>5. QED
  BY <1>1, <1>2, <1>3, <1>4 DEF Next

(* From the moment a job runs to its last step nothing any handle does      *)
(* reaches it: the lease, the programming of the hardware and the geometry  *)
(* stay as they are, its queues go on streaming, and the two buffers        *)
(* hc_work peeked at are still first in their queues when it takes them.    *)
THEOREM JobUndisturbed ==
  Spec => [][curr # NoCtx =>
               /\ KeepsEncoder(curr)
               /\ curr' = NoCtx \/ (curr' = curr /\ KeepsBuffers(curr))]_vars
<1>1. ASSUME IInv, Next, curr # NoCtx
      PROVE  /\ KeepsEncoder(curr)
             /\ curr' = NoCtx \/ (curr' = curr /\ KeepsBuffers(curr))
  <2>1. curr \in Ctx
    BY <1>1 DEF IInv, TypeOK, JobsOK
  <2>2. QED
    BY <1>1, <2>1, JobLeftAlone
<1>2. IInv /\ [Next]_vars =>
        [curr # NoCtx =>
           /\ KeepsEncoder(curr)
           /\ curr' = NoCtx \/ (curr' = curr /\ KeepsBuffers(curr))]_vars
  BY <1>1
<1>3. QED
  BY Invariance, <1>2, PTL DEF Spec
=============================================================================

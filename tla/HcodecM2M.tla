----------------------------- MODULE HcodecM2M ------------------------------
(***************************************************************************)
(* The V4L2 memory-to-memory half of tools/hcodec-mod/meson_hcodec.c: file *)
(* handles (ctx) with an OUTPUT queue of raw pictures and a CAPTURE queue  *)
(* of H.264, the lease on the only encoder (hc_streamer, hw_ready), the    *)
(* job that encodes one picture in a workqueue, the drain of ENC_CMD_STOP, *)
(* STREAMOFF and close.                                                    *)
(*                                                                         *)
(* Every ioctl runs under hc_lock and is one action, except STREAMOFF and  *)
(* close, which wait for a running job with the lock held and so are two.  *)
(* hc_work takes no lock: its three steps interleave with every ioctl.     *)
(* What it computes (QP, headers, counters) is module HcodecEncode.        *)
(* v4l2-mem2mem and videobuf2 of Linux 5.10 are modelled as the driver     *)
(* relies on them.                                                         *)
(***************************************************************************)
EXTENDS Naturals, Sequences

CONSTANTS
  Ctx,              \* the file handles an application may open
  NoCtx,            \* "no context"
  Buf,              \* the buffers of a queue
  NoBuf,            \* "no buffer"
  Geom,             \* picture geometries, by the bytes a source picture takes
  DefaultGeom,      \* the geometry hc_open gives a new context
  BsMin, BsMax,     \* HC_BS_MIN and HC_BS_MAX on the scale of Geom
  MaxSeq,           \* the sequence counter is observed up to this value
  StopMayRaceTail   \* FALSE: the application sends no ENC_CMD_STOP in the
                    \* window between a job's drain check and its completion

ASSUME ConstantsOK ==
  /\ NoCtx \notin Ctx
  /\ NoBuf \notin Buf
  /\ Geom \subseteq Nat \ {0}
  /\ DefaultGeom \in Geom
  /\ BsMin \in Nat \ {0} /\ BsMax \in Nat \ {0} /\ BsMin <= BsMax
  /\ MaxSeq \in Nat
  /\ StopMayRaceTail \in BOOLEAN

Queue == {"out", "cap"}

VARIABLES
  fileState, \* Ctx -> closed, open or closing (inside hc_release)
  geom,      \* ctx->width and height
  hwReady,   \* the contexts with ctx->hw_ready
  streamer,  \* hc_streamer
  hw,        \* the encoder: the context and geometry set up, AMRISC running
  bufSize,   \* Ctx \X Queue -> size of the allocated buffers, 0 when none
  queue,     \* Ctx \X Queue -> the buffers queued and not handed back
  streaming, \* the queues that are streaming
  draining,  \* is_draining
  nextLast,  \* next_buf_last
  stopped,   \* has_stopped
  lastSrc,   \* last_src_buf
  seqno,     \* ctx->sequence
  lastCount, \* history: LAST buffers of the current drain
  queued,    \* the contexts in job_queue that do not run (TRANS_QUEUED)
  curr,      \* curr_ctx, the running job (TRANS_RUNNING)
  pc,        \* where hc_work is for it
  lock       \* hc_lock, when an ioctl waits for a job with it held

ctxVars   == <<fileState, geom, bufSize, queue, streaming>>
drainVars == <<draining, nextLast, stopped, lastSrc, lastCount>>
leaseVars == <<streamer, hw, hwReady>>
jobVars   == <<queued, curr, pc>>
vars      == <<ctxVars, drainVars, leaseVars, jobVars, seqno, lock>>

Free == [op |-> "free", ctx |-> NoCtx, q |-> "out"]

FilesOK ==
  /\ fileState \in [Ctx -> {"closed", "open", "closing"}]
  /\ geom \in [Ctx -> Geom]
  /\ bufSize \in [Ctx \X Queue -> Nat]
  /\ queue \in [Ctx \X Queue -> Seq(Buf)]
  /\ streaming \subseteq Ctx \X Queue

DrainsOK ==
  /\ draining \subseteq Ctx
  /\ nextLast \subseteq Ctx
  /\ stopped \subseteq Ctx
  /\ lastSrc \in [Ctx -> Buf \cup {NoBuf}]
  /\ lastCount \in [Ctx -> Nat]
  /\ seqno \in [Ctx -> 0..MaxSeq]

EncoderOK ==
  /\ streamer \in Ctx \cup {NoCtx}
  /\ hw \in [ctx : Ctx \cup {NoCtx}, geom : Geom, running : BOOLEAN]
  /\ hwReady \subseteq Ctx

JobsOK ==
  /\ queued \subseteq Ctx
  /\ curr \in Ctx \cup {NoCtx}
  /\ pc \in {"idle", "queued", "encoding", "checked"}
  /\ lock \in [op : {"free", "streamoff", "release"},
               ctx : Ctx \cup {NoCtx}, q : Queue]

TypeOK == FilesOK /\ DrainsOK /\ EncoderOK /\ JobsOK

Init ==
  /\ fileState = [c \in Ctx |-> "closed"]
  /\ geom = [c \in Ctx |-> DefaultGeom]
  /\ hwReady = {}
  /\ streamer = NoCtx
  /\ hw = [ctx |-> NoCtx, geom |-> DefaultGeom, running |-> FALSE]
  /\ bufSize = [x \in Ctx \X Queue |-> 0]
  /\ queue = [x \in Ctx \X Queue |-> << >>]
  /\ streaming = {}
  /\ draining = {}
  /\ nextLast = {}
  /\ stopped = {}
  /\ lastSrc = [c \in Ctx |-> NoBuf]
  /\ seqno = [c \in Ctx |-> 0]
  /\ lastCount = [c \in Ctx |-> 0]
  /\ queued = {}
  /\ curr = NoCtx
  /\ pc = "idle"
  /\ lock = Free

-----------------------------------------------------------------------------
(* Helpers                                                                  *)

(* An ioctl of c gets hc_lock: nobody sleeps with it and the file is open. *)
Ioctl(c) ==
  /\ lock = Free
  /\ fileState[c] = "open"

Streams(c) == <<c, "out">> \in streaming /\ <<c, "cap">> \in streaming

(* The driver's ready list of a queue: it owns buffers only while streaming. *)
Ready(c, q) == IF <<c, q>> \in streaming THEN queue[<<c, q>>] ELSE << >>

Rest(c, q) == Tail(queue[<<c, q>>])

QueuedBufs(c, q) == {queue[<<c, q>>][i] : i \in DOMAIN queue[<<c, q>>]}

(* sizeimage of a picture of geometry g, and bs_size, which is clamped. *)
Want(q, g) ==
  IF q = "out" THEN g
  ELSE IF g < BsMin THEN BsMin ELSE IF g > BsMax THEN BsMax ELSE g

(* mutant: a stopped context goes on encoding. *)
JobReadyStopped(c) ==
  /\ Streams(c)
  /\ queue[<<c, "out">>] # << >>
  /\ queue[<<c, "cap">>] # << >>
  /\ lock.ctx # c
  /\ curr # c

(* __v4l2_m2m_try_queue: what makes a job of c runnable. *)
JobReady(c) ==
  /\ Streams(c)
  /\ queue[<<c, "out">>] # << >>
  /\ queue[<<c, "cap">>] # << >>
  /\ c \notin stopped
  /\ lock.ctx # c        \* TRANS_ABORT
  /\ curr # c            \* TRANS_QUEUED is kept while the job runs

(* v4l2_m2m_try_schedule, on the state the operation leaves behind. *)
TrySchedule(c) ==
  queued' = IF JobReady(c)' THEN queued \cup {c} ELSE queued

(* mutant: the drain is not over when LAST is marked. *)
MarkLastStillDraining(c) ==
  /\ stopped' = stopped \cup {c}
  /\ lastCount' = [lastCount EXCEPT ![c] = @ + 1]
  /\ UNCHANGED <<draining, nextLast>>

(* v4l2_m2m_mark_stopped, with the LAST flag it goes with. *)
MarkLast(c) ==
  /\ draining' = draining \ {c}
  /\ nextLast' = nextLast \ {c}
  /\ stopped' = stopped \cup {c}
  /\ lastCount' = [lastCount EXCEPT ![c] = @ + 1]

-----------------------------------------------------------------------------
(* Files, formats and buffers                                               *)

(* mutant: hc_open forgets hc_set_geom. *)
OpenUnset(c) ==
  /\ lock = Free
  /\ fileState[c] = "closed"
  /\ fileState' = [fileState EXCEPT ![c] = "open"]
  /\ geom' = [geom EXCEPT ![c] = 0]
  /\ UNCHANGED <<bufSize, queue, streaming, drainVars, leaseVars, jobVars,
                 seqno, lock>>

(* hc_open: any number of handles; the encoder is not touched. *)
Open(c) ==
  /\ lock = Free
  /\ fileState[c] = "closed"
  /\ fileState' = [fileState EXCEPT ![c] = "open"]
  /\ UNCHANGED <<geom, bufSize, queue, streaming, drainVars, leaseVars,
                 jobVars, seqno, lock>>

(* mutant: hw_ready survives a change of geometry. *)
SetFormatKeepsReady(c, q, g) ==
  /\ Ioctl(c)
  /\ bufSize[<<c, q>>] = 0
  /\ geom' = [geom EXCEPT ![c] = g]
  /\ UNCHANGED <<fileState, bufSize, queue, streaming, drainVars, leaseVars,
                 jobVars, seqno, lock>>

(* hc_s_fmt_out and hc_s_fmt_cap: -EBUSY while that queue has buffers,      *)
(* otherwise hc_set_geom changes the geometry both queues share.            *)
SetFormat(c, q, g) ==
  /\ Ioctl(c)
  /\ bufSize[<<c, q>>] = 0
  /\ geom' = [geom EXCEPT ![c] = g]
  /\ hwReady' = hwReady \ {c}
  /\ UNCHANGED <<fileState, bufSize, queue, streaming, drainVars, streamer, hw,
                 jobVars, seqno, lock>>

(* VIDIOC_REQBUFS, sized by hc_queue_setup: 0 frees; -EBUSY when streaming. *)
RequestBuffers(c, q) ==
  /\ Ioctl(c)
  /\ <<c, q>> \notin streaming
  /\ \E size \in {0, Want(q, geom[c])} :
       bufSize' = [bufSize EXCEPT ![<<c, q>>] = size]
  /\ queue' = [queue EXCEPT ![<<c, q>>] = << >>]
  /\ UNCHANGED <<fileState, geom, streaming, drainVars, leaseVars, jobVars,
                 seqno, lock>>

(* VIDIOC_QBUF of a plain buffer: hc_buf_prepare refuses one smaller than   *)
(* the present format needs, hc_buf_queue hands the rest to the job queue.  *)
QueueBuffer(c, q, b) ==
  /\ Ioctl(c)
  /\ bufSize[<<c, q>>] >= Want(q, geom[c])
  /\ b \notin QueuedBufs(c, q)
  /\ ~(<<c, q>> \in streaming /\ q = "cap" /\ c \in draining \cap nextLast)
  /\ queue' = [queue EXCEPT ![<<c, q>>] = Append(@, b)]
  /\ UNCHANGED <<fileState, geom, bufSize, streaming, drainVars, leaseVars,
                 curr, pc, seqno, lock>>
  /\ TrySchedule(c)

(* mutant: hc_buf_queue does not know the drain that waits for a buffer. *)
QueueLastAsPlain(c, b) ==
  /\ Ioctl(c)
  /\ bufSize[<<c, "cap">>] >= Want("cap", geom[c])
  /\ b \notin QueuedBufs(c, "cap")
  /\ <<c, "cap">> \in streaming
  /\ c \in draining \cap nextLast
  /\ queue' = [queue EXCEPT ![<<c, "cap">>] = Append(@, b)]
  /\ UNCHANGED <<fileState, geom, bufSize, streaming, drainVars, leaseVars,
                 curr, pc, seqno, lock>>
  /\ TrySchedule(c)

(* The second half of hc_buf_queue: a drain waits for a CAPTURE buffer, and *)
(* this one is handed back at once, empty and flagged LAST.                 *)
QueueLastBuffer(c, b) ==
  /\ Ioctl(c)
  /\ bufSize[<<c, "cap">>] >= Want("cap", geom[c])
  /\ b \notin QueuedBufs(c, "cap")
  /\ <<c, "cap">> \in streaming
  /\ c \in draining \cap nextLast
  /\ MarkLast(c)
  /\ UNCHANGED <<ctxVars, lastSrc, leaseVars, curr, pc, seqno, lock>>
  /\ TrySchedule(c)

-----------------------------------------------------------------------------
(* STREAMON                                                                 *)

(* vb2_start_streaming first hands the queued buffers to hc_buf_queue: on   *)
(* CAPTURE a pending drain takes the first of them as its LAST buffer, even *)
(* if the STREAMON then fails.                                              *)
GiveBuffers(c, q) ==
  IF q = "cap" /\ c \in draining \cap nextLast /\ queue[<<c, q>>] # << >>
  THEN /\ MarkLast(c)
       /\ queue' = [queue EXCEPT ![<<c, q>>] = Rest(c, q)]
  ELSE UNCHANGED <<draining, nextLast, stopped, lastCount, queue>>

StreamOnAllowed(c, q) ==
  /\ Ioctl(c)
  /\ <<c, q>> \notin streaming
  /\ bufSize[<<c, q>>] # 0

(* mutant: no gate. *)
GateMissing(c) == TRUE

(* The gate of hc_start_streaming. *)
GateOpen(c) == streamer \in {NoCtx, c}

(* hc_start_streaming returns -EBUSY; hc_return_bufs gives the buffers back *)
(* as QUEUED, so they stay queued.                                          *)
StreamOnBusy(c, q) ==
  /\ StreamOnAllowed(c, q)
  /\ ~GateOpen(c)
  /\ GiveBuffers(c, q)
  /\ UNCHANGED <<fileState, geom, bufSize, streaming, lastSrc, leaseVars,
                 jobVars, seqno, lock>>

(* hc_hw_setup fails: the ucode did not load (AMRISC stopped) or SPS/PPS    *)
(* did not come out (AMRISC running).                                       *)
StreamOnFails(c, q) ==
  /\ StreamOnAllowed(c, q)
  /\ GateOpen(c)
  /\ c \notin hwReady
  /\ \E run \in BOOLEAN :
       hw' = [ctx |-> NoCtx, geom |-> geom[c], running |-> run]
  /\ GiveBuffers(c, q)
  /\ UNCHANGED <<fileState, geom, bufSize, streaming, lastSrc, streamer,
                 hwReady, jobVars, seqno, lock>>

(* hc_hw_setup returns at once when hw_ready, else programs the encoder.    *)
HwSetup(c) ==
  /\ hw' = IF c \in hwReady THEN hw
           ELSE [ctx |-> c, geom |-> geom[c], running |-> TRUE]
  /\ hwReady' = hwReady \cup {c}

(* mutant: every STREAMON restarts the frame numbers. *)
NewSequenceAlways(c, q) == [seqno EXCEPT ![c] = 0]

(* Only the STREAMON of OUTPUT restarts the frame numbers. *)
NewSequence(c, q) == IF q = "out" THEN [seqno EXCEPT ![c] = 0] ELSE seqno

(* hc_start_streaming succeeds: the lease is c's; only OUTPUT restarts the  *)
(* sequence counter and forgets last_src_buf.                               *)
StreamOn(c, q) ==
  /\ StreamOnAllowed(c, q)
  /\ GateOpen(c)
  /\ HwSetup(c)
  /\ streamer' = c
  /\ streaming' = streaming \cup {<<c, q>>}
  /\ GiveBuffers(c, q)
  /\ seqno' = NewSequence(c, q)
  /\ lastSrc' = IF q = "out" THEN [lastSrc EXCEPT ![c] = NoBuf] ELSE lastSrc
  /\ UNCHANGED <<fileState, geom, bufSize, curr, pc, lock>>
  /\ TrySchedule(c)

-----------------------------------------------------------------------------
(* STREAMOFF and close                                                      *)

(* mutant: STREAMOFF leaves a waiting job scheduled. *)
StreamOffKeepsJob(c, q) ==
  /\ Ioctl(c)
  /\ lock' = [op |-> "streamoff", ctx |-> c, q |-> q]
  /\ UNCHANGED <<ctxVars, drainVars, leaseVars, jobVars, seqno>>

(* v4l2_m2m_cancel_job: nothing of c is scheduled any more, then the ioctl  *)
(* sleeps, holding hc_lock, until the running job of c is finished.         *)
StreamOffBegin(c, q) ==
  /\ Ioctl(c)
  /\ lock' = [op |-> "streamoff", ctx |-> c, q |-> q]
  /\ queued' = queued \ {c}
  /\ UNCHANGED <<ctxVars, drainVars, leaseVars, curr, pc, seqno>>

(* hc_stop_streaming may go on: flush_workqueue has nothing left to wait    *)
(* for, whoever's job it was.                                               *)
Flushed == pc = "idle"

(* v4l2_m2m_update_stop_streaming_state. Stopping CAPTURE forgets the       *)
(* drain. Stopping OUTPUT with a drain pending ends it on the next CAPTURE  *)
(* buffer, or on the one to come.                                           *)
StopDrain(c, q) ==
  IF q = "cap"
  THEN /\ draining' = draining \ {c}
       /\ nextLast' = nextLast \ {c}
       /\ stopped' = stopped \ {c}
       /\ UNCHANGED <<lastSrc, lastCount>>
       /\ queue' = [queue EXCEPT ![<<c, "cap">>] = << >>]
  ELSE IF c \in draining
  THEN /\ lastSrc' = [lastSrc EXCEPT ![c] = NoBuf]
       /\ IF Ready(c, "cap") = << >>
          THEN /\ nextLast' = nextLast \cup {c}
               /\ UNCHANGED <<draining, stopped, lastCount>>
               /\ queue' = [queue EXCEPT ![<<c, "out">>] = << >>]
          ELSE /\ MarkLast(c)
               /\ queue' = [queue EXCEPT ![<<c, "out">>] = << >>,
                                         ![<<c, "cap">>] = Rest(c, "cap")]
  ELSE /\ UNCHANGED drainVars
       /\ queue' = [queue EXCEPT ![<<c, "out">>] = << >>]

(* mutants: the lease is kept for a later STREAMON, or taken from whoever   *)
(* holds it.                                                                *)
DropLeaseNever(c) == UNCHANGED <<streamer, hwReady>>
DropAnyLease(c) == streamer' = NoCtx /\ hwReady' = hwReady \ {c}

(* The end of hc_stop_streaming: stopping either queue gives the lease up.  *)
DropLease(c) ==
  IF streamer = c
  THEN /\ streamer' = NoCtx
       /\ hwReady' = hwReady \ {c}
  ELSE UNCHANGED <<streamer, hwReady>>

(* __vb2_queue_cancel: hc_stop_streaming when the queue streams, and all    *)
(* its buffers back to the application either way.                          *)
StreamOffFinish(c, q) ==
  /\ lock = [op |-> "streamoff", ctx |-> c, q |-> q]
  /\ curr # c
  /\ IF <<c, q>> \in streaming
     THEN /\ Flushed
          /\ StopDrain(c, q)
          /\ DropLease(c)
          /\ streaming' = streaming \ {<<c, q>>}
     ELSE /\ queue' = [queue EXCEPT ![<<c, q>>] = << >>]
          /\ UNCHANGED <<drainVars, streamer, hwReady, streaming>>
  /\ lock' = Free
  /\ UNCHANGED <<fileState, geom, bufSize, hw, jobVars, seqno>>

(* hc_release reaches v4l2_m2m_ctx_release and cancels the jobs of c. *)
ReleaseBegin(c) ==
  /\ Ioctl(c)
  /\ fileState' = [fileState EXCEPT ![c] = "closing"]
  /\ lock' = [op |-> "release", ctx |-> c, q |-> "out"]
  /\ queued' = queued \ {c}
  /\ UNCHANGED <<geom, bufSize, queue, streaming, drainVars, leaseVars, curr,
                 pc, seqno>>

(* Both queues are cancelled, the lease is dropped and ctx is freed; a new  *)
(* open starts from the state Init gives a context.                         *)
ReleaseFinish(c) ==
  /\ lock.op = "release"
  /\ lock.ctx = c
  /\ curr # c
  /\ (\E q \in Queue : <<c, q>> \in streaming) => Flushed
  /\ DropLease(c)
  /\ fileState' = [fileState EXCEPT ![c] = "closed"]
  /\ geom' = [geom EXCEPT ![c] = DefaultGeom]
  /\ bufSize' = [bufSize EXCEPT ![<<c, "out">>] = 0, ![<<c, "cap">>] = 0]
  /\ queue' = [queue EXCEPT ![<<c, "out">>] = << >>, ![<<c, "cap">>] = << >>]
  /\ streaming' = streaming \ {<<c, "out">>, <<c, "cap">>}
  /\ draining' = draining \ {c}
  /\ nextLast' = nextLast \ {c}
  /\ stopped' = stopped \ {c}
  /\ lastSrc' = [lastSrc EXCEPT ![c] = NoBuf]
  /\ lastCount' = [lastCount EXCEPT ![c] = 0]
  /\ seqno' = [seqno EXCEPT ![c] = 0]
  /\ lock' = Free
  /\ UNCHANGED <<hw, jobVars>>

-----------------------------------------------------------------------------
(* VIDIOC_ENCODER_CMD                                                       *)

(* The window after hc_work's drain check and before its completion. *)
InTail(c) == curr = c /\ pc = "checked"

StopCommand(c) ==
  /\ Ioctl(c)
  /\ c \notin draining \cup stopped
  /\ StopMayRaceTail \/ ~InTail(c)

(* ENC_CMD_STOP with pictures queued: the last of them will end the drain. *)
EncStopPending(c) ==
  /\ StopCommand(c)
  /\ Ready(c, "out") # << >>
  /\ LET src == queue[<<c, "out">>]
     IN  lastSrc' = [lastSrc EXCEPT ![c] = src[Len(src)]]
  /\ draining' = draining \cup {c}
  /\ lastCount' = [lastCount EXCEPT ![c] = 0]
  /\ UNCHANGED <<ctxVars, nextLast, stopped, leaseVars, jobVars, seqno, lock>>

(* With none: the next CAPTURE buffer is LAST, now or when it is queued. *)
EncStopEmpty(c) ==
  /\ StopCommand(c)
  /\ Ready(c, "out") = << >>
  /\ lastSrc' = [lastSrc EXCEPT ![c] = NoBuf]
  /\ IF Ready(c, "cap") = << >>
     THEN /\ draining' = draining \cup {c}
          /\ nextLast' = nextLast \cup {c}
          /\ lastCount' = [lastCount EXCEPT ![c] = 0]
          /\ UNCHANGED <<stopped, queue>>
     ELSE /\ stopped' = stopped \cup {c}
          /\ nextLast' = nextLast \ {c}
          /\ lastCount' = [lastCount EXCEPT ![c] = 1]
          /\ queue' = [queue EXCEPT ![<<c, "cap">>] = Rest(c, "cap")]
          /\ UNCHANGED draining
  /\ UNCHANGED <<fileState, geom, bufSize, streaming, leaseVars, jobVars,
                 seqno, lock>>

(* ENC_CMD_START: -EBUSY while draining. Nothing is scheduled by it. *)
EncStart(c) ==
  /\ Ioctl(c)
  /\ c \in stopped \ draining
  /\ stopped' = stopped \ {c}
  /\ UNCHANGED <<ctxVars, draining, nextLast, lastSrc, lastCount, leaseVars,
                 jobVars, seqno, lock>>

-----------------------------------------------------------------------------
(* The job                                                                  *)

(* v4l2_m2m_try_run: one job at a time; hc_device_run queues hc_work. *)
RunJob(c) ==
  /\ curr = NoCtx
  /\ c \in queued
  /\ curr' = c
  /\ queued' = queued \ {c}
  /\ pc' = "queued"
  /\ UNCHANGED <<ctxVars, drainVars, leaseVars, seqno, lock>>

Starved(c) == Ready(c, "out") = << >> \/ Ready(c, "cap") = << >>

(* hc_work begins: it peeks at the first buffer of each queue; its early    *)
(* exit, which "must not happen", only finishes the job.                    *)
WorkBegin(c) ==
  /\ curr = c
  /\ pc = "queued"
  /\ UNCHANGED <<ctxVars, drainVars, leaseVars, seqno, lock>>
  /\ IF Starved(c)
     THEN /\ curr' = NoCtx
          /\ pc' = "idle"
          /\ TrySchedule(c)
     ELSE /\ pc' = "encoding"
          /\ UNCHANGED <<queued, curr>>

(* mutant: hc_work leaves the end of a drain to the core. *)
LastOfDrainNever(c) == FALSE

(* v4l2_m2m_is_last_draining_src_buf *)
LastOfDrain(c) == c \in draining /\ lastSrc[c] = Head(queue[<<c, "out">>])

(* ... encodes (module HcodecEncode), numbers the picture, and ends a drain *)
(* whose last picture this was: LAST flag and mark_stopped.                 *)
WorkTail(c) ==
  /\ curr = c
  /\ pc = "encoding"
  /\ pc' = "checked"
  /\ seqno' = [seqno EXCEPT ![c] = IF @ < MaxSeq THEN @ + 1 ELSE @]
  /\ IF LastOfDrain(c)
     THEN MarkLast(c)
     ELSE UNCHANGED <<draining, nextLast, stopped, lastCount>>
  /\ UNCHANGED <<ctxVars, lastSrc, leaseVars, queued, curr, lock>>

(* mutant: hc_work finishes under hc_lock. *)
WorkFinishLocked(c) ==
  /\ curr = c
  /\ pc = "checked"
  /\ lock = Free
  /\ queue' = [queue EXCEPT ![<<c, "out">>] = Rest(c, "out"),
                            ![<<c, "cap">>] = Rest(c, "cap")]
  /\ curr' = NoCtx
  /\ pc' = "idle"
  /\ UNCHANGED <<fileState, geom, bufSize, streaming, drainVars, leaseVars,
                 seqno, lock>>
  /\ TrySchedule(c)

(* v4l2_m2m_buf_done_and_job_finish: both buffers go back and the next job  *)
(* of c is queued.                                                          *)
WorkFinish(c) ==
  /\ curr = c
  /\ pc = "checked"
  /\ queue' = [queue EXCEPT ![<<c, "out">>] = Rest(c, "out"),
                            ![<<c, "cap">>] = Rest(c, "cap")]
  /\ curr' = NoCtx
  /\ pc' = "idle"
  /\ UNCHANGED <<fileState, geom, bufSize, streaming, drainVars, leaseVars,
                 seqno, lock>>
  /\ TrySchedule(c)

-----------------------------------------------------------------------------
FileStep(c) ==
  \/ Open(c)
  \/ ReleaseBegin(c)
  \/ ReleaseFinish(c)
  \/ EncStopPending(c)
  \/ EncStopEmpty(c)
  \/ EncStart(c)

QueueStep(c, q) ==
  \/ \E g \in Geom : SetFormat(c, q, g)
  \/ RequestBuffers(c, q)
  \/ \E b \in Buf : QueueBuffer(c, q, b)
  \/ StreamOnBusy(c, q)
  \/ StreamOnFails(c, q)
  \/ StreamOn(c, q)
  \/ StreamOffBegin(c, q)
  \/ StreamOffFinish(c, q)

JobStep(c) == RunJob(c) \/ WorkBegin(c) \/ WorkTail(c) \/ WorkFinish(c)

Next ==
  \E c \in Ctx :
    \/ FileStep(c)
    \/ \E q \in Queue : QueueStep(c, q)
    \/ \E b \in Buf : QueueLastBuffer(c, b)
    \/ JobStep(c)

Spec == Init /\ [][Next]_vars

(* The kernel runs queued jobs and work items and wakes a sleeping ioctl;   *)
(* nothing obliges an application to make a call.                           *)
KernelFairness ==
  \A c \in Ctx :
    /\ WF_vars(JobStep(c))
    /\ WF_vars(\E q \in Queue : StreamOffFinish(c, q))
    /\ WF_vars(ReleaseFinish(c))

(* An application that has drained keeps queueing CAPTURE buffers.          *)
CaptureFairness ==
  \A c \in Ctx :
    WF_vars(\E b \in Buf : QueueBuffer(c, "cap", b) \/ QueueLastBuffer(c, b))

FairSpec == Spec /\ KernelFairness /\ CaptureFairness

-----------------------------------------------------------------------------
(* Properties                                                               *)

(* A frame is only ever encoded on hardware that is set up for its own      *)
(* stream and geometry, by the stream that holds hc_streamer: the gate of   *)
(* hc_start_streaming, hw_ready and the -EBUSY of S_FMT together, whatever  *)
(* formats change and whoever stops in between.                             *)
JobOnOwnHardware ==
  curr # NoCtx =>
    /\ streamer = curr
    /\ curr \in hwReady
    /\ hw = [ctx |-> curr, geom |-> geom[curr], running |-> TRUE]

(* The lease never outlives the streaming that took it, so no handle, not   *)
(* even a closed one, can keep the others out (-EBUSY) for ever.            *)
LeaseNotLeaked ==
  \A c \in Ctx : streamer = c => \E q \in Queue : <<c, q>> \in streaming

(* "Must not happen" (hc_work's early exit): a job that reached the         *)
(* workqueue still finds a source and a destination buffer.                 *)
WorkNeverStarves == pc = "queued" => ~Starved(curr)

(* Once LAST has been marked, no job of the context is waiting or encoding: *)
(* nothing is encoded after the end of the stream until ENC_CMD_START.      *)
StoppedIsQuiet ==
  \A c \in stopped : c \notin queued /\ (curr = c => pc = "checked")

(* A drain yields exactly one LAST buffer, whichever of its four ways it    *)
(* ends: hc_work, hc_buf_queue, ENC_CMD_STOP itself or STREAMOFF(OUTPUT).   *)
LastExactlyOnce ==
  \A c \in Ctx :
    /\ c \in draining => lastCount[c] = 0
    /\ c \in stopped => lastCount[c] = 1
    /\ lastCount[c] <= 1

(* A drain in progress always has somebody left to end it: its last picture *)
(* is still queued ahead of the drain check, or the next CAPTURE buffer is  *)
(* bound to be LAST.                                                        *)
DrainHasEnding ==
  \A c \in draining :
    \/ c \in nextLast
    \/ \E i \in DOMAIN queue[<<c, "out">>] :
         queue[<<c, "out">>][i] = lastSrc[c] /\ (i = 1 => ~InTail(c))

(* Frame numbers only restart when OUTPUT starts streaming or the handle is *)
(* closed: the CAPTURE STREAMON that follows must not reset them.           *)
SequenceRestarts ==
  [][\A c \in Ctx : seqno'[c] < seqno[c] =>
       \/ fileState'[c] = "closed"
       \/ <<c, "out">> \notin streaming /\ <<c, "out">> \in streaming']_vars

(* The driver implements the lease of module EncoderLease. *)
Lease == INSTANCE EncoderLease WITH
           owner <- streamer, programmed <- hw.ctx, encoding <- curr
ImplementsLease == Lease!LeaseSpec

(* STREAMOFF and close, which sleep with hc_lock held, return: the job they *)
(* wait for never needs the lock.                                           *)
WaitingIoctlReturns == lock.op # "free" ~> lock.op = "free"

(* A drain ends, given an application that keeps queueing CAPTURE buffers   *)
(* of the right size, unless it stops streaming first. (A drain begun after *)
(* ENC_CMD_START with all CAPTURE buffers queued already and no job         *)
(* scheduled is left out: nothing in the driver or the core wakes it.)      *)
DrainUnderWay(c) ==
  /\ c \in draining
  /\ Streams(c)
  /\ c \in queued \/ curr = c \/ queue[<<c, "cap">>] = << >>
  /\ bufSize[<<c, "cap">>] >= Want("cap", geom[c])

DrainEnds ==
  \A c \in Ctx : DrainUnderWay(c) ~> (c \notin draining \/ ~Streams(c))
=============================================================================

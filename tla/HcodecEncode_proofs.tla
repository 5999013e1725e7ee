------------------------ MODULE HcodecEncode_proofs -------------------------
(***************************************************************************)
(* Proofs about module HcodecEncode, for every QP range, step, gap, number *)
(* of attempts and set of control values: the quantiser runs at the QP of  *)
(* the headers, the QP floor holds, a key frame that was asked for stays   *)
(* due until it is taken up (but for a request wiped out by the clear of   *)
(* force_idr), and only a lost picture makes a decoder show a wrong one.   *)
(***************************************************************************)
EXTENDS HcodecEncode, TLAPS

(* hc_work only runs while the stream is on, and an IDR decision is made    *)
(* for good: whoever was first in a stream, or forced, stays one.           *)
QpInv ==
  /\ pc = "attempt" => idr \/ q = hdrQp
  /\ ~streaming => pc = "idle"
  /\ hangs <= retries

KeyInv ==
  /\ pc # "idle" /\ sinceIdr = 0 => idr
  /\ pc = "read" => asked # "open"
  /\ asked = "late" => pc = "read"

(* frame_num after n. *)
Following(n) == IF n = NumMod - 1 THEN 0 ELSE n + 1

(* Nothing lost since the last IDR was delivered: the decoder has the       *)
(* encoder's reference and frame_num, and the PPS of the cached headers     *)
(* unless they have just been made for an IDR that is still to come.        *)
InStep ==
  streaming /\ sinceIdr # 0 /\ ~lost =>
    /\ inSync
    /\ ~idr => pps = hdrQp
    /\ pc # "encoded" => frameNum = Following(decNum)
    /\ pc = "encoded" /\ ~idr => frameNum = Following(Following(decNum))

JobNums ==
  /\ pc = "idle" => ~idr
  /\ pc = "encoded" /\ idr => frameNum = 1

IInv == TypeOK /\ QpInv /\ QuantIsHeaderQp /\ FloorHolds /\ KeyInv
        /\ KeyFrameStaysDue /\ InStep /\ JobNums /\ OnlyLossGarbles

(* The helpers stay in the range of their arguments.                        *)
LEMMA HelperTypes ==
  /\ \A x, y \in Qp : Lower(x, y) \in Qp /\ Higher(x, y) \in Qp
  /\ \A x \in Qp, lo \in QpMin, hi \in QpMax : Clamp(x, lo, hi) \in Qp
  /\ \A x \in Qp : Raised(x) \in Qp
  /\ SinceCap \in Nat \ {0}
  BY ConstantsOK DEF Lower, Higher, Clamp, Qp, Raised, SinceCap

LEMMA FrameNumType ==
  \A n \in Int : n % NumMod \in 0..(NumMod - 1)
  BY ConstantsOK

(* Counting modulo NumMod without a division. *)
LEMMA SmallMod ==
  \A n \in 0..(NumMod - 1) : n % NumMod = n
  BY ConstantsOK

LEMMA FollowingFacts ==
  ASSUME NEW n \in 0..(NumMod - 1)
  PROVE  /\ Following(n) \in 0..(NumMod - 1)
         /\ (n + 1) % NumMod = Following(n)
         /\ (Following(n) - 1) % NumMod = n
<1>1. Following(n) \in 0..(NumMod - 1)
  BY ConstantsOK DEF Following
<1>2. (n + 1) % NumMod = Following(n)
  <2>1. CASE n = NumMod - 1
    <3>1. NumMod % NumMod = 0
      BY ConstantsOK
    <3>2. n + 1 = NumMod
      BY <2>1, ConstantsOK
    <3>3. QED
      BY <2>1, <3>1, <3>2 DEF Following
  <2>2. CASE n # NumMod - 1
    <3>1. n + 1 \in 0..(NumMod - 1)
      BY <2>2, ConstantsOK
    <3>2. QED
      BY <2>2, <3>1, SmallMod DEF Following
  <2>3. QED
    BY <2>1, <2>2
<1>3. (Following(n) - 1) % NumMod = n
  <2>1. CASE n = NumMod - 1
    <3>1. (0 - 1) % NumMod = NumMod - 1
      BY ConstantsOK
    <3>2. Following(n) = 0
      BY <2>1 DEF Following
    <3>3. QED
      BY <2>1, <3>1, <3>2
  <2>2. CASE n # NumMod - 1
    <3>1. Following(n) - 1 = n
      BY <2>2, ConstantsOK DEF Following
    <3>2. QED
      BY <3>1, SmallMod
  <2>3. QED
    BY <2>1, <2>2
<1>4. QED
  BY <1>1, <1>2, <1>3

LEMMA SetupQpType ==
  ASSUME TypeOK, NEW i \in QpI
  PROVE  Clamp(i, qpMin, qpMax) \in Qp
  BY ConstantsOK DEF TypeOK, Clamp, Lower, Higher, Qp

LEMMA RateType ==
  ASSUME TypeOK, Rate
  PROVE  curQp' \in Qp
  BY ConstantsOK DEF TypeOK, Rate, Qp

(* The initial states satisfy the inductive invariant. *)
LEMMA InitInv == Init => IInv
<1> SUFFICES ASSUME Init PROVE IInv
  OBVIOUS
<1>1. TypeOK
  <2>1. 0 \in Qp /\ 0 \in 0..(NumMod - 1) /\ 0 \in 0..SinceCap /\ 0 \in 0..Tries
    BY ConstantsOK, HelperTypes DEF Qp
  <2>2. QED
    BY <2>1 DEF Init, TypeOK
<1>2. QpInv /\ QuantIsHeaderQp /\ FloorHolds /\ KeyInv /\ KeyFrameStaysDue
  BY DEF Init, QpInv, QuantIsHeaderQp, FloorHolds, KeyInv, KeyFrameStaysDue
<1>3. InStep /\ JobNums /\ OnlyLossGarbles
  BY DEF Init, InStep, JobNums, OnlyLossGarbles
<1>4. QED
  BY <1>1, <1>2, <1>3 DEF IInv

(* Every step keeps the types. *)
LEMMA TypeStep ==
  ASSUME TypeOK, QpInv, Next
  PROVE  TypeOK'
<1> USE ConstantsOK, HelperTypes, FrameNumType
    DEF TypeOK, ctlVars, encVars, jobVars, decVars
<1>z. 0 \in Qp /\ 0 \in 0..(NumMod - 1) /\ 1 \in 0..(NumMod - 1)
      /\ 0 \in 0..SinceCap /\ 1 \in 0..SinceCap /\ 0 \in 0..Tries
      /\ Tries \in 0..Tries
  BY DEF Qp
<1>1. CASE StreamOn
  <2>1. PICK i \in QpI : curQp' = Clamp(i, qpMin, qpMax)
    BY <1>1 DEF StreamOn
  <2>2. curQp' \in Qp
    BY <2>1, SetupQpType
  <2>3. QED
    BY <1>1, <1>z, <2>2 DEF StreamOn
<1>2. CASE StreamOnFails
  <2>1. curQp' \in Qp
    BY <1>2, SetupQpType DEF StreamOnFails
  <2>2. QED
    BY <1>2, <1>z, <2>1 DEF StreamOnFails
<1>3. CASE StreamOff
  BY <1>3 DEF StreamOff
<1>4. CASE SetControl
  <2>1. gop' \in Gop /\ qpMin' \in QpMin /\ qpMax' \in QpMax
    BY <1>4 DEF SetControl
  <2>2. QED
    BY <1>4, <2>1 DEF SetControl
<1>5. CASE ForceKeyFrame
  BY <1>5 DEF ForceKeyFrame
<1>6. CASE WorkRead
  <2>1. idr' \in BOOLEAN
    BY <1>6 DEF WorkRead, WantsIdr
  <2>2. QED
    BY <1>6, <2>1 DEF WorkRead
<1>7. CASE WorkClear \/ NoMapping \/ FrameFails
  <2>1. CASE WorkClear
    BY <2>1 DEF WorkClear
  <2>2. CASE NoMapping
    BY <2>2 DEF NoMapping
  <2>3. CASE FrameFails
    BY <2>3 DEF FrameFails
  <2>4. QED
    BY <1>7, <2>1, <2>2, <2>3
<1>8. CASE ChooseQp
  <2>1. curQp' \in Qp
    BY <1>8 DEF ChooseQp
  <2>2. idr' \in BOOLEAN
    BY <1>8 DEF ChooseQp
  <2>3. q' \in Qp
    BY <1>8, <2>1 DEF ChooseQp, AboveFloor
  <2>4. QED
    BY <1>8, <2>1, <2>2, <2>3 DEF ChooseQp
<1>9. CASE SendHeaders \/ HeadersFail
  BY <1>9 DEF SendHeaders, HeadersFail
<1>10. CASE FrameDone
  <2>1. frameNum' \in 0..(NumMod - 1)
    BY <1>10, <1>z DEF FrameDone
  <2>2. QED
    BY <1>10, <2>1 DEF FrameDone
<1>11. CASE TimeoutRetry
  <2>1. retries' \in 0..Tries
    BY <1>11 DEF TimeoutRetry
  <2>2. hangs' \in 0..Tries
    BY <1>11 DEF TimeoutRetry, QpInv
  <2>3. QED
    BY <1>11, <2>1, <2>2 DEF TimeoutRetry
<1>12. CASE TimeoutRaise
  BY <1>12, <1>z DEF TimeoutRaise
<1>13. CASE Deliver
  <2>1. curQp' \in Qp
    BY <1>13, RateType DEF Deliver
  <2>2. sinceIdr' \in 0..SinceCap
    <3>1. Lower(sinceIdr + 1, SinceCap) \in 0..SinceCap
      BY DEF Lower
    <3>2. QED
      BY <1>13, <1>z, <3>1 DEF Deliver
  <2>3. pps' \in Qp /\ decNum' \in 0..(NumMod - 1) /\ inSync' \in BOOLEAN
        /\ shown' \in {"none", "right", "wrongQp", "wrongRef"}
    <3>1. decNum' \in 0..(NumMod - 1)
      <4>1. frameNum - 1 \in Int
        OBVIOUS
      <4>2. QED
        BY <1>13, <4>1 DEF Deliver, Decode
    <3>2. pps' \in Qp
      BY <1>13 DEF Deliver, Decode
    <3>3. inSync' \in BOOLEAN
      BY <1>13 DEF Deliver, Decode
    <3>4. shown' \in {"none", "right", "wrongQp", "wrongRef"}
      BY <1>13 DEF Deliver, Decode
    <3>5. QED
      BY <3>1, <3>2, <3>3, <3>4
  <2>4. QED
    BY <1>13, <1>z, <2>1, <2>2, <2>3 DEF Deliver, JobOver, AskedUsedUp
<1>14. CASE NoSpace \/ Fail
  BY <1>14, <1>z DEF NoSpace, Fail, JobOver, AskedUsedUp
<1>15. QED
  BY <1>1, <1>2, <1>3, <1>4, <1>5, <1>6, <1>7, <1>8, <1>9, <1>10, <1>11,
     <1>12, <1>13, <1>14 DEF Next, WorkStep

(* Every step keeps the QP of the quantiser, the headers and the floor      *)
(* together.                                                                *)
LEMMA QpKept ==
  ASSUME IInv, Next
  PROVE  QpInv' /\ QuantIsHeaderQp' /\ FloorHolds'
<1> USE DEF IInv, QpInv, QuantIsHeaderQp, FloorHolds, ctlVars, encVars, jobVars
<1>1. CASE StreamOn \/ StreamOnFails
  BY <1>1 DEF StreamOn, StreamOnFails
<1>2. CASE StreamOff \/ SetControl \/ ForceKeyFrame
  BY <1>2 DEF StreamOff, SetControl, ForceKeyFrame
<1>3. CASE WorkRead \/ WorkClear \/ NoMapping \/ FrameFails \/ HeadersFail
  BY <1>3 DEF WorkRead, WorkClear, NoMapping, FrameFails, HeadersFail
<1>4. CASE ChooseQp
  <2>1. PICK want \in Qp : /\ q' = AboveFloor(want)
                           /\ ~idr' => want = hdrQp /\ ~(want < qpFloor)
    BY <1>4, HelperTypes DEF ChooseQp, TypeOK
  <2>2. q' >= qpFloor /\ (~idr' => q' = hdrQp)
    BY <2>1 DEF AboveFloor, Higher, TypeOK, Qp
  <2>3. QED
    BY <1>4, <2>2 DEF ChooseQp
<1>5. CASE SendHeaders
  BY <1>5 DEF SendHeaders, NeedsHeaders
<1>6. CASE FrameDone
  BY <1>6 DEF FrameDone
<1>7. CASE TimeoutRetry
  BY <1>7 DEF TimeoutRetry, TypeOK
<1>8. CASE TimeoutRaise
  <2>1. q' \in Qp /\ qpFloor' = q'
    BY <1>8, HelperTypes DEF TimeoutRaise, TypeOK
  <2>2. QED
    BY <1>8, <2>1, ConstantsOK DEF TimeoutRaise, Qp
<1>9. CASE Deliver \/ NoSpace \/ Fail
  BY <1>9 DEF Deliver, NoSpace, Fail, JobOver
<1>10. QED
  BY <1>1, <1>2, <1>3, <1>4, <1>5, <1>6, <1>7, <1>8, <1>9 DEF Next, WorkStep

(* Every step keeps a key frame that is due.                                *)
LEMMA KeyKept ==
  ASSUME IInv, Next
  PROVE  KeyInv' /\ KeyFrameStaysDue'
<1> USE DEF IInv, QpInv, KeyInv, KeyFrameStaysDue, jobVars
<1>1. CASE StreamOn \/ StreamOnFails
  BY <1>1 DEF StreamOn, StreamOnFails
<1>2. CASE StreamOff \/ SetControl \/ ForceKeyFrame
  <2>1. CASE ForceKeyFrame
    BY <2>1 DEF ForceKeyFrame
  <2>2. CASE StreamOff \/ SetControl
    BY <2>2 DEF StreamOff, SetControl
  <2>3. QED
    BY <1>2, <2>1, <2>2
<1>3. CASE WorkRead
  BY <1>3 DEF WorkRead, WantsIdr
<1>4. CASE WorkClear
  BY <1>4 DEF WorkClear
<1>5. CASE NoMapping \/ FrameFails \/ SendHeaders \/ HeadersFail \/ FrameDone
           \/ TimeoutRetry
  BY <1>5 DEF NoMapping, FrameFails, SendHeaders, HeadersFail, FrameDone,
              TimeoutRetry
<1>6. CASE ChooseQp
  <2>1. idr => idr'
    BY <1>6 DEF ChooseQp
  <2>2. QED
    BY <1>6, <2>1 DEF ChooseQp
<1>7. CASE TimeoutRaise
  BY <1>7 DEF TimeoutRaise
<1>8. CASE Deliver \/ NoSpace \/ Fail
  BY <1>8 DEF Deliver, NoSpace, Fail, JobOver, AskedUsedUp
<1>9. QED
  BY <1>1, <1>2, <1>3, <1>4, <1>5, <1>6, <1>7, <1>8 DEF Next, WorkStep

(* Every step keeps the decoder in step with the encoder, or counts as a    *)
(* loss.                                                                    *)
LEMMA LossKept ==
  ASSUME IInv, Next
  PROVE  InStep' /\ JobNums' /\ OnlyLossGarbles'
<1> USE DEF IInv, QpInv, KeyInv, InStep, JobNums, OnlyLossGarbles,
            encVars, jobVars, decVars
<1>1. CASE StreamOn \/ StreamOnFails
  BY <1>1 DEF StreamOn, StreamOnFails
<1>2. CASE StreamOff \/ SetControl \/ ForceKeyFrame
  BY <1>2 DEF StreamOff, SetControl, ForceKeyFrame
<1>3. CASE WorkRead
  BY <1>3 DEF WorkRead
<1>4. CASE WorkClear \/ NoMapping \/ FrameFails \/ HeadersFail \/ TimeoutRetry
           \/ TimeoutRaise
  BY <1>4 DEF WorkClear, NoMapping, FrameFails, HeadersFail, TimeoutRetry,
              TimeoutRaise
<1>5. CASE ChooseQp
  <2>1. idr => idr'
    BY <1>5 DEF ChooseQp
  <2>2. QED
    BY <1>5, <2>1 DEF ChooseQp
<1>6. CASE SendHeaders
  BY <1>6 DEF SendHeaders, NeedsHeaders
<1>7. CASE FrameDone
  <2>1. (frameNum + 1) % NumMod = Following(frameNum)
    BY FollowingFacts DEF TypeOK
  <2>2. QED
    BY <1>7, <2>1 DEF FrameDone
<1>8. CASE Deliver
  <2>1. pc = "encoded" /\ streaming /\ q = hdrQp /\ idr \in BOOLEAN
        /\ streaming' /\ pc' = "idle" /\ idr' = FALSE /\ hdrQp' = hdrQp
        /\ frameNum' = frameNum /\ lost' = (lost /\ ~idr)
    BY <1>8 DEF Deliver, JobOver, QuantIsHeaderQp, TypeOK
  <2>2. CASE idr
    <3>1. frameNum = 1 /\ decNum' = 0 /\ Following(0) = 1
      <4>1. frameNum = 1
        BY <2>1, <2>2
      <4>2. Following(0) = 1 /\ (Following(0) - 1) % NumMod = 0
        BY FollowingFacts, ConstantsOK DEF Following
      <4>3. QED
        BY <1>8, <4>1, <4>2 DEF Deliver, Decode
    <3>2. pps' = hdrQp /\ inSync' /\ shown' = "right"
      BY <1>8, <2>1, <2>2 DEF Deliver, Decode
    <3>3. QED
      BY <2>1, <3>1, <3>2
  <2>3. CASE ~idr /\ lost
    BY <2>1, <2>3
  <2>4. CASE ~idr /\ ~lost
    <3>1. inSync /\ pps = hdrQp /\ frameNum = Following(Following(decNum))
      BY <2>1, <2>4
    <3>2. decNum' = Following(decNum) /\ (decNum + 1) % NumMod = Following(decNum)
      <4>1. decNum' = (frameNum - 1) % NumMod
        BY <1>8 DEF Deliver, Decode
      <4>2. QED
        BY <3>1, <4>1, FollowingFacts DEF TypeOK
    <3>3. pps' = pps /\ inSync' = inSync /\ shown' = "right"
      BY <1>8, <2>1, <2>4, <3>1, <3>2 DEF Deliver, Decode
    <3>4. QED
      BY <2>1, <3>1, <3>2, <3>3
  <2>5. QED
    BY <2>1, <2>2, <2>3, <2>4
<1>9. CASE NoSpace
  BY <1>9 DEF NoSpace, JobOver
<1>10. CASE Fail
  BY <1>10 DEF Fail, JobOver
<1>11. QED
  BY <1>1, <1>2, <1>3, <1>4, <1>5, <1>6, <1>7, <1>8, <1>9, <1>10
     DEF Next, WorkStep

(* Every step keeps the inductive invariant.                                *)
LEMMA NextInv == IInv /\ [Next]_vars => IInv'
<1> SUFFICES ASSUME IInv, [Next]_vars PROVE IInv'
  OBVIOUS
<1>1. CASE Next
  BY <1>1, TypeStep, QpKept, KeyKept, LossKept DEF IInv
<1>2. CASE UNCHANGED vars
  BY <1>2 DEF IInv, TypeOK, QpInv, QuantIsHeaderQp, FloorHolds, KeyInv,
              KeyFrameStaysDue, InStep, JobNums, OnlyLossGarbles, vars, ctlVars, encVars, jobVars, decVars
<1>3. QED
  BY <1>1, <1>2

THEOREM Invariance == Spec => []IInv
  BY InitInv, NextInv, PTL DEF Spec

(* The state keeps its types; frame_num wraps and the QPs stay in range.    *)
THEOREM TypeCorrect == Spec => []TypeOK
<1>1. IInv => TypeOK
  BY DEF IInv
<1>2. QED
  BY Invariance, <1>1, PTL

(* The quantiser only runs at the QP of the cached SPS/PPS.                 *)
THEOREM SliceQp == Spec => []QuantIsHeaderQp
<1>1. IInv => QuantIsHeaderQp
  BY DEF IInv
<1>2. QED
  BY Invariance, <1>1, PTL

(* No picture is tried below the QP floor a hang has raised.                *)
THEOREM Floor == Spec => []FloorHolds
<1>1. IInv => FloorHolds
  BY DEF IInv
<1>2. QED
  BY Invariance, <1>1, PTL

(* A key frame that was asked for stays due until a picture takes it up,    *)
(* which is then an IDR to its end; only the clear of force_idr can wipe it *)
(* out before, and only if it came after the read of a P picture.           *)
THEOREM KeyFrame == Spec => []KeyFrameStaysDue
<1>1. IInv => KeyFrameStaysDue
  BY DEF IInv
<1>2. QED
  BY Invariance, <1>1, PTL

(* A decoder shows every picture it is given right unless an IDR failed or  *)
(* an encoded picture was dropped since the last IDR it got.                *)
THEOREM OnlyLoss == Spec => []OnlyLossGarbles
<1>1. IInv => OnlyLossGarbles
  BY DEF IInv
<1>2. QED
  BY Invariance, <1>1, PTL

-----------------------------------------------------------------------------
(* The end of hc_work.                                                      *)

(* At most so many steps are left to the job: two for each attempt, and an  *)
(* attempt that hangs either uses up a retry or raises the QP.              *)
AttemptsLeft == (QpTop - q) + (Tries - retries)

WorkLeft ==
  IF pc = "read" THEN 2 * (QpTop + Tries) + 5
  ELSE IF pc = "cleared" THEN 2 * (QpTop + Tries) + 4
  ELSE IF pc = "attempt" THEN 2 * AttemptsLeft + 3
  ELSE IF pc = "frame" THEN 2 * AttemptsLeft + 2
  ELSE IF pc \in {"encoded", "failed"} THEN 1 ELSE 0

(* However far the QP and the retries have got, what is left is bounded.    *)
LEMMA AttemptsBound ==
  \A x \in Qp, r \in 0..Tries : (QpTop - x) + (Tries - r) \in 0..(QpTop + Tries)
  BY ConstantsOK DEF Qp

LEMMA AttemptsType ==
  ASSUME TypeOK
  PROVE  AttemptsLeft \in 0..(QpTop + Tries)
<1>1. q \in Qp /\ retries \in 0..Tries
  BY DEF TypeOK
<1>2. QED
  BY <1>1, AttemptsBound DEF AttemptsLeft

LEMMA WorkLeftType ==
  ASSUME TypeOK
  PROVE  WorkLeft \in 0..(2 * (QpTop + Tries) + 5)
<1>1. AttemptsLeft \in 0..(QpTop + Tries) /\ QpTop \in Nat /\ Tries \in Nat
  BY AttemptsType, ConstantsOK
<1>2. QED
  BY <1>1 DEF WorkLeft

(* Every step of the job takes it nearer to its end.                        *)
LEMMA WorkGoesOn ==
  ASSUME IInv, WorkStep
  PROVE  WorkLeft' < WorkLeft
<1> DEFINE top  == QpTop + Tries
           now  == AttemptsLeft
           next == (QpTop - q') + (Tries - retries')
<1>1. TypeOK /\ TypeOK'
  BY TypeStep DEF IInv, Next
<1>2. top \in Nat /\ now \in 0..top /\ next \in 0..top
  <2>1. q' \in Qp /\ retries' \in 0..Tries
    BY <1>1 DEF TypeOK
  <2>2. QED
    BY <1>1, <2>1, AttemptsBound, AttemptsType, ConstantsOK
<1>3. /\ AttemptsLeft' = next
      /\ WorkLeft = IF pc = "read" THEN 2 * top + 5
                    ELSE IF pc = "cleared" THEN 2 * top + 4
                    ELSE IF pc = "attempt" THEN 2 * now + 3
                    ELSE IF pc = "frame" THEN 2 * now + 2
                    ELSE IF pc \in {"encoded", "failed"} THEN 1 ELSE 0
      /\ WorkLeft' = IF pc' = "read" THEN 2 * top + 5
                     ELSE IF pc' = "cleared" THEN 2 * top + 4
                     ELSE IF pc' = "attempt" THEN 2 * next + 3
                     ELSE IF pc' = "frame" THEN 2 * next + 2
                     ELSE IF pc' \in {"encoded", "failed"} THEN 1 ELSE 0
  BY DEF WorkLeft, AttemptsLeft
<1>4. pc = "attempt" /\ pc' = "frame" => next = now
  BY DEF WorkStep, WorkClear, NoMapping, ChooseQp, SendHeaders, HeadersFail, FrameDone,
         FrameFails, TimeoutRetry, TimeoutRaise, Deliver, NoSpace, Fail, JobOver,
         AttemptsLeft, jobVars
<1>5. pc = "frame" /\ pc' = "attempt" => next < now
  <2> SUFFICES ASSUME pc = "frame", pc' = "attempt" PROVE next < now
    OBVIOUS
  <2>1. q \in 0..QpTop /\ retries \in 0..Tries /\ QpTop \in Nat /\ Tries \in Nat
    BY <1>1, ConstantsOK DEF TypeOK, Qp
  <2>2. CASE TimeoutRetry
    <3>1. q' = q /\ retries' = retries + 1
      BY <2>2 DEF TimeoutRetry
    <3>2. QED
      BY <2>1, <3>1 DEF AttemptsLeft
  <2>3. CASE TimeoutRaise
    <3>1. q' = Raised(q) /\ retries' = Tries /\ q < QpTop
      BY <2>3 DEF TimeoutRaise
    <3>2. q' \in q + 1 .. QpTop
      BY <2>1, <3>1, ConstantsOK DEF Raised, Lower
    <3>3. QED
      BY <2>1, <3>1, <3>2 DEF AttemptsLeft
  <2>4. QED
    BY <2>2, <2>3 DEF WorkStep, WorkClear, NoMapping, ChooseQp, SendHeaders, HeadersFail,
       FrameDone, FrameFails, Deliver, NoSpace, Fail, JobOver
<1>6. \/ pc = "read" /\ pc' = "cleared"
      \/ pc = "cleared" /\ pc' \in {"failed", "attempt"}
      \/ pc = "attempt" /\ pc' \in {"frame", "failed"}
      \/ pc = "frame" /\ pc' \in {"attempt", "encoded", "failed"}
      \/ pc \in {"encoded", "failed"} /\ pc' = "idle"
  BY DEF WorkStep, WorkClear, NoMapping, ChooseQp, SendHeaders, HeadersFail, FrameDone,
         FrameFails, TimeoutRetry, TimeoutRaise, Deliver, NoSpace, Fail, JobOver
<1>7. QED
  <2> HIDE DEF top, now, next
  <2>1. CASE pc = "read"
    BY <1>2, <1>3, <1>6, <2>1
  <2>2. CASE pc = "cleared"
    BY <1>2, <1>3, <1>6, <2>2
  <2>3. CASE pc = "attempt"
    BY <1>2, <1>3, <1>4, <1>6, <2>3
  <2>4. CASE pc = "frame"
    BY <1>2, <1>3, <1>5, <1>6, <2>4
  <2>5. CASE pc \in {"encoded", "failed"}
    BY <1>2, <1>3, <1>6, <2>5
  <2>6. QED
    BY <1>6, <2>1, <2>2, <2>3, <2>4, <2>5

(* No other step, of an ioctl or a control, gives a running job more to do. *)
LEMMA OthersGiveNoWork ==
  ASSUME IInv, [Next]_vars, pc # "idle"
  PROVE  WorkLeft' <= WorkLeft
<1>1. WorkLeft \in Int /\ (WorkStep => WorkLeft' < WorkLeft)
  BY WorkLeftType, WorkGoesOn DEF IInv
<1>2. CASE WorkStep
  <2>1. WorkLeft' \in Int
    <3>1. TypeOK'
      BY <1>2, TypeStep DEF IInv, Next
    <3>2. q' \in Qp /\ retries' \in 0..Tries
      BY <3>1 DEF TypeOK
    <3>3. (QpTop - q') + (Tries - retries') \in 0..(QpTop + Tries)
      BY <3>2, AttemptsBound
    <3>4. AttemptsLeft' \in Int
      BY <3>3, ConstantsOK DEF AttemptsLeft
    <3>5. QED
      BY <3>4, ConstantsOK DEF WorkLeft
  <2>2. QED
    BY <1>1, <1>2, <2>1
<1>3. CASE ~WorkStep
  <2>1. pc' = pc /\ q' = q /\ retries' = retries
    BY <1>3 DEF Next, StreamOn, StreamOnFails, StreamOff, SetControl, ForceKeyFrame,
                WorkRead, jobVars, vars
  <2>2. WorkLeft' = WorkLeft
    BY <2>1 DEF WorkLeft, AttemptsLeft
  <2>3. QED
    BY <1>1, <2>2
<1>4. QED
  BY <1>2, <1>3

(* What makes WorkEnds hold: however the ucode hangs and whatever controls   *)
(* are set meanwhile, hc_work is a bounded number of steps away from its end *)
(* and every step it makes brings it nearer.                                 *)
THEOREM WorkIsBounded ==
  Spec => /\ [](WorkLeft \in 0..(2 * (QpTop + Tries) + 5))
          /\ [][WorkStep => WorkLeft' < WorkLeft]_vars
          /\ [][pc # "idle" => WorkLeft' <= WorkLeft]_vars
<1>1. IInv => WorkLeft \in 0..(2 * (QpTop + Tries) + 5)
  BY WorkLeftType DEF IInv
<1>2. IInv /\ [Next]_vars => [WorkStep => WorkLeft' < WorkLeft]_vars
  BY WorkGoesOn
<1>3. IInv /\ [Next]_vars => [pc # "idle" => WorkLeft' <= WorkLeft]_vars
  BY OthersGiveNoWork
<1>4. QED
  BY Invariance, <1>1, <1>2, <1>3, PTL DEF Spec
=============================================================================

-------------------------- MODULE BirdWatcherProofs --------------------------
(***************************************************************************)
(* The rate gate of BirdWatcher keeps its documented limits for every      *)
(* choice of the intervals.  capture_times_ is a suffix of all captures;   *)
(* what it has lost is out of the window for good; and nothing can be      *)
(* saved between the gate's verdict and the capture it let through.  Its   *)
(* looks keep the idle interval, and its verdicts stand for full streaks.  *)
(***************************************************************************)
EXTENDS BirdWatcher, TLAPS, SequenceTheorems

GateTypes ==
  /\ now \in Nat
  /\ saved \in Seq(Nat)
  /\ captureTimes \in Seq(Nat)
  /\ lastCapture \in Nat \cup {Never}

Lost == Len(saved) - Len(captureTimes)

\* capture_times_ is what is left of the captures after some of the oldest.
Suffix ==
  /\ Lost >= 0
  /\ \A i \in 1 .. Len(captureTimes) : captureTimes[i] = saved[Lost + i]

\* What was popped is out of the window.
LostIsOld == \A i \in 1 .. Lost : now - saved[i] > Minute

Ordered ==
  /\ \A i \in 1 .. Len(saved) : saved[i] <= now
  /\ \A i, j \in 1 .. Len(saved) : i <= j => saved[i] <= saved[j]

LastIsLast ==
  IF saved = <<>> THEN lastCapture = Never ELSE lastCapture = saved[Len(saved)]

\* While a capture is being saved the gate is still open.
SaveIsAllowed == worker = "save" => GateOpen(captureTimes)

GateInv ==
  /\ GateTypes /\ Suffix /\ LostIsOld /\ Ordered /\ LastIsLast /\ SaveIsAllowed /\ RateLimited

-----------------------------------------------------------------------------
LEMMA GateInit == Init => GateInv
BY BirdAssumption
   DEF Init, GateInv, GateTypes, Suffix, LostIsOld, Ordered, LastIsLast, SaveIsAllowed,
       RateLimited, Lost, Never

\* What is left of a sequence without its first k elements.
LEMMA DropFirst ==
  ASSUME NEW s \in Seq(Nat), NEW k \in 0 .. Len(s)
  PROVE  /\ SubSeq(s, k + 1, Len(s)) \in Seq(Nat)
         /\ Len(SubSeq(s, k + 1, Len(s))) = Len(s) - k
         /\ \A i \in 1 .. Len(s) - k : SubSeq(s, k + 1, Len(s))[i] = s[k + i]
<1> DEFINE t == SubSeq(s, k + 1, Len(s))
<1>1. Len(s) \in Nat /\ k + 1 \in Int /\ Len(s) \in Int
  OBVIOUS
<1>2. \A i \in k + 1 .. Len(s) : s[i] \in Nat
  BY <1>1
<1>3. /\ t \in Seq(Nat)
      /\ Len(t) = IF k + 1 <= Len(s) THEN Len(s) - (k + 1) + 1 ELSE 0
      /\ \A i \in 1 .. Len(s) - (k + 1) + 1 : t[i] = s[k + 1 + i - 1]
  BY <1>1, <1>2, SubSeqProperties
<1> HIDE DEF t
<1>4. Len(t) = Len(s) - k
  BY <1>1, <1>3
<1>5. \A i \in 1 .. Len(s) - k : t[i] = s[k + i]
  <2>1. \A i \in 1 .. Len(s) - k : i \in 1 .. Len(s) - (k + 1) + 1 /\ k + 1 + i - 1 = k + i
    BY <1>1
  <2> QED  BY <2>1, <1>3
<1> QED  BY <1>3, <1>4, <1>5 DEF t

LEMMA Lengths ==
  ASSUME GateInv
  PROVE  /\ Len(saved) \in Nat /\ Len(captureTimes) \in Nat /\ Lost \in Nat
         /\ Len(saved) = Lost + Len(captureTimes)
<1>1. Len(saved) \in Nat /\ Len(captureTimes) \in Nat
  BY DEF GateInv, GateTypes
<1>2. Lost >= 0
  BY DEF GateInv, Suffix
<1> QED  BY <1>1, <1>2 DEF Lost

\* Steps that leave the gate's variables alone and do not begin a save.
LEMMA GateUntouched ==
  ASSUME GateInv, UNCHANGED <<now, gate, saved>>, worker' = "save" => worker = "save"
  PROVE  GateInv'
BY DEF GateInv, GateTypes, Suffix, LostIsOld, Ordered, LastIsLast, SaveIsAllowed,
       RateLimited, Lost, GateOpen, gate

\* Time passes: the gate stays open and what is old gets older.
LEMMA GateTick ==
  ASSUME GateInv, Tick
  PROVE  GateInv'
<1> USE BirdAssumption
<1>1. now' = now + 1 /\ UNCHANGED <<worker, saved, captureTimes, lastCapture>>
  BY DEF Tick, gate, history
<1>2. GateTypes' /\ Suffix' /\ LastIsLast'
  BY <1>1 DEF GateInv, GateTypes, Suffix, LastIsLast, Lost
<1>3. LostIsOld'
  <2>1. Lost' = Lost /\ Lost \in Nat /\ Lost <= Len(saved) /\ now \in Nat /\ Minute \in Nat
    BY <1>1 DEF GateInv, GateTypes, Suffix, Lost
  <2>2. ASSUME NEW i \in 1 .. Lost
        PROVE  now' - saved'[i] > Minute
    <3>1. i \in 1 .. Len(saved) /\ saved[i] \in Nat
      BY <2>1 DEF GateInv, GateTypes
    <3>2. now - saved[i] > Minute
      BY DEF GateInv, LostIsOld
    <3> QED  BY <1>1, <2>1, <3>1, <3>2
  <2> QED  BY <2>1, <2>2 DEF LostIsOld
<1>4. Ordered'
  BY <1>1 DEF GateInv, GateTypes, Ordered
<1>5. SaveIsAllowed'
  BY <1>1 DEF GateInv, GateTypes, SaveIsAllowed, GateOpen, Never
<1>6. RateLimited'
  BY <1>1 DEF GateInv, RateLimited
<1> QED  BY <1>2, <1>3, <1>4, <1>5, <1>6 DEF GateInv

\* The gate's verdict: the pops keep capture_times_ a suffix, and drop only what is
\* out of the window.
LEMMA GateVerdict ==
  ASSUME GateInv, AlertHit
  PROVE  GateInv'
<1> USE BirdAssumption
<1>1. UNCHANGED <<now, saved, lastCapture>>
  BY DEF AlertHit
<1>2. CASE ~(birdStreak + 1 >= AlertFrames)
  <2>1. worker' # "save" /\ UNCHANGED captureTimes
    BY <1>2 DEF AlertHit
  <2> QED  BY <1>1, <2>1, GateUntouched DEF gate
<1>3. CASE birdStreak + 1 >= AlertFrames
  <2>1. PICK popped \in 0 .. Len(captureTimes) :
          /\ PopsOld(popped)
          /\ captureTimes' = SubSeq(captureTimes, popped + 1, Len(captureTimes))
    BY <1>3 DEF AlertHit
  <2> DEFINE m == Len(captureTimes)
  <2>2. m \in Nat /\ Lost \in Nat /\ Len(saved) = Lost + m /\ popped \in 0 .. m
    BY Lengths
  <2>3. /\ captureTimes' \in Seq(Nat) /\ Len(captureTimes') = m - popped
        /\ \A i \in 1 .. m - popped : captureTimes'[i] = captureTimes[popped + i]
    BY <2>1, DropFirst DEF GateInv, GateTypes
  <2>9. Lost' = Len(saved) - Len(captureTimes')
    BY <1>1 DEF Lost
  <2> HIDE DEF m
  <2>4. Lost' = Lost + popped
    BY <2>2, <2>3, <2>9
  <2>5. GateTypes' /\ LastIsLast' /\ Ordered' /\ RateLimited'
    BY <1>1, <2>3 DEF GateInv, GateTypes, LastIsLast, Ordered, RateLimited
  <2>6. Suffix'
    <3>1. Lost' >= 0
      BY <2>2, <2>4
    <3>2. ASSUME NEW i \in 1 .. m - popped
          PROVE  captureTimes'[i] = saved'[Lost' + i]
      <4>1. popped + i \in 1 .. m /\ Lost + (popped + i) = Lost' + i
        BY <2>2, <2>4
      <4>2. captureTimes[popped + i] = saved[Lost + (popped + i)]
        BY <4>1 DEF GateInv, Suffix, m
      <4> QED  BY <1>1, <2>3, <4>1, <4>2
    <3> QED  BY <3>1, <3>2, <2>3 DEF Suffix
  <2>7. LostIsOld'
    <3>1. ASSUME NEW i \in 1 .. Lost + popped
          PROVE  now - saved[i] > Minute
      <4>1. CASE i \in 1 .. Lost
        BY <4>1 DEF GateInv, LostIsOld
      <4>2. CASE i \notin 1 .. Lost
        <5>1. i - Lost \in 1 .. popped /\ i - Lost \in 1 .. m /\ Lost + (i - Lost) = i
          BY <4>2, <2>2
        <5>2. ~InWindow(captureTimes[i - Lost])
          BY <5>1, <2>1 DEF PopsOld
        <5>3. captureTimes[i - Lost] = saved[i] /\ captureTimes[i - Lost] \in Nat
          BY <5>1 DEF GateInv, GateTypes, Suffix, m
        <5>4. now \in Nat /\ Minute \in Nat
          BY DEF GateInv, GateTypes
        <5> QED  BY <5>2, <5>3, <5>4 DEF InWindow
      <4> QED  BY <4>1, <4>2
    <3> QED  BY <3>1, <1>1, <2>4 DEF LostIsOld
  <2>8. SaveIsAllowed'
    <3>1. worker' = "save" => GateOpen(captureTimes')
      BY <1>3 DEF AlertHit
    <3> QED  BY <1>1, <3>1 DEF SaveIsAllowed, GateOpen
  <2> QED  BY <2>5, <2>6, <2>7, <2>8 DEF GateInv
<1> QED  BY <1>2, <1>3

\* A capture: the window has room for it, and the last one is far enough back.
LEMMA GateSave ==
  ASSUME GateInv, SaveCapture
  PROVE  GateInv'
<1> USE BirdAssumption
<1> DEFINE n == Len(saved)
           m == Len(captureTimes)
<1>1. /\ n \in Nat /\ m \in Nat /\ now \in Nat
      /\ saved \in Seq(Nat) /\ captureTimes \in Seq(Nat)
      /\ \A i \in 1 .. n : saved[i] \in Nat
  BY DEF GateInv, GateTypes
<1>2. /\ worker' # "save" /\ now' = now /\ lastCapture' = now
      /\ saved' = Append(saved, now) /\ captureTimes' = Append(captureTimes, now)
  BY DEF SaveCapture
<1>3. /\ Len(saved') = n + 1 /\ saved'[n + 1] = now
      /\ \A i \in 1 .. n : saved'[i] = saved[i]
  BY <1>1, <1>2
<1>4. /\ Len(captureTimes') = m + 1 /\ captureTimes'[m + 1] = now
      /\ \A i \in 1 .. m : captureTimes'[i] = captureTimes[i]
  BY <1>1, <1>2
<1>5. n = Lost + m /\ Lost' = Lost /\ Lost \in Nat
  <2>1. n = Lost + m /\ Lost \in Nat
    BY Lengths
  <2>2. Lost' = Len(saved') - Len(captureTimes')
    BY DEF Lost
  <2> QED  BY <2>1, <2>2, <1>1, <1>3, <1>4
<1>6. GateTypes' /\ LastIsLast' /\ SaveIsAllowed'
  BY <1>1, <1>2, <1>3 DEF GateTypes, LastIsLast, SaveIsAllowed
<1>7. Suffix'
  <2>1. ASSUME NEW i \in 1 .. m + 1
        PROVE  captureTimes'[i] = saved'[Lost' + i]
    <3>1. CASE i = m + 1
      BY <3>1, <1>1, <1>3, <1>4, <1>5
    <3>2. CASE i \in 1 .. m
      <4>1. Lost + i \in 1 .. n /\ captureTimes[i] = saved[Lost + i]
        <5>1. Lost + i \in 1 .. n
          BY <3>2, <1>1, <1>5
        <5> QED  BY <5>1, <3>2 DEF GateInv, Suffix
      <4> QED  BY <3>2, <4>1, <1>3, <1>4, <1>5
    <3> QED  BY <3>1, <3>2, <1>1
  <2> QED  BY <2>1, <1>4, <1>5 DEF Suffix
<1>8. LostIsOld'
  <2>1. \A i \in 1 .. Lost : i \in 1 .. n
    BY <1>1, <1>5
  <2> QED  BY <2>1, <1>2, <1>3, <1>5 DEF GateInv, LostIsOld
<1>9. Ordered'
  <2>1. \A i \in 1 .. n : saved[i] <= now
    BY DEF GateInv, Ordered
  <2>2. \A i, j \in 1 .. n : i <= j => saved[i] <= saved[j]
    BY DEF GateInv, Ordered
  <2>3. \A i \in 1 .. n + 1 : i \in 1 .. n \/ i = n + 1
    BY <1>1
  <2>4. ASSUME NEW i \in 1 .. n + 1
        PROVE  saved'[i] <= now
    <3>1. CASE i = n + 1
      BY <3>1, <1>1, <1>3
    <3>2. CASE i \in 1 .. n
      BY <3>2, <2>1, <1>3
    <3> QED  BY <3>1, <3>2, <2>3
  <2>5. ASSUME NEW i \in 1 .. n + 1, NEW j \in 1 .. n + 1, i <= j
        PROVE  saved'[i] <= saved'[j]
    <3>1. CASE j = n + 1
      BY <3>1, <2>4, <1>3
    <3>2. CASE j \in 1 .. n
      <4>1. i \in 1 .. n
        BY <3>2, <2>5, <1>1
      <4> QED  BY <4>1, <3>2, <2>2, <2>5, <1>3
    <3> QED  BY <3>1, <3>2, <2>3
  <2> QED  BY <2>4, <2>5, <1>2, <1>3 DEF Ordered
<1>10. RateLimited'
  <2>1. SUFFICES ASSUME NEW i \in 1 .. n + 1, NEW j \in 1 .. n + 1, i < j
                 PROVE  /\ saved'[j] - saved'[i] >= MinSaveInterval
                        /\ j - i >= MaxPerMinute => saved'[j] - saved'[i] >= Minute
    <3>1. DOMAIN saved' = 1 .. n + 1
      BY <1>1, <1>2
    <3> QED  BY <3>1 DEF RateLimited
  <2>2. CASE j \in 1 .. n
    <3>1. i \in 1 .. n /\ i \in DOMAIN saved /\ j \in DOMAIN saved
      BY <2>1, <2>2, <1>1
    <3>2. /\ saved[j] - saved[i] >= MinSaveInterval
          /\ j - i >= MaxPerMinute => saved[j] - saved[i] >= Minute
      BY <2>1, <3>1 DEF GateInv, RateLimited
    <3>3. saved'[i] = saved[i] /\ saved'[j] = saved[j]
      BY <2>2, <3>1, <1>3
    <3> QED  BY <3>2, <3>3
  <2>3. CASE j = n + 1
    <3>1. i \in 1 .. n /\ n \in 1 .. n /\ saved # <<>>
      BY <2>1, <2>3, <1>1
    <3>2. m < MaxPerMinute /\ now - saved[n] >= MinSaveInterval
      <4>1. GateOpen(captureTimes)
        BY DEF GateInv, SaveIsAllowed, SaveCapture
      <4>2. lastCapture = saved[n] /\ lastCapture # Never
        BY <3>1, <1>1 DEF GateInv, LastIsLast, Never
      <4> QED  BY <4>1, <4>2 DEF GateOpen
    <3>3. saved[i] <= saved[n] /\ saved[i] \in Nat /\ saved[n] \in Nat
      BY <3>1, <1>1 DEF GateInv, Ordered
    <3>4. saved'[j] - saved'[i] >= MinSaveInterval
      <4>1. saved'[j] = now /\ saved'[i] = saved[i]
        BY <2>3, <3>1, <1>3
      <4>2. now \in Nat /\ MinSaveInterval \in Nat
        BY BirdAssumption, <1>1
      <4> HIDE DEF n, m
      <4> QED  BY <4>1, <4>2, <3>2, <3>3
    <3>5. ASSUME j - i >= MaxPerMinute
          PROVE  saved'[j] - saved'[i] >= Minute
      <4>1. i \in 1 .. Lost
        <5>1. MaxPerMinute \in Nat /\ m + 1 <= MaxPerMinute /\ n + 1 - i >= MaxPerMinute
          BY <3>5, <2>3, <3>2, <1>1
        <5>2. i \in Nat \ {0}
          BY <3>1, <1>1
        <5> HIDE DEF n, m
        <5> QED  BY <5>1, <5>2, <1>1, <1>5
      <4>2. now - saved[i] > Minute
        BY <4>1 DEF GateInv, LostIsOld
      <4>3. saved'[j] = now /\ saved'[i] = saved[i]
        BY <2>3, <3>1, <1>3
      <4>4. now \in Nat /\ Minute \in Nat
        BY BirdAssumption, <1>1
      <4> HIDE DEF n, m
      <4> QED  BY <4>2, <4>3, <4>4, <3>3
    <3> QED  BY <3>4, <3>5
  <2>4. j \in 1 .. n \/ j = n + 1
    BY <1>1
  <2> QED  BY <2>2, <2>3, <2>4
<1> QED  BY <1>6, <1>7, <1>8, <1>9, <1>10 DEF GateInv

-----------------------------------------------------------------------------
LEMMA GateStep == GateInv /\ [Next]_vars => GateInv'
<1> SUFFICES ASSUME GateInv, [Next]_vars PROVE GateInv'
  OBVIOUS
<1>1. CASE Start
  BY <1>1, GateUntouched
     DEF Start, Subscribed, SubscribeFails, StartWorker, gate, history
<1>2. CASE StopFlags \/ Stop
  BY <1>2, GateUntouched
     DEF StopFlags, Stop, StopNotifies, StopJoins, StopFailed, Notified, gate, history
<1>3. CASE FrameArrives \/ Queue
  BY <1>3, GateUntouched
     DEF FrameArrives, Queue, QueueUnit, QueueRgba, Notified, gate, history
<1>4. CASE WorkerLoop
  <2>1. CASE FindsNothing \/ FallsAsleep \/ WorkerEnds \/ SaveFails
    BY <2>1, GateUntouched
       DEF FindsNothing, FallsAsleep, WorkerEnds, SaveFails, gate, history
  <2>2. CASE TakeRgba \/ TakeUnit
    BY <2>2, GateUntouched DEF TakeRgba, TakeUnit, Looks, gate
  <2>3. CASE IdleLook \/ AlertMiss
    BY <2>3, GateUntouched DEF IdleLook, AlertMiss, gate
  <2>4. CASE AlertHit
    BY <2>4, GateVerdict
  <2>5. CASE SaveCapture
    BY <2>5, GateSave
  <2> QED  BY <1>4, <2>1, <2>2, <2>3, <2>4, <2>5 DEF WorkerLoop
<1>5. CASE Tick
  BY <1>5, GateTick
<1>6. CASE UNCHANGED vars
  BY <1>6, GateUntouched DEF vars, gate, history
<1> QED  BY <1>1, <1>2, <1>3, <1>4, <1>5, <1>6 DEF Next

\* RateGateAllowsSave keeps the limits of bird_watch/README.md for every window,
\* budget and interval, however long a save takes and however often one fails.
THEOREM CapturesAreLimited == Spec => []RateLimited
<1>1. GateInv => RateLimited
  BY DEF GateInv
<1> QED  BY <1>1, GateInit, GateStep, PTL DEF Spec
-----------------------------------------------------------------------------
\* An idle watcher has not begun an inference since last_idle_check_.
LookInv ==
  /\ now \in Nat /\ lastIdleCheck \in Int /\ lastLook \in Nat \cup {Never}
  /\ lastLook <= now
  /\ ~alert => lastLook = Never \/ lastLook <= lastIdleCheck

LEMMA LookInit == Init => LookInv
BY BirdAssumption DEF Init, LookInv, Never

LEMMA LookUntouched ==
  ASSUME LookInv, UNCHANGED <<now, alert, lastIdleCheck, lastLook>>
  PROVE  LookInv'
BY DEF LookInv

\* Taking a frame: an inference that begins while Idle sets last_idle_check_ too.
LEMMA LookTaken ==
  ASSUME LookInv, NEW decodable \in BOOLEAN, Looks(decodable), UNCHANGED <<now, alert>>
  PROVE  LookInv'
<1>1. CASE ShouldRunInferenceNow /\ ~alert
  <2>1. lastIdleCheck' = now /\ (lastLook' = now \/ lastLook' = lastLook)
    BY <1>1 DEF Looks
  <2> QED  BY <2>1 DEF LookInv
<1>2. CASE ~(ShouldRunInferenceNow /\ ~alert)
  <2>1. /\ lastIdleCheck' = lastIdleCheck
        /\ lastLook' = lastLook \/ (alert /\ lastLook' = now)
    BY <1>2 DEF Looks
  <2> QED  BY <2>1 DEF LookInv
<1> QED  BY <1>1, <1>2

LEMMA LookStep == LookInv /\ [Next]_vars => LookInv'
<1> SUFFICES ASSUME LookInv, [Next]_vars PROVE LookInv'
  OBVIOUS
<1>1. CASE Start \/ StopFlags \/ Stop \/ FrameArrives \/ Queue
  BY <1>1, LookUntouched
     DEF Start, Subscribed, SubscribeFails, StartWorker, StopFlags, Stop, StopNotifies,
         StopJoins, StopFailed, FrameArrives, Queue, QueueUnit, QueueRgba, detect, history
<1>2. CASE WorkerLoop
  <2>1. CASE FindsNothing \/ FallsAsleep \/ WorkerEnds \/ SaveFails \/ SaveCapture \/ AlertHit
    BY <2>1, LookUntouched
       DEF FindsNothing, FallsAsleep, WorkerEnds, SaveFails, SaveCapture, AlertHit,
           detect, history
  <2>2. CASE TakeRgba
    BY <2>2, LookTaken DEF TakeRgba, detect
  <2>3. CASE TakeUnit
    BY <2>3, LookTaken DEF TakeUnit, detect
  <2>4. CASE IdleLook
    BY <2>4 DEF IdleLook, LookInv, detect
  <2>5. CASE AlertMiss
    <3>1. /\ UNCHANGED <<now, lastLook>>
          /\ lastIdleCheck' = now \/ UNCHANGED <<alert, lastIdleCheck>>
      BY <2>5 DEF AlertMiss
    <3>2. alert
      BY <2>5 DEF AlertMiss
    <3>3. CASE lastIdleCheck' = now
      BY <3>1, <3>3 DEF LookInv
    <3>4. CASE UNCHANGED <<alert, lastIdleCheck>>
      BY <3>1, <3>2, <3>4, LookUntouched
    <3> QED  BY <3>1, <3>3, <3>4
  <2> QED  BY <1>2, <2>1, <2>2, <2>3, <2>4, <2>5 DEF WorkerLoop
<1>3. CASE Tick
  BY <1>3 DEF Tick, LookInv, detect, history
<1>4. CASE UNCHANGED vars
  BY <1>4, LookUntouched DEF vars, detect, history
<1> QED  BY <1>1, <1>2, <1>3, <1>4 DEF Next

\* Only taking a frame begins an inference, and while Idle only when one is due.
LEMMA LookIsDue ==
  ASSUME LookInv, [Next]_vars, worker # "infer", worker' = "infer", ~alert
  PROVE  lastLook = Never \/ now - lastLook >= IdleInterval
<1>1. ShouldRunInferenceNow
  <2>1. CASE Start \/ StopFlags \/ Stop \/ FrameArrives \/ Queue
    BY <2>1
       DEF Start, Subscribed, SubscribeFails, StartWorker, StopFlags, Stop, StopNotifies,
           StopJoins, StopFailed, FrameArrives, Queue, QueueUnit, QueueRgba, Notified
  <2>2. CASE WorkerLoop
    BY <2>2
       DEF WorkerLoop, FindsNothing, FallsAsleep, WorkerEnds, SaveFails, SaveCapture,
           AlertHit, AlertMiss, IdleLook, TakeRgba, TakeUnit, Looks
  <2>3. CASE Tick \/ UNCHANGED vars
    BY <2>3 DEF Tick, vars
  <2> QED  BY <2>1, <2>2, <2>3 DEF Next
<1> QED  BY <1>1, BirdAssumption DEF ShouldRunInferenceNow, LookInv, Never

\* The idle throttle holds across alerts and undecodable frames, for every interval.
THEOREM IdleIsThrottled == Spec => IdleIsLazy
<1>1. LookInv /\ [Next]_vars
        => [worker # "infer" /\ worker' = "infer" /\ ~alert
              => lastLook = Never \/ now - lastLook >= IdleInterval]_vars
  BY LookIsDue
<1> QED  BY <1>1, LookInit, LookStep, PTL DEF Spec, IdleIsLazy
-----------------------------------------------------------------------------
\* The last k detections of a history were all hits, or all misses.
Streak(seen, k, bird) ==
  /\ k <= Len(seen)
  /\ \A i \in 1 .. Len(seen) : i > Len(seen) - k => seen[i] = bird

\* consecutive_bird_frames_ and consecutive_no_bird_frames_ count what was seen.
StreakInv ==
  /\ birdStreak \in 0 .. AlertFrames - 1 /\ noBirdStreak \in 0 .. AlertFrames - 1
  /\ recent \in Seq(BOOLEAN) /\ Len(recent) <= AlertFrames
  /\ Streak(recent, birdStreak, TRUE) /\ Streak(recent, noBirdStreak, FALSE)

LEMMA StreakInit == Init => StreakInv
BY BirdAssumption DEF Init, StreakInv, Streak

LEMMA StreakUntouched ==
  ASSUME StreakInv, UNCHANGED <<birdStreak, noBirdStreak, recent>>
  PROVE  StreakInv'
BY DEF StreakInv, Streak

\* One more detection of the same kind lengthens a streak by one; a streak of
\* AlertFrames is all that is remembered.
LEMMA StreakGrows ==
  ASSUME StreakInv, NEW bird \in BOOLEAN, NEW k \in 0 .. AlertFrames - 1,
         Streak(recent, k, bird)
  PROVE  /\ Latest(bird) \in Seq(BOOLEAN) /\ Len(Latest(bird)) <= AlertFrames
         /\ Streak(Latest(bird), k + 1, bird)
         /\ k + 1 >= AlertFrames => Latest(bird) = [i \in 1 .. AlertFrames |-> bird]
<1> DEFINE n == Len(recent)
           all == Append(recent, bird)
<1>1. n \in Nat /\ n <= AlertFrames /\ AlertFrames \in Nat \ {0} /\ recent \in Seq(BOOLEAN)
  BY BirdAssumption DEF StreakInv
<1>2. /\ all \in Seq(BOOLEAN) /\ Len(all) = n + 1 /\ all[n + 1] = bird
      /\ \A i \in 1 .. n : all[i] = recent[i]
  BY <1>1
<1>3. k <= n /\ \A i \in 1 .. n : i > n - k => recent[i] = bird
  BY DEF Streak
<1>4. \A i \in 1 .. n + 1 : i > n - k => all[i] = bird
  <2> HIDE DEF all, n
  <2>1. \A i \in 1 .. n + 1 : i = n + 1 \/ i \in 1 .. n
    BY <1>1
  <2> QED  BY <2>1, <1>1, <1>2, <1>3
<1>5. CASE n + 1 <= AlertFrames
  <2>1. Latest(bird) = all
    BY <1>5, <1>1, <1>2 DEF Latest
  <2>2. Streak(all, k + 1, bird)
    <3> HIDE DEF all, n
    <3> QED  BY <1>1, <1>2, <1>3, <1>4 DEF Streak
  <2>3. ASSUME k + 1 >= AlertFrames
        PROVE  all = [i \in 1 .. AlertFrames |-> bird]
    <3>1. n + 1 = AlertFrames /\ n - k = 0
      <4> HIDE DEF n
      <4> QED  BY <2>3, <1>5, <1>1, <1>3
    <3>2. \A i \in 1 .. AlertFrames : all[i] = bird
      <4> HIDE DEF all, n
      <4> QED  BY <3>1, <1>1, <1>4
    <3>3. all \in [1 .. AlertFrames -> BOOLEAN]
      <4> HIDE DEF all, n
      <4> QED  BY <3>1, <1>2
    <3> HIDE DEF all
    <3> QED  BY <3>2, <3>3
  <2> QED  BY <2>1, <2>2, <2>3, <1>2, <1>5
<1>6. CASE n + 1 > AlertFrames
  <2>1. n = AlertFrames
    <3> HIDE DEF n
    <3> QED  BY <1>6, <1>1
  <2> DEFINE last == Tail(all)
  <2>2. Latest(bird) = last
    BY <1>6, <1>2 DEF Latest
  <2>3. /\ last \in Seq(BOOLEAN) /\ Len(last) = n
        /\ \A i \in 1 .. n : last[i] = all[i + 1]
    <3>1. all # <<>>
      BY <1>1, <1>2
    <3> HIDE DEF all, n
    <3> QED  BY <3>1, <1>1, <1>2
  <2>4. \A i \in 1 .. n : i > n - (k + 1) => last[i] = bird
    <3> HIDE DEF all, last, n
    <3> QED  BY <2>3, <1>1, <1>4
  <2>5. Streak(last, k + 1, bird)
    <3> HIDE DEF all, last, n
    <3> QED  BY <2>1, <2>3, <2>4, <1>1 DEF Streak
  <2>6. ASSUME k + 1 >= AlertFrames
        PROVE  last = [i \in 1 .. AlertFrames |-> bird]
    <3>1. \A i \in 1 .. AlertFrames : last[i] = bird
      <4> HIDE DEF all, last, n
      <4> QED  BY <2>1, <2>4, <2>6, <1>1
    <3>2. last \in [1 .. AlertFrames -> BOOLEAN]
      <4> HIDE DEF all, last, n
      <4> QED  BY <2>1, <2>3
    <3> HIDE DEF last
    <3> QED  BY <3>1, <3>2
  <2> HIDE DEF all, last, n
  <2> QED  BY <2>1, <2>2, <2>3, <2>5, <2>6
<1> HIDE DEF all, n
<1> QED  BY <1>1, <1>5, <1>6

\* The other streak, which a detection of this kind resets.
LEMMA StreakEmpty ==
  ASSUME NEW seen \in Seq(BOOLEAN), NEW bird \in BOOLEAN
  PROVE  Streak(seen, 0, bird)
BY DEF Streak

LEMMA StreakHit ==
  ASSUME StreakInv, AlertHit
  PROVE  StreakInv' /\ (worker' = "save" => recent' = [i \in 1 .. AlertFrames |-> TRUE])
<1> USE BirdAssumption
<1>1. noBirdStreak' = 0 /\ recent' = Latest(TRUE) /\ birdStreak \in 0 .. AlertFrames - 1
  BY DEF AlertHit, StreakInv
<1>2. /\ recent' \in Seq(BOOLEAN) /\ Len(recent') <= AlertFrames
      /\ Streak(recent', birdStreak + 1, TRUE)
  BY <1>1, StreakGrows DEF StreakInv
<1>3. birdStreak + 1 >= AlertFrames => recent' = [i \in 1 .. AlertFrames |-> TRUE]
  BY <1>1, StreakGrows DEF StreakInv
<1>4. Streak(recent', 0, TRUE) /\ Streak(recent', 0, FALSE)
  BY <1>2, StreakEmpty
<1>5. CASE birdStreak + 1 >= AlertFrames
  <2>1. birdStreak' = 0
    BY <1>5 DEF AlertHit
  <2>2. StreakInv'
    <3>1. birdStreak' \in 0 .. AlertFrames - 1 /\ noBirdStreak' \in 0 .. AlertFrames - 1
      BY <1>1, <2>1
    <3>2. Streak(recent', birdStreak', TRUE) /\ Streak(recent', noBirdStreak', FALSE)
      BY <1>1, <1>4, <2>1
    <3> QED  BY <1>2, <3>1, <3>2, Zenon DEF StreakInv
  <2> QED  BY <1>3, <1>5, <2>2
<1>6. CASE ~(birdStreak + 1 >= AlertFrames)
  <2>1. birdStreak' = birdStreak + 1 /\ worker' = "check"
    BY <1>6 DEF AlertHit
  <2>2. StreakInv'
    <3>1. birdStreak' \in 0 .. AlertFrames - 1 /\ noBirdStreak' \in 0 .. AlertFrames - 1
      BY <1>1, <1>6, <2>1
    <3>2. Streak(recent', birdStreak', TRUE) /\ Streak(recent', noBirdStreak', FALSE)
      BY <1>1, <1>2, <1>4, <2>1
    <3> QED  BY <1>2, <3>1, <3>2, Zenon DEF StreakInv
  <2> QED  BY <2>1, <2>2
<1> QED  BY <1>5, <1>6

LEMMA StreakMiss ==
  ASSUME StreakInv, AlertMiss
  PROVE  StreakInv' /\ (~alert' => recent' = [i \in 1 .. AlertFrames |-> FALSE])
<1> USE BirdAssumption
<1>1. birdStreak' = 0 /\ recent' = Latest(FALSE) /\ noBirdStreak \in 0 .. AlertFrames - 1
  BY DEF AlertMiss, StreakInv
<1>2. /\ recent' \in Seq(BOOLEAN) /\ Len(recent') <= AlertFrames
      /\ Streak(recent', noBirdStreak + 1, FALSE)
  BY <1>1, StreakGrows DEF StreakInv
<1>3. noBirdStreak + 1 >= AlertFrames => recent' = [i \in 1 .. AlertFrames |-> FALSE]
  BY <1>1, StreakGrows DEF StreakInv
<1>4. Streak(recent', 0, TRUE) /\ Streak(recent', 0, FALSE)
  BY <1>2, StreakEmpty
<1>5. CASE noBirdStreak + 1 >= AlertFrames
  <2>1. noBirdStreak' = 0
    BY <1>5 DEF AlertMiss
  <2>2. StreakInv'
    <3>1. noBirdStreak' \in 0 .. AlertFrames - 1 /\ birdStreak' \in 0 .. AlertFrames - 1
      BY <1>1, <2>1
    <3>2. Streak(recent', birdStreak', TRUE) /\ Streak(recent', noBirdStreak', FALSE)
      BY <1>1, <1>4, <2>1
    <3> QED  BY <1>2, <3>1, <3>2, Zenon DEF StreakInv
  <2> QED  BY <1>3, <1>5, <2>2
<1>6. CASE ~(noBirdStreak + 1 >= AlertFrames)
  <2>1. noBirdStreak' = noBirdStreak + 1 /\ alert' = alert /\ alert
    BY <1>6 DEF AlertMiss
  <2>2. StreakInv'
    <3>1. noBirdStreak' \in 0 .. AlertFrames - 1 /\ birdStreak' \in 0 .. AlertFrames - 1
      BY <1>1, <1>6, <2>1
    <3>2. Streak(recent', birdStreak', TRUE) /\ Streak(recent', noBirdStreak', FALSE)
      BY <1>1, <1>2, <1>4, <2>1
    <3> QED  BY <1>2, <3>1, <3>2, Zenon DEF StreakInv
  <2> QED  BY <2>1, <2>2
<1> QED  BY <1>5, <1>6

\* One step of StreaksDecide.
Decided ==
  LET unanimous(bird) == recent' = [i \in 1 .. AlertFrames |-> bird] IN
  /\ worker # "save" /\ worker' = "save" => unanimous(TRUE)
  /\ alert /\ ~alert' => unanimous(FALSE)

\* A step that neither asks for a capture nor ends an alert.
LEMMA StreakAside ==
  ASSUME StreakInv, UNCHANGED <<birdStreak, noBirdStreak, recent>>,
         worker' = "save" => worker = "save", alert' = alert
  PROVE  StreakInv' /\ Decided
BY StreakUntouched DEF Decided

LEMMA StreakStep ==
  ASSUME StreakInv, [Next]_vars
  PROVE  StreakInv' /\ (UNCHANGED vars \/ Decided)
<1>1. CASE Start \/ StopFlags \/ Stop \/ FrameArrives \/ Queue
  BY <1>1, StreakAside
     DEF Start, Subscribed, SubscribeFails, StartWorker, StopFlags, Stop, StopNotifies,
         StopJoins, StopFailed, FrameArrives, Queue, QueueUnit, QueueRgba, Notified,
         detect, history
<1>2. CASE WorkerLoop
  <2>1. CASE FindsNothing \/ FallsAsleep \/ WorkerEnds \/ SaveFails \/ SaveCapture
    BY <2>1, StreakAside
       DEF FindsNothing, FallsAsleep, WorkerEnds, SaveFails, SaveCapture, detect, history
  <2>2. CASE TakeRgba \/ TakeUnit
    BY <2>2, StreakAside DEF TakeRgba, TakeUnit, Looks, detect
  <2>3. CASE IdleLook
    <3>1. CASE UNCHANGED <<detect, recent>>
      BY <2>3, <3>1, StreakAside DEF IdleLook, detect
    <3>2. CASE birdStreak' = 0 /\ noBirdStreak' = 0 /\ recent' = <<>>
      <4>1. StreakInv'
        BY <3>2, BirdAssumption DEF StreakInv, Streak
      <4>2. Decided
        BY <2>3 DEF IdleLook, Decided
      <4> QED  BY <4>1, <4>2
    <3> QED  BY <2>3, <3>1, <3>2 DEF IdleLook
  <2>4. CASE AlertHit
    <3>1. alert' = alert
      BY <2>4 DEF AlertHit
    <3> QED  BY <2>4, <3>1, StreakHit DEF Decided
  <2>5. CASE AlertMiss
    <3>1. worker' = "check"
      BY <2>5 DEF AlertMiss
    <3> QED  BY <2>5, <3>1, StreakMiss DEF Decided
  <2> QED  BY <1>2, <2>1, <2>2, <2>3, <2>4, <2>5 DEF WorkerLoop
<1>3. CASE Tick
  BY <1>3, StreakAside DEF Tick, detect, history
<1>4. CASE UNCHANGED vars
  BY <1>4, StreakUntouched DEF vars, detect, history
<1> QED  BY <1>1, <1>2, <1>3, <1>4 DEF Next

\* The counters stand for what was seen, for every alert_frames: a capture is asked
\* for, and an alert given up, after that many equal detections in a row, whatever
\* came between the frames; and idle checks keep their interval.
THEOREM LooksAndCapturesDue == Spec => LooksAndCapturesAreDue
<1>1. StreakInv /\ [Next]_vars => StreakInv'
  BY StreakStep
<1>2. StreakInv /\ [Next]_vars => [Decided]_vars
  BY StreakStep
<1>3. Spec => [][Decided]_vars
  BY <1>1, <1>2, StreakInit, PTL DEF Spec
<1>4. Spec => StreaksDecide
  BY <1>3 DEF StreaksDecide, Decided
<1> QED  BY <1>4, IdleIsThrottled DEF LooksAndCapturesAreDue
=============================================================================

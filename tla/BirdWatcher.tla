----------------------------- MODULE BirdWatcher -----------------------------
(***************************************************************************)
(* BirdWatcher, the background bird detection of the accelerator: the      *)
(* camera thread that queues frames, the worker thread that decodes them,  *)
(* looks for birds and saves captures, and the main thread that starts and *)
(* stops both.  A step is what a thread does between two points at which   *)
(* it can block or at which time may pass.                                 *)
(***************************************************************************)
EXTENDS Integers, Sequences

CONSTANTS
  IdleInterval,     \* config_.idle_interval_s
  AlertFrames,      \* config_.alert_frames
  MaxPerMinute,     \* config_.max_per_minute
  MinSaveInterval,  \* config_.min_save_interval_s
  Minute,           \* the length of the rolling window, 60 s in the code
  MaxQueue,         \* kMaxQueueSize
  Gpu,              \* whether a camera backend has a GpuFrameProcessor: those there are
  MaxClock          \* bound: the clock stops there

ASSUME BirdAssumption ==
  /\ {IdleInterval, MaxPerMinute, MinSaveInterval, Minute, MaxClock} \subseteq Nat
  /\ {AlertFrames, MaxQueue} \subseteq Nat \ {0}
  /\ Gpu \subseteq BOOLEAN

Never == -1  \* no such time yet

VARIABLES
  now,            \* steady_clock
  owner,          \* the main thread, in Start or Stop
  running,        \* running_
  camera,         \* the camera thread: which callback it is in
  worker,         \* the worker thread
  frames,         \* how many access units frame_queue_ holds
  rgba,           \* how many frames rgba_queue_ holds
  connected,      \* gpu_processor_ is set
  decoder,        \* decoder_context_
  alert,          \* state_ is Alert
  birdStreak,     \* consecutive_bird_frames_
  noBirdStreak,   \* consecutive_no_bird_frames_
  lastIdleCheck,  \* last_idle_check_
  captureTimes,   \* capture_times_
  lastCapture,    \* last_capture_time_, Never while had_capture_ is false
  saved,          \* history: when a capture was saved
  lastLook,       \* history: when the last inference began
  recent          \* history: the last AlertFrames detections of this alert

threads == <<owner, running, camera, connected>>
queues  == <<frames, rgba>>
detect  == <<alert, birdStreak, noBirdStreak>>
gate    == <<captureTimes, lastCapture>>
history == <<saved, lastLook, recent>>
vars == <<now, threads, worker, queues, decoder, detect, lastIdleCheck, gate, history>>

Times == 0 .. MaxClock

BirdTypeOK ==
  /\ now \in Times
  /\ owner \in {"subscribing", "starting", "running", "flagged", "joining", "failed", "stopped"}
  /\ {running, connected, alert} \subseteq BOOLEAN
  /\ camera \in {"idle", "h264", "rgba"}
  /\ worker \in {"unstarted", "check", "blocking", "asleep", "infer", "save", "done"}
  /\ frames \in 0 .. MaxQueue /\ rgba \in 0 .. MaxQueue
  /\ decoder \in {"open", "closed"}
  /\ birdStreak \in 0 .. AlertFrames - 1 /\ noBirdStreak \in 0 .. AlertFrames - 1
  /\ lastIdleCheck \in -IdleInterval .. MaxClock
  /\ captureTimes \in Seq(Times) /\ Len(captureTimes) <= MaxPerMinute
  /\ lastCapture \in Times \cup {Never}
  /\ saved \in Seq(Times) /\ lastLook \in Times \cup {Never}
  /\ recent \in Seq(BOOLEAN) /\ Len(recent) <= AlertFrames

\* Start() has set running_, reset the detection state and opened the decoder.
Init ==
  /\ now = 0 /\ owner = "subscribing" /\ running = TRUE
  /\ camera = "idle" /\ worker = "unstarted" /\ frames = 0 /\ rgba = 0
  /\ connected = FALSE /\ decoder = "open"
  /\ alert = FALSE /\ birdStreak = 0 /\ noBirdStreak = 0
  /\ lastIdleCheck = now - IdleInterval
  /\ captureTimes = <<>> /\ lastCapture = Never
  /\ saved = <<>> /\ lastLook = Never /\ recent = <<>>

-----------------------------------------------------------------------------
\* The main thread.

Subscribed ==
  /\ owner = "subscribing"
  /\ owner' = "starting"
  /\ UNCHANGED <<now, running, camera, connected, worker, queues, decoder,
                 detect, lastIdleCheck, gate, history>>

SubscribeFails ==
  /\ owner = "subscribing"
  /\ owner' = "failed" /\ running' = FALSE /\ decoder' = "closed"
  /\ UNCHANGED <<now, camera, connected, worker, queues,
                 detect, lastIdleCheck, gate, history>>

\* ConnectGpuPath, which destroys the decoder when there is a GPU path, and the
\* start of the worker.
StartWorker ==
  /\ owner = "starting"
  /\ owner' = "running" /\ worker' = "check"
  /\ connected' \in Gpu
  /\ decoder' = IF connected' THEN "closed" ELSE decoder
  /\ UNCHANGED <<now, running, camera, queues, detect, lastIdleCheck, gate, history>>

StopFlags ==
  /\ owner = "running"
  /\ owner' = "flagged" /\ running' = FALSE
  /\ UNCHANGED <<now, camera, connected, worker, queues, decoder,
                 detect, lastIdleCheck, gate, history>>

\* Stop() of a watcher that is not running.
StopFailed ==
  /\ owner = "failed"
  /\ owner' = "stopped"
  /\ UNCHANGED <<now, running, camera, connected, worker, queues, decoder,
                 detect, lastIdleCheck, gate, history>>

Notified == IF worker = "asleep" THEN "check" ELSE worker

\* DisconnectGpuPath and notify_all, neither of them under queue_mutex_.
StopNotifies ==
  /\ owner = "flagged"
  /\ owner' = "joining" /\ connected' = FALSE /\ worker' = Notified
  /\ UNCHANGED <<now, running, camera, queues, decoder,
                 detect, lastIdleCheck, gate, history>>

StopJoins ==
  /\ owner = "joining" /\ worker = "done"
  /\ owner' = "stopped" /\ decoder' = "closed"
  /\ UNCHANGED <<now, running, camera, connected, worker, queues,
                 detect, lastIdleCheck, gate, history>>

-----------------------------------------------------------------------------
\* The camera thread.

\* A callback begins: the checks before queue_mutex_.
FrameArrives ==
  /\ camera = "idle" /\ owner # "subscribing" /\ running
  /\ camera' = IF connected THEN "rgba" ELSE "h264"
  /\ UNCHANGED <<now, owner, running, connected, worker, queues, decoder,
                 detect, lastIdleCheck, gate, history>>

QueueMutexFree == worker # "blocking"

\* A full queue loses its oldest frame.
Pushed(held) == IF held < MaxQueue THEN held + 1 ELSE held

\* Fault: the unit is queued, and the worker notified, without queue_mutex_.
QueueUnlocked ==
  /\ camera = "h264"
  /\ frames' = Pushed(frames)
  /\ camera' = "idle" /\ worker' = Notified
  /\ UNCHANGED <<now, owner, running, connected, rgba, decoder,
                 detect, lastIdleCheck, gate, history>>

QueueUnit ==
  /\ camera = "h264" /\ QueueMutexFree
  /\ frames' = Pushed(frames)
  /\ camera' = "idle" /\ worker' = Notified
  /\ UNCHANGED <<now, owner, running, connected, rgba, decoder,
                 detect, lastIdleCheck, gate, history>>

QueueRgba ==
  /\ camera = "rgba" /\ QueueMutexFree
  /\ rgba' = Pushed(rgba)
  /\ camera' = "idle" /\ worker' = Notified
  /\ UNCHANGED <<now, owner, running, connected, frames, decoder,
                 detect, lastIdleCheck, gate, history>>

-----------------------------------------------------------------------------
\* The worker thread.

\* Nothing queued: the predicate of the wait is false, queue_mutex_ still held.
FindsNothing ==
  /\ worker = "check" /\ running /\ frames = 0 /\ rgba = 0
  /\ worker' = "blocking"
  /\ UNCHANGED <<now, threads, queues, decoder, detect, lastIdleCheck, gate, history>>

\* The wait blocks and releases the mutex.
FallsAsleep ==
  /\ worker = "blocking"
  /\ worker' = "asleep"
  /\ UNCHANGED <<now, threads, queues, decoder, detect, lastIdleCheck, gate, history>>

WorkerEnds ==
  /\ worker = "check" /\ ~running
  /\ worker' = "done"
  /\ UNCHANGED <<now, threads, queues, decoder, detect, lastIdleCheck, gate, history>>

ShouldRunInferenceNow == alert \/ now - lastIdleCheck >= IdleInterval

\* Whether to look at the frame is decided, and an idle check used up, before the
\* frame is known to be decodable.
Looks(decodable) ==
  LET due == ShouldRunInferenceNow IN
  /\ lastIdleCheck' = IF due /\ ~alert THEN now ELSE lastIdleCheck
  /\ worker'   = IF due /\ decodable THEN "infer" ELSE "check"
  /\ lastLook' = IF due /\ decodable THEN now ELSE lastLook

TakeRgba ==
  /\ worker = "check" /\ running /\ rgba > 0
  /\ rgba' = rgba - 1
  /\ Looks(TRUE)
  /\ UNCHANGED <<now, threads, frames, decoder, detect, gate, saved, recent>>

\* Whether the decoder returns a picture is up to the stream.
TakeUnit ==
  /\ worker = "check" /\ running /\ rgba = 0 /\ frames > 0
  /\ frames' = frames - 1
  /\ \E picture \in BOOLEAN :
       /\ picture => decoder = "open"
       /\ Looks(picture)
  /\ UNCHANGED <<now, threads, rgba, decoder, detect, gate, saved, recent>>

Latest(bird) ==
  LET all == Append(recent, bird) IN
  IF Len(all) > AlertFrames THEN Tail(all) ELSE all

\* DetectBird while Idle; a failing engine counts as no bird.
IdleLook ==
  /\ worker = "infer" /\ ~alert
  /\ worker' = "check"
  /\ \/ UNCHANGED <<detect, recent>>
     \/ /\ alert' = TRUE /\ birdStreak' = 0 /\ noBirdStreak' = 0
        /\ recent' = <<>>
  /\ UNCHANGED <<now, threads, queues, decoder, lastIdleCheck, gate, saved, lastLook>>

InWindow(t) == now - t <= Minute

\* How many times pop_front runs: as long as the oldest capture left is out of
\* the window.
PopsOld(popped) ==
  /\ \A i \in 1 .. popped : ~InWindow(captureTimes[i])
  /\ popped < Len(captureTimes) => InWindow(captureTimes[popped + 1])

\* RateGateAllowsSave, after the captures older than the window are dropped.
GateOpen(times) ==
  /\ Len(times) < MaxPerMinute
  /\ lastCapture = Never \/ now - lastCapture >= MinSaveInterval

\* A bird while Alert: the streak grows; a full streak asks the rate gate.
AlertHit ==
  /\ worker = "infer" /\ alert
  /\ noBirdStreak' = 0 /\ recent' = Latest(TRUE)
  /\ IF birdStreak + 1 >= AlertFrames
       THEN /\ birdStreak' = 0
            /\ \E popped \in 0 .. Len(captureTimes) :
                 /\ PopsOld(popped)
                 /\ captureTimes' = SubSeq(captureTimes, popped + 1, Len(captureTimes))
            /\ worker' = IF GateOpen(captureTimes') THEN "save" ELSE "check"
       ELSE /\ birdStreak' = birdStreak + 1
            /\ worker' = "check"
            /\ UNCHANGED captureTimes
  /\ UNCHANGED <<now, threads, queues, decoder, alert, lastIdleCheck, lastCapture,
                 saved, lastLook>>

\* Fault: a miss does not break the streak of hits.
MissKeepsStreak ==
  /\ worker = "infer" /\ alert
  /\ worker' = "check" /\ recent' = Latest(FALSE)
  /\ IF noBirdStreak + 1 >= AlertFrames
       THEN alert' = FALSE /\ noBirdStreak' = 0 /\ lastIdleCheck' = now
       ELSE noBirdStreak' = noBirdStreak + 1 /\ UNCHANGED <<alert, lastIdleCheck>>
  /\ UNCHANGED <<now, threads, queues, decoder, birdStreak, gate, saved, lastLook>>

\* No bird while Alert: a full streak of misses ends the alert.
AlertMiss ==
  /\ worker = "infer" /\ alert
  /\ worker' = "check" /\ birdStreak' = 0 /\ recent' = Latest(FALSE)
  /\ IF noBirdStreak + 1 >= AlertFrames
       THEN alert' = FALSE /\ noBirdStreak' = 0 /\ lastIdleCheck' = now
       ELSE noBirdStreak' = noBirdStreak + 1 /\ UNCHANGED <<alert, lastIdleCheck>>
  /\ UNCHANGED <<now, threads, queues, decoder, gate, saved, lastLook>>

\* Fault: the window is not told of the capture.
SaveUncounted ==
  /\ worker = "save"
  /\ worker' = "check"
  /\ lastCapture' = now
  /\ saved' = Append(saved, now)
  /\ UNCHANGED <<now, threads, queues, decoder, detect, lastIdleCheck, captureTimes,
                 lastLook, recent>>

\* The still is grabbed, converted and written: only then the gate learns of it.
SaveCapture ==
  /\ worker = "save"
  /\ worker' = "check"
  /\ captureTimes' = Append(captureTimes, now) /\ lastCapture' = now
  /\ saved' = Append(saved, now)
  /\ UNCHANGED <<now, threads, queues, decoder, detect, lastIdleCheck, lastLook, recent>>

\* No still, no directory or no space: the capture is skipped.
SaveFails ==
  /\ worker = "save"
  /\ worker' = "check"
  /\ UNCHANGED <<now, threads, queues, decoder, detect, lastIdleCheck, gate, history>>

-----------------------------------------------------------------------------
Tick ==
  /\ now < MaxClock
  /\ now' = now + 1
  /\ UNCHANGED <<threads, worker, queues, decoder, detect, lastIdleCheck, gate, history>>

Start == Subscribed \/ SubscribeFails \/ StartWorker
Stop == StopNotifies \/ StopJoins \/ StopFailed
Queue == QueueUnit \/ QueueRgba
WorkerLoop ==
  \/ FindsNothing \/ FallsAsleep \/ WorkerEnds \/ TakeRgba \/ TakeUnit
  \/ IdleLook \/ AlertHit \/ AlertMiss \/ SaveCapture \/ SaveFails

Next == Start \/ StopFlags \/ Stop \/ FrameArrives \/ Queue \/ WorkerLoop \/ Tick

Spec == Init /\ [][Next]_vars

\* The threads run; frames, Stop() and time come as they please.
FairSpec == Spec /\ WF_vars(Start) /\ WF_vars(Stop) /\ WF_vars(Queue) /\ WF_vars(WorkerLoop)

-----------------------------------------------------------------------------
\* The documented rate limits, over whatever interleaving of slow saves, failed
\* saves, alerts and time: no window of a minute sees more than MaxPerMinute
\* captures, and two captures are at least MinSaveInterval apart.
RateLimited ==
  \A i, j \in DOMAIN saved : i < j =>
    /\ saved[j] - saved[i] >= MinSaveInterval
    /\ j - i >= MaxPerMinute => saved[j] - saved[i] >= Minute

\* An idle watcher looks at a frame only when no inference, idle or alert, began
\* within the idle interval: last_idle_check_ is kept across the two states.
IdleIsLazy ==
  [][worker # "infer" /\ worker' = "infer" /\ ~alert
       => lastLook = Never \/ now - lastLook >= IdleInterval]_vars

\* A capture is tried only after AlertFrames detections in a row of the present
\* alert were hits, and an alert ends only after as many misses in a row.
StreaksDecide ==
  [][LET unanimous(bird) == recent' = [i \in 1 .. AlertFrames |-> bird] IN
     /\ worker # "save" /\ worker' = "save" => unanimous(TRUE)
     /\ alert /\ ~alert' => unanimous(FALSE)]_vars

\* The watcher infers and captures no more than it is asked to.
LooksAndCapturesAreDue == IdleIsLazy /\ StreaksDecide

Waiting == worker \in {"blocking", "asleep"}

\* No wakeup is lost between a frame and the worker's wait: a worker that waits
\* while a callback delivers a frame gets up.
FrameWakesWorker == camera # "idle" /\ Waiting ~> ~Waiting

\* Stop() returns (bird_watch/README.md: both states end with Stop()).
StopReturns == owner = "flagged" ~> owner = "stopped"
=============================================================================

--------------------------- MODULE AcceleratorProofs ---------------------------
(***************************************************************************)
(* Proofs about the accelerator's control client and the session table its *)
(* commands act on, for any set of session ids, any timeout, any number of *)
(* reconnects, of sessions and of threads.                                 *)
(***************************************************************************)
EXTENDS ControlClient, WebRTCManager, TLAPS

USE ClientAssumption

-----------------------------------------------------------------------------
\* The inductive invariant: what each of the three threads may hold where.

\* A cycle under way is not the last one counted.
CycleBound == main \notin {"loop", "returned"} => generation < MaxCycles

\* The threads of a cycle live between the ack and their joins.
Serving == {"check", "read", "handle", "respond", "wind", "joinKeepalive"}
ThreadsJoined ==
  /\ keepalive # "off" => main \in Serving
  /\ pump # "off" => main \in Serving \cup {"joinPump"}

\* Who is inside Write stands where it calls Send.
WriterSends ==
  /\ writer = "main" => main \in {"register", "respond"}
  /\ writer = "keepalive" => keepalive = "send"
  /\ writer = "pump" => pump = "send"

PointersLive == ctx = InCycle

\* Every open session is noted, and nothing is noted outside a dispatch loop.
SessionsNoted ==
  /\ open \subseteq active
  /\ main \in {"loop", "publish", "register", "ack", "clear", "bump", "returned"} => active = {}

\* A watchdog of the current generation means a cancelled stream.
WatchdogOfCancelled ==
  /\ watchdogs \subseteq 0..generation
  /\ generation \in watchdogs => stream = "cancelled" /\ main \notin {"loop", "publish", "returned"}

IInv ==
  /\ ClientTypeOK /\ CycleBound /\ ThreadsJoined /\ WriterSends
  /\ PointersLive /\ SessionsNoted /\ WatchdogOfCancelled

-----------------------------------------------------------------------------
\* Every step of every thread preserves the invariant, one step per action.
LEMMA InvStep == IInv /\ [Next]_vars => IInv'
<1> SUFFICES ASSUME IInv, [Next]_vars PROVE IInv'
  OBVIOUS
<1> USE DEF IInv, ClientTypeOK, CycleBound, ThreadsJoined, Serving, WriterSends,
            PointersLive, InCycle, SessionsNoted, WatchdogOfCancelled, vars, threads,
            wire, flags, watch, sessions, Running, Stopping, Goto, At, Dead
<1>1. CASE Main
  <2>1. CASE Dial
    <3>1. draining' \in BOOLEAN /\ armed' \in BOOLEAN /\ failed' \in BOOLEAN /\ cstop' \in BOOLEAN
      BY <2>1 DEF Dial
    <3> QED
      BY <2>1, <3>1 DEF Dial
  <2>2. CASE Publish
    BY <2>2 DEF Publish
  <2>3. CASE BeginRegister
    BY <2>3 DEF BeginRegister, BeginWrite
  <2>4. CASE NotAccepted
    BY <2>4 DEF NotAccepted
  <2>5. ASSUME NEW ok \in BOOLEAN, EndRegister(ok) PROVE IInv'
    BY <2>5 DEF EndRegister, EndWrite
  <2>6. ASSUME NEW ok \in BOOLEAN, EndResponse(ok) PROVE IInv'
    BY <2>6 DEF EndResponse, EndWrite
  <2>7. CASE Check
    BY <2>7 DEF Check
  <2>8. CASE ReadEnds
    BY <2>8 DEF ReadEnds
  <2>9. CASE BeginResponse
    BY <2>9 DEF BeginResponse, BeginWrite
  <2>10. CASE Wind
    BY <2>10 DEF Wind
  <2>11. CASE JoinKeepalive
    BY <2>11 DEF JoinKeepalive
  <2>12. CASE JoinPump
    BY <2>12 DEF JoinPump
  <2>13. CASE Finish
    BY <2>13 DEF Finish
  <2>14. CASE CleanupCancels
    <3>1. (watchdogs \subseteq 0..generation)'
      <4>1. generation' = generation /\ generation \in 0..generation
        BY <2>14 DEF CleanupCancels, CancelStream, Arm
      <4>2. watchdogs' \subseteq watchdogs \cup {generation}
        BY <2>14 DEF CleanupCancels, CancelStream, Arm
      <4> QED
        BY <4>1, <4>2
    <3>2. draining' \in BOOLEAN /\ armed' \in BOOLEAN /\ failed' \in BOOLEAN /\ cstop' \in BOOLEAN
      BY <2>14 DEF CleanupCancels, CancelStream, Arm
    <3> QED
      BY <2>14, <3>1, <3>2 DEF CleanupCancels, CancelStream, Arm
  <2>15. CASE CleanupClears
    BY <2>15 DEF CleanupClears
  <2>16. CASE Bump
    BY <2>16 DEF Bump
  <2>17. CASE RunReturns
    BY <2>17 DEF RunReturns
  <2> QED
    BY <1>1, <2>1, <2>2, <2>3, <2>4, <2>5, <2>6, <2>7, <2>8, <2>9, <2>10, <2>11, <2>12, <2>13, <2>14, <2>15, <2>16, <2>17 DEF Main
<1>2. CASE Handle
  <2>1. CASE CleanupTearsDown
    BY <2>1 DEF CleanupTearsDown
  <2>2. CASE HandleCandidate
    BY <2>2 DEF HandleCandidate
  <2>3. ASSUME NEW sid \in Sids, HandleClose(sid) PROVE IInv'
    BY <2>3 DEF HandleClose
  <2>4. ASSUME NEW sid \in Sids, NEW ok \in BOOLEAN, HandleStart(sid, ok) PROVE IInv'
    BY <2>4 DEF HandleStart, Noted
  <2> QED
    BY <1>2, <2>1, <2>2, <2>3, <2>4 DEF Handle
<1>3. CASE Server
  <2>1. CASE PeerBreaks
    BY <2>1 DEF PeerBreaks
  <2>2. CASE PeerStopsDraining
    <3>1. draining' \in BOOLEAN /\ armed' \in BOOLEAN /\ failed' \in BOOLEAN /\ cstop' \in BOOLEAN
      BY <2>2 DEF PeerStopsDraining
    <3> QED
      BY <2>2, <3>1 DEF PeerStopsDraining
  <2>3. CASE Accepted
    BY <2>3 DEF Accepted
  <2>4. CASE NotAccepted
    BY <2>4 DEF NotAccepted
  <2>5. CASE IpChanged
    BY <2>5 DEF IpChanged
  <2>6. ASSUME NEW next \in {"check", "handle"}, ReadMessage(next) PROVE IInv'
    BY <2>6 DEF ReadMessage
  <2> QED
    BY <1>3, <2>1, <2>2, <2>3, <2>4, <2>5, <2>6 DEF Server
<1>4. CASE Keepalive
  <2>1. CASE KeepaliveEnds
    BY <2>1 DEF KeepaliveEnds
  <2>2. CASE FindsStale
    BY <2>2 DEF FindsStale
  <2>3. CASE BeginKeepalive
    BY <2>3 DEF BeginKeepalive
  <2>4. CASE LockKeepalive
    BY <2>4 DEF LockKeepalive, BeginWrite
  <2>5. CASE KeepaliveGivesUp
    <3>1. (watchdogs \subseteq 0..generation)'
      <4>1. generation' = generation /\ generation \in 0..generation
        BY <2>5 DEF KeepaliveGivesUp, CancelStream, Arm
      <4>2. watchdogs' \subseteq watchdogs \cup {generation}
        BY <2>5 DEF KeepaliveGivesUp, CancelStream, Arm
      <4> QED
        BY <4>1, <4>2
    <3>2. draining' \in BOOLEAN /\ armed' \in BOOLEAN /\ failed' \in BOOLEAN /\ cstop' \in BOOLEAN
      BY <2>5 DEF KeepaliveGivesUp, CancelStream, Arm
    <3> QED
      BY <2>5, <3>1, <3>2 DEF KeepaliveGivesUp, CancelStream, Arm
  <2>6. ASSUME NEW ok \in BOOLEAN, EndKeepalive(ok) PROVE IInv'
    BY <2>6 DEF EndKeepalive, EndWrite
  <2> QED
    BY <1>4, <2>1, <2>2, <2>3, <2>4, <2>5, <2>6 DEF Keepalive
<1>5. CASE Pump
  <2>1. CASE PumpEnds
    BY <2>1 DEF PumpEnds
  <2>2. CASE BeginPump
    BY <2>2 DEF BeginPump
  <2>3. CASE LockPump
    BY <2>3 DEF LockPump, BeginWrite
  <2>4. ASSUME NEW ok \in BOOLEAN, EndPump(ok) PROVE IInv'
    BY <2>4 DEF EndPump, EndWrite
  <2> QED
    BY <1>5, <2>1, <2>2, <2>3, <2>4 DEF Pump
<1>6. CASE Tick
  BY <1>6 DEF Tick
<1>7. CASE StopFlags
  BY <1>7 DEF StopFlags
<1>8. CASE StopCancels
  <2>1. (watchdogs \subseteq 0..generation)'
    <3>1. generation' = generation /\ generation \in 0..generation
      BY <1>8 DEF StopCancels, CancelStream, Arm
    <3>2. watchdogs' \subseteq watchdogs \cup {generation}
      BY <1>8 DEF StopCancels, CancelStream, Arm
    <3> QED
      BY <3>1, <3>2
  <2>2. draining' \in BOOLEAN /\ armed' \in BOOLEAN /\ failed' \in BOOLEAN /\ cstop' \in BOOLEAN
    BY <1>8 DEF StopCancels, CancelStream, Arm
  <2> QED
    BY <1>8, <2>1, <2>2 DEF StopCancels, CancelStream, Arm
<1>9. ASSUME NEW g \in 0..MaxCycles, Watchdog(g) PROVE IInv'
  <2>1. CASE WatchdogLeaves(g)
    BY <1>9, <2>1 DEF WatchdogLeaves
  <2>2. CASE WatchdogAborts(g)
    BY <1>9, <2>2 DEF WatchdogAborts
  <2> QED
    BY <1>9, <2>1, <2>2 DEF Watchdog
<1>10. CASE UNCHANGED vars
  BY <1>10
<1> QED
  BY <1>1, <1>2, <1>3, <1>4, <1>5, <1>6, <1>7, <1>8, <1>9, <1>10 DEF Next

LEMMA Invariant == Spec => []IInv
<1>1. Init => IInv
  <2> SUFFICES ASSUME Init PROVE IInv
    OBVIOUS
  <2> USE DEF Init
  <2>1. draining \in BOOLEAN /\ ctx \in BOOLEAN /\ failed \in BOOLEAN /\ cstop \in BOOLEAN
    OBVIOUS
  <2>2. armed \in BOOLEAN
    OBVIOUS
  <2>3. ClientTypeOK
    BY <2>1, <2>2 DEF ClientTypeOK
  <2> QED
    BY <2>3 DEF IInv, CycleBound, ThreadsJoined, Serving, WriterSends,
       PointersLive, InCycle, SessionsNoted, WatchdogOfCancelled
<1> QED
  BY <1>1, InvStep, PTL DEF Spec

-----------------------------------------------------------------------------
\* Every variable keeps its type: the generation stays within the cycles dialed
\* and the silence clock saturates.
THEOREM ClientTypeCorrect == Spec => []ClientTypeOK
<1>1. IInv => ClientTypeOK
  BY DEF IInv
<1> QED
  BY <1>1, Invariant, PTL

\* ctx_ and stream_ never outlive RunOnce, whatever Stop() and the threads do.
THEOREM NoUseAfterReturn == Spec => []NoDanglingStream
<1>1. IInv => NoDanglingStream
  BY DEF IInv, ClientTypeOK, NoDanglingStream, ThreadsJoined, Serving, WriterSends,
         PointersLive, InCycle
<1> QED
  BY <1>1, Invariant, PTL

\* Run never dials again with a session of the lost connection still open.
THEOREM SessionsEnd == Spec => []NoSessionOutlivesStream
<1>1. IInv => NoSessionOutlivesStream
  BY DEF IInv, NoSessionOutlivesStream, SessionsNoted, At
<1> QED
  BY <1>1, Invariant, PTL

\* The watchdog aborts only a cycle that was cancelled and is not torn down.
THEOREM AbortsAreDeserved == Spec => AbortOnlyWedged
<1> DEFINE Deserved == process' = "aborted" /\ process # "aborted" => stream = "cancelled"
<1>1. IInv /\ [Next]_vars => [Deserved]_vars
  <2> SUFFICES ASSUME IInv, Next, process' = "aborted", process # "aborted"
               PROVE  stream = "cancelled"
    OBVIOUS
  <2>1. PICK g \in 0..MaxCycles : WatchdogAborts(g)
    BY DEF Next, Main, Handle, Server, Keepalive, Pump, Watchdog, Dial, Publish,
       BeginRegister, NotAccepted, EndRegister, EndResponse, Check, ReadEnds,
       BeginResponse, Wind, JoinKeepalive, JoinPump, Finish, CleanupCancels,
       CleanupClears, Bump, RunReturns, CleanupTearsDown, HandleCandidate,
       HandleClose, HandleStart, PeerBreaks, PeerStopsDraining, Accepted, IpChanged,
       ReadMessage, KeepaliveEnds, FindsStale, BeginKeepalive, LockKeepalive,
       KeepaliveGivesUp, EndKeepalive, PumpEnds, BeginPump, LockPump, EndPump, Tick,
       StopFlags, StopCancels, WatchdogLeaves
  <2> QED
    BY <2>1 DEF WatchdogAborts, IInv, WatchdogOfCancelled
<1> QED
  BY <1>1, Invariant, PTL DEF Spec, AbortOnlyWedged

-----------------------------------------------------------------------------
\* The session table.

\* Who holds which mutex where.
MapLockHeld ==
  /\ control.at = "negotiate" => mapLock = "control"
  /\ mapLock = "control" => control.at \in {"negotiate", "relock", "drain", "remove"}
  /\ mapLock = "cleanup" <=> cleanup.at # "sleep"

\* Who closes a session under its mutex keeps that mutex while handlers run; CloseSession
\* keeps it until the session is removed.
SessionLockHeld ==
  /\ \A s \in Sessions : lock[s] = "control" =>
       /\ control.at \in {"relock", "drain", "remove"}
       /\ control.session = s /\ transport[s] = "closed"
  /\ control.at \in {"relock", "drain"} => lock[control.session] = "control"
  /\ control.at = "remove" /\ lock[control.session] # "control" => mapLock = "control"
  /\ \A s \in Sessions : lock[s] = "cleanup" => cleanup.at \in {"relock", "drain"}
  /\ \A s, r \in Sessions : lock[s] = "cleanup" /\ lock[r] = "cleanup" => s = r

\* What the round of the cleanup thread has to visit and what it closed is in the table.
RoundCurrent ==
  /\ \A id \in cleanup.todo \cup cleanup.doomed : mapLock = "cleanup" /\ table[id] # None
  /\ \A id \in cleanup.doomed : transport[table[id]] = "closed"

\* A session is in the table once, and is a created one.
TableInjective ==
  /\ \A i, j \in Ids : table[i] = table[j] /\ table[i] # None => i = j
  /\ \A id \in Ids : table[id] # None => transport[table[id]] # "none"

\* The control thread alone adds to the table: where it works on a session, the table has
\* that session or none at its id, and that session nowhere else; before the commit, none.
CallCurrent ==
  control.at # "idle" =>
    /\ control.id \in Ids /\ control.session \in Sessions
    /\ transport[control.session] # "none"
    /\ table[control.id] \in {control.session, None}
    /\ \A id \in Ids : table[id] = control.session => id = control.id
    /\ mapLock = "control" => table[control.id] = None
    /\ control.at = "negotiate" => transport[control.session] = "open"

\* A thread of the library or the hub that is not idle has a session.
WorkerCurrent == \A w \in Workers : worker[w].at # "idle" => worker[w].session \in Sessions

ManagerInv ==
  /\ ManagerTypeOK /\ MapLockHeld /\ SessionLockHeld /\ RoundCurrent /\ TableInjective /\ CallCurrent
  /\ WorkerCurrent /\ ClosedIsLeaving

LEMMA ManagerInitInv == ManagerInit => ManagerInv
BY ManagerAssumption
DEF ManagerInit, ManagerInv, ManagerTypeOK, MapLockHeld, SessionLockHeld, RoundCurrent, TableInjective,
    CallCurrent, WorkerCurrent, ClosedIsLeaving, Places, Rounds, Errands, Idle, AtRest

\* What the threads of the library and the hub do, and what they leave alone.
WorkerStep ==
  Handlers \/ Frames \/ \E w \in Workers : WorkerSteps(w)

LEMMA WorkersLeaveTable == WorkerStep => UNCHANGED <<table, transport, locks, control, cleanup>>
BY DEF WorkerStep, Handlers, Frames, WorkerSteps, TrackArrives, ChannelArrives, Arrives, ChannelCloses,
       CameraFrame, Beat, Media, Touch, Attach, media

LEMMA WorkersTyped ==
  ASSUME ManagerTypeOK, CallCurrent, WorkerCurrent, WorkerStep
  PROVE  ManagerTypeOK' /\ WorkerCurrent'
<1> USE DEF ManagerTypeOK, Errands, Places, Idle, Workers
<1>1. UNCHANGED <<table, transport, locks, control, cleanup>>
  BY WorkersLeaveTable
<1>0. None \notin Sessions
  BY ManagerAssumption
<1>2. SUFFICES /\ worker' \in [Workers -> [at : Errands, session : Sessions \cup {None}]]
               /\ WorkerCurrent'
               /\ UNCHANGED <<subscribed, gone>>
               /\ stale' \subseteq Sessions /\ attached' \subseteq Sessions
  BY <1>1 DEF locks
<1>3. ASSUME NEW w \in Workers, NEW s \in Sessions, NEW at \in Errands, Enters(w, s, at)
      PROVE  worker' \in [Workers -> [at : Errands, session : Sessions \cup {None}]] /\ WorkerCurrent'
  BY <1>3 DEF Enters, WorkerCurrent
<1>4. CASE Handlers
  <2>1. CASE \E w \in Callbacks : TrackArrives(w)
    BY <2>1, <1>3 DEF TrackArrives, CallCurrent, media
  <2>2. CASE \E w \in Callbacks, s \in Sessions : Arrives(w, s) \/ ChannelArrives(w, s) \/ ChannelCloses(w, s)
    BY <2>2, <1>3 DEF Arrives, ChannelArrives, ChannelCloses, media
  <2> QED BY <1>4, <2>1, <2>2 DEF Handlers
<1>5. CASE Frames
  <2>1. PICK w \in Cameras, id \in Ids : CameraFrame(w, id)
    BY <1>5 DEF Frames
  <2>2. table[id] \in Sessions
    BY <2>1 DEF CameraFrame
  <2> QED BY <2>1, <2>2, <1>3 DEF CameraFrame, media
<1>6. CASE \E w \in Workers : WorkerSteps(w)
  <2>1. PICK w \in Workers : WorkerSteps(w)
    BY <1>6
  <2>2. \E at \in Errands \ {"idle"} :
          \/ worker' = [worker EXCEPT ![w].at = at] /\ worker[w].at # "idle"
          \/ worker' = [worker EXCEPT ![w] = Idle]
    BY <2>1 DEF WorkerSteps, Beat, Media, Touch, Attach
  <2>3. worker' \in [Workers -> [at : Errands, session : Sessions \cup {None}]] /\ WorkerCurrent'
    BY <2>2 DEF WorkerCurrent
  <2>4. UNCHANGED <<subscribed, gone>> /\ stale' \subseteq Sessions
    BY <2>1 DEF WorkerSteps, Beat, Media, Touch, Attach, media
  <2>5. attached' \subseteq Sessions
    BY <2>1 DEF WorkerSteps, Beat, Media, Touch, Attach, media, WorkerCurrent
  <2> QED BY <2>3, <2>4, <2>5
<1> QED BY <1>4, <1>5, <1>6 DEF WorkerStep

\* The type of each step.
LEMMA ManagerTypeInv == ManagerInv /\ [ManagerNext]_managerVars => ManagerTypeOK' /\ WorkerCurrent'
<1> SUFFICES ASSUME ManagerInv, [ManagerNext]_managerVars PROVE ManagerTypeOK' /\ WorkerCurrent'
  OBVIOUS
<1>0. ManagerTypeOK /\ CallCurrent /\ RoundCurrent /\ WorkerCurrent
  BY DEF ManagerInv
<1>u. CASE UNCHANGED worker
  <2> SUFFICES ManagerTypeOK'
    BY <1>0, <1>u DEF WorkerCurrent
  <2>1. CASE Calls
    BY <1>0, <2>1 DEF Calls, CloseFinds, CandidateFinds, Finds, CreateBegins, ManagerTypeOK, Places, locks, media
  <2>2. CASE CreateCommits \/ OfferRejected \/ CreateThrows \/ ControlDrained \/ CandidateAdded
    BY <1>0, <2>2 DEF CreateCommits, OfferRejected, CreateThrows, ControlDrained, CandidateAdded, CallCurrent,
       ManagerTypeOK, Places, AtRest, locks, media
  <2>3. CASE \E how \in Closing : AnswerTimesOut(how) \/ CloseTransport(how)
    BY <1>0, <2>3 DEF AnswerTimesOut, CloseTransport, Closes, Closed, CallCurrent, ManagerTypeOK, Places
  <2>4. CASE RemoveSession
    BY <1>0, <2>4 DEF RemoveSession, CallCurrent, ManagerTypeOK, Places, AtRest, media
  <2>5. CASE CleanupBegins
    BY <1>0, <2>5 DEF CleanupBegins, ManagerTypeOK, Rounds, media
  <2>6. CASE CleanupErases
    <3>1. table' \in [Ids -> Sessions \cup {None}]
      BY <1>0, <2>6 DEF CleanupErases, ManagerTypeOK
    <3>2. cleanup' \in [at : Rounds, todo : SUBSET Ids, doomed : SUBSET Ids]
      BY <1>0, <2>6 DEF CleanupErases, ManagerTypeOK, Rounds
    <3> QED BY <1>0, <2>6, <3>1, <3>2 DEF CleanupErases, ManagerTypeOK, media
  <2>7. CASE \E id \in Ids : CleanupPasses(id)
    BY <1>0, <2>7 DEF CleanupPasses, ManagerTypeOK, locks, media
  <2>8. CASE \E id \in Ids, how \in Closing : CleanupCloses(id, how)
    <3>1. PICK id \in Ids, how \in Closing : CleanupCloses(id, how)
      BY <2>8
    <3>2. table[id] \in Sessions
      BY <1>0, <3>1 DEF CleanupCloses, RoundCurrent, ManagerTypeOK
    <3>3. cleanup' \in [at : Rounds, todo : SUBSET Ids, doomed : SUBSET Ids]
      BY <1>0, <3>1 DEF CleanupCloses, Closed, ManagerTypeOK, Rounds
    <3>4. transport' \in [Sessions -> {"none", "open", "closed"}] /\ attached' \subseteq Sessions
      BY <1>0, <3>1, <3>2 DEF CleanupCloses, Closes, ManagerTypeOK
    <3>5. lock' \in [Sessions -> {"nobody", "control", "cleanup"}]
      BY <1>0, <3>1, <3>2 DEF CleanupCloses, ManagerTypeOK
    <3> QED BY <1>0, <3>1, <3>3, <3>4, <3>5 DEF CleanupCloses, Closes, ManagerTypeOK
  <2>9. CASE \E s \in Sessions : CleanupDrained(s)
    BY <1>0, <2>9 DEF CleanupDrained, ManagerTypeOK, Rounds, media
  <2>10. CASE Environment
    BY <1>0, <2>10 DEF Environment, StartCamera, StopCamera, Freed, BrowserVanishes, GrowsStale, ManagerTypeOK,
       locks, media
  <2>11. CASE UNCHANGED managerVars
    BY <1>0, <2>11 DEF managerVars, locks, media, ManagerTypeOK
  <2>12. CASE WorkerStep
    BY <1>0, <2>12, WorkersTyped
  <2> QED BY <2>1, <2>2, <2>3, <2>4, <2>5, <2>6, <2>7, <2>8, <2>9, <2>10, <2>11, <2>12
          DEF ManagerNext, CallSteps, CleanupSteps, WorkerStep
<1>1. CASE WorkerStep
  BY <1>0, <1>1, WorkersTyped
<1>2. CASE Environment
  BY <1>u, <1>2 DEF Environment, StartCamera, StopCamera, Freed, BrowserVanishes, GrowsStale
<1>3. CASE Calls \/ CallSteps \/ RemoveSession
  BY <1>u, <1>3 DEF Calls, CloseFinds, CandidateFinds, Finds, CreateBegins, CallSteps, CreateCommits,
     OfferRejected, CreateThrows, ControlDrained, CandidateAdded, AnswerTimesOut, CloseTransport, RemoveSession
<1>4. CASE CleanupBegins \/ CleanupSteps
  BY <1>u, <1>4 DEF CleanupBegins, CleanupSteps, CleanupErases, CleanupPasses, CleanupCloses, CleanupDrained
<1>5. CASE UNCHANGED managerVars
  BY <1>u, <1>5 DEF managerVars
<1> QED BY <1>1, <1>2, <1>3, <1>4, <1>5 DEF ManagerNext, WorkerStep

\* What one step of the accelerator does to the table.
StaysTrue ==
  /\ ManagerInv'
  /\ \A id \in Ids : table[id] # None /\ table'[id] # table[id] => transport[table[id]] = "closed"
  /\ Locked => Locked'

\* The invariant is about the table, the mutexes and the two threads that take both.
LEMMA TableStepInv ==
  ASSUME ManagerInv, [ManagerNext]_managerVars
  PROVE  /\ MapLockHeld' /\ SessionLockHeld' /\ RoundCurrent' /\ TableInjective' /\ CallCurrent'
         /\ ClosedIsLeaving'
         /\ \A id \in Ids : table[id] # None /\ table'[id] # table[id] => transport[table[id]] = "closed"
<1> USE DEF MapLockHeld, SessionLockHeld, RoundCurrent, TableInjective, CallCurrent, ClosedIsLeaving, AtRest
<1>0. /\ MapLockHeld /\ SessionLockHeld /\ RoundCurrent /\ TableInjective /\ CallCurrent /\ ClosedIsLeaving
  BY DEF ManagerInv
<1>b. /\ table \in [Ids -> Sessions \cup {None}] /\ None \notin Sessions
      /\ transport \in [Sessions -> {"none", "open", "closed"}]
      /\ mapLock \in {"nobody", "control", "cleanup"}
      /\ lock \in [Sessions -> {"nobody", "control", "cleanup"}]
      /\ control \in [at : Places, id : Ids \cup {None}, session : Sessions \cup {None}]
      /\ cleanup \in [at : Rounds, todo : SUBSET Ids, doomed : SUBSET Ids]
  BY ManagerAssumption DEF ManagerInv, ManagerTypeOK
<1>1. CASE \E id \in Ids, s \in Sessions : CreateBegins(id, s)
  <2>1. PICK id \in Ids, s \in Sessions : CreateBegins(id, s)
    BY <1>1
  <2> QED BY <1>0, <1>b, <2>1 DEF CreateBegins
<1>2. CASE \E id \in Ids : CloseFinds(id) \/ CandidateFinds(id)
  <2>1. PICK id \in Ids, next \in {"close", "candidate"} : Finds(id, next)
    BY <1>2 DEF CloseFinds, CandidateFinds
  <2> QED BY <1>0, <1>b, <2>1 DEF Finds, locks, media
<1>3. CASE CreateCommits
  BY <1>0, <1>b, <1>3 DEF CreateCommits, media
<1>4. CASE OfferRejected
  BY <1>0, <1>b, <1>4 DEF OfferRejected, media
<1>5. CASE \E how \in Closing : AnswerTimesOut(how)
  <2>1. PICK how \in Closing : AnswerTimesOut(how)
    BY <1>5
  <2>2. /\ control'.at \in {"relock", "drain", "remove"} /\ control'.id = control.id
        /\ control'.session = control.session
        /\ transport' = [transport EXCEPT ![control.session] = "closed"]
        /\ lock' = IF control'.at = "remove" THEN lock ELSE [lock EXCEPT ![control.session] = "control"]
        /\ UNCHANGED <<table, mapLock, cleanup>>
    BY <1>b, <2>1 DEF AnswerTimesOut, Closes, Closed
  <2> QED BY <1>0, <1>b, <2>1, <2>2 DEF AnswerTimesOut
<1>6. CASE CreateThrows
  BY <1>0, <1>b, <1>6 DEF CreateThrows, locks, media
<1>7. CASE \E how \in Closing : CloseTransport(how)
  <2>1. PICK how \in Closing : CloseTransport(how)
    BY <1>7
  <2>2. /\ control'.at \in {"relock", "drain", "remove"} /\ control'.id = control.id
        /\ control'.session = control.session
        /\ transport' = [transport EXCEPT ![control.session] = "closed"]
        /\ lock' = [lock EXCEPT ![control.session] = "control"]
        /\ UNCHANGED <<table, mapLock, cleanup>>
    BY <1>b, <2>1 DEF CloseTransport, Closes, Closed
  <2> QED BY <1>0, <1>b, <2>1, <2>2 DEF CloseTransport
<1>8. CASE RemoveSession
  BY <1>0, <1>b, <1>8 DEF RemoveSession, media
<1>9. CASE CleanupBegins
  BY <1>0, <1>b, <1>9 DEF CleanupBegins, media
<1>10. CASE CleanupErases
  BY <1>0, <1>b, <1>10 DEF CleanupErases, media
<1>11. CASE \E id \in Ids : CleanupPasses(id)
  <2>1. PICK id \in Ids : CleanupPasses(id)
    BY <1>11
  <2> QED BY <1>0, <1>b, <2>1 DEF CleanupPasses, locks, media
<1>12. CASE \E id \in Ids, how \in Closing : CleanupCloses(id, how)
  <2>1. PICK id \in Ids, how \in Closing : CleanupCloses(id, how)
    BY <1>12
  <2>2. /\ cleanup'.at \in {"relock", "drain", "scan"}
        /\ cleanup'.todo = cleanup.todo \ {id} /\ cleanup'.doomed = cleanup.doomed \cup {id}
        /\ transport' = [transport EXCEPT ![table[id]] = "closed"]
        /\ lock' = IF cleanup'.at = "scan" THEN lock ELSE [lock EXCEPT ![table[id]] = "cleanup"]
        /\ UNCHANGED <<table, mapLock, control>>
    BY <1>b, <2>1 DEF CleanupCloses, Closes, Closed
  <2>3. table[id] \in Sessions /\ lock[table[id]] = "nobody" /\ cleanup.at = "scan"
    BY <1>0, <1>b, <2>1 DEF CleanupCloses
  <2> QED BY <1>0, <1>b, <2>2, <2>3
<1>13. CASE \E s \in Sessions : CleanupDrained(s)
  BY <1>0, <1>b, <1>13 DEF CleanupDrained, media
<1>14. CASE ControlDrained
  BY <1>0, <1>b, <1>14 DEF ControlDrained, media
<1>15. CASE CandidateAdded
  BY <1>0, <1>b, <1>15 DEF CandidateAdded, locks, media
<1>16. CASE UNCHANGED <<table, transport, locks, control, cleanup>>
  BY <1>0, <1>16 DEF locks
<1>17. CASE WorkerStep
  BY <1>16, <1>17, WorkersLeaveTable
<1>18. CASE Environment
  BY <1>16, <1>18 DEF Environment, StartCamera, StopCamera, Freed, BrowserVanishes, GrowsStale, media
<1>19. CASE UNCHANGED managerVars
  BY <1>16, <1>19 DEF managerVars, media
<1> QED BY <1>1, <1>2, <1>3, <1>4, <1>5, <1>6, <1>7, <1>8, <1>9, <1>10, <1>11, <1>12, <1>13, <1>14, <1>15,
           <1>17, <1>18, <1>19 DEF ManagerNext, Calls, CallSteps, CleanupSteps, WorkerStep

\* A thread that needs the mutex somebody holds over a close goes on needing it.
LEMMA NeedsStay ==
  ASSUME ManagerTypeOK, [ManagerNext]_managerVars, NEW s \in Sessions, NEW w \in Workers,
         lock[s] # "nobody", Needs(w, s)
  PROVE  Needs(w, s)'
<1> USE DEF Idle
<1>0. worker \in [Workers -> [at : Errands, session : Sessions \cup {None}]]
  BY DEF ManagerTypeOK
<1>1. ASSUME NEW v \in Workers, worker[v].session = s, worker[v].at \in Errands \ {"idle", "media"}
      PROVE  worker'[v] = worker[v]
  <2>1. CASE UNCHANGED worker
    BY <2>1
  <2>2. CASE Handlers \/ Frames
    BY <1>0, <1>1, <2>2 DEF Handlers, Frames, Enters, TrackArrives, ChannelArrives, Arrives, ChannelCloses,
       CameraFrame, Workers, Errands
  <2>3. CASE \E u \in Workers : WorkerSteps(u)
    BY <1>0, <1>1, <2>3 DEF WorkerSteps, Beat, Media, Touch, Attach, Errands
  <2> QED BY <2>1, <2>2, <2>3 DEF ManagerNext, Calls, CloseFinds, CandidateFinds, Finds, CreateBegins, CallSteps,
            CreateCommits, OfferRejected, CreateThrows, ControlDrained, CandidateAdded, AnswerTimesOut,
            CloseTransport, RemoveSession, CleanupBegins, CleanupSteps, CleanupErases, CleanupPasses,
            CleanupCloses, CleanupDrained, Environment, StartCamera, StopCamera, Freed, BrowserVanishes,
            GrowsStale, managerVars
<1>2. CASE worker[w].at \in Errands \ {"idle", "media"}
  BY <1>1, <1>2 DEF Needs
<1>3. CASE Waits(w, s)
  <2>1. PICK v \in Workers : worker[v] = [at |-> "emit", session |-> s]
    BY <1>3 DEF Waits
  <2>2. worker'[v] = worker[v]
    BY <1>1, <2>1 DEF Errands
  <2>3. worker[w].session = s /\ worker[w].at = "media" /\ w # v
    BY <1>3, <2>1 DEF Waits, Needs
  <2>4. worker'[w] = worker[w]
    <3>1. CASE UNCHANGED worker
      BY <3>1
    <3>2. CASE Handlers \/ Frames
      BY <1>0, <2>3, <3>2 DEF Handlers, Frames, Enters, TrackArrives, ChannelArrives, Arrives, ChannelCloses,
         CameraFrame, Workers
    <3>3. CASE \E u \in Workers : WorkerSteps(u)
      BY <1>0, <1>3, <2>3, <3>3 DEF WorkerSteps, Beat, Media, Touch, Attach
    <3> QED BY <3>1, <3>2, <3>3 DEF ManagerNext, Calls, CloseFinds, CandidateFinds, Finds, CreateBegins, CallSteps,
              CreateCommits, OfferRejected, CreateThrows, ControlDrained, CandidateAdded, AnswerTimesOut,
              CloseTransport, RemoveSession, CleanupBegins, CleanupSteps, CleanupErases, CleanupPasses,
              CleanupCloses, CleanupDrained, Environment, StartCamera, StopCamera, Freed, BrowserVanishes,
              GrowsStale, managerVars
  <2> QED BY <2>1, <2>2, <2>3, <2>4 DEF Needs, Waits
<1> QED BY <1>2, <1>3 DEF Needs

\* The control thread in a section it cannot leave, and the cleanup thread likewise.
LEMMA ControlWaits ==
  ASSUME [ManagerNext]_managerVars,
         \/ control.at = "remove" /\ mapLock # "nobody"
         \/ control.at = "relock"
         \/ control.at = "drain" /\ Busy(control.session)
  PROVE  control' = control
BY DEF ManagerNext, Calls, CloseFinds, CandidateFinds, Finds, CreateBegins, CallSteps, CreateCommits, OfferRejected,
       CreateThrows, ControlDrained, CandidateAdded, AnswerTimesOut, CloseTransport, RemoveSession, CleanupBegins,
       CleanupSteps, CleanupErases, CleanupPasses, CleanupCloses, CleanupDrained, Handlers, Frames, WorkerSteps,
       TrackArrives, ChannelArrives, Arrives, ChannelCloses, CameraFrame, Beat, Media, Touch, Attach,
       Environment, StartCamera, StopCamera, Freed, BrowserVanishes, GrowsStale, managerVars

LEMMA OthersLeaveTable ==
  ASSUME Handlers \/ Frames \/ (\E w \in Workers : WorkerSteps(w)) \/ Environment \/ UNCHANGED managerVars
  PROVE  UNCHANGED <<table, mapLock, lock, control, cleanup>>
BY WorkersLeaveTable
DEF WorkerStep, locks, Environment, StartCamera, StopCamera, Freed, BrowserVanishes, GrowsStale, managerVars

LEMMA LockedStays ==
  ASSUME ManagerInv, [ManagerNext]_managerVars, Locked
  PROVE  Locked'
<1> USE DEF MapLockHeld, SessionLockHeld
<1>0. ManagerTypeOK /\ MapLockHeld /\ SessionLockHeld /\ CallCurrent
  BY DEF ManagerInv
<1>b. lock \in [Sessions -> {"nobody", "control", "cleanup"}]
  BY <1>0 DEF ManagerTypeOK
<1> DEFINE Others ==
      Handlers \/ Frames \/ (\E w \in Workers : WorkerSteps(w)) \/ Environment \/ UNCHANGED managerVars
<1>1. CASE SelfLocked
  <2>1. control' = control /\ cleanup.at = "sleep"
    BY <1>0, <1>1, ControlWaits DEF SelfLocked
  <2>2. UNCHANGED <<table, mapLock>>
    <3>1. CASE Others
      BY <3>1, OthersLeaveTable
    <3>2. CASE Calls \/ CallSteps \/ RemoveSession \/ CleanupBegins \/ CleanupSteps
      BY <1>1, <2>1, <3>2 DEF SelfLocked, Calls, CloseFinds, CandidateFinds, Finds, CreateBegins, CallSteps,
         CreateCommits, OfferRejected, CreateThrows, ControlDrained, CandidateAdded, AnswerTimesOut,
         CloseTransport, RemoveSession, CleanupBegins, CleanupSteps, CleanupErases, CleanupPasses,
         CleanupCloses, CleanupDrained
    <3> QED BY <3>1, <3>2 DEF ManagerNext
  <2> QED BY <1>1, <2>1, <2>2 DEF Locked, SelfLocked, InTable
<1>2. CASE CrossLocked
  <2>1. control' = control
    BY <1>2, ControlWaits DEF CrossLocked
  <2>2. PICK id \in cleanup.todo : lock[table[id]] = "control"
    BY <1>2 DEF CrossLocked
  <2>3. mapLock' = mapLock /\ table' = table /\ id \in cleanup'.todo /\ lock'[table[id]] = "control"
    <3>1. CASE Others
      BY <2>2, <3>1, OthersLeaveTable
    <3>2. CASE Calls \/ CallSteps \/ RemoveSession \/ CleanupBegins \/ CleanupErases
      BY <1>2, <2>2, <3>2 DEF CrossLocked, Calls, CloseFinds, CandidateFinds, Finds, CreateBegins, CallSteps,
         CreateCommits, OfferRejected, CreateThrows, ControlDrained, CandidateAdded, AnswerTimesOut,
         CloseTransport, RemoveSession, CleanupBegins, CleanupErases
    <3>3. CASE \E i \in Ids : CleanupPasses(i)
      BY <2>2, <3>3 DEF CleanupPasses, locks
    <3>4. CASE \E i \in Ids, how \in Closing : CleanupCloses(i, how)
      BY <1>b, <2>2, <3>4 DEF CleanupCloses
    <3>5. CASE \E s \in Sessions : CleanupDrained(s)
      BY <1>b, <2>2, <3>5 DEF CleanupDrained
    <3> QED BY <3>1, <3>2, <3>3, <3>4, <3>5 DEF ManagerNext, CleanupSteps
  <2> QED BY <1>2, <2>1, <2>3 DEF Locked, CrossLocked
<1>3. CASE control.at = "relock"
  BY <1>3, ControlWaits DEF Locked, Relocked
<1>4. CASE cleanup.at = "relock"
  <2>1. cleanup' = cleanup
    <3>1. CASE Others
      BY <3>1, OthersLeaveTable
    <3>2. CASE Calls \/ CallSteps \/ RemoveSession \/ CleanupBegins \/ CleanupSteps
      BY <1>4, <3>2 DEF Calls, CloseFinds, CandidateFinds, Finds, CreateBegins, CallSteps,
         CreateCommits, OfferRejected, CreateThrows, ControlDrained, CandidateAdded, AnswerTimesOut,
         CloseTransport, RemoveSession, CleanupBegins, CleanupSteps, CleanupErases, CleanupPasses,
         CleanupCloses, CleanupDrained
    <3> QED BY <3>1, <3>2 DEF ManagerNext
  <2> QED BY <1>4, <2>1 DEF Locked, Relocked
<1>5. CASE DrainLocked
  <2>1. PICK s \in Sessions, w \in Callbacks : Drains(s) /\ Needs(w, s)
    BY <1>5 DEF DrainLocked
  <2>2. lock[s] # "nobody" /\ Busy(s)
    BY <1>0, <2>1 DEF Drains, Needs, Busy
  <2>3. Needs(w, s)'
    BY <1>0, <2>1, <2>2, NeedsStay DEF Workers
  <2>4. CASE control.at = "drain" /\ control.session = s
    BY <2>1, <2>2, <2>3, <2>4, ControlWaits DEF Locked, DrainLocked, Drains
  <2>5. CASE cleanup.at = "drain" /\ lock[s] = "cleanup"
    <3>1. cleanup' = cleanup /\ lock'[s] = "cleanup"
      <4>1. CASE Others
        BY <2>5, <4>1, OthersLeaveTable
      <4>2. CASE Calls \/ RemoveSession \/ CleanupBegins \/ CleanupErases \/ \E i \in Ids : CleanupPasses(i)
        BY <1>0, <1>b, <2>5, <4>2 DEF Calls, CloseFinds, CandidateFinds, Finds, CreateBegins, RemoveSession,
           CleanupBegins, CleanupErases, CleanupPasses, locks
      <4>3. CASE CallSteps
        BY <1>0, <1>b, <2>5, <4>3 DEF CallSteps, CreateCommits, OfferRejected, CreateThrows, ControlDrained,
           CandidateAdded, AnswerTimesOut, CloseTransport, CallCurrent, locks
      <4>4. CASE \E i \in Ids, how \in Closing : CleanupCloses(i, how)
        BY <2>5, <4>4 DEF CleanupCloses
      <4>5. CASE \E r \in Sessions : CleanupDrained(r)
        BY <1>0, <2>2, <2>5, <4>5 DEF CleanupDrained
      <4> QED BY <4>1, <4>2, <4>3, <4>4, <4>5 DEF ManagerNext, CleanupSteps
    <3> QED BY <2>3, <2>5, <3>1 DEF Locked, DrainLocked, Drains
  <2> QED BY <2>1, <2>4, <2>5 DEF Drains
<1> QED BY <1>1, <1>2, <1>3, <1>4, <1>5 DEF Locked, Relocked

LEMMA ManagerStepInv == ManagerInv /\ [ManagerNext]_managerVars => StaysTrue
BY ManagerTypeInv, TableStepInv, LockedStays DEF StaysTrue, ManagerInv

LEMMA ManagerInvariant == ManagerSpec => []ManagerInv /\ [][StaysTrue]_managerVars
<1>1. ManagerInit => ManagerInv
  BY ManagerInitInv
<1>2. ManagerInv /\ [ManagerNext]_managerVars => StaysTrue
  BY ManagerStepInv
<1>3. StaysTrue => ManagerInv'
  BY DEF StaysTrue
<1> QED BY <1>1, <1>2, <1>3, PTL DEF ManagerSpec

\* For any number of ids, sessions and callback threads: nobody finds a closed session in
\* the table but in the critical section that drops it, and a session leaves the table
\* only when its transport is closed, so that erasing by id never hits a later session of
\* that id (RemoveSession, CloseSession and CleanupInactiveSessions of WebRTCManager).
THEOREM TableKeepsTheLiving == ManagerSpec => TableHasTheLiving
<1>1. ManagerInv' => ClosedIsLeaving'
  BY DEF ManagerInv
<1>2. StaysTrue => ClosedIsLeaving' /\ (\A id \in Ids : table[id] # None /\ table'[id] # table[id]
                                                          => transport[table[id]] = "closed")
  BY <1>1 DEF StaysTrue
<1>3. [][StaysTrue]_managerVars => [][ClosedIsLeaving']_managerVars
  <2>1. StaysTrue => ClosedIsLeaving'
    BY <1>2
  <2> QED BY <2>1, PTL
<1>4. [][StaysTrue]_managerVars => OnlyClosedLeave
  <2>1. StaysTrue => \A id \in Ids : table[id] # None /\ table'[id] # table[id] => transport[table[id]] = "closed"
    BY <1>2
  <2> QED BY <2>1, PTL DEF OnlyClosedLeave
<1> QED BY <1>3, <1>4, ManagerInvariant DEF TableHasTheLiving

\* The deadlocks of the manager are final: once a thread stands in one, no step of any
\* thread ends it (the second lock of sessions_mutex_ in RemoveSession; the two orders in
\* which CloseSession and CleanupInactiveSessions take their mutexes; a channel's onClosed
\* that wants the mutex under which the channel is closed).
THEOREM DeadlocksAreFinal == ManagerSpec => LockedForGood
<1>1. StaysTrue => (Locked => Locked')
  BY DEF StaysTrue
<1> QED BY <1>1, ManagerInvariant, PTL DEF LockedForGood
=============================================================================

---------------------------- MODULE WebRTCManager ----------------------------
(***************************************************************************)
(* WebRTCManager, the session table of the accelerator: its mutexes, the   *)
(* thread of the control client that creates, feeds and closes sessions,   *)
(* the cleanup thread, the callbacks of libdatachannel and the threads of  *)
(* the camera hub.  A step is what a thread does between two operations at *)
(* which it can block; taking a mutex and releasing it with nothing        *)
(* blocking in between is one step.  Mutexes that nobody holds across      *)
(* another (the hub's, session_channels_mutex_, candidates_mutex) are left *)
(* out.                                                                    *)
(***************************************************************************)
EXTENDS Naturals, FiniteSets

CONSTANTS
  Ids,       \* WebRTC session ids
  Sessions,  \* SessionState objects (bound: how many are ever created)
  Callbacks, \* threads of libdatachannel that run the handlers of a session
  Cameras,   \* threads of the camera hub
  Ops,       \* which of "close", "candidate", "reap" and "camera" happen
  Failures,  \* what may go wrong in CreateSession: "offer", "timeout", "throw"
  Closing,   \* what the library's close() may do: "posted", "inline", "waits"
  None       \* no session, or no id

Workers == Callbacks \cup Cameras

ASSUME ManagerAssumption ==
  /\ Ops \subseteq {"close", "candidate", "reap", "camera"}
  /\ Failures \subseteq {"offer", "timeout", "throw"}
  /\ Closing \subseteq {"posted", "inline", "waits"}
  /\ None \notin Sessions \cup Ids

VARIABLES
  table,      \* sessions_
  transport,  \* peer connection and channels of a session
  attached,   \* sessions with a channel whose onClosed takes the session's mutex
  subscribed, \* ids whose session holds an active camera_subscription
  gone,       \* sessions whose browser vanished without a word
  stale,      \* sessions whose last_heartbeat is older than the cleanup timeout
  mapLock,    \* holder of sessions_mutex_
  lock,       \* holder of each session's mutex
  control,    \* the thread of the control client: where it stands, for which session
  cleanup,    \* the cleanup thread: where it stands, what it visits and dooms
  worker      \* a thread of the library or the hub: where it stands, for which session

locks == <<mapLock, lock>>
media == <<transport, attached, subscribed, gone>>
managerVars == <<table, media, stale, locks, control, cleanup, worker>>

Places == {"idle", "negotiate", "candidate", "close", "relock", "drain", "remove"}
Rounds == {"sleep", "scan", "relock", "drain"}
Errands == {"idle", "beat", "media", "emit", "touch", "attach", "detach"}
Idle == [at |-> "idle", session |-> None]
AtRest == [at |-> "idle", id |-> None, session |-> None]

ManagerTypeOK ==
  /\ table \in [Ids -> Sessions \cup {None}]
  /\ transport \in [Sessions -> {"none", "open", "closed"}]
  /\ subscribed \subseteq Ids
  /\ attached \subseteq Sessions /\ gone \subseteq Sessions /\ stale \subseteq Sessions
  /\ mapLock \in {"nobody", "control", "cleanup"}
  /\ lock \in [Sessions -> {"nobody", "control", "cleanup"}]
  /\ control \in [at : Places, id : Ids \cup {None}, session : Sessions \cup {None}]
  /\ cleanup \in [at : Rounds, todo : SUBSET Ids, doomed : SUBSET Ids]
  /\ worker \in [Workers -> [at : Errands, session : Sessions \cup {None}]]

ManagerInit ==
  /\ table = [id \in Ids |-> None]
  /\ transport = [s \in Sessions |-> "none"]
  /\ attached = {} /\ subscribed = {} /\ gone = {} /\ stale = {}
  /\ mapLock = "nobody" /\ lock = [s \in Sessions |-> "nobody"]
  /\ control = AtRest
  /\ cleanup = [at |-> "sleep", todo |-> {}, doomed |-> {}]
  /\ worker = [w \in Workers |-> Idle]

InTable(s) == \E id \in Ids : table[id] = s

\* A handler of the session is running.
Busy(s) == \E w \in Callbacks : worker[w].session = s

-----------------------------------------------------------------------------
\* libdatachannel's close(), for CloseSessionTransport under a session's mutex.  The
\* handlers of the channels it closes run later on a thread of the library ("posted")
\* or before it returns ("inline"); or it waits for the handlers under way and forgets
\* the rest ("waits").  The repository does not say which.
Closes(s, how) ==
  /\ how \in Closing
  /\ transport' = [transport EXCEPT ![s] = "closed"]
  /\ attached' = IF how = "waits" THEN attached \ {s} ELSE attached
  /\ UNCHANGED <<subscribed, gone>>

\* Where the closing thread stands next: an inline handler locks the mutex it holds.
Closed(s, how, done) ==
  CASE how = "waits" -> "drain"
    [] how = "inline" /\ s \in attached -> "relock"
    [] OTHER -> done

-----------------------------------------------------------------------------
\* CreateSession: sessions_mutex_ is held from the lookup to the return.

CreateBegins(id, s) ==
  /\ control.at = "idle" /\ mapLock = "nobody"
  /\ table[id] = None /\ transport[s] = "none"
  /\ mapLock' = "control"
  /\ transport' = [transport EXCEPT ![s] = "open"]
  /\ control' = [at |-> "negotiate", id |-> id, session |-> s]
  /\ UNCHANGED <<table, attached, subscribed, gone, stale, lock, cleanup, worker>>

\* The answer is there: the session is committed.
CreateCommits ==
  /\ control.at = "negotiate"
  /\ table' = [table EXCEPT ![control.id] = control.session]
  /\ mapLock' = "nobody"
  /\ control' = AtRest
  /\ UNCHANGED <<media, stale, lock, cleanup, worker>>

\* setRemoteDescription or the media setup fails: return false.
OfferRejected ==
  /\ control.at = "negotiate" /\ "offer" \in Failures
  /\ mapLock' = "nobody"
  /\ control' = AtRest
  /\ UNCHANGED <<table, media, stale, lock, cleanup, worker>>

\* No answer within the timeout: close what was opened under the session's mutex, then
\* RemoveSession.
AnswerTimesOut(how) ==
  /\ control.at = "negotiate" /\ "timeout" \in Failures
  /\ lock[control.session] = "nobody"
  /\ Closes(control.session, how)
  /\ control' = [control EXCEPT !.at = Closed(control.session, how, "remove")]
  /\ lock' = IF control'.at = "remove" THEN lock
                                        ELSE [lock EXCEPT ![control.session] = "control"]
  /\ UNCHANGED <<table, stale, mapLock, cleanup, worker>>

\* Any other exception: RemoveSession.
CreateThrows ==
  /\ control.at = "negotiate" /\ "throw" \in Failures
  /\ control' = [control EXCEPT !.at = "remove"]
  /\ UNCHANGED <<table, media, stale, locks, cleanup, worker>>

\* RemoveSession takes sessions_mutex_; on return the caller's guards go.
RemoveSession ==
  /\ control.at = "remove" /\ mapLock = "nobody"
  /\ table' = [table EXCEPT ![control.id] = None]
  /\ lock' = [lock EXCEPT ![control.session] = "nobody"]
  /\ control' = AtRest
  /\ UNCHANGED <<media, stale, mapLock, cleanup, worker>>

-----------------------------------------------------------------------------
\* CloseSession and HandleRemoteCandidate

\* Both begin with GetSession.
Finds(id, next) ==
  /\ control.at = "idle" /\ mapLock = "nobody" /\ table[id] # None
  /\ control' = [at |-> next, id |-> id, session |-> table[id]]
  /\ UNCHANGED <<table, media, stale, locks, cleanup, worker>>

CloseFinds(id)     == "close" \in Ops /\ Finds(id, "close")
CandidateFinds(id) == "candidate" \in Ops /\ Finds(id, "candidate")

\* Under the session's mutex: close its transport (its buffers are left out).
CloseTransport(how) ==
  /\ control.at = "close" /\ lock[control.session] = "nobody"
  /\ Closes(control.session, how)
  /\ lock' = [lock EXCEPT ![control.session] = "control"]
  /\ control' = [control EXCEPT !.at = Closed(control.session, how, "remove")]
  /\ UNCHANGED <<table, stale, mapLock, cleanup, worker>>

\* The handlers are done.  CreateSession releases the session's mutex before it calls
\* RemoveSession, CloseSession does not.
ControlDrained ==
  LET s == control.session IN
  /\ control.at = "drain" /\ ~Busy(s)
  /\ lock' = IF mapLock = "control" THEN [lock EXCEPT ![s] = "nobody"] ELSE lock
  /\ control' = [control EXCEPT !.at = "remove"]
  /\ UNCHANGED <<table, media, stale, mapLock, cleanup, worker>>

\* Under the session's mutex: the candidate is added, kept or ignored.
CandidateAdded ==
  /\ control.at = "candidate" /\ lock[control.session] = "nobody"
  /\ control' = AtRest
  /\ UNCHANGED <<table, media, stale, locks, cleanup, worker>>

-----------------------------------------------------------------------------
\* CleanupInactiveSessions: sessions_mutex_ is held throughout.

\* Fault: what was closed stays in the table.
CleanupKeeps ==
  /\ cleanup.at = "scan" /\ cleanup.todo = {}
  /\ mapLock' = "nobody"
  /\ cleanup' = [cleanup EXCEPT !.at = "sleep", !.doomed = {}]
  /\ UNCHANGED <<table, media, stale, lock, control, worker>>

CleanupBegins ==
  /\ "reap" \in Ops
  /\ cleanup.at = "sleep" /\ mapLock = "nobody"
  /\ mapLock' = "cleanup"
  /\ cleanup' = [at |-> "scan", todo |-> {id \in Ids : table[id] # None}, doomed |-> {}]
  /\ UNCHANGED <<table, media, stale, lock, control, worker>>

\* Fault: the round ends at the first session that is alive.
CleanupStops(id) ==
  /\ cleanup.at = "scan" /\ id \in cleanup.todo
  /\ lock[table[id]] = "nobody" /\ table[id] \notin stale
  /\ cleanup' = [cleanup EXCEPT !.todo = {}]
  /\ UNCHANGED <<table, media, stale, locks, control, worker>>

\* Under the session's mutex: its heartbeat is recent.
CleanupPasses(id) ==
  /\ cleanup.at = "scan" /\ id \in cleanup.todo
  /\ lock[table[id]] = "nobody" /\ table[id] \notin stale
  /\ cleanup' = [cleanup EXCEPT !.todo = @ \ {id}]
  /\ UNCHANGED <<table, media, stale, locks, control, worker>>

\* Its heartbeat is too old: it is closed under its mutex.
CleanupCloses(id, how) ==
  LET s == table[id] IN
  /\ cleanup.at = "scan" /\ id \in cleanup.todo
  /\ lock[s] = "nobody" /\ s \in stale
  /\ Closes(s, how)
  /\ cleanup' = [at |-> Closed(s, how, "scan"), todo |-> cleanup.todo \ {id},
                 doomed |-> cleanup.doomed \cup {id}]
  /\ lock' = IF cleanup'.at = "scan" THEN lock ELSE [lock EXCEPT ![s] = "cleanup"]
  /\ UNCHANGED <<table, stale, mapLock, control, worker>>

CleanupDrained(s) ==
  /\ cleanup.at = "drain" /\ lock[s] = "cleanup" /\ ~Busy(s)
  /\ lock' = [lock EXCEPT ![s] = "nobody"]
  /\ cleanup' = [cleanup EXCEPT !.at = "scan"]
  /\ UNCHANGED <<table, media, stale, mapLock, control, worker>>

\* Erase what was closed; the table is released.
CleanupErases ==
  /\ cleanup.at = "scan" /\ cleanup.todo = {}
  /\ table' = [id \in Ids |-> IF id \in cleanup.doomed THEN None ELSE table[id]]
  /\ mapLock' = "nobody"
  /\ cleanup' = [cleanup EXCEPT !.at = "sleep", !.doomed = {}]
  /\ UNCHANGED <<media, stale, lock, control, worker>>

-----------------------------------------------------------------------------
\* The handlers of a session, on the threads of libdatachannel

Enters(w, s, at) ==
  /\ worker[w] = Idle
  /\ worker' = [worker EXCEPT ![w] = [at |-> at, session |-> s]]

\* onTrack, while the offer is applied.
TrackArrives(w) ==
  /\ control.at = "negotiate"
  /\ Enters(w, control.session, "touch")
  /\ UNCHANGED <<table, media, stale, locks, control, cleanup>>

\* A session is open to its browser once the answer is out, until either of them ends it.
Connected(s) == transport[s] = "open" /\ InTable(s) /\ s \notin gone

\* onDataChannel of a detection, stats or control channel.
ChannelArrives(w, s) ==
  /\ Connected(s) /\ Enters(w, s, "attach")
  /\ UNCHANGED <<table, media, stale, locks, control, cleanup>>

\* A frame of the inbound track, or the opening or a message of the main channel.
Arrives(w, s) ==
  /\ Connected(s) /\ Enters(w, s, "beat")
  /\ UNCHANGED <<table, media, stale, locks, control, cleanup>>

\* onClosed: the browser closed the channel, or the closing of the session was posted.
ChannelCloses(w, s) ==
  /\ s \in attached /\ Enters(w, s, "detach")
  /\ attached' = attached \ {s}
  /\ UNCHANGED <<table, transport, subscribed, gone, stale, locks, control, cleanup>>

\* SetupDetectionChannel and its like: the channel is stored under the mutex.
Attach(w) ==
  LET s == worker[w].session IN
  /\ worker[w].at = "attach" /\ lock[s] = "nobody"
  /\ attached' = IF transport[s] = "open" THEN attached \cup {s} ELSE attached
  /\ worker' = [worker EXCEPT ![w] = Idle]
  /\ UNCHANGED <<table, transport, subscribed, gone, stale, locks, control, cleanup>>

\* HandleStartCameraStream and HandleStopCameraStream, under no mutex of the manager.
StartCamera(id) ==
  /\ "camera" \in Ops /\ table[id] # None /\ Connected(table[id])
  /\ subscribed' = subscribed \cup {id}
  /\ UNCHANGED <<table, transport, attached, gone, stale, locks, control, cleanup, worker>>

StopCamera(id) ==
  /\ id \in subscribed /\ table[id] # None /\ Connected(table[id])
  /\ subscribed' = subscribed \ {id}
  /\ UNCHANGED <<table, transport, attached, gone, stale, locks, control, cleanup, worker>>

\* A session that left the table is freed at last, and its subscription with it.
Freed(id) ==
  /\ id \in subscribed /\ table[id] = None
  /\ subscribed' = subscribed \ {id}
  /\ UNCHANGED <<table, transport, attached, gone, stale, locks, control, cleanup, worker>>

-----------------------------------------------------------------------------
\* HandleVideoFrame, HandleProcessingMessage and what they call

\* A frame of the hub: GetSession, then HandleVideoFrame, whether or not the browser is
\* there.
CameraFrame(w, id) ==
  /\ id \in subscribed /\ mapLock = "nobody" /\ table[id] # None
  /\ Enters(w, table[id], "beat")
  /\ UNCHANGED <<table, media, stale, locks, control, cleanup>>

\* last_heartbeat under the session's mutex.  A frame goes on to media_mutex; a message
\* ends there (a keepalive), changes the filters under it or processes without it.
Beat(w) ==
  /\ worker[w].at = "beat" /\ lock[worker[w].session] = "nobody"
  /\ stale' = stale \ {worker[w].session}
  /\ \E next \in IF w \in Cameras THEN {"media"} ELSE {"media", "touch"} :
       worker' = [worker EXCEPT ![w].at = next]
  /\ UNCHANGED <<table, media, locks, control, cleanup>>

Waits(w, s) ==
  worker[w].at = "media" /\ \E v \in Workers : worker[v] = [at |-> "emit", session |-> s]

\* media_mutex: taken and left (no processor, a frame that fails, new filters), or kept
\* over the statistics.
Media(w) ==
  /\ worker[w].at = "media" /\ ~Waits(w, worker[w].session)
  /\ \/ worker' = [worker EXCEPT ![w] = Idle]
     \/ worker' = [worker EXCEPT ![w].at = "emit"]
  /\ UNCHANGED <<table, media, stale, locks, control, cleanup>>

\* A short section under the session's mutex, the handler's last: the statistics and
\* detections, onTrack, onClosed.
Touch(w) ==
  /\ worker[w].at \in {"emit", "touch", "detach"} /\ lock[worker[w].session] = "nobody"
  /\ worker' = [worker EXCEPT ![w] = Idle]
  /\ UNCHANGED <<table, media, stale, locks, control, cleanup>>

-----------------------------------------------------------------------------
\* The browser vanishes: nothing tells the accelerator.
BrowserVanishes(s) ==
  /\ Connected(s)
  /\ gone' = gone \cup {s}
  /\ UNCHANGED <<table, transport, attached, subscribed, stale, locks, control, cleanup, worker>>

\* 30 s without a heartbeat.
GrowsStale(s) ==
  /\ InTable(s) /\ s \notin stale
  /\ stale' = stale \cup {s}
  /\ UNCHANGED <<table, media, locks, control, cleanup, worker>>

-----------------------------------------------------------------------------
Calls ==
  \E id \in Ids :
    CloseFinds(id) \/ CandidateFinds(id) \/ \E s \in Sessions : CreateBegins(id, s)

CallSteps ==
  \/ CreateCommits \/ OfferRejected \/ CreateThrows \/ ControlDrained \/ CandidateAdded
  \/ \E how \in Closing : AnswerTimesOut(how) \/ CloseTransport(how)

CleanupSteps ==
  \/ CleanupErases
  \/ \E id \in Ids : CleanupPasses(id) \/ \E how \in Closing : CleanupCloses(id, how)
  \/ \E s \in Sessions : CleanupDrained(s)

WorkerSteps(w) == Beat(w) \/ Media(w) \/ Touch(w) \/ Attach(w)

Handlers ==
  \E w \in Callbacks : TrackArrives(w) \/ \E s \in Sessions :
    Arrives(w, s) \/ ChannelArrives(w, s) \/ ChannelCloses(w, s)

Frames == \E w \in Cameras, id \in Ids : CameraFrame(w, id)

Environment ==
  \/ \E id \in Ids : StartCamera(id) \/ StopCamera(id) \/ Freed(id)
  \/ \E s \in Sessions : BrowserVanishes(s) \/ GrowsStale(s)

ManagerNext ==
  \/ Calls \/ CallSteps \/ RemoveSession
  \/ CleanupBegins \/ CleanupSteps
  \/ Handlers \/ Frames \/ \E w \in Workers : WorkerSteps(w)
  \/ Environment

ManagerSpec == ManagerInit /\ [][ManagerNext]_managerVars

Subscribed(s) == \E id \in subscribed : table[id] = s

\* Nothing refreshes the heartbeat of this session any more.
FallsSilent(s) == s \in gone /\ ~Subscribed(s) /\ GrowsStale(s)

\* Every thread runs, and waits for a mutex that others keep taking and releasing only
\* so long: the cleanup thread sleeps 10 s between its rounds.  Time passes, and nobody
\* promises calls, frames or messages.
ManagerFairness ==
  /\ WF_managerVars(CallSteps) /\ SF_managerVars(RemoveSession)
  /\ SF_managerVars(CleanupBegins) /\ WF_managerVars(CleanupSteps)
  /\ \A w \in Workers : WF_managerVars(WorkerSteps(w))
  /\ \A s \in Sessions : WF_managerVars(FallsSilent(s))

FairManagerSpec == ManagerSpec /\ ManagerFairness

-----------------------------------------------------------------------------
\* Properties

\* Nobody finds a closed session in the table, except while the thread that closed it
\* still holds the lock under which it drops it.
ClosedIsLeaving ==
  \A id \in Ids : table[id] # None /\ transport[table[id]] = "closed" =>
    \/ control.at \in {"relock", "drain", "remove"} /\ lock[table[id]] = "control"
    \/ mapLock = "cleanup" /\ id \in cleanup.doomed

\* A session leaves the table only after its transport was closed: erasing by id never
\* hits a later session of that id.
OnlyClosedLeave ==
  [][\A id \in Ids : table[id] # None /\ table'[id] # table[id]
                       => transport[table[id]] = "closed"]_managerVars

\* CreateSession and CloseSession return: the control client calls them on the thread
\* that reads its stream.
CallsReturn == control.at # "idle" ~> control.at = "idle"

\* RemoveSession called by the CreateSession that holds sessions_mutex_ ...
SelfLocked ==
  control.at = "remove" /\ mapLock = "control" /\ ~InTable(control.session)

\* ... or by a CloseSession whose lock the cleanup thread waits for.
CrossLocked ==
  /\ control.at = "remove" /\ mapLock = "cleanup"
  /\ \E id \in cleanup.todo : lock[table[id]] = "control"

\* Where the library does not post the handlers, a thread that closes a session under
\* its mutex runs one that locks it again ...
Relocked == control.at = "relock" \/ cleanup.at = "relock"

\* ... or waits for one that waits for the mutex.
Drains(s) ==
  \/ control.at = "drain" /\ control.session = s
  \/ cleanup.at = "drain" /\ lock[s] = "cleanup"

Needs(w, s) ==
  worker[w].session = s /\ (worker[w].at \in Errands \ {"idle", "media"} \/ Waits(w, s))

DrainLocked == \E s \in Sessions : Drains(s) /\ \E w \in Callbacks : Needs(w, s)

Locked == SelfLocked \/ CrossLocked \/ Relocked \/ DrainLocked

\* CreateSession, CloseSession and HandleRemoteCandidate return unless the threads come
\* to stand in one of these deadlocks.
CallsReturnOrLock == control.at # "idle" ~> control.at = "idle" \/ Locked

\* Those deadlocks apart, a session whose browser vanished does not stay in the table for
\* ever, if no camera feeds it, whatever is created and closed meanwhile.
AbandonedReaped ==
  \A s \in Sessions : ~ <>[](InTable(s) /\ s \in gone /\ ~Subscribed(s) /\ ~Locked)

\* No step of any thread, and no callback, ends such a deadlock.
LockedForGood == [][Locked => Locked']_managerVars

\* The threads move on: calls return and the abandoned are reaped, unless the threads
\* are locked, and then they are for good.  Of the four deadlocks the first two are the
\* manager's own; the others need a close() that does not post its handlers.
MovesOnOrLocks == CallsReturnOrLock /\ AbandonedReaped /\ LockedForGood

\* The table has the sessions that are alive: a closed one is leaving, and none leaves open.
TableHasTheLiving == [][ClosedIsLeaving']_managerVars /\ OnlyClosedLeave
=============================================================================

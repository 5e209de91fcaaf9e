---------------------------- MODULE ControlClient ----------------------------
(***************************************************************************)
(* The accelerator's end of the control stream: AcceleratorControlClient.   *)
(* Run() repeats RunOnce cycles; a cycle owns a gRPC stream, a keepalive    *)
(* thread that also watches for silence, and a thread that pumps local ICE  *)
(* candidates.  Write blocks while the peer does not drain, Read until a    *)
(* message comes; TryCancel frees both.  A detached watchdog aborts the     *)
(* process when a cancelled stream is not torn down.                        *)
(***************************************************************************)
EXTENDS Naturals

CONSTANTS
  Sids,        \* WebRTC session ids the server may use
  StaleAfter,  \* clock ticks in keepalive_timeout_s
  MaxCycles    \* bound: RunOnce cycles

ASSUME ClientAssumption == StaleAfter \in Nat /\ MaxCycles \in Nat

VARIABLES
  process,    \* "running", "exited" (std::exit) or "aborted"
  main,       \* where the thread of Run() stands
  keepalive,  \* the keepalive thread of this cycle
  pump,       \* the candidate pump thread of this cycle
  stop,       \* Stop(): "no", "flagged" (stop_requested_ set), "done"
  stream,     \* the gRPC stream of this cycle
  draining,   \* the peer reads its end
  ctx,        \* ctx_ (and stream_) point to this cycle's objects
  writer,     \* holder of write_mutex_, inside stream_->Write
  failed,     \* stream_failed_
  cstop,      \* connection_stop
  quiet,      \* ticks since last_rx_ms_, saturating above StaleAfter
  generation, \* connection_generation_
  armed,      \* teardown_watchdog_armed_
  watchdogs,  \* generations that a watchdog thread waits on
  active,     \* active_session_ids_
  open        \* sessions this client has open in WebRTCManager

threads  == <<main, keepalive, pump>>
wire     == <<stream, draining, writer>>
flags    == <<failed, cstop, quiet>>
watch    == <<generation, armed, watchdogs>>
sessions == <<active, open>>
vars     == <<process, threads, stop, wire, ctx, flags, watch, sessions>>

ClientTypeOK ==
  /\ process \in {"running", "exited", "aborted"}
  /\ main \in {"loop", "publish", "register", "ack", "check", "read", "handle",
               "respond", "wind", "joinKeepalive", "joinPump", "finish",
               "cancel", "teardown", "clear", "bump", "returned"}
  /\ keepalive \in {"off", "tick", "send", "giveUp", "end"}
  /\ pump \in {"off", "idle", "send", "end"}
  /\ stop \in {"no", "flagged", "done"}
  /\ stream \in {"none", "up", "broken", "cancelled"}
  /\ draining \in BOOLEAN /\ ctx \in BOOLEAN
  /\ writer \in {"nobody", "main", "keepalive", "pump"}
  /\ failed \in BOOLEAN /\ cstop \in BOOLEAN
  /\ quiet \in 0..(StaleAfter + 1)
  /\ generation \in 0..MaxCycles
  /\ armed \in BOOLEAN
  /\ watchdogs \subseteq 0..MaxCycles
  /\ active \subseteq Sids /\ open \subseteq Sids

Init ==
  /\ process = "running" /\ main = "loop"
  /\ keepalive = "off" /\ pump = "off" /\ stop = "no"
  /\ stream = "none" /\ draining = TRUE /\ ctx = FALSE /\ writer = "nobody"
  /\ failed = FALSE /\ cstop = FALSE /\ quiet = 0
  /\ generation = 0 /\ armed = FALSE /\ watchdogs = {}
  /\ active = {} /\ open = {}

Running     == process = "running"
Stopping    == stop # "no"
Goto(p)     == main' = p
At(p)       == Running /\ main = p

-----------------------------------------------------------------------------
\* The peer

PeerBreaks ==
  /\ Running /\ stream = "up"
  /\ stream' = "broken"
  /\ UNCHANGED <<process, threads, stop, draining, writer, ctx, flags, watch, sessions>>

PeerStopsDraining ==
  /\ Running /\ stream = "up" /\ draining
  /\ draining' = FALSE
  /\ UNCHANGED <<process, threads, stop, stream, writer, ctx, flags, watch, sessions>>

-----------------------------------------------------------------------------
\* Helpers shared by the threads

\* ArmTeardownWatchdog: one watchdog per cycle.
Arm ==
  /\ armed' = TRUE
  /\ watchdogs' = IF armed THEN watchdogs ELSE watchdogs \cup {generation}

\* CancelStream: under ctx_mutex_, if there is a context.
CancelStream ==
  IF ctx THEN stream' = "cancelled" /\ Arm
         ELSE UNCHANGED <<stream, armed, watchdogs>>

Dead == stream \in {"broken", "cancelled"}

\* Fault: the client looks at the link, not at what it receives.
NeverStale == FALSE

IsRxStale == quiet > StaleAfter

\* Send takes write_mutex_ ...
BeginWrite(who) == writer = "nobody" /\ writer' = who

\* ... and stream_->Write returns, true or false.
EndWrite(who, ok) ==
  /\ writer = who
  /\ IF ok THEN stream = "up" /\ draining ELSE Dead
  /\ writer' = "nobody"

-----------------------------------------------------------------------------
\* Run and the first half of RunOnce

\* RunOnce: reset the flags, read the credentials, open a stream.
Dial ==
  /\ At("loop") /\ ~Stopping
  /\ generation < MaxCycles
  /\ failed' = FALSE /\ armed' = FALSE /\ cstop' = FALSE /\ quiet' = 0
  /\ \/ stream' = "up" /\ draining' = TRUE /\ Goto("publish")
     \/ UNCHANGED <<stream, draining>> /\ Goto("bump")
  /\ UNCHANGED <<process, keepalive, pump, stop, writer, ctx, generation, watchdogs, sessions>>

\* ctx_ and stream_ are set under their locks.
Publish ==
  /\ At("publish")
  /\ ctx' = TRUE
  /\ Goto("register")
  /\ UNCHANGED <<process, keepalive, pump, stop, wire, flags, watch, sessions>>

BeginRegister ==
  /\ At("register") /\ BeginWrite("main")
  /\ UNCHANGED <<process, threads, stop, stream, draining, ctx, flags, watch, sessions>>

EndRegister(ok) ==
  /\ At("register") /\ EndWrite("main", ok)
  /\ Goto(IF ok THEN "ack" ELSE "cancel")
  /\ UNCHANGED <<process, keepalive, pump, stop, stream, draining, ctx, flags, watch, sessions>>

\* The ack is read: the threads start.
Accepted ==
  /\ At("ack") /\ stream = "up"
  /\ quiet' = 0
  /\ keepalive' = "tick" /\ pump' = "idle"
  /\ Goto("check")
  /\ UNCHANGED <<process, stop, wire, ctx, failed, cstop, watch, sessions>>

\* Something else, a rejection, or the end of the stream.
NotAccepted ==
  /\ At("ack") /\ stream # "none"
  /\ Goto("cancel")
  /\ UNCHANGED <<process, keepalive, pump, stop, wire, ctx, flags, watch, sessions>>

\* No observed_ip, or another one than last time: the supervisor restarts us.
IpChanged ==
  /\ At("ack") /\ stream = "up"
  /\ process' = "exited"
  /\ UNCHANGED <<threads, stop, wire, ctx, flags, watch, sessions>>

-----------------------------------------------------------------------------
\* The dispatch loop

Check ==
  /\ At("check")
  /\ Goto(IF Stopping \/ failed THEN "wind" ELSE "read")
  /\ UNCHANGED <<process, keepalive, pump, stop, wire, ctx, flags, watch, sessions>>

\* Read returns a keepalive, or a signaling message to handle.
ReadMessage(next) ==
  /\ At("read") /\ stream = "up"
  /\ quiet' = 0
  /\ Goto(next)
  /\ UNCHANGED <<process, keepalive, pump, stop, wire, ctx, failed, cstop, watch, sessions>>

ReadEnds ==
  /\ At("read") /\ Dead
  /\ Goto("wind")
  /\ UNCHANGED <<process, keepalive, pump, stop, wire, ctx, flags, watch, sessions>>

\* active_session_ids_ after a StartSession: noted whether or not it worked.
Noted(sid, ok) == active \cup {sid}

\* StartSession: CreateSession refuses an id in use and may fail on a new one.
HandleStart(sid, ok) ==
  /\ At("handle")
  /\ ok => sid \notin open
  /\ open' = IF ok THEN open \cup {sid} ELSE open
  /\ active' = Noted(sid, ok)
  /\ Goto("respond")
  /\ UNCHANGED <<process, keepalive, pump, stop, wire, ctx, flags, watch>>

HandleClose(sid) ==
  /\ At("handle")
  /\ open' = open \ {sid}
  /\ active' = active \ {sid}
  /\ Goto("respond")
  /\ UNCHANGED <<process, keepalive, pump, stop, wire, ctx, flags, watch>>

\* A remote candidate; nothing of this state changes.
HandleCandidate ==
  /\ At("handle")
  /\ Goto("respond")
  /\ UNCHANGED <<process, keepalive, pump, stop, wire, ctx, flags, watch, sessions>>

BeginResponse ==
  /\ At("respond") /\ BeginWrite("main")
  /\ UNCHANGED <<process, threads, stop, stream, draining, ctx, flags, watch, sessions>>

\* A failed send is logged only; the clock is touched after the dispatch.
EndResponse(ok) ==
  /\ At("respond") /\ EndWrite("main", ok)
  /\ quiet' = 0
  /\ Goto("check")
  /\ UNCHANGED <<process, keepalive, pump, stop, stream, draining, ctx, failed, cstop, watch, sessions>>

-----------------------------------------------------------------------------
\* The end of a cycle

Wind ==
  /\ At("wind")
  /\ cstop' = TRUE
  /\ Goto("joinKeepalive")
  /\ UNCHANGED <<process, keepalive, pump, stop, wire, ctx, failed, quiet, watch, sessions>>

\* Fault: the keepalive thread is left to end by itself.
DetachKeepalive ==
  /\ At("joinKeepalive")
  /\ Goto("joinPump")
  /\ UNCHANGED <<process, keepalive, pump, stop, wire, ctx, flags, watch, sessions>>

JoinKeepalive ==
  /\ At("joinKeepalive") /\ keepalive = "end"
  /\ keepalive' = "off"
  /\ Goto("joinPump")
  /\ UNCHANGED <<process, pump, stop, wire, ctx, flags, watch, sessions>>

JoinPump ==
  /\ At("joinPump") /\ pump = "end"
  /\ pump' = "off"
  /\ Goto("finish")
  /\ UNCHANGED <<process, keepalive, stop, wire, ctx, flags, watch, sessions>>

\* WritesDone and Finish, which returns once the server ended the stream too.
Finish ==
  /\ At("finish") /\ Dead
  /\ Goto("cancel")
  /\ UNCHANGED <<process, keepalive, pump, stop, wire, ctx, flags, watch, sessions>>

\* cleanup: CancelStream, TeardownLocalSessions, forget the pointers.
CleanupCancels ==
  /\ At("cancel")
  /\ CancelStream
  /\ Goto("teardown")
  /\ UNCHANGED <<process, keepalive, pump, stop, draining, writer, ctx, flags, generation, sessions>>

CleanupTearsDown ==
  /\ At("teardown")
  /\ open' = open \ active
  /\ active' = {}
  /\ Goto("clear")
  /\ UNCHANGED <<process, keepalive, pump, stop, wire, ctx, flags, watch>>

CleanupClears ==
  /\ At("clear")
  /\ ctx' = FALSE
  /\ Goto("bump")
  /\ UNCHANGED <<process, keepalive, pump, stop, wire, flags, watch, sessions>>

\* Fault: the generation does not advance.
NoBump ==
  /\ At("bump")
  /\ stream' = "none"
  /\ Goto("loop")
  /\ UNCHANGED <<process, keepalive, pump, stop, draining, writer, ctx, flags, watch, sessions>>

\* RunOnce returns: its objects die, the generation advances on every path.
Bump ==
  /\ At("bump")
  /\ stream' = "none"
  /\ generation' = generation + 1
  /\ Goto("loop")
  /\ UNCHANGED <<process, keepalive, pump, stop, draining, writer, ctx, flags, armed, watchdogs, sessions>>

RunReturns ==
  /\ At("loop") /\ Stopping
  /\ Goto("returned")
  /\ UNCHANGED <<process, keepalive, pump, stop, wire, ctx, flags, watch, sessions>>

-----------------------------------------------------------------------------
\* The keepalive thread

KeepaliveEnds ==
  /\ Running /\ keepalive = "tick" /\ (cstop \/ Stopping)
  /\ keepalive' = "end"
  /\ UNCHANGED <<process, main, pump, stop, wire, ctx, flags, watch, sessions>>

FindsStale ==
  /\ Running /\ keepalive = "tick" /\ ~cstop /\ ~Stopping
  /\ IsRxStale
  /\ failed' = TRUE
  /\ keepalive' = "giveUp"
  /\ UNCHANGED <<process, main, pump, stop, wire, ctx, cstop, quiet, watch, sessions>>

\* keepalive_interval_s passed without staleness.
BeginKeepalive ==
  /\ Running /\ keepalive = "tick" /\ ~cstop /\ ~Stopping
  /\ ~IsRxStale
  /\ keepalive' = "send"
  /\ UNCHANGED <<process, main, pump, stop, wire, ctx, flags, watch, sessions>>

LockKeepalive ==
  /\ Running /\ keepalive = "send" /\ BeginWrite("keepalive")
  /\ UNCHANGED <<process, threads, stop, stream, draining, ctx, flags, watch, sessions>>

EndKeepalive(ok) ==
  /\ Running /\ keepalive = "send" /\ EndWrite("keepalive", ok)
  /\ failed' = (failed \/ ~ok)
  /\ keepalive' = IF ok THEN "tick" ELSE "giveUp"
  /\ UNCHANGED <<process, main, pump, stop, stream, draining, ctx, cstop, quiet, watch, sessions>>

\* CancelStream, connection_stop, return.
KeepaliveGivesUp ==
  /\ Running /\ keepalive = "giveUp"
  /\ CancelStream
  /\ cstop' = TRUE
  /\ keepalive' = "end"
  /\ UNCHANGED <<process, main, pump, stop, draining, writer, ctx, failed, quiet, generation, sessions>>

-----------------------------------------------------------------------------
\* The candidate pump thread

PumpEnds ==
  /\ Running /\ pump = "idle" /\ (cstop \/ Stopping)
  /\ pump' = "end"
  /\ UNCHANGED <<process, main, keepalive, stop, wire, ctx, flags, watch, sessions>>

\* A session that was noted has local candidates.
BeginPump ==
  /\ Running /\ pump = "idle" /\ ~cstop /\ ~Stopping
  /\ active # {}
  /\ pump' = "send"
  /\ UNCHANGED <<process, main, keepalive, stop, wire, ctx, flags, watch, sessions>>

LockPump ==
  /\ Running /\ pump = "send" /\ BeginWrite("pump")
  /\ UNCHANGED <<process, threads, stop, stream, draining, ctx, flags, watch, sessions>>

EndPump(ok) ==
  /\ Running /\ pump = "send" /\ EndWrite("pump", ok)
  /\ pump' = "idle"
  /\ UNCHANGED <<process, main, keepalive, stop, stream, draining, ctx, flags, watch, sessions>>

-----------------------------------------------------------------------------
\* Stop, the watchdog threads, time

StopFlags ==
  /\ Running /\ stop = "no"
  /\ stop' = "flagged"
  /\ UNCHANGED <<process, threads, wire, ctx, flags, watch, sessions>>

StopCancels ==
  /\ Running /\ stop = "flagged"
  /\ CancelStream
  /\ stop' = "done"
  /\ UNCHANGED <<process, threads, draining, writer, ctx, flags, generation, sessions>>

WatchdogLeaves(g) ==
  /\ Running /\ g \in watchdogs
  /\ generation # g \/ Stopping
  /\ watchdogs' = watchdogs \ {g}
  /\ UNCHANGED <<process, threads, stop, wire, ctx, flags, generation, armed, sessions>>

WatchdogAborts(g) ==
  /\ Running /\ g \in watchdogs
  /\ generation = g /\ ~Stopping
  /\ process' = "aborted"
  /\ UNCHANGED <<threads, stop, wire, ctx, flags, watch, sessions>>

Tick ==
  /\ Running /\ quiet <= StaleAfter
  /\ quiet' = quiet + 1
  /\ UNCHANGED <<process, threads, stop, wire, ctx, failed, cstop, watch, sessions>>

-----------------------------------------------------------------------------
\* Calls into WebRTCManager.
Handle ==
  \/ CleanupTearsDown \/ HandleCandidate
  \/ \E sid \in Sids : HandleClose(sid) \/ \E ok \in BOOLEAN : HandleStart(sid, ok)

Main ==
  \/ Dial \/ Publish \/ BeginRegister \/ (NotAccepted /\ Dead)
  \/ \E ok \in BOOLEAN : EndRegister(ok) \/ EndResponse(ok)
  \/ Check \/ ReadEnds \/ BeginResponse
  \/ Wind \/ JoinKeepalive \/ JoinPump \/ Finish
  \/ CleanupCancels \/ CleanupClears \/ Bump \/ RunReturns

\* What the server sends.
Server ==
  \/ PeerBreaks \/ PeerStopsDraining
  \/ Accepted \/ (NotAccepted /\ ~Dead) \/ IpChanged
  \/ \E next \in {"check", "handle"} : ReadMessage(next)

Keepalive ==
  \/ KeepaliveEnds \/ FindsStale \/ BeginKeepalive \/ LockKeepalive
  \/ KeepaliveGivesUp \/ \E ok \in BOOLEAN : EndKeepalive(ok)

Pump == PumpEnds \/ BeginPump \/ LockPump \/ \E ok \in BOOLEAN : EndPump(ok)

Watchdog(g) == WatchdogLeaves(g) \/ WatchdogAborts(g)

Next ==
  \/ Main \/ Handle \/ Server \/ Keepalive \/ Pump \/ Tick
  \/ StopFlags \/ StopCancels
  \/ \E g \in 0..MaxCycles : Watchdog(g)

Spec == Init /\ [][Next]_vars

\* Threads run and time passes; the server and the caller of Stop promise
\* nothing, and a handler of WebRTCManager may never return.  No thread waits for
\* write_mutex_ for ever while others pass: the pump sleeps between its rounds, the
\* keepalive thread between its.
WedgedSpec ==
  /\ Spec
  /\ WF_vars(Main) /\ WF_vars(Keepalive) /\ WF_vars(Pump) /\ WF_vars(Tick)
  /\ WF_vars(StopCancels)
  /\ \A g \in 0..MaxCycles : WF_vars(Watchdog(g))
  /\ SF_vars(LockKeepalive) /\ SF_vars(LockPump) /\ SF_vars(BeginResponse)

-----------------------------------------------------------------------------
\* Properties

InCycle == main \notin {"loop", "publish", "bump", "returned"}

\* ctx_ and stream_ never outlive RunOnce's locals: Stop() and the threads of
\* a cycle reach TryCancel and Write through them.
NoDanglingStream ==
  Running =>
    /\ ctx = InCycle
    /\ keepalive # "off" \/ pump # "off" => ctx
    /\ writer # "nobody" => ctx

\* The server closes nothing when the stream is lost: the client must, so no
\* WebRTC session of a lost connection is still open when Run dials again.
NoSessionOutlivesStream == At("loop") \/ main = "returned" => open = {} /\ active = {}

\* The last resort never hits a healthy connection: it aborts only a cycle
\* whose own stream was cancelled and is not torn down.
AbortOnlyWedged ==
  [][process' = "aborted" /\ process # "aborted" => stream = "cancelled"]_vars

\* accelerator_control_client.h: a cancelled stream leads to a reconnect, to
\* an abort that the supervisor sees, or to a requested stop; not to limbo.
NoSilentLimbo ==
  Running /\ stream = "cancelled" ~> stream = "none" \/ ~Running \/ Stopping

\* keepalive_timeout_s: "Reconnect if no inbound stream message for this long", but
\* for one case: a thread is inside Write, and the peer reads no more.
StaleOrBlocked ==
  Running /\ keepalive # "off" /\ quiet > StaleAfter
    ~> quiet = 0 \/ stream # "up" \/ ~Running \/ Stopping \/ (writer # "nobody" /\ ~draining)

\* Run does not keep a stream that is lost, whether it was cancelled or went silent.
LostStreamLeft == NoSilentLimbo /\ StaleOrBlocked
=============================================================================

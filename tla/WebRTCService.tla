---------------------------- MODULE WebRTCService ----------------------------
(***************************************************************************)
(* WebRTCService, the browser's end of every WebRTC session: createSession *)
(* with its awaits, the poll loop for signaling events, the heartbeat, the *)
(* handlers of the peer connection and its data channel, closeSession and  *)
(* the controlled reconnect.  The browser runs one task at a time: a step  *)
(* is what happens between two awaits, or one event with its handlers.     *)
(***************************************************************************)
EXTENDS Naturals, Sequences

CONSTANTS
  Ids,      \* session ids, a fresh one per createSession
  Batches   \* bound: the batches of signaling events pollEvents may return

ASSUME BatchAssumption == Batches \subseteq Seq({"candidate", "close", "other"})

VARIABLES
  has,              \* per session, the Maps of the service with an entry for it
  negotiated,       \* per session, its value in sessionNegotiated
  sent,             \* heartbeats missed since lastHeartbeatSentAt; Never
  failures,         \* heartbeatConsecutiveFailures
  connectionState,  \* of the service as a whole
  creating,         \* where createSession awaits
  closing,          \* sessions whose owner has called closeSession and awaits it
  reconnects,       \* closeSession calls of triggerReconnect in flight
  poll,             \* runPollLoop
  inbox,            \* the events of the batch not handled yet
  iceSends,         \* sessions with a SendIceCandidate in flight
  peer,             \* connectionState of the RTCPeerConnection, ICE included
  dc,               \* readyState of the process-image channel; "dying": closed
                    \* by this page, the close event may still be delivered
  sctpWait          \* open channels that wait for the SCTP association

maps    == <<has, negotiated>>
beats   == <<sent, failures>>
closers == <<closing, reconnects>>
polling == <<poll, inbox>>
browser == <<peer, dc, sctpWait>>
vars == <<maps, beats, connectionState, creating, closers, polling, iceSends, browser>>

Never == 9
MaxFailures == 3  \* HEARTBEAT_MAX_CONSECUTIVE_FAILURES
StaleBeats == 2   \* intervals of 10 s in HEARTBEAT_STALE_THRESHOLD_MS, rounded up

Maps == {"sessions", "peerConnections", "dataChannels", "detectionChannels",
         "statsChannels", "remoteStreams", "pollControllers", "sessionNegotiated",
         "heartbeatTimers", "reconnectingSessions"}

ServiceTypeOK ==
  /\ has \in [Ids -> SUBSET Maps]
  /\ negotiated \in [Ids -> BOOLEAN]
  /\ sent \in [Ids -> {0, 1, StaleBeats, Never}]
  /\ failures \in [Ids -> 0 .. MaxFailures + 1]
  /\ connectionState \in {"connected", "disconnected", "connecting", "error"}
  /\ creating \in [Ids -> {"idle", "offering", "starting", "applying", "opening",
                           "created", "failed"}]
  /\ closing \subseteq Ids /\ reconnects \in [Ids -> 0 .. 2]
  /\ poll \in [Ids -> {"none", "asking", "handling", "waiting"}]
  /\ inbox \in [Ids -> Seq({"candidate", "close", "other"})]
  /\ iceSends \subseteq Ids
  /\ peer \in [Ids -> {"none", "new", "connected", "disconnected", "failed", "closed"}]
  /\ dc \in [Ids -> {"none", "connecting", "open", "dying", "closed"}]
  /\ sctpWait \subseteq Ids

Init ==
  /\ has = [s \in Ids |-> {}] /\ negotiated = [s \in Ids |-> FALSE]
  /\ sent = [s \in Ids |-> Never] /\ failures = [s \in Ids |-> 0]
  /\ connectionState = "disconnected"
  /\ creating = [s \in Ids |-> "idle"]
  /\ closing = {} /\ reconnects = [s \in Ids |-> 0]
  /\ poll = [s \in Ids |-> "none"] /\ inbox = [s \in Ids |-> <<>>]
  /\ iceSends = {}
  /\ peer = [s \in Ids |-> "none"] /\ dc = [s \in Ids |-> "none"]
  /\ sctpWait = {}

Sessions(h) == {s \in Ids : "sessions" \in h[s]}

\* getConnectionStatus, which the page shows.
Status(state, h, channel) ==
  LET channels == {channel[s] : s \in {t \in Ids : "dataChannels" \in h[t]}} IN
  IF state \in {"error", "connected"} THEN state
  ELSE IF "open" \in channels THEN "connected"
  ELSE IF "connecting" \in channels \/ Sessions(h) # {} THEN "connecting"
  ELSE "disconnected"

-----------------------------------------------------------------------------
\* cleanupSession and triggerReconnect, the two helpers behind every ending.

\* Fault: the poll loop is not stopped.
CleanupKeepsPolling(ss) ==
  /\ has' = [s \in Ids |-> IF s \in ss THEN has[s] \cap {"pollControllers"} ELSE has[s]]
  /\ negotiated' = [s \in Ids |-> negotiated[s] /\ s \notin ss]
  /\ sent' = [s \in Ids |-> IF s \in ss THEN Never ELSE sent[s]]
  /\ failures' = [s \in Ids |-> IF s \in ss THEN 0 ELSE failures[s]]
  /\ peer' = [s \in Ids |-> IF s \in ss /\ "peerConnections" \in has[s] THEN "closed" ELSE peer[s]]
  /\ dc' = [s \in Ids |-> IF s \in ss /\ dc[s] \in {"connecting", "open"} THEN "dying" ELSE dc[s]]

\* cleanupSession for the sessions ss: every map lets go, the timer and the poll
\* are stopped, the channels and the peer connection closed.
Cleanup(ss) ==
  /\ has' = [s \in Ids |-> IF s \in ss THEN {} ELSE has[s]]
  /\ negotiated' = [s \in Ids |-> negotiated[s] /\ s \notin ss]
  /\ sent' = [s \in Ids |-> IF s \in ss THEN Never ELSE sent[s]]
  /\ failures' = [s \in Ids |-> IF s \in ss THEN 0 ELSE failures[s]]
  /\ peer' = [s \in Ids |-> IF s \in ss /\ "peerConnections" \in has[s] THEN "closed" ELSE peer[s]]
  /\ dc' = [s \in Ids |-> IF s \in ss /\ dc[s] \in {"connecting", "open"} THEN "dying" ELSE dc[s]]

\* Fault: two reasons to reconnect make two calls.
ReconnectAgain(s, wanted) ==
  /\ has' = [has EXCEPT ![s] = IF wanted THEN @ \cup {"reconnectingSessions"} ELSE @]
  /\ reconnects' = [reconnects EXCEPT ![s] = IF wanted /\ @ < 2 THEN @ + 1 ELSE @]

\* triggerReconnect, if it is wanted: closeSession, unless one is on its way.
Reconnect(s, wanted) ==
  LET starts == wanted /\ "reconnectingSessions" \notin has[s] IN
  /\ has' = [has EXCEPT ![s] = IF starts THEN @ \cup {"reconnectingSessions"} ELSE @]
  /\ reconnects' = [reconnects EXCEPT ![s] = IF starts THEN @ + 1 ELSE @]

-----------------------------------------------------------------------------
\* createSession, from await to await.

\* Up to createOffer.  mode is frame-processing or one with a camera, which has a
\* channel for detections besides.
Create(s) ==
  /\ creating[s] = "idle"
  /\ creating' = [creating EXCEPT ![s] = "offering"]
  /\ connectionState' = "connecting"
  /\ peer' = [peer EXCEPT ![s] = "new"] /\ dc' = [dc EXCEPT ![s] = "connecting"]
  /\ \E auxiliary \in {{}, {"detectionChannels"}} :
       has' = [has EXCEPT ![s] = {"sessions", "peerConnections", "dataChannels",
                                  "sessionNegotiated"} \cup auxiliary]
  /\ UNCHANGED <<negotiated, beats, closers, polling, iceSends, sctpWait>>

\* No peer connection: nothing was recorded yet.
CreateRefused(s) ==
  /\ creating[s] = "idle"
  /\ creating' = [creating EXCEPT ![s] = "failed"]
  /\ UNCHANGED <<maps, beats, connectionState, closers, polling, iceSends, browser>>

\* No data channel: the peer connection is closed, and both stay in their maps.
ChannelRefused(s) ==
  /\ creating[s] = "idle"
  /\ creating' = [creating EXCEPT ![s] = "failed"]
  /\ has' = [has EXCEPT ![s] = {"sessions", "peerConnections"}]
  /\ peer' = [peer EXCEPT ![s] = "closed"]
  /\ connectionState' = "connecting"
  /\ UNCHANGED <<negotiated, beats, closers, polling, iceSends, dc, sctpWait>>

\* The offer is made and candidates were gathered, for 1.5 s at most; StartSession.
Offered(s) ==
  /\ creating[s] = "offering" /\ peer[s] # "closed"
  /\ creating' = [creating EXCEPT ![s] = "starting"]
  /\ UNCHANGED <<maps, beats, connectionState, closers, polling, iceSends, browser>>

\* applyStartSessionResponse looks the peer connection up again.
Answered(s) ==
  /\ creating[s] = "starting" /\ "peerConnections" \in has[s]
  /\ creating' = [creating EXCEPT ![s] = "applying"]
  /\ UNCHANGED <<maps, beats, connectionState, closers, polling, iceSends, browser>>

\* The answer is applied: ensurePolling, then waitForDataChannelOpen.
Applied(s) ==
  /\ creating[s] = "applying" /\ peer[s] # "closed"
  /\ creating' = [creating EXCEPT ![s] = "opening"]
  /\ negotiated' = [negotiated EXCEPT ![s] = TRUE]
  /\ has' = [has EXCEPT ![s] = @ \cup {"pollControllers"}]
  /\ poll' = [poll EXCEPT ![s] = "asking"]
  /\ UNCHANGED <<beats, connectionState, closers, inbox, iceSends, browser>>

\* Fault: the failed session is left in place.
CreateFailsOnly(s) ==
  /\ creating[s] \in {"offering", "starting", "applying", "opening"}
  /\ creating' = [creating EXCEPT ![s] = "failed"]
  /\ UNCHANGED <<maps, beats, connectionState, closers, polling, iceSends, browser>>

\* Any of these awaits is rejected, or the 10 s for the channel to open pass.
CreateFails(s) ==
  /\ creating[s] \in {"offering", "starting", "applying", "opening"}
  /\ creating' = [creating EXCEPT ![s] = "failed"]
  /\ Cleanup({s})
  /\ UNCHANGED <<connectionState, closers, polling, iceSends, sctpWait>>

-----------------------------------------------------------------------------
\* The ways a session ends.

\* closeSession by the owner of the session, who knows it once it is created.
CloseSession(s) ==
  /\ creating[s] = "created" /\ s \notin closing
  /\ closing' = closing \cup {s}
  /\ UNCHANGED <<maps, beats, connectionState, creating, reconnects, polling, iceSends, browser>>

\* The request is answered or has failed: the `finally' of closeSession.
CloseReturns(s) ==
  /\ \/ s \in closing /\ closing' = closing \ {s} /\ UNCHANGED reconnects
     \/ reconnects[s] > 0 /\ reconnects' = [reconnects EXCEPT ![s] = @ - 1] /\ UNCHANGED closing
  /\ Cleanup({s})
  /\ connectionState' = IF Sessions(has') = {} THEN "disconnected" ELSE connectionState
  /\ UNCHANGED <<creating, polling, iceSends, sctpWait>>

\* beforeunload: stopHeartbeat and closeSessionBeacon for every active session; the
\* user may still stay on the page.
Unload ==
  /\ Sessions(has) # {}
  /\ Cleanup(Sessions(has))
  /\ connectionState' = "disconnected"
  /\ UNCHANGED <<creating, closers, polling, iceSends, sctpWait>>

-----------------------------------------------------------------------------
\* The heartbeat.

\* A heartbeat that is due: whether it leaves, how often the last ones failed, and
\* how many are missing since the last that left.
Failed(s, ok) == IF dc[s] # "open" THEN failures[s] ELSE IF ok THEN 0 ELSE failures[s] + 1
Missing(s, ok) ==
  IF dc[s] = "open" /\ ok THEN 0
  ELSE IF sent[s] \in {StaleBeats, Never} THEN sent[s] ELSE sent[s] + 1

\* The interval timer: sendHeartbeat, then evaluateHeartbeatHealth with its guarded
\* resend, which comes after the counters were read.
Beat(s) ==
  /\ "heartbeatTimers" \in has[s]
  /\ \E ok, resent \in BOOLEAN :
       /\ failures' = [failures EXCEPT ![s] =
            IF resent /\ dc[s] = "open" THEN 0
            ELSE IF Failed(s, ok) > MaxFailures THEN MaxFailures + 1 ELSE Failed(s, ok)]
       /\ sent' = [sent EXCEPT ![s] = IF resent /\ dc[s] = "open" THEN 0 ELSE Missing(s, ok)]
       /\ Reconnect(s, Failed(s, ok) >= MaxFailures \/ Missing(s, ok) = StaleBeats)
  /\ UNCHANGED <<negotiated, connectionState, creating, closing, polling, iceSends, browser>>

-----------------------------------------------------------------------------
\* The process-image channel.

\* It opens; createSession is resolved, and the SCTP association awaited.
ChannelOpens(s) ==
  /\ dc[s] = "connecting" /\ peer[s] = "connected"
  /\ dc' = [dc EXCEPT ![s] = "open"]
  /\ creating' = [creating EXCEPT ![s] = "created"]
  /\ sctpWait' = sctpWait \cup {s}
  /\ UNCHANGED <<maps, beats, connectionState, closers, polling, iceSends, peer>>

\* startHeartbeat.
WithHeartbeat(s) ==
  IF "dataChannels" \in has[s] THEN has[s] \cup {"heartbeatTimers"} ELSE has[s]

\* Fault: the channel is not looked at after the wait.
SctpUnchecked(s) ==
  /\ s \in sctpWait /\ sctpWait' = sctpWait \ {s}
  /\ connectionState' = "connected"
  /\ has' = [has EXCEPT ![s] = WithHeartbeat(s)]
  /\ UNCHANGED <<negotiated, beats, creating, closers, polling, iceSends, peer, dc>>

\* waitForSctpConnected ends: connected, given up after 3 s, or rejected because the
\* peer connection is gone.
SctpConnected(s) ==
  /\ s \in sctpWait /\ sctpWait' = sctpWait \ {s}
  /\ IF dc[s] = "open" /\ peer[s] \notin {"closed", "failed"}
     THEN /\ connectionState' = "connected"
          /\ has' = [has EXCEPT ![s] = WithHeartbeat(s)]
     ELSE UNCHANGED <<connectionState, has>>
  /\ UNCHANGED <<negotiated, beats, creating, closers, polling, iceSends, peer, dc>>

\* ensureStatsDataChannel, which the frame transport calls; a closed peer connection
\* has no more channels to give.
EnsureStats(s) ==
  /\ creating[s] = "created" /\ "peerConnections" \in has[s] /\ peer[s] # "closed"
  /\ has' = [has EXCEPT ![s] = @ \cup {"statsChannels"}]
  /\ UNCHANGED <<negotiated, beats, connectionState, creating, closers, polling, iceSends, browser>>

\* Any message counts as a sign of life.
Message(s) ==
  /\ dc[s] = "open"
  /\ connectionState' = "connected"
  /\ UNCHANGED <<maps, beats, creating, closers, polling, iceSends, browser>>

\* Fault: a closed channel is only noted.
ClosesUnnoticed(s) ==
  /\ dc[s] = "open" /\ dc' = [dc EXCEPT ![s] = "closed"]
  /\ connectionState' = "disconnected"
  /\ UNCHANGED <<maps, beats, creating, closers, polling, iceSends, peer, sctpWait>>

\* It closes or fails under a session that is in use: onerror, if there is an error,
\* and onclose both ask for a reconnect.
ChannelBreaks(s) ==
  /\ dc[s] = "open" /\ dc' = [dc EXCEPT ![s] = "closed"]
  /\ connectionState' = "disconnected"
  /\ Reconnect(s, "sessions" \in has[s])
  /\ UNCHANGED <<negotiated, beats, creating, closing, polling, iceSends, peer, sctpWait>>

\* It fails while createSession waits for it: the reconnect starts, then the
\* rejected wait cleans up.
OpeningBreaks(s) ==
  /\ dc[s] = "connecting" /\ creating[s] = "opening"
  /\ reconnects' = [reconnects EXCEPT ![s] = @ + 1]
  /\ creating' = [creating EXCEPT ![s] = "failed"]
  /\ connectionState' = "disconnected"
  /\ Cleanup({s})
  /\ UNCHANGED <<closing, polling, iceSends, sctpWait>>

\* The close event of a channel that cleanupSession closed.
LateClose(s) ==
  /\ dc[s] = "dying" /\ dc' = [dc EXCEPT ![s] = "closed"]
  /\ connectionState' = "disconnected"
  /\ Reconnect(s, "sessions" \in has[s])
  /\ UNCHANGED <<negotiated, beats, creating, closing, polling, iceSends, peer, sctpWait>>

-----------------------------------------------------------------------------
\* The peer connection.

\* onconnectionstatechange and oniceconnectionstatechange.
PeerMoves(s) ==
  /\ negotiated[s]
  /\ \E to \in {"connected", "disconnected", "failed"} :
       /\ <<peer[s], to>> \in {<<"new", "connected">>, <<"new", "failed">>, <<"connected", "disconnected">>,
                               <<"disconnected", "connected">>, <<"disconnected", "failed">>}
       /\ peer' = [peer EXCEPT ![s] = to]
       /\ connectionState' = IF to = "failed" THEN "error" ELSE to
  /\ UNCHANGED <<maps, beats, creating, closers, polling, iceSends, dc, sctpWait>>

\* ontrack: the processed video.
RemoteTrack(s) ==
  /\ peer[s] = "connected"
  /\ has' = [has EXCEPT ![s] = @ \cup {"remoteStreams"}]
  /\ connectionState' = "connected"
  /\ UNCHANGED <<negotiated, beats, creating, closers, polling, iceSends, browser>>

\* onicecandidate: sent only between the answer and the connection.
LocalCandidate(s) ==
  /\ negotiated[s] /\ peer[s] \in {"new", "disconnected", "failed"} /\ s \notin iceSends
  /\ iceSends' = iceSends \cup {s}
  /\ UNCHANGED <<maps, beats, connectionState, creating, closers, polling, browser>>

\* handleSessionError ends a session in this state only.
InTrouble(s) == "peerConnections" \in has[s] /\ peer[s] \in {"failed", "disconnected"}

\* SendIceCandidate returns; if it failed, handleSessionError ends a session whose
\* peer connection is in trouble.
CandidateSent(s) ==
  /\ s \in iceSends /\ iceSends' = iceSends \ {s}
  /\ \/ UNCHANGED <<maps, beats, peer, dc>>
     \/ InTrouble(s) /\ Cleanup({s})
  /\ UNCHANGED <<connectionState, creating, closers, polling, sctpWait>>

-----------------------------------------------------------------------------
\* runPollLoop.

Polls(s) == {"pollControllers", "peerConnections"} \subseteq has[s]

\* pollEvents returns a batch; the cursor moves past all of it.
PollReturns(s) ==
  /\ poll[s] = "asking" /\ Polls(s)
  /\ \E batch \in Batches : inbox' = [inbox EXCEPT ![s] = batch]
  /\ poll' = [poll EXCEPT ![s] = "handling"]
  /\ UNCHANGED <<maps, beats, connectionState, creating, closers, iceSends, browser>>

\* handleSignalingMessage.  A candidate that cannot be added throws, and the rest of
\* the batch is lost; a second answer and acknowledgements change nothing.
HandleEvent(s) ==
  /\ poll[s] = "handling" /\ inbox[s] # <<>>
  /\ \/ /\ inbox' = [inbox EXCEPT ![s] = Tail(@)] /\ UNCHANGED poll
        /\ IF Head(inbox[s]) = "close" THEN Cleanup({s}) ELSE UNCHANGED <<maps, beats, peer, dc>>
     \/ /\ Head(inbox[s]) = "candidate" /\ "peerConnections" \in has[s]
        /\ inbox' = [inbox EXCEPT ![s] = <<>>] /\ poll' = [poll EXCEPT ![s] = "waiting"]
        /\ UNCHANGED <<maps, beats, peer, dc>>
  /\ UNCHANGED <<connectionState, creating, closers, iceSends, sctpWait>>

\* pollEvents fails: unless it was aborted, another try after a second.
PollFails(s) ==
  /\ poll[s] = "asking"
  /\ poll' = [poll EXCEPT ![s] = IF "pollControllers" \in has[s] THEN "waiting" ELSE "none"]
  /\ UNCHANGED <<maps, beats, connectionState, creating, closers, inbox, iceSends, browser>>

\* The condition of the loop, after a batch or the delay.
PollAgain(s) ==
  /\ poll[s] = "waiting" \/ (poll[s] = "handling" /\ inbox[s] = <<>>)
  /\ poll' = [poll EXCEPT ![s] = IF Polls(s) THEN "asking" ELSE "none"]
  /\ UNCHANGED <<maps, beats, connectionState, creating, closers, inbox, iceSends, browser>>

-----------------------------------------------------------------------------
Creating(s) ==
  Create(s) \/ CreateRefused(s) \/ ChannelRefused(s) \/ Offered(s) \/ Answered(s)
  \/ Applied(s) \/ CreateFails(s)
Channel(s) ==
  ChannelOpens(s) \/ SctpConnected(s) \/ EnsureStats(s) \/ Message(s) \/ ChannelBreaks(s) \/ OpeningBreaks(s)
  \/ LateClose(s)
Connection(s) == PeerMoves(s) \/ RemoteTrack(s) \/ LocalCandidate(s) \/ CandidateSent(s)
PollLoop(s) == PollReturns(s) \/ HandleEvent(s) \/ PollFails(s) \/ PollAgain(s)

Next ==
  \/ Unload
  \/ \E s \in Ids :
       Creating(s) \/ CloseSession(s) \/ CloseReturns(s) \/ Beat(s) \/ Channel(s)
       \/ Connection(s) \/ PollLoop(s)

Spec == Init /\ [][Next]_vars

\* Requests are answered or fail, and timers fire.
FairSpec ==
  Spec /\ \A s \in Ids :
    /\ WF_vars(CloseReturns(s)) /\ WF_vars(SctpConnected(s)) /\ WF_vars(Beat(s))
    /\ WF_vars(PollAgain(s)) /\ WF_vars(PollFails(s)) /\ WF_vars(HandleEvent(s))

-----------------------------------------------------------------------------
\* No map keeps an entry of a session whose peer connection is gone, whichever of
\* the awaits, timers and events that fill the maps was overtaken by which ending.
AllOrNothing == \A s \in Ids : has[s] # {} => "peerConnections" \in has[s]

\* A failing channel, its heartbeat and its owner never start two controlled
\* reconnects of one session, although each ending clears the flag that guards it.
SingleReconnect == \A s \in Ids : reconnects[s] <= 1

\* While the service knows of no session, its status does not turn to "connected": no
\* wait, message or track of a dead session revives it.
NoGhostConnected ==
  [][(\A s \in Ids : has[s] = {} /\ has'[s] = {})
       => (Status(connectionState', has', dc') = "connected"
             => Status(connectionState, has, dc) = "connected")]_vars

\* A session whose channel broke is given up: all its maps forget it and its poll
\* loop and heartbeat end, if requests settle.
BrokenIsReleased ==
  \A s \in Ids : dc[s] = "closed" ~> has[s] = {} /\ poll[s] = "none"

\* What those who use the service see of it: the promise of createSession, the state
\* of the channel, and whether getDataChannel finds one.
PromiseOf(state) ==
  CASE state = "idle" -> "none" [] state = "created" -> "resolved"
    [] state = "failed" -> "rejected" [] OTHER -> "pending"
ReadyOf(channel) == IF channel = "dying" THEN "closed" ELSE channel

Promised == [s \in Ids |-> PromiseOf(creating[s])]
Ready == [s \in Ids |-> ReadyOf(dc[s])]
Known == {s \in Ids : "dataChannels" \in has[s]}

Promises == INSTANCE BrowserSession WITH promise <- Promised, ready <- Ready, known <- Known

\* That is the promise of BrowserSession.
KeepsPromises == Promises!SessionSpec
=============================================================================

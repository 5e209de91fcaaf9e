------------------------- MODULE WebRTCServiceProofs -------------------------
(***************************************************************************)
(* The maps of the service agree, a session is given up once at a time,    *)
(* and what the page sees of a session is what BrowserSession promises.    *)
(***************************************************************************)
EXTENDS WebRTCService, TLAPS

Pending == {"offering", "starting", "applying", "opening"}

\* What holds of one session between two tasks: its maps are filled together, its peer
\* connection and channel are alive only while the maps know them, createSession waits as
\* long as the channel connects, and a reconnect under way has its flag, or nothing is
\* left of the session that could start another.
SessionInv(s) ==
  /\ has[s] # {} => {"sessions", "peerConnections"} \subseteq has[s]
  /\ peer[s] \notin {"none", "closed"} \/ negotiated[s] => has[s] # {}
  /\ dc[s] \in {"connecting", "open"} => "dataChannels" \in has[s]
  /\ "dataChannels" \in has[s] => dc[s] \in {"connecting", "open", "closed"}
  /\ dc[s] = "dying" => has[s] = {}
  /\ creating[s] = "idle" => has[s] = {} /\ dc[s] = "none" /\ peer[s] = "none"
  /\ peer[s] = "none" => creating[s] \in {"idle", "failed"}
  /\ dc[s] = "connecting" => creating[s] \in Pending
  /\ dc[s] = "open" => creating[s] = "created"
  /\ "heartbeatTimers" \in has[s] \/ reconnects[s] > 0 => dc[s] \notin {"none", "connecting"}
  /\ reconnects[s] > 0 => reconnects[s] = 1 /\ (has[s] = {} \/ "reconnectingSessions" \in has[s])

ServiceInv == ServiceTypeOK /\ \A s \in Ids : SessionInv(s)

-----------------------------------------------------------------------------
\* What a step does not touch of a session stays true of it.
LEMMA Untouched ==
  ASSUME NEW t \in Ids, SessionInv(t), has'[t] = has[t], negotiated'[t] = negotiated[t],
         peer'[t] = peer[t], dc'[t] = dc[t], creating'[t] = creating[t],
         reconnects'[t] = reconnects[t]
  PROVE  SessionInv(t)'
BY DEF SessionInv

\* An ending leaves nothing behind, whoever brings it about and whether or not it was
\* createSession that failed or a reconnect that started or came back.
LEMMA CleanupInv ==
  ASSUME ServiceInv, NEW ss \in SUBSET Ids, Cleanup(ss), NEW t \in Ids,
         creating'[t] = creating[t] \/ (t \in ss /\ creating'[t] = "failed"),
         reconnects'[t] \in 0 .. 1,
         reconnects'[t] > 0 => reconnects[t] > 0 \/ (t \in ss /\ dc[t] = "connecting")
  PROVE  SessionInv(t)'
<1>0. SessionInv(t) /\ ServiceTypeOK
  BY DEF ServiceInv
<1>1. CASE t \in ss
  <2>1. /\ has'[t] = {} /\ ~negotiated'[t]
        /\ peer'[t] = IF "peerConnections" \in has[t] THEN "closed" ELSE peer[t]
        /\ dc'[t] = IF dc[t] \in {"connecting", "open"} THEN "dying" ELSE dc[t]
    BY <1>1 DEF Cleanup
  <2>2. peer'[t] \in {"none", "closed"}
    BY <1>0, <2>1 DEF SessionInv
  <2> QED BY <1>0, <2>1, <2>2 DEF SessionInv, ServiceTypeOK
<1>2. CASE t \notin ss
  <2>1. /\ has'[t] = has[t] /\ negotiated'[t] = negotiated[t] /\ peer'[t] = peer[t]
        /\ dc'[t] = dc[t] /\ creating'[t] = creating[t]
    BY <1>0, <1>2 DEF Cleanup, ServiceTypeOK
  <2> QED BY <1>0, <1>2, <2>1 DEF SessionInv, ServiceTypeOK
<1> QED BY <1>1, <1>2

\* createSession, from its call to its answer applied.
LEMMA CreatingInv ==
  ASSUME ServiceInv, NEW s \in Ids, Creating(s), NEW t \in Ids
  PROVE  SessionInv(t)'
<1>0. SessionInv(t) /\ SessionInv(s) /\ ServiceTypeOK
  BY DEF ServiceInv
<1>1. CASE Create(s)
  BY <1>0, <1>1 DEF Create, SessionInv, ServiceTypeOK, Pending, closers
<1>2. CASE CreateRefused(s)
  BY <1>0, <1>2 DEF CreateRefused, SessionInv, ServiceTypeOK, Pending, maps, closers, browser
<1>3. CASE ChannelRefused(s)
  BY <1>0, <1>3 DEF ChannelRefused, SessionInv, ServiceTypeOK, Pending, closers
<1>4. CASE Offered(s) \/ Answered(s)
  BY <1>0, <1>4 DEF Offered, Answered, SessionInv, ServiceTypeOK, Pending, maps, closers, browser
<1>5. CASE Applied(s)
  BY <1>0, <1>5 DEF Applied, SessionInv, ServiceTypeOK, Pending, closers, browser
<1>6. CASE CreateFails(s)
  <2>1. /\ creating'[t] = creating[t] \/ (t \in {s} /\ creating'[t] = "failed")
        /\ reconnects'[t] \in 0 .. 1 /\ reconnects'[t] = reconnects[t]
    BY <1>0, <1>6 DEF CreateFails, SessionInv, ServiceTypeOK, closers
  <2> QED BY <1>6, <2>1, CleanupInv, {s} \in SUBSET Ids DEF CreateFails
<1> QED BY <1>1, <1>2, <1>3, <1>4, <1>5, <1>6 DEF Creating

\* Whoever closes a session, the owner, a reconnect or the page that is left.
LEMMA ClosingInv ==
  ASSUME ServiceInv, NEW t \in Ids,
         Unload \/ \E s \in Ids : CloseSession(s) \/ CloseReturns(s)
  PROVE  SessionInv(t)'
<1>0. SessionInv(t) /\ ServiceTypeOK /\ reconnects[t] \in 0 .. 1
  BY DEF ServiceInv, SessionInv, ServiceTypeOK
<1>1. CASE Unload
  BY <1>0, <1>1, CleanupInv, Sessions(has) \in SUBSET Ids DEF Unload, Sessions, closers
<1>2. ASSUME NEW s \in Ids, CloseSession(s) PROVE SessionInv(t)'
  BY <1>0, <1>2, Untouched DEF CloseSession, maps, browser
<1>3. ASSUME NEW s \in Ids, CloseReturns(s) PROVE SessionInv(t)'
  <2>1. reconnects'[t] \in 0 .. 1 /\ (reconnects'[t] > 0 => reconnects[t] > 0)
    BY <1>0, <1>3 DEF CloseReturns, ServiceTypeOK
  <2> QED BY <1>3, <2>1, CleanupInv, {s} \in SUBSET Ids DEF CloseReturns
<1> QED BY <1>1, <1>2, <1>3

\* A reconnect starts under a session the service still knows, and sets its flag.
LEMMA ReconnectInv ==
  ASSUME ServiceInv, NEW s \in Ids, NEW wanted \in BOOLEAN, Reconnect(s, wanted),
         wanted => has[s] # {}, dc[s] \in {"open", "closed", "dying"},
         dc' = dc \/ dc' = [dc EXCEPT ![s] = "closed"],
         UNCHANGED <<negotiated, peer, creating>>, NEW t \in Ids
  PROVE  SessionInv(t)' /\ has' \in [Ids -> SUBSET Maps] /\ reconnects' \in [Ids -> 0 .. 2]
<1>0. SessionInv(t) /\ SessionInv(s) /\ ServiceTypeOK
  BY DEF ServiceInv
<1>1. has' \in [Ids -> SUBSET Maps]
  BY <1>0 DEF Reconnect, ServiceTypeOK, Maps
<1>2. reconnects' \in [Ids -> 0 .. 2]
  <2>1. "reconnectingSessions" \notin has[s] /\ has[s] # {} => reconnects[s] = 0
    BY <1>0 DEF SessionInv, ServiceTypeOK
  <2> QED BY <1>0, <2>1 DEF Reconnect, ServiceTypeOK
<1>3. SessionInv(t)'
  <2>1. CASE t # s
    BY <1>0, <2>1, Untouched DEF Reconnect, ServiceTypeOK
  <2>2. CASE t = s
    <3>1. /\ has'[s] = has[s] /\ reconnects'[s] = reconnects[s]
          \/ /\ has'[s] = has[s] \cup {"reconnectingSessions"} /\ has[s] # {}
             /\ "reconnectingSessions" \notin has[s] /\ reconnects'[s] = reconnects[s] + 1
      BY <1>0 DEF Reconnect, ServiceTypeOK
    <3>2. reconnects'[s] > 0 =>
            reconnects'[s] = 1 /\ (has'[s] = {} \/ "reconnectingSessions" \in has'[s])
      <4>1. /\ reconnects[s] \in 0 .. 2
            /\ reconnects[s] > 0 =>
                 reconnects[s] = 1 /\ (has[s] = {} \/ "reconnectingSessions" \in has[s])
        BY <1>0 DEF SessionInv, ServiceTypeOK
      <4> QED BY <3>1, <4>1
    <3>3. dc'[s] \in {dc[s], "closed"} /\ negotiated'[s] = negotiated[s]
          /\ peer'[s] = peer[s] /\ creating'[s] = creating[s]
      BY <1>0 DEF ServiceTypeOK
    <3> QED BY <1>0, <2>2, <3>1, <3>2, <3>3 DEF SessionInv
  <2> QED BY <2>1, <2>2
<1> QED BY <1>1, <1>2, <1>3

\* A channel that closes asks for a reconnect only under a session the service knows.
LEMMA CloseReconnects ==
  ASSUME NEW s \in Ids, ChannelBreaks(s) \/ LateClose(s)
  PROVE  \E wanted \in BOOLEAN : Reconnect(s, wanted) /\ (wanted => has[s] # {})
<1>1. Reconnect(s, "sessions" \in has[s])
  BY DEF ChannelBreaks, LateClose
<1>2. CASE "sessions" \in has[s]
  BY <1>1, <1>2 DEF Reconnect
<1>3. CASE "sessions" \notin has[s]
  BY <1>1, <1>3 DEF Reconnect
<1> QED BY <1>2, <1>3

\* The heartbeat, and the life of the channel.
LEMMA ChannelInv ==
  ASSUME ServiceInv, NEW s \in Ids, Beat(s) \/ Channel(s), NEW t \in Ids
  PROVE  SessionInv(t)'
<1>0. SessionInv(t) /\ SessionInv(s) /\ ServiceTypeOK
  BY DEF ServiceInv
<1>1. CASE Beat(s)
  <2>1. PICK wanted \in BOOLEAN : Reconnect(s, wanted)
    BY <1>1 DEF Beat
  <2>2. has[s] # {} /\ dc[s] \in {"open", "closed", "dying"}
    BY <1>0, <1>1 DEF Beat, SessionInv, ServiceTypeOK
  <2>3. UNCHANGED <<dc, negotiated, peer, creating>>
    BY <1>1 DEF Beat, browser
  <2> QED BY <2>1, <2>2, <2>3, ReconnectInv
<1>2. CASE ChannelOpens(s)
  BY <1>0, <1>2 DEF ChannelOpens, SessionInv, ServiceTypeOK, Pending, maps, closers
<1>3. CASE SctpConnected(s)
  <2>1. CASE t # s
    BY <1>0, <1>3, <2>1, Untouched DEF SctpConnected, ServiceTypeOK, closers
  <2>2. CASE t = s
    BY <1>0, <1>3, <2>2 DEF SctpConnected, WithHeartbeat, SessionInv, ServiceTypeOK, closers
  <2> QED BY <2>1, <2>2
<1>4. CASE EnsureStats(s)
  BY <1>0, <1>4 DEF EnsureStats, SessionInv, ServiceTypeOK, closers, browser
<1>5. CASE Message(s)
  BY <1>0, <1>5, Untouched DEF Message, maps, closers, browser
<1>6. CASE ChannelBreaks(s) \/ LateClose(s)
  <2>1. \E wanted \in BOOLEAN : Reconnect(s, wanted) /\ (wanted => has[s] # {})
    BY <1>6, CloseReconnects
  <2>2. /\ dc[s] \in {"open", "dying"} /\ dc' = [dc EXCEPT ![s] = "closed"]
        /\ UNCHANGED <<negotiated, peer, creating>>
    BY <1>6 DEF ChannelBreaks, LateClose
  <2> QED BY <2>1, <2>2, ReconnectInv
<1>7. CASE OpeningBreaks(s)
  <2>1. /\ creating'[t] = creating[t] \/ (t \in {s} /\ creating'[t] = "failed")
        /\ reconnects'[t] \in 0 .. 1
        /\ reconnects'[t] > 0 => reconnects[t] > 0 \/ (t \in {s} /\ dc[t] = "connecting")
    BY <1>0, <1>7 DEF OpeningBreaks, SessionInv, ServiceTypeOK
  <2> QED BY <1>7, <2>1, CleanupInv, {s} \in SUBSET Ids DEF OpeningBreaks
<1> QED BY <1>1, <1>2, <1>3, <1>4, <1>5, <1>6, <1>7 DEF Channel

\* The peer connection and the poll loop.
LEMMA ConnectionInv ==
  ASSUME ServiceInv, NEW s \in Ids, Connection(s) \/ PollLoop(s), NEW t \in Ids
  PROVE  SessionInv(t)'
<1>0. SessionInv(t) /\ SessionInv(s) /\ ServiceTypeOK /\ reconnects[t] \in 0 .. 1
  BY DEF ServiceInv, SessionInv, ServiceTypeOK
<1>1. CASE PeerMoves(s)
  BY <1>0, <1>1 DEF PeerMoves, SessionInv, ServiceTypeOK, maps, closers
<1>2. CASE RemoteTrack(s)
  BY <1>0, <1>2 DEF RemoteTrack, SessionInv, ServiceTypeOK, closers, browser
<1>3. CASE LocalCandidate(s) \/ PollReturns(s) \/ PollFails(s) \/ PollAgain(s)
  BY <1>0, <1>3, Untouched
     DEF LocalCandidate, PollReturns, PollFails, PollAgain, maps, closers, browser
<1>4. CASE CandidateSent(s) \/ HandleEvent(s)
  <2>1. UNCHANGED <<creating, reconnects>>
    BY <1>4 DEF CandidateSent, HandleEvent, closers
  <2>2. CASE Cleanup({s})
    BY <1>0, <2>1, <2>2, CleanupInv, {s} \in SUBSET Ids
  <2>3. CASE UNCHANGED <<maps, peer, dc>>
    BY <1>0, <2>1, <2>3, Untouched DEF maps
  <2> QED BY <1>4, <2>2, <2>3 DEF CandidateSent, HandleEvent
<1> QED BY <1>1, <1>2, <1>3, <1>4 DEF Connection, PollLoop

-----------------------------------------------------------------------------
\* The types, one action at a time.
LEMMA CleanupTypes ==
  ASSUME ServiceTypeOK, NEW ss \in SUBSET Ids, Cleanup(ss)
  PROVE  /\ has' \in [Ids -> SUBSET Maps] /\ negotiated' \in [Ids -> BOOLEAN]
         /\ sent' \in [Ids -> {0, 1, StaleBeats, Never}]
         /\ failures' \in [Ids -> 0 .. MaxFailures + 1]
         /\ peer' \in [Ids -> {"none", "new", "connected", "disconnected", "failed", "closed"}]
         /\ dc' \in [Ids -> {"none", "connecting", "open", "dying", "closed"}]
BY DEF ServiceTypeOK, Cleanup, MaxFailures

LEMMA CreatingTypes ==
  ASSUME ServiceTypeOK, NEW s \in Ids, Creating(s)
  PROVE  ServiceTypeOK'
<1>1. CASE Create(s)
  BY <1>1 DEF Create, ServiceTypeOK, Maps, beats, closers, polling
<1>2. CASE CreateRefused(s) \/ Offered(s) \/ Answered(s)
  BY <1>2 DEF CreateRefused, Offered, Answered, ServiceTypeOK, maps, beats, closers, polling, browser
<1>3. CASE ChannelRefused(s)
  BY <1>3 DEF ChannelRefused, ServiceTypeOK, Maps, beats, closers, polling
<1>4. CASE Applied(s)
  BY <1>4 DEF Applied, ServiceTypeOK, Maps, beats, closers, browser
<1>5. CASE CreateFails(s)
  BY <1>5, CleanupTypes, {s} \in SUBSET Ids DEF CreateFails, ServiceTypeOK, closers, polling
<1> QED BY <1>1, <1>2, <1>3, <1>4, <1>5 DEF Creating

LEMMA ClosingTypes ==
  ASSUME ServiceTypeOK, Unload \/ \E s \in Ids : CloseSession(s) \/ CloseReturns(s)
  PROVE  ServiceTypeOK'
<1>1. CASE Unload
  BY <1>1, CleanupTypes, Sessions(has) \in SUBSET Ids
     DEF Unload, Sessions, ServiceTypeOK, closers, polling
<1>2. ASSUME NEW s \in Ids, CloseSession(s) PROVE ServiceTypeOK'
  BY <1>2 DEF CloseSession, ServiceTypeOK, maps, beats, polling, browser
<1>3. ASSUME NEW s \in Ids, CloseReturns(s) PROVE ServiceTypeOK'
  <2>1. closing' \subseteq Ids /\ reconnects' \in [Ids -> 0 .. 2]
    <3>1. CASE closing' = closing \ {s} /\ UNCHANGED reconnects
      BY <3>1 DEF ServiceTypeOK
    <3>2. CASE reconnects[s] > 0 /\ reconnects' = [reconnects EXCEPT ![s] = @ - 1]
               /\ UNCHANGED closing
      <4>1. reconnects[s] - 1 \in 0 .. 2
        BY <3>2 DEF ServiceTypeOK
      <4> QED BY <3>2, <4>1 DEF ServiceTypeOK
    <3> QED BY <1>3, <3>1, <3>2 DEF CloseReturns
  <2> QED BY <1>3, <2>1, CleanupTypes, {s} \in SUBSET Ids
          DEF CloseReturns, ServiceTypeOK, polling
<1> QED BY <1>1, <1>2, <1>3

LEMMA ChannelTypes ==
  ASSUME ServiceInv, NEW s \in Ids, Beat(s) \/ Channel(s)
  PROVE  ServiceTypeOK'
<1>0. SessionInv(s) /\ ServiceTypeOK
  BY DEF ServiceInv
<1>1. ASSUME NEW wanted \in BOOLEAN, Reconnect(s, wanted), wanted => has[s] # {}
      PROVE  has' \in [Ids -> SUBSET Maps] /\ reconnects' \in [Ids -> 0 .. 2]
  <2>1. has' \in [Ids -> SUBSET Maps]
    BY <1>0, <1>1 DEF Reconnect, ServiceTypeOK, Maps
  <2>2. "reconnectingSessions" \notin has[s] /\ has[s] # {} => reconnects[s] = 0
    BY <1>0 DEF SessionInv, ServiceTypeOK
  <2> QED BY <1>0, <1>1, <2>1, <2>2 DEF Reconnect, ServiceTypeOK
<1>2. CASE Beat(s)
  <2>1. PICK ok \in BOOLEAN, resent \in BOOLEAN :
         /\ failures' = [failures EXCEPT ![s] =
              IF resent /\ dc[s] = "open" THEN 0
              ELSE IF Failed(s, ok) > MaxFailures THEN MaxFailures + 1 ELSE Failed(s, ok)]
         /\ sent' = [sent EXCEPT ![s] = IF resent /\ dc[s] = "open" THEN 0 ELSE Missing(s, ok)]
         /\ Reconnect(s, Failed(s, ok) >= MaxFailures \/ Missing(s, ok) = StaleBeats)
    BY <1>2 DEF Beat
  <2>2. has[s] # {}
    BY <1>2 DEF Beat
  <2>3. has' \in [Ids -> SUBSET Maps] /\ reconnects' \in [Ids -> 0 .. 2]
    BY <1>1, <2>1, <2>2
  <2>4. Missing(s, ok) \in {0, 1, StaleBeats, Never}
    <3>1. sent[s] \in {0, 1, StaleBeats, Never}
      BY <1>0 DEF ServiceTypeOK
    <3> QED BY <3>1 DEF Missing, StaleBeats, Never
  <2>5. failures' \in [Ids -> 0 .. MaxFailures + 1]
    <3>1. failures[s] \in 0 .. 4
      BY <1>0 DEF ServiceTypeOK, MaxFailures
    <3>2. Failed(s, ok) \in Nat
      BY <3>1 DEF Failed
    <3>3. failures'[s] \in 0 .. MaxFailures + 1
      BY <1>0, <2>1, <3>2 DEF ServiceTypeOK, MaxFailures
    <3> QED BY <1>0, <2>1, <3>3 DEF ServiceTypeOK
  <2>6. sent' \in [Ids -> {0, 1, StaleBeats, Never}]
    BY <1>0, <2>1, <2>4 DEF ServiceTypeOK
  <2> QED BY <1>0, <1>2, <2>3, <2>5, <2>6 DEF Beat, ServiceTypeOK, polling, browser
<1>3. CASE ChannelOpens(s) \/ Message(s)
  BY <1>0, <1>3 DEF ChannelOpens, Message, ServiceTypeOK, maps, beats, closers, polling, browser
<1>4. CASE SctpConnected(s)
  <2>1. has' \in [Ids -> SUBSET Maps]
    <3>1. has[s] \in SUBSET Maps /\ "heartbeatTimers" \in Maps
      BY <1>0 DEF ServiceTypeOK, Maps
    <3>2. WithHeartbeat(s) \in SUBSET Maps
      BY <3>1 DEF WithHeartbeat
    <3> QED BY <1>0, <1>4, <3>2 DEF SctpConnected, ServiceTypeOK
  <2> QED BY <1>0, <1>4, <2>1 DEF SctpConnected, ServiceTypeOK, beats, closers, polling
<1>5. CASE EnsureStats(s)
  BY <1>0, <1>5 DEF EnsureStats, ServiceTypeOK, Maps, beats, closers, polling, browser
<1>6. CASE ChannelBreaks(s) \/ LateClose(s)
  <2>1. has' \in [Ids -> SUBSET Maps] /\ reconnects' \in [Ids -> 0 .. 2]
    BY <1>1, <1>6, CloseReconnects
  <2> QED BY <1>0, <1>6, <2>1 DEF ChannelBreaks, LateClose, ServiceTypeOK, beats, polling
<1>7. CASE OpeningBreaks(s)
  <2>1. reconnects' \in [Ids -> 0 .. 2]
    <3>1. reconnects[s] = 0
      <4>1. reconnects[s] \in 0 .. 2
        BY <1>0 DEF ServiceTypeOK
      <4>2. ~(reconnects[s] > 0)
        BY <1>0, <1>7 DEF OpeningBreaks, SessionInv
      <4> QED BY <4>1, <4>2
    <3> QED BY <1>0, <1>7, <3>1 DEF OpeningBreaks, ServiceTypeOK
  <2> QED BY <1>0, <1>7, <2>1, CleanupTypes, {s} \in SUBSET Ids
          DEF OpeningBreaks, ServiceTypeOK, polling
<1> QED BY <1>2, <1>3, <1>4, <1>5, <1>6, <1>7 DEF Channel

LEMMA ConnectionTypes ==
  ASSUME ServiceTypeOK, NEW s \in Ids, Connection(s) \/ PollLoop(s)
  PROVE  ServiceTypeOK'
<1>1. CASE PeerMoves(s)
  BY <1>1 DEF PeerMoves, ServiceTypeOK, maps, beats, closers, polling
<1>2. CASE RemoteTrack(s)
  BY <1>2 DEF RemoteTrack, ServiceTypeOK, Maps, beats, closers, polling, browser
<1>3. CASE LocalCandidate(s)
  BY <1>3 DEF LocalCandidate, ServiceTypeOK, maps, beats, closers, polling, browser
<1>4. CASE CandidateSent(s)
  BY <1>4, CleanupTypes, {s} \in SUBSET Ids
     DEF CandidateSent, ServiceTypeOK, maps, beats, closers, polling
<1>5. CASE PollReturns(s)
  BY <1>5, BatchAssumption DEF PollReturns, ServiceTypeOK, maps, beats, closers, browser
<1>6. CASE PollFails(s) \/ PollAgain(s)
  BY <1>6 DEF PollFails, PollAgain, ServiceTypeOK, maps, beats, closers, browser
<1>7. CASE HandleEvent(s)
  <2>1. inbox' \in [Ids -> Seq({"candidate", "close", "other"})]
    <3>1. inbox[s] \in Seq({"candidate", "close", "other"}) /\ inbox[s] # <<>>
      BY <1>7 DEF HandleEvent, ServiceTypeOK
    <3>2. Tail(inbox[s]) \in Seq({"candidate", "close", "other"})
          /\ <<>> \in Seq({"candidate", "close", "other"})
      BY <3>1
    <3>3. inbox' = [inbox EXCEPT ![s] = Tail(@)] \/ inbox' = [inbox EXCEPT ![s] = <<>>]
      BY <1>7 DEF HandleEvent
    <3>4. inbox \in [Ids -> Seq({"candidate", "close", "other"})]
      BY DEF ServiceTypeOK
    <3> QED BY <3>2, <3>3, <3>4
  <2> QED BY <1>7, <2>1, CleanupTypes, {s} \in SUBSET Ids
          DEF HandleEvent, ServiceTypeOK, maps, beats, closers
<1> QED BY <1>1, <1>2, <1>3, <1>4, <1>5, <1>6, <1>7 DEF Connection, PollLoop

-----------------------------------------------------------------------------
LEMMA ServiceStep == ServiceInv /\ [Next]_vars => ServiceInv'
<1> SUFFICES ASSUME ServiceInv, [Next]_vars PROVE ServiceInv'
  OBVIOUS
<1>1. CASE UNCHANGED vars
  BY <1>1 DEF vars, maps, beats, closers, polling, browser, ServiceInv, ServiceTypeOK, SessionInv
<1>2. CASE Next
  <2>1. ServiceTypeOK'
    BY <1>2, CreatingTypes, ClosingTypes, ChannelTypes, ConnectionTypes DEF Next, ServiceInv
  <2>2. \A t \in Ids : SessionInv(t)'
    BY <1>2, CreatingInv, ClosingInv, ChannelInv, ConnectionInv DEF Next
  <2> QED BY <2>1, <2>2 DEF ServiceInv
<1> QED BY <1>1, <1>2

\* Between two tasks of the browser the maps, connections and channels of every session
\* agree, whatever was overtaken by what: the invariant the other theorems rest on.
THEOREM ServiceInvariant == Spec => []ServiceInv
<1>1. Init => ServiceInv
  BY DEF Init, ServiceInv, ServiceTypeOK, SessionInv, Pending, MaxFailures, Never
<1> QED BY <1>1, ServiceStep, PTL DEF Spec

\* No map of the WebRTC service keeps an entry of a session whose peer connection is gone.
THEOREM EntriesAreWhole == Spec => []AllOrNothing
<1>1. ServiceInv => AllOrNothing
  BY DEF ServiceInv, SessionInv, AllOrNothing
<1> QED BY <1>1, ServiceInvariant, PTL

\* At most one controlled reconnect of a session is under way.
THEOREM OneReconnect == Spec => []SingleReconnect
<1>1. ServiceInv => SingleReconnect
  <2> SUFFICES ASSUME ServiceInv, NEW s \in Ids PROVE reconnects[s] <= 1
    BY DEF SingleReconnect
  <2>1. reconnects[s] \in 0 .. 2
    BY DEF ServiceInv, ServiceTypeOK
  <2>2. reconnects[s] > 0 => reconnects[s] = 1
    BY DEF ServiceInv, SessionInv
  <2> QED BY <2>1, <2>2
<1> QED BY <1>1, ServiceInvariant, PTL

-----------------------------------------------------------------------------
\* With no session, the status is connected only if the service says so itself.
LEMMA EmptyStatus ==
  ASSUME NEW state, NEW h, NEW channel, \A s \in Ids : h[s] = {}
  PROVE  Status(state, h, channel) = "connected" <=> state = "connected"
<1>1. {channel[s] : s \in {t \in Ids : "dataChannels" \in h[t]}} = {} /\ Sessions(h) = {}
  BY DEF Sessions
<1>2. CASE state \in {"error", "connected"}
  BY <1>2 DEF Status
<1>3. CASE state \notin {"error", "connected"}
  BY <1>1, <1>3 DEF Status
<1> QED BY <1>2, <1>3

\* No wait, message, track or ICE event of a dead session makes the service connected.
LEMMA NoRevival ==
  ASSUME ServiceInv, Next, \A s \in Ids : has[s] = {}, connectionState' = "connected"
  PROVE  connectionState = "connected"
<1>1. CASE Unload
  BY <1>1 DEF Unload
<1>2. ASSUME NEW s \in Ids,
             Creating(s) \/ CloseSession(s) \/ CloseReturns(s) \/ Beat(s) \/ Channel(s)
             \/ Connection(s) \/ PollLoop(s)
      PROVE  connectionState = "connected"
  <2>1. SessionInv(s) /\ has[s] = {}
    BY DEF ServiceInv
  <2>2. dc[s] # "open" /\ ~negotiated[s] /\ peer[s] # "connected"
    BY <2>1 DEF SessionInv
  <2>3. CASE Creating(s)
    BY <2>3 DEF Creating, Create, CreateRefused, ChannelRefused, Offered, Answered, Applied,
                CreateFails
  <2>4. CASE CloseSession(s) \/ CloseReturns(s) \/ Beat(s)
    BY <2>4 DEF CloseSession, CloseReturns, Beat
  <2>5. CASE Channel(s)
    BY <2>2, <2>5 DEF Channel, ChannelOpens, SctpConnected, EnsureStats, Message,
                      ChannelBreaks, OpeningBreaks, LateClose
  <2>6. CASE Connection(s)
    BY <2>2, <2>6 DEF Connection, PeerMoves, RemoteTrack, LocalCandidate, CandidateSent
  <2>7. CASE PollLoop(s)
    BY <2>7 DEF PollLoop, PollReturns, HandleEvent, PollFails, PollAgain
  <2> QED BY <1>2, <2>3, <2>4, <2>5, <2>6, <2>7
<1> QED BY <1>1, <1>2 DEF Next

\* While the service knows of no session, its status does not turn to "connected".
THEOREM NoGhosts == Spec => NoGhostConnected
<1> DEFINE Ghostless ==
      (\A s \in Ids : has[s] = {} /\ has'[s] = {})
        => (Status(connectionState', has', dc') = "connected"
              => Status(connectionState, has, dc) = "connected")
<1>1. ServiceInv /\ [Next]_vars => [Ghostless]_vars
  <2> SUFFICES ASSUME ServiceInv, Next, \A s \in Ids : has[s] = {} /\ has'[s] = {},
                      Status(connectionState', has', dc') = "connected"
               PROVE  Status(connectionState, has, dc) = "connected"
    OBVIOUS
  <2>1. connectionState' = "connected"
    BY EmptyStatus
  <2>2. connectionState = "connected"
    BY <2>1, NoRevival
  <2> QED BY <2>2, EmptyStatus
<1> QED BY <1>1, ServiceInvariant, PTL DEF Spec, NoGhostConnected

-----------------------------------------------------------------------------
\* What the mapping to BrowserSession sees of a step of session s, and of none.
LEMMA SeenOfOne ==
  ASSUME ServiceTypeOK, ServiceTypeOK', NEW s \in Ids,
         \A t \in Ids \ {s} : creating'[t] = creating[t] /\ dc'[t] = dc[t] /\ has'[t] = has[t]
  PROVE  /\ Promised' = [Promised EXCEPT ![s] = PromiseOf(creating'[s])]
         /\ Ready' = [Ready EXCEPT ![s] = ReadyOf(dc'[s])]
         /\ Known' = IF "dataChannels" \in has'[s] THEN Known \cup {s} ELSE Known \ {s}
<1>1. Promised' = [Promised EXCEPT ![s] = PromiseOf(creating'[s])]
  BY DEF Promised
<1>2. Ready' = [Ready EXCEPT ![s] = ReadyOf(dc'[s])]
  BY DEF Ready
<1>3. Known' = IF "dataChannels" \in has'[s] THEN Known \cup {s} ELSE Known \ {s}
  BY DEF Known
<1> QED BY <1>1, <1>2, <1>3

LEMMA SeenOfNone ==
  ASSUME \A t \in Ids : /\ PromiseOf(creating'[t]) = PromiseOf(creating[t])
                        /\ ReadyOf(dc'[t]) = ReadyOf(dc[t])
                        /\ "dataChannels" \in has'[t] <=> "dataChannels" \in has[t]
  PROVE  UNCHANGED <<Promised, Ready, Known>>
<1>1. UNCHANGED Promised
  BY DEF Promised
<1>2. UNCHANGED Ready
  BY DEF Ready
<1>3. UNCHANGED Known
  BY DEF Known
<1> QED BY <1>1, <1>2, <1>3

LEMMA Seen ==
  ASSUME NEW s \in Ids
  PROVE  /\ Promised[s] = PromiseOf(creating[s]) /\ Ready[s] = ReadyOf(dc[s])
         /\ s \in Known <=> "dataChannels" \in has[s]
BY DEF Promised, Ready, Known

LEMMA Codes ==
  /\ PromiseOf("idle") = "none" /\ PromiseOf("created") = "resolved"
  /\ PromiseOf("failed") = "rejected"
  /\ \A state \in Pending : PromiseOf(state) = "pending"
  /\ ReadyOf("none") = "none" /\ ReadyOf("connecting") = "connecting"
  /\ ReadyOf("open") = "open" /\ ReadyOf("dying") = "closed" /\ ReadyOf("closed") = "closed"
BY DEF PromiseOf, ReadyOf, Pending

\* createSession begins, or fails where its peer connection is refused.
LEMMA BeginsAreSeen ==
  ASSUME ServiceInv, ServiceTypeOK', NEW s \in Ids,
         Create(s) \/ CreateRefused(s) \/ ChannelRefused(s)
  PROVE  Promises!Begin(s)
<1>0. SessionInv(s) /\ ServiceTypeOK
  BY DEF ServiceInv
<1>1. creating[s] = "idle" /\ has[s] = {} /\ dc[s] = "none"
  BY <1>0 DEF SessionInv, Create, CreateRefused, ChannelRefused
<1>2. Promised[s] = "none" /\ Ready[s] = "none" /\ s \notin Known
  BY <1>1, Seen, Codes
<1>3. \A t \in Ids \ {s} : creating'[t] = creating[t] /\ dc'[t] = dc[t] /\ has'[t] = has[t]
  BY <1>0 DEF ServiceTypeOK, Create, CreateRefused, ChannelRefused, maps, browser
<1>4. /\ Promised' = [Promised EXCEPT ![s] = PromiseOf(creating'[s])]
      /\ Ready' = [Ready EXCEPT ![s] = ReadyOf(dc'[s])]
      /\ Known' = IF "dataChannels" \in has'[s] THEN Known \cup {s} ELSE Known \ {s}
  BY <1>0, <1>3, SeenOfOne
<1>5. CASE Create(s)
  <2>1. creating'[s] = "offering" /\ dc'[s] = "connecting" /\ "dataChannels" \in has'[s]
    BY <1>0, <1>5 DEF Create, ServiceTypeOK
  <2>2. PromiseOf(creating'[s]) = "pending" /\ ReadyOf(dc'[s]) = "connecting"
    BY <2>1, Codes DEF Pending
  <2> QED BY <1>2, <1>4, <2>1, <2>2 DEF Promises!Begin
<1>6. CASE CreateRefused(s) \/ ChannelRefused(s)
  <2>1. creating'[s] = "failed" /\ dc' = dc /\ "dataChannels" \notin has'[s]
    <3>1. CASE CreateRefused(s)
      BY <1>0, <1>1, <3>1 DEF CreateRefused, ServiceTypeOK, maps, browser
    <3>2. CASE ChannelRefused(s)
      BY <1>0, <3>2 DEF ChannelRefused, ServiceTypeOK
    <3> QED BY <1>6, <3>1, <3>2
  <2>2. UNCHANGED Ready
    BY <2>1 DEF Ready
  <2>3. UNCHANGED Known
    BY <1>2, <1>4, <2>1
  <2> QED BY <1>2, <1>4, <2>1, <2>2, <2>3, Codes DEF Promises!Begin
<1> QED BY <1>5, <1>6

\* An ending is a Forget, or nothing to those who had been told before.
LEMMA EndingsAreSeen ==
  ASSUME ServiceInv, ServiceTypeOK', NEW s \in Ids, Cleanup({s}),
         creating' = creating \/ CreateFails(s)
  PROVE  \/ Promises!Forget(s) \/ Promises!GivesUp(s)
         \/ UNCHANGED <<Promised, Ready, Known>>
<1>0. SessionInv(s) /\ ServiceTypeOK
  BY DEF ServiceInv
<1>1. /\ has'[s] = {} /\ ReadyOf(dc'[s]) = IF dc[s] = "none" THEN "none" ELSE "closed"
      /\ \A t \in Ids \ {s} : dc'[t] = dc[t] /\ has'[t] = has[t]
  <2>1. dc'[s] = IF dc[s] \in {"connecting", "open"} THEN "dying" ELSE dc[s]
    BY <1>0 DEF Cleanup, ServiceTypeOK
  <2>2. dc[s] \in {"none", "connecting", "open", "dying", "closed"}
    BY <1>0 DEF ServiceTypeOK
  <2>3. ReadyOf(dc'[s]) = IF dc[s] = "none" THEN "none" ELSE "closed"
    BY <2>1, <2>2 DEF ReadyOf
  <2> QED BY <1>0, <2>3 DEF Cleanup, ServiceTypeOK
<1>2. \A t \in Ids \ {s} : creating'[t] = creating[t]
  BY <1>0 DEF CreateFails, ServiceTypeOK
<1>3. /\ Promised' = [Promised EXCEPT ![s] = PromiseOf(creating'[s])]
      /\ Ready' = [Ready EXCEPT ![s] = ReadyOf(dc'[s])]
      /\ Known' = Known \ {s}
  BY <1>0, <1>1, <1>2, SeenOfOne
<1>4. s \in Known => Ready' = [Ready EXCEPT ![s] = "closed"]
  BY <1>0, <1>1, <1>3, Seen DEF SessionInv
<1>5. s \notin Known => UNCHANGED <<Ready, Known>>
  <2> SUFFICES ASSUME s \notin Known PROVE UNCHANGED <<Ready, Known>>
    OBVIOUS
  <2>1. dc[s] \in {"none", "dying", "closed"}
    BY <1>0, Seen DEF SessionInv, ServiceTypeOK
  <2>2. ReadyOf(dc'[s]) = Ready[s]
    BY <1>1, <2>1, Seen, Codes
  <2> QED BY <1>3, <2>2 DEF Ready
<1>6. CASE creating' = creating
  <2>1. UNCHANGED Promised
    BY <1>6 DEF Promised
  <2> QED BY <1>3, <1>4, <1>5, <2>1 DEF Promises!Forget
<1>7. CASE CreateFails(s)
  <2>1. Promised[s] = "pending" /\ Promised' = [Promised EXCEPT ![s] = "rejected"]
    <3>1. creating[s] \in Pending /\ creating'[s] = "failed"
      BY <1>0, <1>7 DEF CreateFails, ServiceTypeOK, Pending
    <3> QED BY <1>3, <3>1, Seen, Codes
  <2> QED BY <1>3, <1>4, <1>5, <2>1 DEF Promises!Forget, Promises!GivesUp
<1> QED BY <1>6, <1>7

\* The channel opens or breaks, under createSession or later.
LEMMA ChannelIsSeen ==
  ASSUME ServiceInv, ServiceTypeOK', NEW s \in Ids,
         ChannelOpens(s) \/ ChannelBreaks(s) \/ OpeningBreaks(s)
  PROVE  Promises!Opens(s) \/ Promises!Breaks(s)
<1>0. SessionInv(s) /\ ServiceTypeOK
  BY DEF ServiceInv
<1>1. CASE ChannelOpens(s)
  <2>1. /\ creating[s] \in Pending /\ dc[s] = "connecting" /\ "dataChannels" \in has[s]
        /\ creating'[s] = "created" /\ dc'[s] = "open" /\ has' = has
    BY <1>0, <1>1 DEF ChannelOpens, SessionInv, ServiceTypeOK, maps
  <2>2. \A t \in Ids \ {s} : creating'[t] = creating[t] /\ dc'[t] = dc[t] /\ has'[t] = has[t]
    BY <1>0, <1>1, <2>1 DEF ChannelOpens, ServiceTypeOK
  <2>3. Promised[s] = "pending" /\ Ready[s] = "connecting" /\ s \in Known
    BY <2>1, Seen, Codes
  <2>4. /\ Promised' = [Promised EXCEPT ![s] = "resolved"]
        /\ Ready' = [Ready EXCEPT ![s] = "open"]
    BY <1>0, <2>1, <2>2, SeenOfOne, Codes
  <2>5. UNCHANGED Known
    BY <2>1 DEF Known
  <2> QED BY <2>3, <2>4, <2>5 DEF Promises!Opens
<1>2. CASE ChannelBreaks(s)
  <2>1. /\ creating[s] = "created" /\ dc[s] = "open" /\ "dataChannels" \in has[s]
        /\ creating' = creating /\ dc'[s] = "closed"
    BY <1>0, <1>2 DEF ChannelBreaks, SessionInv, ServiceTypeOK
  <2>2. /\ "dataChannels" \in has'[s]
        /\ \A t \in Ids \ {s} : dc'[t] = dc[t] /\ has'[t] = has[t]
    BY <1>0, <1>2, <2>1 DEF ChannelBreaks, Reconnect, ServiceTypeOK
  <2>3. Promised[s] = "resolved" /\ Ready[s] = "open" /\ s \in Known
    BY <2>1, Seen, Codes
  <2>4. Ready' = [Ready EXCEPT ![s] = "closed"] /\ Known' = Known
    <3>1. /\ Ready' = [Ready EXCEPT ![s] = ReadyOf(dc'[s])]
          /\ Known' = IF "dataChannels" \in has'[s] THEN Known \cup {s} ELSE Known \ {s}
      BY <1>0, <2>1, <2>2, SeenOfOne
    <3>2. Known \cup {s} = Known
      BY <2>3
    <3> QED BY <2>1, <2>2, <3>1, <3>2, Codes
  <2>5. UNCHANGED Promised
    BY <2>1 DEF Promised
  <2> QED BY <2>3, <2>4, <2>5 DEF Promises!Breaks
<1>3. CASE OpeningBreaks(s)
  <2>1. /\ creating[s] \in Pending /\ dc[s] = "connecting" /\ "dataChannels" \in has[s]
        /\ creating'[s] = "failed" /\ dc'[s] = "dying" /\ has'[s] = {}
    BY <1>0, <1>3 DEF OpeningBreaks, Cleanup, SessionInv, ServiceTypeOK, Pending
  <2>2. \A t \in Ids \ {s} : creating'[t] = creating[t] /\ dc'[t] = dc[t] /\ has'[t] = has[t]
    BY <1>0, <1>3 DEF OpeningBreaks, Cleanup, ServiceTypeOK
  <2>3. Promised[s] = "pending" /\ Ready[s] = "connecting" /\ s \in Known
    BY <2>1, Seen, Codes
  <2>4. /\ Promised' = [Promised EXCEPT ![s] = "rejected"]
        /\ Ready' = [Ready EXCEPT ![s] = "closed"] /\ Known' = Known \ {s}
    BY <1>0, <2>1, <2>2, SeenOfOne, Codes
  <2> QED BY <2>3, <2>4 DEF Promises!Breaks
<1> QED BY <1>1, <1>2, <1>3

\* The page is left: the sessions whose channel is known are all in the map of sessions.
LEMMA UnloadIsSeen ==
  ASSUME ServiceInv, Unload
  PROVE  Promises!ForgetAll
<1>1. UNCHANGED Promised
  BY DEF Unload, Promised
<1>2. Known' = {}
  <2> SUFFICES ASSUME NEW s \in Ids PROVE "dataChannels" \notin has'[s]
    BY DEF Known
  <2>1. SessionInv(s)
    BY DEF ServiceInv
  <2> QED BY <2>1 DEF Unload, Cleanup, Sessions, SessionInv
<1>3. Ready' = [s \in Ids |-> IF s \in Known THEN "closed" ELSE Ready[s]]
  <2> SUFFICES ASSUME NEW s \in Ids
               PROVE  ReadyOf(dc'[s]) = IF s \in Known THEN "closed" ELSE ReadyOf(dc[s])
    BY DEF Ready
  <2>1. SessionInv(s) /\ dc[s] \in {"none", "connecting", "open", "dying", "closed"}
    BY DEF ServiceInv, ServiceTypeOK
  <2>2. s \in Sessions(has) <=> has[s] # {}
    BY <2>1 DEF Sessions, SessionInv
  <2>3. dc'[s] = IF has[s] # {} /\ dc[s] \in {"connecting", "open"} THEN "dying" ELSE dc[s]
    BY <2>2 DEF Unload, Cleanup
  <2> QED BY <2>1, <2>3 DEF SessionInv, Known, ReadyOf
<1> QED BY <1>1, <1>2, <1>3 DEF Promises!ForgetAll

\* All the rest goes on behind the promise.
LEMMA NothingIsSeen ==
  ASSUME ServiceInv, NEW s \in Ids,
         \/ Offered(s) \/ Answered(s) \/ Applied(s) \/ CloseSession(s) \/ Beat(s)
         \/ SctpConnected(s) \/ EnsureStats(s) \/ Message(s) \/ LateClose(s)
         \/ PeerMoves(s) \/ RemoteTrack(s) \/ LocalCandidate(s)
         \/ PollReturns(s) \/ PollFails(s) \/ PollAgain(s)
  PROVE  UNCHANGED <<Promised, Ready, Known>>
<1>0. ServiceTypeOK
  BY DEF ServiceInv
<1>1. CASE Offered(s) \/ Answered(s) \/ Applied(s)
  <2> SUFFICES ASSUME NEW t \in Ids
               PROVE  /\ PromiseOf(creating'[t]) = PromiseOf(creating[t])
                      /\ ReadyOf(dc'[t]) = ReadyOf(dc[t])
                      /\ "dataChannels" \in has'[t] <=> "dataChannels" \in has[t]
    BY SeenOfNone
  <2>1. creating'[t] = creating[t] \/ (creating[t] \in Pending /\ creating'[t] \in Pending)
    BY <1>0, <1>1 DEF Offered, Answered, Applied, ServiceTypeOK, Pending
  <2>2. dc' = dc /\ ("dataChannels" \in has'[t] <=> "dataChannels" \in has[t])
    <3>1. dc' = dc
      BY <1>1 DEF Offered, Answered, Applied, browser
    <3>2. has'[t] = has[t] \/ has'[t] = has[t] \cup {"pollControllers"}
      BY <1>0, <1>1 DEF Offered, Answered, Applied, ServiceTypeOK, maps
    <3> QED BY <3>1, <3>2
  <2> QED BY <2>1, <2>2, Codes
<1>2. CASE \/ CloseSession(s) \/ Beat(s) \/ SctpConnected(s) \/ EnsureStats(s) \/ Message(s)
           \/ PeerMoves(s) \/ RemoteTrack(s) \/ LocalCandidate(s)
           \/ PollReturns(s) \/ PollFails(s) \/ PollAgain(s)
  <2>1. creating' = creating /\ dc' = dc
    BY <1>2 DEF CloseSession, Beat, SctpConnected, EnsureStats, Message, PeerMoves, RemoteTrack,
                LocalCandidate, PollReturns, PollFails, PollAgain, browser
  <2>2. ASSUME NEW t \in Ids
        PROVE  "dataChannels" \in has'[t] <=> "dataChannels" \in has[t]
    <3>1. CASE Beat(s)
      BY <1>0, <3>1 DEF Beat, Reconnect, ServiceTypeOK
    <3>2. CASE SctpConnected(s) \/ EnsureStats(s) \/ RemoteTrack(s)
      <4>1. \/ has'[t] = has[t] \/ has'[t] = has[t] \cup {"heartbeatTimers"}
            \/ has'[t] = has[t] \cup {"statsChannels"} \/ has'[t] = has[t] \cup {"remoteStreams"}
        <5>1. has \in [Ids -> SUBSET Maps]
          BY <1>0 DEF ServiceTypeOK
        <5>2. CASE SctpConnected(s)
          BY <5>1, <5>2 DEF SctpConnected, WithHeartbeat
        <5>3. CASE EnsureStats(s)
          BY <5>1, <5>3 DEF EnsureStats
        <5>4. CASE RemoteTrack(s)
          BY <5>1, <5>4 DEF RemoteTrack
        <5> QED BY <3>2, <5>2, <5>3, <5>4
      <4> QED BY <4>1
    <3>3. CASE has' = has
      BY <3>3
    <3> QED BY <1>2, <3>1, <3>2, <3>3
            DEF CloseSession, Message, PeerMoves, LocalCandidate, PollReturns, PollFails,
                PollAgain, maps
  <2> QED BY <2>1, <2>2, SeenOfNone
<1>3. CASE LateClose(s)
  <2>1. creating' = creating /\ \A t \in Ids : ReadyOf(dc'[t]) = ReadyOf(dc[t])
    BY <1>0, <1>3 DEF LateClose, ServiceTypeOK, ReadyOf
  <2>2. \A t \in Ids : "dataChannels" \in has'[t] <=> "dataChannels" \in has[t]
    BY <1>0, <1>3 DEF LateClose, Reconnect, ServiceTypeOK
  <2> QED BY <2>1, <2>2, SeenOfNone
<1> QED BY <1>1, <1>2, <1>3

\* Whoever uses the WebRTC service sees sessions that are created once, resolved with an
\* open channel, and forgotten for good: the service implements BrowserSession.
THEOREM ServiceKeepsPromises == Spec => KeepsPromises
<1>1. Init => Promises!SessionInit
  <2> SUFFICES ASSUME Init PROVE Promises!SessionInit
    OBVIOUS
  <2>1. Promised = [s \in Ids |-> "none"] /\ Ready = [s \in Ids |-> "none"] /\ Known = {}
    BY Codes DEF Init, Promised, Ready, Known
  <2> QED BY <2>1 DEF Promises!SessionInit
<1>2. ServiceInv /\ ServiceInv' /\ [Next]_vars
        => [Promises!ForgetAll \/ \E s \in Ids : Promises!SessionStep(s)]_Promises!session
  <2> SUFFICES ASSUME ServiceInv, ServiceInv', [Next]_vars
               PROVE  \/ Promises!ForgetAll \/ \E s \in Ids : Promises!SessionStep(s)
                      \/ UNCHANGED <<Promised, Ready, Known>>
    BY DEF Promises!session
  <2>0. ServiceTypeOK'
    BY DEF ServiceInv
  <2>1. CASE UNCHANGED vars
    BY <2>1 DEF vars, maps, browser, Promised, Ready, Known
  <2>2. CASE Unload
    BY <2>2, UnloadIsSeen
  <2>3. ASSUME NEW s \in Ids,
               Creating(s) \/ CloseSession(s) \/ CloseReturns(s) \/ Beat(s) \/ Channel(s)
               \/ Connection(s) \/ PollLoop(s)
        PROVE  Promises!SessionStep(s) \/ UNCHANGED <<Promised, Ready, Known>>
    <3>1. CASE Create(s) \/ CreateRefused(s) \/ ChannelRefused(s)
      BY <2>0, <3>1, BeginsAreSeen DEF Promises!SessionStep
    <3>2. CASE ChannelOpens(s) \/ ChannelBreaks(s) \/ OpeningBreaks(s)
      BY <2>0, <3>2, ChannelIsSeen DEF Promises!SessionStep
    <3>3. CASE CreateFails(s)
      BY <2>0, <3>3, EndingsAreSeen DEF CreateFails, Promises!SessionStep
    <3>4. CASE CloseReturns(s)
      BY <2>0, <3>4, EndingsAreSeen DEF CloseReturns, Promises!SessionStep
    <3>5. CASE CandidateSent(s) \/ HandleEvent(s)
      <4>1. CASE Cleanup({s}) /\ creating' = creating
        BY <2>0, <4>1, EndingsAreSeen DEF Promises!SessionStep
      <4>2. CASE UNCHANGED <<maps, beats, peer, dc>> /\ creating' = creating
        BY <4>2, SeenOfNone DEF maps
      <4> QED BY <3>5, <4>1, <4>2 DEF CandidateSent, HandleEvent
    <3> QED BY <2>3, <3>1, <3>2, <3>3, <3>4, <3>5, NothingIsSeen
            DEF Creating, Channel, Connection, PollLoop
  <2> QED BY <2>1, <2>2, <2>3 DEF Next
<1> QED BY <1>1, <1>2, ServiceInvariant, PTL DEF Spec, KeepsPromises, Promises!SessionSpec
=============================================================================

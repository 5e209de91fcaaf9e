------------------------- MODULE AcceleratorControl -------------------------
(***************************************************************************)
(* The cloud end of the accelerator control stream: the registry of        *)
(* accelerator sessions, the ControlServer.Connect handler that gRPC runs  *)
(* once per stream, and the goroutines a session owns (keepalive sender,   *)
(* stale watchdog, receiver).  A session object is identified with the     *)
(* stream it was built for, so a pointer comparison in the code is an      *)
(* equality of members of Conns here.                                      *)
(***************************************************************************)
EXTENDS Naturals, Sequences

CONSTANTS
  Conns,       \* streams that accelerators may open, one session object each
  Devices,     \* device ids
  NoConn,      \* "no entry" in the registry map
  DeviceOf,    \* device_id the peer of a stream puts in its Register
  Payload,     \* kinds of envelope: "register", and kinds the loop serves
  Endings,     \* ways the peer's half may end: "eof", "broken" or both
  StaleAfter   \* clock ticks in keepaliveTimeout

ASSUME ConnAssumption ==
  /\ NoConn \notin Conns
  /\ DeviceOf \in [Conns -> Devices]
ASSUME PayloadAssumption ==
  "register" \in Payload /\ {"end", "off", "recv"} \cap Payload = {}
ASSUME EndingsAssumption == Endings \subseteq {"eof", "broken"}
ASSUME StaleAssumption == StaleAfter \in Nat

VARIABLES
  handler,    \* where Connect stands, per stream
  sessions,   \* registry.sessions: the session registered for a device
  cancelled,  \* sess.ctx is done
  silence,    \* ticks since sess.lastSeen, saturating just above StaleAfter
  link,       \* the peer's half of the stream: "up", "eof" or "broken"
  reader,     \* receive goroutine: "off", in "recv", or the result it offers
  recvCh,     \* the channel from that goroutine to Connect, capacity 1
  started     \* the keepalive sender and the watchdog were started; both
              \* run until the context is done and leave nothing behind

regVars  == <<sessions, cancelled, silence>>
recvVars == <<reader, recvCh>>
vars     == <<handler, regVars, link, recvVars, started>>

-----------------------------------------------------------------------------
\* Types

\* What one stream.Recv yields: an envelope, or the end of the stream (EOF
\* and errors alike end Connect).  Among envelopes only a Register is special;
\* a Keepalive, a SignalingMessage and an Error (no command is ever pending)
\* touch this state in the same way.
Result == Payload \cup {"end"}
Phase  == {"idle", "first", "add", "ack", "serve", "remove", "cancel",
           "done", "rejected"}

TypeOK ==
  /\ handler \in [Conns -> Phase]
  /\ sessions \in [Devices -> Conns \cup {NoConn}]
  /\ cancelled \in [Conns -> BOOLEAN]
  /\ silence \in [Conns -> 0..(StaleAfter + 1)]
  /\ link \in [Conns -> {"up", "eof", "broken"}]
  /\ reader \in [Conns -> {"off", "recv"} \cup Result]
  /\ recvCh \in [Conns -> Seq(Result)]
  /\ \A c \in Conns : Len(recvCh[c]) <= 1
  /\ started \in [Conns -> BOOLEAN]

Init ==
  /\ handler = [c \in Conns |-> "idle"]
  /\ sessions = [d \in Devices |-> NoConn]
  /\ cancelled = [c \in Conns |-> FALSE]
  /\ silence = [c \in Conns |-> 0]
  /\ link = [c \in Conns |-> "up"]
  /\ reader = [c \in Conns |-> "off"]
  /\ recvCh = [c \in Conns |-> <<>>]
  /\ started = [c \in Conns |-> FALSE]

-----------------------------------------------------------------------------
\* The peer and the network.  Envelopes in flight are not kept: while the
\* peer's half is up, a Recv may yield any payload at any time, or none.

Goto(c, p) == handler' = [handler EXCEPT ![c] = p]

\* Connect has returned, so gRPC ends the stream's context.
Returned(c) == handler[c] \in {"done", "rejected"}
Open(c)     == handler[c] # "idle" /\ ~Returned(c)

\* An accelerator opens a stream and gRPC starts its Connect handler.
Dial(c) ==
  /\ handler[c] = "idle"
  /\ Goto(c, "first")
  /\ UNCHANGED <<regVars, link, recvVars, started>>

\* WritesDone on the accelerator ("eof"): the server can still send.  Or the
\* connection is lost ("broken").
PeerEnds(c, how) ==
  /\ Open(c)
  /\ link[c] \notin {how, "broken"}
  /\ link' = [link EXCEPT ![c] = how]
  /\ UNCHANGED <<handler, regVars, recvVars, started>>

-----------------------------------------------------------------------------
\* ControlServer.Connect

\* The first Recv yields an envelope: it must be a Register.
RecvFirst(c, p) ==
  /\ handler[c] = "first"
  /\ link[c] = "up"
  /\ Goto(c, IF p = "register" THEN "add" ELSE "rejected")
  /\ UNCHANGED <<regVars, link, recvVars, started>>

\* The stream ends before any envelope.
RecvFirstFails(c) ==
  /\ handler[c] = "first"
  /\ link[c] # "up"
  /\ Goto(c, "rejected")
  /\ UNCHANGED <<regVars, link, recvVars, started>>

\* Fault: the policy looks at the device's own entry.
OwnDeviceRegistered(d) == sessions[d] # NoConn

\* registry.Add, refused: another device is registered.
OtherDeviceRegistered(d) == \E e \in Devices \ {d} : sessions[e] # NoConn

AddRejected(c) ==
  /\ handler[c] = "add"
  /\ OtherDeviceRegistered(DeviceOf[c])
  /\ Goto(c, "rejected")
  /\ UNCHANGED <<regVars, link, recvVars, started>>

\* registry.Add, accepted: a stale session of the same device is cancelled.
Add(c) ==
  LET d == DeviceOf[c] IN
  /\ handler[c] = "add"
  /\ ~OtherDeviceRegistered(d)
  /\ cancelled' = [x \in Conns |-> cancelled[x] \/ x = sessions[d]]
  /\ sessions' = [sessions EXCEPT ![d] = c]
  /\ Goto(c, "ack")
  /\ UNCHANGED <<silence, link, recvVars, started>>

\* The RegisterAck is out: start the session's goroutines and serve.
SendAck(c) ==
  /\ handler[c] = "ack"
  /\ Goto(c, "serve")
  /\ reader' = [reader EXCEPT ![c] = "recv"]
  /\ started' = [started EXCEPT ![c] = TRUE]
  /\ UNCHANGED <<regVars, link, recvCh>>

\* Sending the RegisterAck fails: the deferred teardown runs.
SendAckFails(c) ==
  /\ handler[c] = "ack"
  /\ link[c] = "broken"
  /\ Goto(c, "remove")
  /\ UNCHANGED <<regVars, link, recvVars, started>>

\* The select of the receive loop takes sess.ctx.Done().
ServeCancelled(c) ==
  /\ handler[c] = "serve"
  /\ cancelled[c]
  /\ Goto(c, "remove")
  /\ UNCHANGED <<regVars, link, recvVars, started>>

\* The select takes the end of the stream.
ServeEnd(c) ==
  /\ handler[c] = "serve"
  /\ recvCh[c] # <<>>
  /\ Head(recvCh[c]) = "end"
  /\ recvCh' = [recvCh EXCEPT ![c] = Tail(@)]
  /\ Goto(c, "remove")
  /\ UNCHANGED <<regVars, link, reader, started>>

\* The select takes an envelope: touch, then dispatch on its payload.  A
\* second Register on the stream is a protocol error.
ServeEnvelope(c) ==
  /\ handler[c] = "serve"
  /\ recvCh[c] # <<>>
  /\ Head(recvCh[c]) \in Payload
  /\ recvCh' = [recvCh EXCEPT ![c] = Tail(@)]
  /\ silence' = [silence EXCEPT ![c] = 0]
  /\ Goto(c, IF Head(recvCh[c]) = "register" THEN "remove" ELSE "serve")
  /\ UNCHANGED <<sessions, cancelled, link, reader, started>>

\* Fault: removal by device id alone.
RemoveByDevice(c) ==
  /\ handler[c] = "remove"
  /\ sessions' = [sessions EXCEPT ![DeviceOf[c]] = NoConn]
  /\ Goto(c, "cancel")
  /\ UNCHANGED <<cancelled, silence, link, recvVars, started>>

\* Deferred teardown: registry.Remove, by pointer identity.
Remove(c) ==
  /\ handler[c] = "remove"
  /\ sessions' = [d \in Devices |->
       IF d = DeviceOf[c] /\ sessions[d] = c THEN NoConn ELSE sessions[d]]
  /\ Goto(c, "cancel")
  /\ UNCHANGED <<cancelled, silence, link, recvVars, started>>

\* Then sess.cancel(), and Connect returns.
Finish(c) ==
  /\ handler[c] = "cancel"
  /\ cancelled' = [cancelled EXCEPT ![c] = TRUE]
  /\ Goto(c, "done")
  /\ UNCHANGED <<sessions, silence, link, recvVars, started>>

-----------------------------------------------------------------------------
\* The session's goroutines

\* stream.Recv yields an envelope of the peer.
ReaderRecv(c, p) ==
  /\ reader[c] = "recv"
  /\ link[c] = "up" /\ ~Returned(c)
  /\ reader' = [reader EXCEPT ![c] = p]
  /\ UNCHANGED <<handler, regVars, link, recvCh, started>>

\* stream.Recv fails: the peer's half ended, or Connect returned.
ReaderEnds(c) ==
  /\ reader[c] = "recv"
  /\ link[c] # "up" \/ Returned(c)
  /\ reader' = [reader EXCEPT ![c] = "end"]
  /\ UNCHANGED <<handler, regVars, link, recvCh, started>>

\* The result fits in recvCh; after an error the goroutine returns.
ReaderOffers(c) ==
  /\ reader[c] \in Result
  /\ recvCh[c] = <<>>
  /\ recvCh' = [recvCh EXCEPT ![c] = Append(@, reader[c])]
  /\ reader' = [reader EXCEPT ![c] = IF @ = "end" THEN "off" ELSE "recv"]
  /\ UNCHANGED <<handler, regVars, link, started>>

\* The session was cancelled while the result was offered.
ReaderQuits(c) ==
  /\ reader[c] \in Result
  /\ cancelled[c]
  /\ reader' = [reader EXCEPT ![c] = "off"]
  /\ UNCHANGED <<handler, regVars, link, recvCh, started>>

\* runKeepaliveSender: the send fails and the session is cancelled.  A send
\* that succeeds changes nothing here.
KeepaliveFails(c) ==
  /\ started[c] /\ ~cancelled[c]
  /\ link[c] = "broken" \/ Returned(c)
  /\ cancelled' = [cancelled EXCEPT ![c] = TRUE]
  /\ UNCHANGED <<handler, sessions, silence, link, recvVars, started>>

\* runStaleWatchdog: nothing was received for longer than the timeout.
IsStale(c) == silence[c] > StaleAfter

\* Fault: a stale session is only logged.
WatchdogLogs(c) == started[c] /\ IsStale(c) /\ FALSE /\ UNCHANGED vars

WatchdogFires(c) ==
  /\ started[c] /\ ~cancelled[c]
  /\ IsStale(c)
  /\ cancelled' = [cancelled EXCEPT ![c] = TRUE]
  /\ UNCHANGED <<handler, sessions, silence, link, recvVars, started>>

\* One unit of time passes for every session that is being served.
Ageing(c) == handler[c] \in {"ack", "serve"} /\ silence[c] <= StaleAfter

Tick ==
  /\ \E c \in Conns : Ageing(c)
  /\ silence' = [c \in Conns |-> IF Ageing(c) THEN silence[c] + 1 ELSE silence[c]]
  /\ UNCHANGED <<handler, sessions, cancelled, link, recvVars, started>>

-----------------------------------------------------------------------------
\* What the peer decides, and what Go's scheduler runs.
Peer(c) ==
  \/ Dial(c)
  \/ \E how \in Endings : PeerEnds(c, how)
  \/ \E p \in Payload : RecvFirst(c, p) \/ ReaderRecv(c, p)

Connect(c) ==
  \/ RecvFirstFails(c) \/ AddRejected(c) \/ Add(c)
  \/ SendAck(c) \/ SendAckFails(c)
  \/ ServeCancelled(c) \/ ServeEnd(c) \/ ServeEnvelope(c)
  \/ Remove(c) \/ Finish(c)

Reader(c) == ReaderEnds(c) \/ ReaderOffers(c) \/ ReaderQuits(c)

\* Every stream ended and every receiver with it: nothing is left to do.
AllOver ==
  /\ \A c \in Conns : Returned(c) /\ reader[c] = "off"
  /\ UNCHANGED vars

Next ==
  \/ Tick \/ AllOver
  \/ \E c \in Conns : Peer(c) \/ Connect(c) \/ Reader(c)
                   \/ KeepaliveFails(c) \/ WatchdogFires(c)

Spec == Init /\ [][Next]_vars

\* Go runs every ready goroutine and time passes; nothing is assumed of peers.
\* A select chooses at random among its ready cases, so a peer that keeps the
\* other case ready cannot hide ctx.Done() for ever.
Fairness ==
  /\ WF_vars(Tick)
  /\ \A c \in Conns : /\ WF_vars(Connect(c)) /\ WF_vars(Reader(c))
                      /\ WF_vars(ServeCancelled(c))
                      /\ WF_vars(KeepaliveFails(c)) /\ WF_vars(WatchdogFires(c))

FairSpec == Spec /\ Fairness

-----------------------------------------------------------------------------
\* Properties

\* Connect is past registry.Add and has not run registry.Remove yet.
Accepted(c) == handler[c] \in {"ack", "serve", "remove"}

\* v1 policy of registry.Add: no two devices are registered together.
SingleAccelerator ==
  \A d, e \in Devices : sessions[d] # NoConn /\ sessions[e] # NoConn => d = e

\* An entry of the map is a session of that device whose handler still has
\* its own Remove to run, so no entry outlives its stream.
EntryHasOwner ==
  \A d \in Devices : sessions[d] # NoConn =>
    DeviceOf[sessions[d]] = d /\ Accepted(sessions[d])

\* What Remove's comment is about: an accelerator that believes it is
\* registered (accepted, never cancelled) is the one the API sees, whatever
\* the older streams of the device are still tearing down.
AcceptedIsRegistered ==
  \A c \in Conns : Accepted(c) /\ ~cancelled[c] => sessions[DeviceOf[c]] = c

\* A step takes a session out of the map only in its own teardown, or for a
\* newer stream of the same device, and then the evicted one is cancelled.
OnlyOwnerLeaves ==
  [][\A d \in Devices : \A c \in Conns :
       sessions[d] = c /\ sessions'[d] # c =>
         \/ sessions'[d] = NoConn /\ handler[c] = "remove"
         \/ sessions'[d] # NoConn /\ cancelled'[c]]_vars

\* A peer that goes silent without closing is dropped, or is heard again.
SilentPeerDropped ==
  \A c \in Conns : handler[c] = "serve" /\ silence[c] > 0
                     ~> silence[c] = 0 \/ handler[c] # "serve"

\* The registry implements the one-slot promise.
Registered == LET In == {d \in Devices : sessions[d] # NoConn}
              IN IF In = {} THEN NoConn ELSE sessions[CHOOSE d \in In : TRUE]
EverAccepted == {c \in Conns : handler[c] \in {"ack", "serve", "remove", "cancel", "done"}}

Slot == INSTANCE AcceleratorSlot WITH holder <- Registered, admitted <- EverAccepted

ImplementsSlot == Slot!SlotSpec
=============================================================================

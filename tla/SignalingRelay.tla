--------------------------- MODULE SignalingRelay ---------------------------
(***************************************************************************)
(* Signaling over the control stream: AcceleratorControl composed with the *)
(* adapters that the WebRTC gateway opens on the registered session.  An   *)
(* adapter subscribes a bounded channel to the session's fan-out, writes   *)
(* to the accelerator through sess.Send, and reads its channel in a loop   *)
(* of its own.  Channels are closed by the adapter or by the session's     *)
(* teardown, whichever comes first; Go panics on a second close, and on a  *)
(* send to a closed channel.                                               *)
(***************************************************************************)
EXTENDS AcceleratorControl

CONSTANTS
  Adapters,    \* signalingStreamAdapter objects
  ChanCap,     \* capacity of a subscriber channel (32 in the code)
  MaxEnvelopes \* bound: signaling envelopes a session receives

ASSUME RelayAssumption ==
  /\ "signaling" \in Payload
  /\ ChanCap \in Nat /\ MaxEnvelopes \in Nat
  /\ Adapters \cap {"ack", "keepalive", NoConn} = {} /\ NoConn # "keepalive"

VARIABLES
  stage,      \* life of an adapter, as its owner drives it
  target,     \* the session it was opened on
  subscribed, \* its channel is in that session's signalingChs
  closes,     \* how often its channel was closed
  inbox,      \* contents of its channel: numbers of envelopes
  received,   \* what its Recv loop returned so far
  lossy,      \* the fan-out dropped an envelope for it
  since,      \* envelopes the session had fanned out when it subscribed
  looping,    \* its Recv loop is running
  fanned,     \* envelopes a session has fanned out
  sendMu,     \* holder of a session's sendMu: an adapter, "keepalive", NoConn
  writing     \* who is inside stream.Send on a session's stream

adapterVars == <<stage, target, subscribed, closes, looping>>
chanVars    == <<inbox, received, lossy, since, fanned>>
writeVars   == <<sendMu, writing>>
relayVars   == <<adapterVars, chanVars, writeVars>>
allVars     == <<vars, relayVars>>

RelayTypeOK ==
  /\ TypeOK
  /\ stage \in [Adapters -> {"idle", "picked", "open", "cancelled", "closed"}]
  /\ target \in [Adapters -> Conns \cup {NoConn}]
  /\ subscribed \in [Adapters -> BOOLEAN]
  /\ closes \in [Adapters -> Nat]
  /\ looping \in [Adapters -> BOOLEAN]
  /\ inbox \in [Adapters -> Seq(1..MaxEnvelopes)]
  /\ \A a \in Adapters : Len(inbox[a]) <= ChanCap
  /\ received \in [Adapters -> Seq(1..MaxEnvelopes)]
  /\ lossy \in [Adapters -> BOOLEAN]
  /\ since \in [Adapters -> 0..MaxEnvelopes]
  /\ fanned \in [Conns -> 0..MaxEnvelopes]
  /\ sendMu \in [Conns -> Adapters \cup {"keepalive", NoConn}]
  /\ writing \in [Conns -> SUBSET (Adapters \cup {"ack", "keepalive"})]

RelayInit ==
  /\ Init
  /\ stage = [a \in Adapters |-> "idle"]
  /\ target = [a \in Adapters |-> NoConn]
  /\ subscribed = [a \in Adapters |-> FALSE]
  /\ closes = [a \in Adapters |-> 0]
  /\ looping = [a \in Adapters |-> FALSE]
  /\ inbox = [a \in Adapters |-> <<>>]
  /\ received = [a \in Adapters |-> <<>>]
  /\ lossy = [a \in Adapters |-> FALSE]
  /\ since = [a \in Adapters |-> 0]
  /\ fanned = [c \in Conns |-> 0]
  /\ sendMu = [c \in Conns |-> NoConn]
  /\ writing = [c \in Conns |-> {}]

-----------------------------------------------------------------------------
\* Steps of Connect that touch subscribers or the stream's writer

Subscribers(c) == {a \in Adapters : subscribed[a] /\ target[a] = c}

\* Connect calls stream.Send(ack) itself, without sendMu.
BeginAck(c) ==
  /\ handler[c] = "ack" /\ "ack" \notin writing[c]
  /\ writing' = [writing EXCEPT ![c] = @ \cup {"ack"}]
  /\ UNCHANGED <<vars, adapterVars, chanVars, sendMu>>

EndAck(c) ==
  /\ "ack" \in writing[c]
  /\ SendAck(c) \/ SendAckFails(c)
  /\ writing' = [writing EXCEPT ![c] = @ \ {"ack"}]
  /\ UNCHANGED <<adapterVars, chanVars, sendMu>>

Full(a) == Len(inbox[a]) >= ChanCap

\* Fault: the fan-out gives up at the first full channel.
TakesIfAllCan(c) ==
  {a \in Subscribers(c) : \A b \in Subscribers(c) : ~Full(b)}

\* The subscribers whose channel takes one more envelope.
Takes(c) == {a \in Subscribers(c) : ~Full(a)}

\* deliverSignaling: to every subscriber, dropped for those whose channel is
\* full.
ServeSignaling(c) ==
  LET n == fanned[c] + 1 IN
  /\ ServeEnvelope(c)
  /\ Head(recvCh[c]) = "signaling"
  /\ fanned[c] < MaxEnvelopes
  /\ fanned' = [fanned EXCEPT ![c] = n]
  /\ inbox' = [a \in Adapters |->
       IF a \in Takes(c) THEN Append(inbox[a], n) ELSE inbox[a]]
  /\ lossy' = [a \in Adapters |-> lossy[a] \/ (a \in Subscribers(c) /\ Full(a))]
  /\ UNCHANGED <<adapterVars, received, since, writeVars>>

ServeOther(c) ==
  /\ ServeEnvelope(c)
  /\ Head(recvCh[c]) # "signaling"
  /\ UNCHANGED relayVars

\* Fault: the channels are closed and stay in the map.
FinishKeepsMap(c) ==
  /\ Finish(c)
  /\ closes' = [a \in Adapters |->
       IF a \in Subscribers(c) THEN closes[a] + 1 ELSE closes[a]]
  /\ UNCHANGED <<stage, target, subscribed, looping, chanVars, writeVars>>

\* The end of the deferred teardown: closeAllSignaling closes and forgets
\* every channel still subscribed.
FinishAndClose(c) ==
  /\ Finish(c)
  /\ closes' = [a \in Adapters |->
       IF a \in Subscribers(c) THEN closes[a] + 1 ELSE closes[a]]
  /\ subscribed' = [a \in Adapters |-> subscribed[a] /\ a \notin Subscribers(c)]
  /\ UNCHANGED <<stage, target, looping, chanVars, writeVars>>

-----------------------------------------------------------------------------
\* sess.Send

Acquire(c, who) ==
  /\ sendMu[c] = NoConn
  /\ sendMu' = [sendMu EXCEPT ![c] = who]
  /\ writing' = [writing EXCEPT ![c] = @ \cup {who}]
  /\ UNCHANGED <<vars, adapterVars, chanVars>>

\* stream.Send returns, at the latest when Connect has returned.
Release(c, who) ==
  /\ sendMu[c] = who
  /\ sendMu' = [sendMu EXCEPT ![c] = NoConn]
  /\ writing' = [writing EXCEPT ![c] = @ \ {who}]
  /\ UNCHANGED <<vars, adapterVars, chanVars>>

\* An adapter sends whatever became of it and of its session since it was opened.
AdapterSends(a)   == stage[a] \in {"open", "cancelled", "closed"} /\ Acquire(target[a], a)
KeepaliveSends(c) == started[c] /\ ~cancelled[c] /\ Acquire(c, "keepalive")

-----------------------------------------------------------------------------
\* Adapters

\* AcceleratorGateway.SignalingStream: registry.First picks the session.
Pick(a, c) ==
  /\ stage[a] = "idle"
  /\ \E d \in Devices : sessions[d] = c
  /\ stage' = [stage EXCEPT ![a] = "picked"]
  /\ target' = [target EXCEPT ![a] = c]
  /\ UNCHANGED <<vars, subscribed, closes, looping, chanVars, writeVars>>

\* newSignalingStreamAdapter subscribes, whatever became of the session in
\* between; the owner's receive loop starts.
Subscribe(a) ==
  /\ stage[a] = "picked"
  /\ stage' = [stage EXCEPT ![a] = "open"]
  /\ subscribed' = [subscribed EXCEPT ![a] = TRUE]
  /\ since' = [since EXCEPT ![a] = fanned[target[a]]]
  /\ looping' = [looping EXCEPT ![a] = TRUE]
  /\ UNCHANGED <<vars, target, closes, inbox, received, lossy, fanned, writeVars>>

\* Recv takes an envelope from the channel.
Recv(a) ==
  /\ looping[a] /\ inbox[a] # <<>>
  /\ received' = [received EXCEPT ![a] = Append(@, Head(inbox[a]))]
  /\ inbox' = [inbox EXCEPT ![a] = Tail(@)]
  /\ UNCHANGED <<vars, adapterVars, lossy, since, fanned, writeVars>>

\* Recv finds its channel closed and drained, its own context cancelled, or
\* the session's: the loop ends.
RecvEnds(a) ==
  /\ looping[a]
  /\ \/ closes[a] > 0 /\ inbox[a] = <<>>
     \/ stage[a] \in {"cancelled", "closed"}
     \/ cancelled[target[a]]
  /\ looping' = [looping EXCEPT ![a] = FALSE]
  /\ UNCHANGED <<vars, stage, target, subscribed, closes, chanVars, writeVars>>

\* Its owner shuts it down, first half: cancel the context it lives in.
CloseSend(a) ==
  /\ stage[a] = "open"
  /\ stage' = [stage EXCEPT ![a] = "cancelled"]
  /\ UNCHANGED <<vars, target, subscribed, closes, looping, chanVars, writeVars>>

\* Second half: UnsubscribeSignaling closes the channel if the session still knows it.
\* It does not wait for a send under way.
Unsubscribe(a) ==
  /\ stage[a] = "cancelled"
  /\ stage' = [stage EXCEPT ![a] = "closed"]
  /\ closes' = IF subscribed[a] THEN [closes EXCEPT ![a] = @ + 1] ELSE closes
  /\ subscribed' = [subscribed EXCEPT ![a] = FALSE]
  /\ UNCHANGED <<vars, target, looping, chanVars, writeVars>>

-----------------------------------------------------------------------------
\* Steps of AcceleratorControl that leave subscribers and writers alone.
PeerOnly(c) == Peer(c) /\ UNCHANGED relayVars
ServerOnly(c) ==
  /\ \/ RecvFirstFails(c) \/ AddRejected(c) \/ Add(c)
     \/ ServeCancelled(c) \/ ServeEnd(c) \/ Remove(c)
     \/ Reader(c) \/ KeepaliveFails(c) \/ WatchdogFires(c)
  /\ UNCHANGED relayVars

Server(c) ==
  \/ ServerOnly(c) \/ BeginAck(c) \/ EndAck(c)
  \/ ServeSignaling(c) \/ ServeOther(c) \/ FinishAndClose(c)

Adapter(a) ==
  \/ \E c \in Conns : Pick(a, c) \/ Release(c, a)
  \/ Subscribe(a) \/ AdapterSends(a) \/ Recv(a) \/ RecvEnds(a)
  \/ CloseSend(a) \/ Unsubscribe(a)

RelayNext ==
  \/ Tick /\ UNCHANGED relayVars
  \/ \E c \in Conns : \/ PeerOnly(c) \/ Server(c)
                      \/ KeepaliveSends(c) \/ Release(c, "keepalive")
  \/ \E a \in Adapters : Adapter(a)

RelaySpec == RelayInit /\ [][RelayNext]_allVars

-----------------------------------------------------------------------------
\* Properties

\* No channel is closed twice and none is closed while the fan-out can still
\* send to it, in any order of Unsubscribe, closeAllSignaling and deliver.
ChannelsCloseOnce ==
  \A a \in Adapters : closes[a] <= 1 /\ (subscribed[a] => closes[a] = 0)

\* An adapter that kept up has every envelope since it subscribed, in order,
\* whatever the other adapters did.
NothingLostInSilence ==
  \A a \in Adapters : subscribed[a] /\ looping[a] /\ ~lossy[a] =>
    received[a] \o inbox[a] = [i \in 1..(fanned[target[a]] - since[a]) |-> since[a] + i]

\* sendMu keeps the adapters and the keepalives of a stream apart.  The RegisterAck, which
\* bypasses it, may overlap any of them, but only while Connect stands at it.
OnlyAckOverlaps ==
  \A c \in Conns : \A x, y \in writing[c] :
    x # y => "ack" \in {x, y} /\ handler[c] = "ack"

\* "gRPC bidi requires single-writer; serialize sends." (session.go:25): nobody is inside
\* stream.Send on a stream while another is.
SingleWriter == \A c \in Conns : \A x, y \in writing[c] : x = y
=============================================================================

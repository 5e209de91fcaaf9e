------------------------- MODULE ControlPlaneProofs -------------------------
(***************************************************************************)
(* The cloud's side of the control stream, for every set of streams,       *)
(* devices, sessions and adapters.                                         *)
(*                                                                         *)
(* AcceleratorControl: the inductive invariant is the conjunction of       *)
(* TypeOK and the three registry invariants: EntryHasOwner alone does not  *)
(* survive Add (the evicted stream must be known to be cancelled), and     *)
(* AcceptedIsRegistered does not survive Add of another device without     *)
(* EntryHasOwner and the v1 guard.                                         *)
(*                                                                         *)
(* SignalingRelay: neither ChannelsCloseOnce nor OnlyAckOverlaps is        *)
(* inductive: the first needs what a stage says about the subscription (an *)
(* adapter that has not subscribed yet was never closed, one that is       *)
(* subscribed is open or about to be closed), the second who may be inside *)
(* stream.Send.                                                            *)
(***************************************************************************)
EXTENDS SignalingRelay, TLAPS, SequenceTheorems

-----------------------------------------------------------------------------
\* AcceleratorControl

USE ConnAssumption, PayloadAssumption, EndingsAssumption, StaleAssumption

\* Every step keeps the state well typed: in particular silence saturates.
LEMMA TypeStep == TypeOK /\ [Next]_vars => TypeOK'
<1> SUFFICES ASSUME TypeOK, [Next]_vars PROVE TypeOK'
  OBVIOUS
<1> USE DEF TypeOK, Phase, Result, regVars, recvVars, vars, Goto
<1>1. CASE Tick
  <2>1. silence' \in [Conns -> 0..(StaleAfter + 1)]
    BY <1>1 DEF Tick, Ageing
  <2> QED
    BY <1>1, <2>1 DEF Tick
<1>2. CASE AllOver
  BY <1>2 DEF AllOver
<1>3. ASSUME NEW c \in Conns, Peer(c) PROVE TypeOK'
  <2>1. CASE Dial(c)
    BY <2>1 DEF Dial
  <2>2. ASSUME NEW how \in Endings, PeerEnds(c, how) PROVE TypeOK'
    BY <2>2 DEF PeerEnds
  <2>3. ASSUME NEW p \in Payload, RecvFirst(c, p) PROVE TypeOK'
    BY <2>3 DEF RecvFirst
  <2>4. ASSUME NEW p \in Payload, ReaderRecv(c, p) PROVE TypeOK'
    BY <2>4 DEF ReaderRecv
  <2> QED
    BY <1>3, <2>1, <2>2, <2>3, <2>4 DEF Peer
<1>4. ASSUME NEW c \in Conns, Connect(c) PROVE TypeOK'
  <2>1. CASE RecvFirstFails(c)
    BY <2>1 DEF RecvFirstFails
  <2>2. CASE AddRejected(c)
    BY <2>2 DEF AddRejected
  <2>3. CASE Add(c)
    BY <2>3 DEF Add
  <2>4. CASE SendAck(c)
    BY <2>4 DEF SendAck
  <2>5. CASE SendAckFails(c)
    BY <2>5 DEF SendAckFails
  <2>6. CASE ServeCancelled(c)
    BY <2>6 DEF ServeCancelled
  <2>7. CASE ServeEnd(c)
    BY <2>7 DEF ServeEnd
  <2>8. CASE ServeEnvelope(c)
    <3>1. silence' \in [Conns -> 0..(StaleAfter + 1)]
      BY <2>8 DEF ServeEnvelope
    <3>2. recvCh' \in [Conns -> Seq(Result)] /\ \A x \in Conns : Len(recvCh'[x]) <= 1
      BY <2>8 DEF ServeEnvelope
    <3>3. handler' \in [Conns -> Phase]
      BY <2>8 DEF ServeEnvelope
    <3> QED
      BY <2>8, <3>1, <3>2, <3>3 DEF ServeEnvelope
  <2>9. CASE Remove(c)
    BY <2>9 DEF Remove
  <2>10. CASE Finish(c)
    BY <2>10 DEF Finish
  <2> QED
    BY <1>4, <2>1, <2>2, <2>3, <2>4, <2>5, <2>6, <2>7, <2>8, <2>9, <2>10 DEF Connect
<1>5. ASSUME NEW c \in Conns, Reader(c) PROVE TypeOK'
  <2>1. CASE ReaderEnds(c)
    BY <2>1 DEF ReaderEnds
  <2>2. CASE ReaderOffers(c)
    <3>1. reader[c] \in Result /\ recvCh[c] = <<>>
      BY <2>2 DEF ReaderOffers
    <3>2. Append(recvCh[c], reader[c]) = <<reader[c]>>
      BY <3>1
    <3>3. <<reader[c]>> \in Seq(Result) /\ Len(<<reader[c]>>) = 1
      BY <3>1
    <3>4. recvCh' \in [Conns -> Seq(Result)] /\ \A x \in Conns : Len(recvCh'[x]) <= 1
      BY <2>2, <3>2, <3>3 DEF ReaderOffers
    <3> QED
      BY <2>2, <3>4 DEF ReaderOffers
  <2>3. CASE ReaderQuits(c)
    BY <2>3 DEF ReaderQuits
  <2> QED
    BY <1>5, <2>1, <2>2, <2>3 DEF Reader
<1>6. ASSUME NEW c \in Conns, KeepaliveFails(c) \/ WatchdogFires(c) PROVE TypeOK'
  BY <1>6 DEF KeepaliveFails, WatchdogFires
<1>7. CASE UNCHANGED vars
  BY <1>7
<1> QED
  BY <1>1, <1>2, <1>3, <1>4, <1>5, <1>6, <1>7 DEF Next

\* TypeOK is an invariant of the component.
THEOREM TypeCorrect == Spec => []TypeOK
<1>1. Init => TypeOK
  BY DEF Init, TypeOK, Phase, Result
<1> QED
  BY <1>1, TypeStep, PTL DEF Spec

-----------------------------------------------------------------------------
\* The registry

RegistryInv == SingleAccelerator /\ EntryHasOwner /\ AcceptedIsRegistered

\* A step that leaves the map alone, lets no accepted stream out and none in,
\* and cancels at most more sessions, preserves the registry invariants.
LEMMA RegistryFrame ==
  ASSUME RegistryInv,
         sessions' = sessions,
         \A c \in Conns : Accepted(c)' <=> Accepted(c),
         \A c \in Conns : cancelled[c] => cancelled'[c],
         TypeOK, TypeOK'
  PROVE  RegistryInv'
<1>1. SingleAccelerator'
  BY DEF RegistryInv, SingleAccelerator
<1>2. EntryHasOwner'
  BY DEF RegistryInv, EntryHasOwner, TypeOK
<1>3. AcceptedIsRegistered'
  BY DEF RegistryInv, AcceptedIsRegistered
<1> QED
  BY <1>1, <1>2, <1>3 DEF RegistryInv

\* registry.Add keeps one device registered and hands its entry over.
LEMMA AddStep ==
  ASSUME TypeOK, RegistryInv, NEW c \in Conns, Add(c)
  PROVE  RegistryInv'
<1> DEFINE d == DeviceOf[c]
<1>1. /\ d \in Devices
      /\ handler[c] = "add"
      /\ sessions' = [sessions EXCEPT ![d] = c]
      /\ handler' = [handler EXCEPT ![c] = "ack"]
      /\ cancelled' = [x \in Conns |-> cancelled[x] \/ x = sessions[d]]
      /\ \A e \in Devices : e # d => sessions[e] = NoConn
  BY DEF Add, OtherDeviceRegistered, Goto
<1>2. \A e \in Devices : sessions'[e] = IF e = d THEN c ELSE NoConn
  BY <1>1 DEF TypeOK
<1>3. \A x \in Conns : Accepted(x)' <=> (x = c \/ Accepted(x))
  BY <1>1 DEF Accepted, TypeOK
<1>4. SingleAccelerator'
  BY <1>2 DEF SingleAccelerator
<1>5. EntryHasOwner'
  BY <1>2, <1>3 DEF EntryHasOwner
<1>6. AcceptedIsRegistered'
  <2> SUFFICES ASSUME NEW x \in Conns, Accepted(x)', ~cancelled'[x]
               PROVE  sessions'[DeviceOf[x]] = x
    BY DEF AcceptedIsRegistered
  <2>1. CASE x = c
    BY <2>1, <1>1, <1>2
  <2>2. CASE x # c
    <3>1. Accepted(x) /\ ~cancelled[x] /\ x # sessions[d]
      BY <2>2, <1>1, <1>3
    <3>2. sessions[DeviceOf[x]] = x
      BY <3>1 DEF RegistryInv, AcceptedIsRegistered
    <3>3. DeviceOf[x] # d /\ DeviceOf[x] \in Devices
      BY <3>1, <3>2
    <3> QED
      BY <1>1, <3>2, <3>3
  <2> QED
    BY <2>1, <2>2
<1> QED
  BY <1>4, <1>5, <1>6 DEF RegistryInv

\* registry.Remove takes out its own session and no other.
LEMMA RemoveStep ==
  ASSUME TypeOK, RegistryInv, NEW c \in Conns, Remove(c)
  PROVE  RegistryInv'
<1>1. /\ handler[c] = "remove"
      /\ handler' = [handler EXCEPT ![c] = "cancel"]
      /\ cancelled' = cancelled
      /\ \A d \in Devices : sessions'[d] =
            IF d = DeviceOf[c] /\ sessions[d] = c THEN NoConn ELSE sessions[d]
  BY DEF Remove, Goto
<1>2. \A x \in Conns : Accepted(x)' <=> (x # c /\ Accepted(x))
  BY <1>1 DEF Accepted, TypeOK
<1>3. SingleAccelerator'
  BY <1>1 DEF RegistryInv, SingleAccelerator
<1>4. EntryHasOwner'
  <2> SUFFICES ASSUME NEW d \in Devices, sessions'[d] # NoConn
               PROVE  (DeviceOf[sessions[d]] = d /\ Accepted(sessions[d]))'
    BY DEF EntryHasOwner
  <2>1. /\ sessions'[d] = sessions[d]
        /\ ~(d = DeviceOf[c] /\ sessions[d] = c)
    BY <1>1
  <2>2. sessions[d] \in Conns /\ DeviceOf[sessions[d]] = d /\ Accepted(sessions[d])
    BY <2>1 DEF RegistryInv, EntryHasOwner, TypeOK
  <2>3. sessions[d] # c
    BY <2>1, <2>2
  <2> QED
    BY <1>2, <2>1, <2>2, <2>3
<1>5. AcceptedIsRegistered'
  BY <1>1, <1>2 DEF RegistryInv, AcceptedIsRegistered, Accepted
<1> QED
  BY <1>3, <1>4, <1>5 DEF RegistryInv

\* Every other step is an instance of the frame.
LEMMA RegistryStep ==
  ASSUME TypeOK, TypeOK', RegistryInv, [Next]_vars
  PROVE  RegistryInv'
<1> USE DEF Accepted, TypeOK, Goto, vars, regVars, recvVars
<1>1. CASE Tick
  BY <1>1, RegistryFrame DEF Tick
<1>2. CASE AllOver \/ UNCHANGED vars
  BY <1>2, RegistryFrame DEF AllOver
<1>3. ASSUME NEW c \in Conns, Peer(c) PROVE RegistryInv'
  <2>1. /\ sessions' = sessions
        /\ cancelled' = cancelled
        /\ \A x \in Conns : Accepted(x)' <=> Accepted(x)
    BY <1>3 DEF Peer, Dial, PeerEnds, RecvFirst, ReaderRecv
  <2> QED
    BY <2>1, RegistryFrame
<1>4. ASSUME NEW c \in Conns, Connect(c) PROVE RegistryInv'
  <2>1. CASE Add(c)
    BY <2>1, AddStep
  <2>2. CASE Remove(c)
    BY <2>2, RemoveStep
  <2>3. CASE Finish(c)
    <3>1. /\ sessions' = sessions
          /\ \A x \in Conns : cancelled[x] => cancelled'[x]
          /\ \A x \in Conns : Accepted(x)' <=> Accepted(x)
      BY <2>3 DEF Finish
    <3> QED
      BY <3>1, RegistryFrame
  <2>4. ASSUME \/ RecvFirstFails(c) \/ AddRejected(c) \/ SendAck(c) \/ SendAckFails(c)
               \/ ServeCancelled(c) \/ ServeEnd(c) \/ ServeEnvelope(c)
        PROVE  RegistryInv'
    <3>1. /\ sessions' = sessions
          /\ cancelled' = cancelled
          /\ \A x \in Conns : Accepted(x)' <=> Accepted(x)
      BY <2>4 DEF RecvFirstFails, AddRejected, SendAck, SendAckFails,
                  ServeCancelled, ServeEnd, ServeEnvelope
    <3> QED
      BY <3>1, RegistryFrame
  <2> QED
    BY <1>4, <2>1, <2>2, <2>3, <2>4 DEF Connect
<1>5. ASSUME NEW c \in Conns, Reader(c) \/ KeepaliveFails(c) \/ WatchdogFires(c)
      PROVE  RegistryInv'
  <2>1. /\ sessions' = sessions
        /\ handler' = handler
        /\ \A x \in Conns : cancelled[x] => cancelled'[x]
    BY <1>5 DEF Reader, ReaderEnds, ReaderOffers, ReaderQuits, KeepaliveFails, WatchdogFires
  <2> QED
    BY <2>1, RegistryFrame
<1> QED
  BY <1>1, <1>2, <1>3, <1>4, <1>5 DEF Next

\* The registry invariants hold of every behaviour.
THEOREM RegistryCorrect ==
  Spec => [](SingleAccelerator /\ EntryHasOwner /\ AcceptedIsRegistered)
<1>1. Init => RegistryInv
  BY DEF Init, RegistryInv, SingleAccelerator, EntryHasOwner, AcceptedIsRegistered, Accepted
<1>2. TypeOK /\ TypeOK' /\ RegistryInv /\ [Next]_vars => RegistryInv'
  BY RegistryStep
<1> QED
  BY <1>1, <1>2, TypeCorrect, PTL DEF Spec, RegistryInv

\* A step that is not Add or Remove leaves the map alone, and the set of
\* streams that were ever accepted.
LEMMA OtherSteps ==
  ASSUME TypeOK, [Next]_vars, \A c \in Conns : ~Add(c) /\ ~Remove(c)
  PROVE  sessions' = sessions /\ EverAccepted' = EverAccepted
<1> USE DEF EverAccepted, TypeOK, Goto, vars, regVars, recvVars
<1>1. CASE Tick \/ AllOver \/ UNCHANGED vars
  BY <1>1 DEF Tick, AllOver
<1>2. ASSUME NEW c \in Conns, Peer(c)
      PROVE  sessions' = sessions /\ EverAccepted' = EverAccepted
  BY <1>2 DEF Peer, Dial, PeerEnds, RecvFirst, ReaderRecv
<1>3. ASSUME NEW c \in Conns, Connect(c)
      PROVE  sessions' = sessions /\ EverAccepted' = EverAccepted
  BY <1>3 DEF Connect, RecvFirstFails, AddRejected, SendAck, SendAckFails,
              ServeCancelled, ServeEnd, ServeEnvelope, Finish
<1>4. ASSUME NEW c \in Conns, Reader(c) \/ KeepaliveFails(c) \/ WatchdogFires(c)
      PROVE  sessions' = sessions /\ EverAccepted' = EverAccepted
  BY <1>4 DEF Reader, ReaderEnds, ReaderOffers, ReaderQuits, KeepaliveFails, WatchdogFires
<1> QED
  BY <1>1, <1>2, <1>3, <1>4 DEF Next

\* A session leaves the map only by its own teardown, or evicted and
\* cancelled by a newer stream of its device.
THEOREM OwnerLeaves == Spec => OnlyOwnerLeaves
<1> DEFINE Leaves == \A d \in Devices : \A c \in Conns :
             sessions[d] = c /\ sessions'[d] # c =>
               \/ sessions'[d] = NoConn /\ handler[c] = "remove"
               \/ sessions'[d] # NoConn /\ cancelled'[c]
<1>1. TypeOK /\ [Next]_vars => [Leaves]_vars
  <2> SUFFICES ASSUME TypeOK, [Next]_vars,
                      NEW d \in Devices, NEW c \in Conns,
                      sessions[d] = c, sessions'[d] # c
               PROVE  \/ sessions'[d] = NoConn /\ handler[c] = "remove"
                      \/ sessions'[d] # NoConn /\ cancelled'[c]
    OBVIOUS
  <2>1. ASSUME NEW x \in Conns, Add(x)
        PROVE  sessions'[d] # NoConn /\ cancelled'[c]
    BY <2>1 DEF Add, TypeOK
  <2>2. ASSUME NEW x \in Conns, Remove(x)
        PROVE  sessions'[d] = NoConn /\ handler[c] = "remove"
    BY <2>2 DEF Remove, TypeOK
  <2> QED
    BY <2>1, <2>2, OtherSteps
<1> QED
  BY <1>1, TypeCorrect, PTL DEF Spec, OnlyOwnerLeaves

-----------------------------------------------------------------------------
\* The refinement of AcceleratorSlot

\* With one device registered at most, the CHOOSE of the mapping has no choice.
LEMMA RegisteredIs ==
  ASSUME TypeOK, SingleAccelerator, NEW d \in Devices, sessions[d] # NoConn
  PROVE  Registered = sessions[d]
<1>1. {e \in Devices : sessions[e] # NoConn} = {d}
  BY DEF SingleAccelerator
<1> QED
  BY <1>1 DEF Registered

LEMMA RegisteredNone ==
  ASSUME \A d \in Devices : sessions[d] = NoConn
  PROVE  Registered = NoConn
BY DEF Registered

\* Add is Join or TakeOver, as the device was absent or present.
LEMMA AddRefines ==
  ASSUME TypeOK, RegistryInv, TypeOK', RegistryInv', NEW c \in Conns, Add(c)
  PROVE  Slot!Join(c) \/ Slot!TakeOver(c)
<1> DEFINE d == DeviceOf[c]
<1>1. /\ d \in Devices
      /\ sessions'[d] = c /\ sessions'[d] # NoConn
      /\ \A e \in Devices : e # d => sessions[e] = NoConn
  BY DEF Add, OtherDeviceRegistered, TypeOK
<1>2. Registered' = c
  <2>1. TypeOK' /\ SingleAccelerator'
    BY DEF RegistryInv
  <2>2. {e \in Devices : sessions'[e] # NoConn} = {d}
    BY <1>1, <2>1 DEF SingleAccelerator
  <2> QED
    BY <1>1, <2>2 DEF Registered
<1>3. c \notin EverAccepted /\ EverAccepted' = EverAccepted \cup {c}
  BY DEF Add, Goto, EverAccepted, TypeOK
<1>4. CASE sessions[d] = NoConn
  <2>1. Registered = NoConn
    BY <1>1, <1>4, RegisteredNone
  <2> QED
    BY <1>2, <1>3, <2>1 DEF Slot!Join
<1>5. CASE sessions[d] # NoConn
  <2>1. Registered = sessions[d]
    BY <1>1, <1>5, RegisteredIs DEF RegistryInv
  <2>2. DeviceOf[sessions[d]] = d
    BY <1>1, <1>5 DEF RegistryInv, EntryHasOwner
  <2> QED
    BY <1>2, <1>3, <1>5, <2>1, <2>2 DEF Slot!TakeOver
<1> QED
  BY <1>4, <1>5

\* Remove is Leave, or a stutter when a newer stream holds the entry.
LEMMA RemoveRefines ==
  ASSUME TypeOK, RegistryInv, NEW c \in Conns, Remove(c)
  PROVE  [Slot!Leave]_<<Registered, EverAccepted>>
<1> DEFINE d == DeviceOf[c]
<1>1. EverAccepted' = EverAccepted
  BY DEF Remove, Goto, EverAccepted, TypeOK
<1>2. CASE sessions[d] = c
  <2>1. d \in Devices /\ c # NoConn
    OBVIOUS
  <2>2. Registered = c
    BY <1>2, <2>1, RegisteredIs DEF RegistryInv
  <2>3. \A e \in Devices : sessions'[e] = NoConn
    BY <1>2, <2>1 DEF Remove, RegistryInv, SingleAccelerator
  <2>4. Registered' = NoConn
    BY <2>3 DEF Registered
  <2> QED
    BY <1>1, <2>1, <2>2, <2>4 DEF Slot!Leave
<1>3. CASE sessions[d] # c
  <2>1. sessions' = sessions
    BY <1>3 DEF Remove, TypeOK
  <2> QED
    BY <1>1, <2>1 DEF Registered
<1> QED
  BY <1>2, <1>3

\* The detailed control plane implements the one-slot registry.
THEOREM Refinement == Spec => ImplementsSlot
<1>1. Init => Slot!SlotInit
  <2> SUFFICES ASSUME Init PROVE Registered = NoConn /\ EverAccepted = {}
    BY DEF Slot!SlotInit
  <2>1. \A d \in Devices : sessions[d] = NoConn
    BY DEF Init
  <2> QED
    BY <2>1, RegisteredNone DEF Init, EverAccepted
<1>2. TypeOK /\ RegistryInv /\ TypeOK' /\ RegistryInv' /\ [Next]_vars
        => [Slot!SlotNext]_(Slot!slotVars)
  <2> SUFFICES ASSUME TypeOK, RegistryInv, TypeOK', RegistryInv', [Next]_vars
               PROVE  [Slot!SlotNext]_(Slot!slotVars)
    OBVIOUS
  <2> USE DEF Slot!SlotNext, Slot!slotVars
  <2>1. ASSUME NEW c \in Conns, Add(c) PROVE Slot!SlotNext
    BY <2>1, AddRefines
  <2>2. ASSUME NEW c \in Conns, Remove(c) PROVE [Slot!SlotNext]_(Slot!slotVars)
    BY <2>2, RemoveRefines
  <2>3. ASSUME \A c \in Conns : ~Add(c) /\ ~Remove(c)
        PROVE  UNCHANGED (Slot!slotVars)
    <3>1. sessions' = sessions /\ EverAccepted' = EverAccepted
      BY <2>3, OtherSteps
    <3> QED
      BY <3>1 DEF Registered
  <2> QED
    BY <2>1, <2>2, <2>3
<1>3. Spec => []RegistryInv
  BY RegistryCorrect, PTL DEF RegistryInv
<1> QED
  BY <1>1, <1>2, <1>3, TypeCorrect, PTL DEF Spec, ImplementsSlot, Slot!SlotSpec

-----------------------------------------------------------------------------
\* SignalingRelay

\* An adapter before it subscribes: nothing was ever put in its channel.
Fresh(a) ==
  /\ closes[a] = 0 /\ ~subscribed[a] /\ ~looping[a]
  /\ inbox[a] = <<>> /\ received[a] = <<>> /\ ~lossy[a]

\* What the stage of an adapter says about its channel.
Staged(a) ==
  /\ stage[a] # "idle" => target[a] \in Conns
  /\ stage[a] \in {"idle", "picked"} => Fresh(a)
  /\ subscribed[a] => closes[a] = 0 /\ stage[a] \in {"open", "cancelled"}
  /\ closes[a] <= 1

\* Besides the RegisterAck, only the holder of sendMu is inside stream.Send.
Serialized(c) ==
  /\ \A x \in writing[c] : x = "ack" \/ (x = sendMu[c] /\ x # NoConn)
  /\ "ack" \in writing[c] => handler[c] = "ack"

\* The numbers of the envelopes that follow the first n.
After(n, k) == [i \in 1..k |-> n + i]

\* What an adapter received and still has in its channel.
Seen(a)    == received[a] \o inbox[a]
Current(a) ==
  /\ since[a] <= fanned[target[a]]
  /\ Seen(a) = After(since[a], fanned[target[a]] - since[a])
KeepsUp(a) == subscribed[a] /\ looping[a] /\ ~lossy[a]

RelayInv ==
  /\ RelayTypeOK
  /\ \A a \in Adapters : Staged(a)
  /\ \A c \in Conns : Serialized(c)
  /\ \A a \in Adapters : KeepsUp(a) => Current(a)
-----------------------------------------------------------------------------
\* Steps

\* A step of the registered session's own machine that no adapter sees.
Unseen ==
  /\ UNCHANGED relayVars
  /\ \/ Tick
     \/ \E c \in Conns : \/ Peer(c) \/ ServeOther(c) \/ RecvFirstFails(c)
                         \/ AddRejected(c) \/ Add(c) \/ ServeCancelled(c)
                         \/ ServeEnd(c) \/ Remove(c) \/ Reader(c)
                         \/ KeepaliveFails(c) \/ WatchdogFires(c)

\* The steps of the composition, one level deep.
LEMMA RelaySteps ==
  ASSUME RelayNext
  PROVE  \/ Unseen
         \/ \E c \in Conns : \/ BeginAck(c) \/ EndAck(c) \/ ServeSignaling(c)
                             \/ FinishAndClose(c) \/ KeepaliveSends(c)
                             \/ Release(c, "keepalive")
         \/ \E a \in Adapters :
              \/ \E c \in Conns : Pick(a, c) \/ Release(c, a)
              \/ Subscribe(a) \/ AdapterSends(a) \/ Recv(a) \/ RecvEnds(a)
              \/ CloseSend(a) \/ Unsubscribe(a)
<1>1. CASE Tick /\ UNCHANGED relayVars
  BY <1>1 DEF Unseen
<1>2. ASSUME NEW c \in Conns,
             \/ PeerOnly(c) \/ Server(c) \/ KeepaliveSends(c) \/ Release(c, "keepalive")
      PROVE  \/ Unseen
             \/ BeginAck(c) \/ EndAck(c) \/ ServeSignaling(c)
             \/ FinishAndClose(c) \/ KeepaliveSends(c) \/ Release(c, "keepalive")
  <2>1. CASE PeerOnly(c)
    BY <2>1 DEF PeerOnly, Unseen
  <2>2. CASE ServerOnly(c)
    BY <2>2 DEF ServerOnly, Unseen
  <2>3. CASE ServeOther(c)
    BY <2>3 DEF ServeOther, Unseen
  <2> QED
    BY <1>2, <2>1, <2>2, <2>3 DEF Server
<1> QED
  BY <1>1, <1>2 DEF RelayNext, Adapter

\* The composition takes no step that AcceleratorControl does not take.
LEMMA RelayStepsControl == RelayNext => [Next]_vars
<1> SUFFICES ASSUME RelayNext PROVE [Next]_vars
  OBVIOUS
<1>1. CASE Unseen
  BY <1>1 DEF Unseen, Next, Connect, ServeOther
<1>2. ASSUME NEW c \in Conns,
             \/ BeginAck(c) \/ EndAck(c) \/ ServeSignaling(c) \/ FinishAndClose(c)
             \/ KeepaliveSends(c) \/ Release(c, "keepalive")
      PROVE  [Next]_vars
  BY <1>2 DEF BeginAck, EndAck, ServeSignaling, FinishAndClose, KeepaliveSends,
              Release, Acquire, Next, Connect
<1>3. ASSUME NEW a \in Adapters,
             \/ \E c \in Conns : Pick(a, c) \/ Release(c, a)
             \/ Subscribe(a) \/ AdapterSends(a) \/ Recv(a) \/ RecvEnds(a)
             \/ CloseSend(a) \/ Unsubscribe(a)
      PROVE  UNCHANGED vars
  BY <1>3 DEF Pick, Release, Subscribe, AdapterSends, Acquire, Recv, RecvEnds,
              CloseSend, Unsubscribe
<1> QED
  BY <1>1, <1>2, <1>3, RelaySteps

\* The composition implements AcceleratorControl: whatever adapters do, every
\* behaviour of registry and streams is one that component allows by itself.
THEOREM RelayIsControl == RelaySpec => Spec
<1>1. RelayInit => Init
  BY DEF RelayInit
<1>2. [RelayNext]_allVars => [Next]_vars
  BY RelayStepsControl DEF allVars
<1> QED
  BY <1>1, <1>2, PTL DEF RelaySpec, Spec

\* So the registry stays correct under signaling traffic.
COROLLARY RelayKeepsRegistry == RelaySpec => [](TypeOK /\ RegistryInv)
BY RelayIsControl, TypeCorrect, RegistryCorrect, PTL DEF RegistryInv

\* And the control server, with adapters that come, send and go, still implements the
\* one-slot registry.
COROLLARY RelayImplementsSlot == RelaySpec => ImplementsSlot
BY RelayIsControl, Refinement
-----------------------------------------------------------------------------
\* Types

\* Taking the head off a sequence.
LEMMA TakeHead ==
  ASSUME NEW S, NEW s \in Seq(S), s # <<>>
  PROVE  /\ Head(s) \in S /\ Tail(s) \in Seq(S)
         /\ Len(s) \in Nat \ {0} /\ Len(Tail(s)) = Len(s) - 1
OBVIOUS

\* Every step keeps the composition well typed.
LEMMA RelayTypeStep ==
  ASSUME RelayInv, [RelayNext]_allVars
  PROVE  RelayTypeOK'
<1> USE RelayAssumption
<1>1. TypeOK'
  BY RelayStepsControl, TypeStep DEF RelayInv, RelayTypeOK, allVars
<1>2. CASE UNCHANGED relayVars
  BY <1>1, <1>2 DEF RelayInv, RelayTypeOK, relayVars, adapterVars, chanVars, writeVars
<1>3. ASSUME NEW c \in Conns,
             \/ BeginAck(c) \/ EndAck(c) \/ KeepaliveSends(c) \/ Release(c, "keepalive")
             \/ \E a \in Adapters : Release(c, a)
      PROVE  RelayTypeOK'
  <2> USE DEF RelayInv, RelayTypeOK
  <2>1. CASE BeginAck(c)
    BY <1>1, <2>1 DEF BeginAck, adapterVars, chanVars
  <2>2. CASE EndAck(c)
    BY <1>1, <2>2 DEF EndAck, adapterVars, chanVars
  <2>3. CASE KeepaliveSends(c)
    BY <1>1, <2>3 DEF KeepaliveSends, Acquire, adapterVars, chanVars
  <2>4. ASSUME NEW who, Release(c, who) PROVE RelayTypeOK'
    BY <1>1, <2>4 DEF Release, adapterVars, chanVars
  <2> QED
    BY <1>3, <2>1, <2>2, <2>3, <2>4
<1>4. ASSUME NEW a \in Adapters, AdapterSends(a) PROVE RelayTypeOK'
  <2>1. target[a] \in Conns
    BY <1>4 DEF RelayInv, Staged, AdapterSends
  <2>2. /\ UNCHANGED <<adapterVars, chanVars>>
        /\ sendMu' \in [Conns -> Adapters \cup {"keepalive", NoConn}]
        /\ writing' \in [Conns -> SUBSET (Adapters \cup {"ack", "keepalive"})]
    BY <1>4, <2>1 DEF RelayInv, RelayTypeOK, AdapterSends, Acquire
  <2> QED
    BY <1>1, <2>2 DEF RelayInv, RelayTypeOK, adapterVars, chanVars
<1>5. ASSUME NEW c \in Conns, ServeSignaling(c) PROVE RelayTypeOK'
  <2> DEFINE n == fanned[c] + 1
  <2>1. n \in 1..MaxEnvelopes /\ fanned' = [fanned EXCEPT ![c] = n]
    BY <1>5 DEF ServeSignaling, RelayInv, RelayTypeOK
  <2>2. inbox' = [a \in Adapters |->
           IF a \in Takes(c) THEN Append(inbox[a], n) ELSE inbox[a]]
    BY <1>5 DEF ServeSignaling
  <2>3. ASSUME NEW a \in Adapters
        PROVE  inbox'[a] \in Seq(1..MaxEnvelopes) /\ Len(inbox'[a]) <= ChanCap
    <3>1. inbox[a] \in Seq(1..MaxEnvelopes) /\ Len(inbox[a]) <= ChanCap
      BY DEF RelayInv, RelayTypeOK
    <3>2. CASE a \in Takes(c)
      <4>1. ~(Len(inbox[a]) >= ChanCap)
        BY <3>2 DEF Takes, Full
      <4>2. /\ Append(inbox[a], n) \in Seq(1..MaxEnvelopes)
            /\ Len(Append(inbox[a], n)) = Len(inbox[a]) + 1
        BY <2>1, <3>1
      <4>3. inbox'[a] = Append(inbox[a], n)
        BY <2>2, <3>2
      <4>4. Len(inbox[a]) \in Nat
        BY <3>1
      <4> QED
        BY <3>1, <4>1, <4>2, <4>3, <4>4
    <3>3. CASE a \notin Takes(c)
      BY <2>2, <3>1, <3>3
    <3> QED
      BY <3>2, <3>3
  <2>4. inbox' \in [Adapters -> Seq(1..MaxEnvelopes)]
    <3>1. inbox' = [a \in Adapters |-> inbox'[a]]
      BY <2>2
    <3> QED
      BY <2>3, <3>1
  <2>5. lossy' \in [Adapters -> BOOLEAN]
    BY <1>5 DEF ServeSignaling, RelayInv, RelayTypeOK
  <2>6. UNCHANGED <<adapterVars, received, since, writeVars>>
    BY <1>5 DEF ServeSignaling
  <2>7. fanned' \in [Conns -> 0..MaxEnvelopes]
    BY <2>1 DEF RelayInv, RelayTypeOK
  <2> HIDE DEF n
  <2> QED
    BY <1>1, <2>3, <2>4, <2>5, <2>6, <2>7
    DEF RelayInv, RelayTypeOK, adapterVars, writeVars
<1>6. ASSUME NEW c \in Conns, FinishAndClose(c) PROVE RelayTypeOK'
  <2>1. closes' \in [Adapters -> Nat]
    BY <1>6 DEF FinishAndClose, RelayInv, RelayTypeOK
  <2>2. subscribed' \in [Adapters -> BOOLEAN]
    BY <1>6 DEF FinishAndClose, RelayInv, RelayTypeOK
  <2> QED
    BY <1>1, <1>6, <2>1, <2>2
    DEF FinishAndClose, RelayInv, RelayTypeOK, chanVars, writeVars
<1>7. ASSUME NEW a \in Adapters, NEW c \in Conns, Pick(a, c) PROVE RelayTypeOK'
  BY <1>1, <1>7 DEF Pick, RelayInv, RelayTypeOK, chanVars, writeVars
<1>8. ASSUME NEW a \in Adapters, Subscribe(a) PROVE RelayTypeOK'
  <2>1. fanned[target[a]] \in 0..MaxEnvelopes
    BY <1>8 DEF RelayInv, RelayTypeOK, Staged, Subscribe
  <2> QED
    BY <1>1, <1>8, <2>1 DEF Subscribe, RelayInv, RelayTypeOK, writeVars
<1>9. ASSUME NEW a \in Adapters, Recv(a) PROVE RelayTypeOK'
  <2>1. /\ inbox[a] \in Seq(1..MaxEnvelopes) /\ inbox[a] # <<>>
        /\ received[a] \in Seq(1..MaxEnvelopes)
    BY <1>9 DEF Recv, RelayInv, RelayTypeOK
  <2>2. /\ Tail(inbox[a]) \in Seq(1..MaxEnvelopes)
        /\ Len(Tail(inbox[a])) = Len(inbox[a]) - 1
        /\ Len(inbox[a]) \in Nat
        /\ Append(received[a], Head(inbox[a])) \in Seq(1..MaxEnvelopes)
    <3> DEFINE S == 1..MaxEnvelopes
               s == inbox[a]
    <3>1. s \in Seq(S) /\ s # <<>> /\ received[a] \in Seq(S)
      BY <2>1
    <3>2. received[a] \in Seq(S)
      BY <3>1
    <3> HIDE DEF S, s
    <3>3. /\ Head(s) \in S /\ Tail(s) \in Seq(S)
          /\ Len(s) \in Nat \ {0} /\ Len(Tail(s)) = Len(s) - 1
      BY <3>1, TakeHead
    <3>4. Append(received[a], Head(s)) \in Seq(S)
      BY <3>2, <3>3
    <3> QED
      BY <3>3, <3>4 DEF S, s
  <2>3. /\ inbox' = [inbox EXCEPT ![a] = Tail(inbox[a])]
        /\ received' = [received EXCEPT ![a] = Append(received[a], Head(inbox[a]))]
        /\ UNCHANGED <<vars, adapterVars, lossy, since, fanned, writeVars>>
    BY <1>9 DEF Recv
  <2>4. /\ inbox' \in [Adapters -> Seq(1..MaxEnvelopes)]
        /\ received' \in [Adapters -> Seq(1..MaxEnvelopes)]
    BY <2>2, <2>3 DEF RelayInv, RelayTypeOK
  <2>5. \A b \in Adapters : Len(inbox'[b]) <= ChanCap
    <3>1. \A b \in Adapters : Len(inbox[b]) <= ChanCap
      BY DEF RelayInv, RelayTypeOK
    <3>2. \A b \in Adapters : inbox'[b] = IF b = a THEN Tail(inbox[a]) ELSE inbox[b]
      BY <2>3 DEF RelayInv, RelayTypeOK
    <3>3. ChanCap \in Nat
      OBVIOUS
    <3>4. Len(Tail(inbox[a])) <= ChanCap
      BY <2>2, <3>1, <3>3
    <3> QED
      BY <3>1, <3>2, <3>4
  <2> QED
    BY <1>1, <2>3, <2>4, <2>5 DEF RelayInv, RelayTypeOK, adapterVars, writeVars
<1>10. ASSUME NEW a \in Adapters, RecvEnds(a) \/ CloseSend(a) \/ Unsubscribe(a)
       PROVE  RelayTypeOK'
  <2> USE DEF RelayInv, RelayTypeOK
  <2>1. CASE RecvEnds(a)
    BY <1>1, <2>1 DEF RecvEnds, chanVars, writeVars
  <2>2. CASE CloseSend(a)
    BY <1>1, <2>2 DEF CloseSend, chanVars, writeVars
  <2>3. CASE Unsubscribe(a)
    <3>1. closes' \in [Adapters -> Nat]
      <4>1. CASE subscribed[a]
        BY <2>3, <4>1 DEF Unsubscribe
      <4>2. CASE ~subscribed[a]
        BY <2>3, <4>2 DEF Unsubscribe
      <4> QED
        BY <4>1, <4>2
    <3> QED
      BY <1>1, <2>3, <3>1 DEF Unsubscribe, chanVars, writeVars
  <2> QED
    BY <1>10, <2>1, <2>2, <2>3
<1>11. CASE Unseen
  BY <1>2, <1>11 DEF Unseen
<1> QED
  BY <1>2, <1>3, <1>4, <1>5, <1>6, <1>7, <1>8, <1>9, <1>10, <1>11, RelaySteps DEF allVars
-----------------------------------------------------------------------------
\* The life of a channel

\* A step that changes nothing of an adapter preserves what its stage says.
LEMMA StagedFrame ==
  ASSUME NEW a \in Adapters, Staged(a),
         stage'[a] = stage[a], target'[a] = target[a],
         subscribed'[a] <=> subscribed[a], closes'[a] = closes[a],
         looping'[a] <=> looping[a], inbox'[a] = inbox[a],
         received'[a] = received[a], lossy'[a] <=> lossy[a]
  PROVE  Staged(a)'
BY DEF Staged, Fresh

\* No interleaving of Unsubscribe, closeAllSignaling, deliver and Recv takes an
\* adapter to a stage its channel does not fit.
LEMMA StagedStep ==
  ASSUME RelayInv, [RelayNext]_allVars, RelayTypeOK', NEW a \in Adapters
  PROVE  Staged(a)'
<1>0. Staged(a)
  BY DEF RelayInv
<1>1. /\ stage \in [Adapters -> {"idle", "picked", "open", "cancelled", "closed"}]
      /\ target \in [Adapters -> Conns \cup {NoConn}]
      /\ subscribed \in [Adapters -> BOOLEAN] /\ closes \in [Adapters -> Nat]
      /\ looping \in [Adapters -> BOOLEAN] /\ lossy \in [Adapters -> BOOLEAN]
      /\ inbox \in [Adapters -> Seq(1..MaxEnvelopes)]
      /\ received \in [Adapters -> Seq(1..MaxEnvelopes)]
  BY DEF RelayInv, RelayTypeOK
<1>2. CASE UNCHANGED <<adapterVars, chanVars>>
  BY <1>0, <1>2, StagedFrame DEF adapterVars, chanVars
<1>3. ASSUME NEW c \in Conns,
             \/ BeginAck(c) \/ EndAck(c) \/ KeepaliveSends(c) \/ Release(c, "keepalive")
      PROVE  Staged(a)'
  BY <1>2, <1>3 DEF BeginAck, EndAck, KeepaliveSends, Release, Acquire
<1>4. ASSUME NEW b \in Adapters, AdapterSends(b) \/ \E c \in Conns : Release(c, b)
      PROVE  Staged(a)'
  BY <1>2, <1>4 DEF AdapterSends, Release, Acquire
<1>5. ASSUME NEW c \in Conns, ServeSignaling(c) PROVE Staged(a)'
  <2>1. UNCHANGED <<stage, target, subscribed, closes, looping, received>>
    BY <1>5 DEF ServeSignaling, adapterVars
  <2>2. CASE subscribed[a]
    <3>1. stage[a] \in {"open", "cancelled"} /\ closes[a] = 0 /\ target[a] \in Conns
      BY <1>0, <2>2 DEF Staged
    <3> QED
      BY <2>1, <2>2, <3>1 DEF Staged
  <2>3. CASE ~subscribed[a]
    <3>1. a \notin Subscribers(c) /\ a \notin Takes(c)
      BY <2>3 DEF Subscribers, Takes
    <3>2. inbox'[a] = inbox[a]
      BY <1>5, <3>1 DEF ServeSignaling
    <3>3. lossy'[a] <=> lossy[a]
      BY <1>5, <3>1 DEF ServeSignaling
    <3> QED
      BY <1>0, <2>1, <3>2, <3>3, StagedFrame
  <2> QED
    BY <2>2, <2>3
<1>6. ASSUME NEW c \in Conns, FinishAndClose(c) PROVE Staged(a)'
  <2>1. UNCHANGED <<stage, target, looping, chanVars>>
    BY <1>6 DEF FinishAndClose
  <2>2. CASE a \in Subscribers(c)
    <3>1. closes'[a] = closes[a] + 1 /\ ~subscribed'[a]
      BY <1>6, <2>2 DEF FinishAndClose
    <3>2. stage[a] \in {"open", "cancelled"} /\ closes[a] = 0 /\ target[a] \in Conns
      BY <1>0, <2>2 DEF Staged, Subscribers
    <3> QED
      BY <2>1, <3>1, <3>2 DEF Staged
  <2>3. CASE a \notin Subscribers(c)
    <3>1. closes'[a] = closes[a]
      BY <1>6, <2>3 DEF FinishAndClose
    <3>2. subscribed'[a] <=> subscribed[a]
      BY <1>6, <2>3 DEF FinishAndClose
    <3> QED
      BY <1>0, <2>1, <3>1, <3>2, StagedFrame DEF chanVars
  <2> QED
    BY <2>2, <2>3
<1>7. ASSUME NEW b \in Adapters,
             \/ \E c \in Conns : Pick(b, c)
             \/ Subscribe(b) \/ Recv(b) \/ RecvEnds(b) \/ CloseSend(b) \/ Unsubscribe(b),
             b # a
      PROVE  Staged(a)'
  <2> USE <1>0, <1>1, <1>7, StagedFrame
  <2>1. ASSUME NEW c \in Conns, Pick(b, c) PROVE Staged(a)'
    BY <2>1 DEF Pick, chanVars
  <2>2. CASE Subscribe(b)
    BY <2>2 DEF Subscribe
  <2>3. CASE Recv(b)
    BY <2>3 DEF Recv, adapterVars
  <2>4. CASE RecvEnds(b)
    BY <2>4 DEF RecvEnds, chanVars
  <2>5. CASE CloseSend(b)
    BY <2>5 DEF CloseSend, chanVars
  <2>6. CASE Unsubscribe(b)
    <3>1. closes'[a] = closes[a]
      BY <2>6 DEF Unsubscribe
    <3> QED
      BY <2>6, <3>1 DEF Unsubscribe, chanVars
  <2> QED
    BY <2>1, <2>2, <2>3, <2>4, <2>5, <2>6
<1>8. ASSUME NEW c \in Conns, Pick(a, c) PROVE Staged(a)'
  BY <1>0, <1>1, <1>8 DEF Pick, Staged, Fresh, chanVars
<1>9. CASE Subscribe(a)
  BY <1>0, <1>1, <1>9 DEF Subscribe, Staged, Fresh
<1>10. CASE Recv(a)
  BY <1>0, <1>1, <1>10 DEF Recv, Staged, Fresh, adapterVars
<1>11. CASE RecvEnds(a)
  BY <1>0, <1>1, <1>11 DEF RecvEnds, Staged, Fresh, chanVars
<1>12. CASE CloseSend(a)
  BY <1>0, <1>1, <1>12 DEF CloseSend, Staged, Fresh, chanVars
<1>13. CASE Unsubscribe(a)
  <2>1. closes'[a] = IF subscribed[a] THEN closes[a] + 1 ELSE closes[a]
    <3>1. CASE subscribed[a]
      BY <1>1, <1>13, <3>1 DEF Unsubscribe
    <3>2. CASE ~subscribed[a]
      BY <1>1, <1>13, <3>2 DEF Unsubscribe
    <3> QED
      BY <3>1, <3>2
  <2>2. stage'[a] = "closed" /\ ~subscribed'[a] /\ target' = target /\ stage[a] # "idle"
    BY <1>1, <1>13 DEF Unsubscribe
  <2>3. target[a] \in Conns
    BY <1>0, <2>2 DEF Staged
  <2>4. closes'[a] <= 1
    <3>1. CASE subscribed[a]
      BY <1>0, <2>1, <3>1 DEF Staged
    <3>2. CASE ~subscribed[a]
      BY <1>0, <2>1, <3>2 DEF Staged
    <3> QED
      BY <3>1, <3>2
  <2> QED
    BY <2>2, <2>3, <2>4 DEF Staged
<1>14. CASE Unseen
  BY <1>2, <1>14 DEF Unseen, relayVars
<1>15. CASE UNCHANGED allVars
  BY <1>2, <1>15 DEF allVars, relayVars
<1> QED
  BY <1>3, <1>4, <1>5, <1>6, <1>7, <1>8, <1>9, <1>10, <1>11, <1>12, <1>13, <1>14, <1>15,
     RelaySteps

-----------------------------------------------------------------------------
\* The writer of a stream

\* A step of AcceleratorControl other than the end of the RegisterAck leaves a
\* handler at "ack" where it is.
LEMMA AckStays ==
  ASSUME TypeOK, NEW c \in Conns, handler[c] = "ack",
         \/ Unseen
         \/ \E d \in Conns : ServeEnvelope(d) \/ Finish(d)
  PROVE  handler'[c] = "ack"
<1>1. CASE Tick
  BY <1>1 DEF Tick
<1>2. ASSUME NEW d \in Conns,
             \/ Peer(d) \/ ServeEnvelope(d) \/ RecvFirstFails(d)
             \/ AddRejected(d) \/ Add(d) \/ ServeCancelled(d) \/ ServeEnd(d)
             \/ Remove(d) \/ Finish(d) \/ Reader(d) \/ KeepaliveFails(d) \/ WatchdogFires(d)
      PROVE  handler'[c] = "ack"
  BY <1>2
  DEF TypeOK, Goto, Peer, Dial, PeerEnds, RecvFirst, ReaderRecv, ServeEnvelope,
      RecvFirstFails, AddRejected, Add, ServeCancelled, ServeEnd, Remove, Finish, Reader,
      ReaderEnds, ReaderOffers, ReaderQuits, KeepaliveFails, WatchdogFires
<1> QED
  BY <1>1, <1>2 DEF Unseen, ServeOther

\* sendMu keeps all writers but the RegisterAck out, and the RegisterAck is
\* written while Connect stands at "ack".
LEMMA SerializedStep ==
  ASSUME RelayInv, [RelayNext]_allVars, NEW c \in Conns
  PROVE  Serialized(c)'
<1> USE RelayAssumption
<1>0. Serialized(c) /\ TypeOK
  BY DEF RelayInv, RelayTypeOK
<1>1. /\ sendMu \in [Conns -> Adapters \cup {"keepalive", NoConn}]
      /\ writing \in [Conns -> SUBSET (Adapters \cup {"ack", "keepalive"})]
      /\ handler \in [Conns -> Phase]
  BY DEF RelayInv, RelayTypeOK, TypeOK
<1>2. CASE UNCHANGED <<handler, writeVars>>
  BY <1>0, <1>2 DEF Serialized, writeVars
<1>3. ASSUME UNCHANGED writeVars,
             Unseen \/ \E d \in Conns : ServeEnvelope(d) \/ Finish(d)
      PROVE  Serialized(c)'
  BY <1>0, <1>3, AckStays DEF Serialized, writeVars
<1>4. ASSUME NEW d \in Conns, BeginAck(d) PROVE Serialized(c)'
  BY <1>0, <1>1, <1>4 DEF BeginAck, Serialized, vars
<1>5. ASSUME NEW d \in Conns, EndAck(d) PROVE Serialized(c)'
  BY <1>0, <1>1, <1>5 DEF EndAck, SendAck, SendAckFails, Goto, Serialized
<1>6. ASSUME NEW d \in Conns, NEW who \in Adapters \cup {"keepalive"}, Acquire(d, who)
      PROVE  Serialized(c)'
  BY <1>0, <1>1, <1>6 DEF Acquire, Serialized, vars
<1>7. ASSUME NEW d \in Conns, NEW who \in Adapters \cup {"keepalive"}, Release(d, who)
      PROVE  Serialized(c)'
  BY <1>0, <1>1, <1>7 DEF Release, Serialized, vars
<1>8. ASSUME NEW a \in Adapters, AdapterSends(a) PROVE Serialized(c)'
  <2>1. target[a] \in Conns
    BY <1>8 DEF RelayInv, Staged, AdapterSends
  <2> QED
    BY <1>6, <1>8, <2>1 DEF AdapterSends
<1>9. ASSUME NEW d \in Conns, ServeSignaling(d) \/ FinishAndClose(d) PROVE Serialized(c)'
  BY <1>3, <1>9 DEF ServeSignaling, FinishAndClose
<1>10. ASSUME NEW a \in Adapters,
              \/ \E d \in Conns : Pick(a, d)
              \/ Subscribe(a) \/ Recv(a) \/ RecvEnds(a) \/ CloseSend(a) \/ Unsubscribe(a)
       PROVE  Serialized(c)'
  BY <1>2, <1>10 DEF Pick, Subscribe, Recv, RecvEnds, CloseSend, Unsubscribe, vars
<1>11. CASE Unseen
  BY <1>3, <1>11 DEF Unseen, relayVars
<1>12. CASE UNCHANGED allVars
  BY <1>2, <1>12 DEF allVars, relayVars, vars
<1> QED
  BY <1>4, <1>5, <1>6, <1>7, <1>8, <1>9, <1>10, <1>11, <1>12, RelaySteps
  DEF KeepaliveSends
-----------------------------------------------------------------------------
\* What an adapter receives

\* Moving the head of the channel to the end of what was received loses nothing.
LEMMA MoveHead ==
  ASSUME NEW S, NEW r \in Seq(S), NEW s \in Seq(S), s # <<>>
  PROVE  Append(r, Head(s)) \o Tail(s) = r \o s
OBVIOUS

\* One more envelope at the end of the channel.
LEMMA OneMore ==
  ASSUME NEW S, NEW r \in Seq(S), NEW s \in Seq(S), NEW m \in S,
         NEW n \in Nat, NEW k \in Nat, m = n + k + 1,
         r \o s = After(n, k)
  PROVE  r \o Append(s, m) = After(n, k + 1)
<1> DEFINE q == r \o s
           u == Append(s, m)
           t == r \o u
<1>1. /\ u \in Seq(S) /\ Len(u) = Len(s) + 1
      /\ \A i \in 1..Len(s) : u[i] = s[i]
      /\ u[Len(s) + 1] = m
  BY AppendProperties
<1> HIDE DEF u
<1>2. /\ q \in Seq(S) /\ Len(q) = Len(r) + Len(s)
      /\ \A i \in 1..(Len(r) + Len(s)) :
           q[i] = IF i <= Len(r) THEN r[i] ELSE s[i - Len(r)]
  BY ConcatProperties
<1>3. /\ t \in Seq(S) /\ Len(t) = Len(r) + Len(u)
      /\ \A i \in 1..(Len(r) + Len(u)) :
           t[i] = IF i <= Len(r) THEN r[i] ELSE u[i - Len(r)]
  BY <1>1, ConcatProperties
<1>4. q = After(n, k)
  OBVIOUS
<1>5. Len(r) \in Nat /\ Len(s) \in Nat
  BY LenProperties
<1> HIDE DEF q, t
<1>6. Len(q) = k /\ Len(t) = k + 1
  <2>1. Len(q) = k
    BY <1>2, <1>4 DEF After
  <2>2. Len(q) = Len(r) + Len(s) /\ Len(u) = Len(s) + 1 /\ Len(t) = Len(r) + Len(u)
    BY <1>1, <1>2, <1>3
  <2> QED
    BY <1>5, <2>1, <2>2
<1>7. \A i \in 1..(k + 1) : t[i] = n + i
  <2> SUFFICES ASSUME NEW i \in 1..(k + 1) PROVE t[i] = n + i
    OBVIOUS
  <2>1. CASE i = k + 1
    BY <1>1, <1>2, <1>3, <1>5, <1>6, <2>1
  <2>2. CASE i \in 1..k
    <3>1. t[i] = q[i]
      <4>1. i \in 1..(Len(r) + Len(s)) /\ i \in 1..(Len(r) + Len(u))
        BY <1>1, <1>2, <1>3, <1>5, <1>6, <2>2
      <4>2. CASE i <= Len(r)
        BY <1>2, <1>3, <4>1, <4>2
      <4>3. CASE ~(i <= Len(r))
        <5>1. i - Len(r) \in 1..Len(s)
          BY <1>5, <4>1, <4>3
        <5> QED
          BY <1>1, <1>2, <1>3, <4>1, <4>3, <5>1
      <4> QED
        BY <4>2, <4>3
    <3> QED
      BY <1>4, <2>2, <3>1 DEF After
  <2> QED
    BY <2>1, <2>2
<1>8. t = [i \in 1..(k + 1) |-> t[i]]
  BY <1>3, <1>6
<1>9. t = After(n, k + 1)
  BY <1>7, <1>8 DEF After
<1> QED
  BY <1>9 DEF t, u

\* An adapter that keeps up misses nothing, as long as Recv, deliver and the
\* teardown come in any order.
LEMMA SilenceStep ==
  ASSUME RelayInv, [RelayNext]_allVars, RelayTypeOK', NEW a \in Adapters,
         KeepsUp(a)'
  PROVE  Current(a)'
<1> USE RelayAssumption
<1> DEFINE S == 1..MaxEnvelopes
<1>1. /\ target \in [Adapters -> Conns \cup {NoConn}]
      /\ subscribed \in [Adapters -> BOOLEAN] /\ looping \in [Adapters -> BOOLEAN]
      /\ lossy \in [Adapters -> BOOLEAN]
      /\ inbox \in [Adapters -> Seq(S)] /\ received \in [Adapters -> Seq(S)]
      /\ since \in [Adapters -> 0..MaxEnvelopes] /\ fanned \in [Conns -> 0..MaxEnvelopes]
      /\ stage \in [Adapters -> {"idle", "picked", "open", "cancelled", "closed"}]
  BY DEF RelayInv, RelayTypeOK
<1>2. Staged(a) /\ (KeepsUp(a) => Current(a))
  BY DEF RelayInv
<1>3. ASSUME KeepsUp(a), inbox'[a] = inbox[a], received'[a] = received[a],
             since'[a] = since[a], fanned'[target[a]] = fanned[target[a]],
             target'[a] = target[a]
      PROVE  Current(a)'
  BY <1>2, <1>3 DEF Current, Seen
<1>4. CASE UNCHANGED <<subscribed, looping, target, chanVars>>
  BY <1>3, <1>4 DEF KeepsUp, chanVars
<1>5. ASSUME NEW c \in Conns,
             \/ BeginAck(c) \/ EndAck(c) \/ KeepaliveSends(c) \/ Release(c, "keepalive")
             \/ \E b \in Adapters : Release(c, b)
      PROVE  Current(a)'
  BY <1>4, <1>5 DEF BeginAck, EndAck, KeepaliveSends, Release, Acquire, adapterVars
<1>6. ASSUME NEW b \in Adapters, AdapterSends(b) \/ CloseSend(b) PROVE Current(a)'
  BY <1>4, <1>6 DEF AdapterSends, Acquire, CloseSend, adapterVars
<1>7. ASSUME NEW c \in Conns, ServeSignaling(c) PROVE Current(a)'
  <2> DEFINE n == fanned[c] + 1
  <2>1. /\ UNCHANGED <<stage, target, subscribed, looping, received, since>>
        /\ fanned' = [fanned EXCEPT ![c] = n]
        /\ inbox' = [b \in Adapters |->
             IF b \in Takes(c) THEN Append(inbox[b], n) ELSE inbox[b]]
        /\ lossy' = [b \in Adapters |-> lossy[b] \/ (b \in Subscribers(c) /\ Full(b))]
        /\ fanned[c] < MaxEnvelopes
    BY <1>7 DEF ServeSignaling, adapterVars
  <2>2. subscribed[a] /\ looping[a] /\ target[a] \in Conns
    BY <1>2, <2>1 DEF KeepsUp, Staged
  <2>3. ~lossy[a] /\ ~(a \in Subscribers(c) /\ Full(a))
    <3>1. ~lossy'[a]
      BY DEF KeepsUp
    <3>2. lossy'[a] = (lossy[a] \/ (a \in Subscribers(c) /\ Full(a)))
      BY <2>1
    <3> QED
      BY <3>1, <3>2
  <2>4. KeepsUp(a) /\ Current(a)
    BY <1>2, <2>2, <2>3 DEF KeepsUp
  <2>5. CASE target[a] # c
    <3>1. a \notin Takes(c)
      BY <2>5 DEF Takes, Subscribers
    <3>2. inbox'[a] = inbox[a] /\ fanned'[target[a]] = fanned[target[a]]
      BY <1>1, <2>1, <2>2, <2>5, <3>1
    <3> QED
      BY <1>3, <2>1, <2>4, <3>2
  <2>6. CASE target[a] = c
    <3>1. a \in Takes(c)
      BY <2>2, <2>3, <2>6 DEF Takes, Subscribers
    <3>2. inbox'[a] = Append(inbox[a], n) /\ fanned'[c] = n
      BY <1>1, <2>1, <3>1
    <3>3. received'[a] = received[a] /\ since'[a] = since[a] /\ target'[a] = c
      BY <2>1, <2>6
    <3> DEFINE k == fanned[c] - since[a]
    <3>4. received[a] \o inbox[a] = After(since[a], k)
      BY <2>4, <2>6 DEF Current, Seen
    <3>5. received[a] \in Seq(S) /\ inbox[a] \in Seq(S) /\ n \in S /\ since[a] \in Nat
      BY <1>1, <2>1
    <3>6. k \in Nat /\ n = since[a] + k + 1 /\ n - since[a] = k + 1
      <4>1. fanned[c] \in Nat /\ since[a] \in Nat
        BY <1>1
      <4>2. since[a] <= fanned[c]
        BY <2>4, <2>6 DEF Current
      <4> QED
        BY <4>1, <4>2
    <3>8. since[a] <= n
      BY <3>5, <3>6
    <3> HIDE DEF n, k, S
    <3>7. received[a] \o Append(inbox[a], n) = After(since[a], k + 1)
      <4> DEFINE r == received[a]
                 s == inbox[a]
                 z == since[a]
      <4>1. r \in Seq(S) /\ s \in Seq(S) /\ n \in S /\ z \in Nat /\ k \in Nat
        BY <3>5, <3>6
      <4>2. n = z + k + 1 /\ r \o s = After(z, k)
        BY <3>4, <3>6
      <4> HIDE DEF r, s, z
      <4>3. r \o Append(s, n) = After(z, k + 1)
        BY ONLY <4>1, <4>2, OneMore, ZenonT(60)
      <4> QED
        BY <4>3 DEF r, s, z
    <3> QED
      BY <3>2, <3>3, <3>6, <3>7, <3>8 DEF Current, Seen
  <2> QED
    BY <2>5, <2>6
<1>8. ASSUME NEW c \in Conns, FinishAndClose(c) PROVE Current(a)'
  <2>1. UNCHANGED <<stage, target, looping, chanVars>>
    BY <1>8 DEF FinishAndClose
  <2>2. subscribed[a]
    <3>1. subscribed'[a] = (subscribed[a] /\ a \notin Subscribers(c))
      BY <1>8 DEF FinishAndClose
    <3> QED
      BY <3>1 DEF KeepsUp
  <2> QED
    BY <1>3, <2>1, <2>2 DEF KeepsUp, chanVars
<1>9. ASSUME NEW b \in Adapters, NEW c \in Conns, Pick(b, c) PROVE Current(a)'
  <2>1. b # a
    BY <1>1, <1>2, <1>9 DEF Pick, Staged, Fresh, KeepsUp
  <2> QED
    BY <1>1, <1>3, <1>9, <2>1 DEF Pick, KeepsUp, chanVars
<1>10. ASSUME NEW b \in Adapters, Subscribe(b) PROVE Current(a)'
  <2>1. CASE b = a
    <3>1. /\ received[a] = <<>> /\ inbox[a] = <<>> /\ target[a] \in Conns
      BY <1>2, <1>10, <2>1 DEF Subscribe, Staged, Fresh
    <3>2. /\ received' = received /\ inbox' = inbox /\ target' = target /\ fanned' = fanned
          /\ since'[a] = fanned[target[a]]
      BY <1>1, <1>10, <2>1 DEF Subscribe
    <3>3. fanned[target[a]] - fanned[target[a]] = 0
      BY <1>1, <3>1
    <3>4. received[a] \o inbox[a] = <<>>
      BY <3>1
    <3>5. After(since'[a], 0) = <<>>
      BY DEF After
    <3>6. since'[a] <= fanned'[target'[a]]
      BY <1>1, <3>1, <3>2
    <3> QED
      BY <3>2, <3>3, <3>4, <3>5, <3>6 DEF Current, Seen
  <2>2. CASE b # a
    BY <1>1, <1>3, <1>10, <2>2 DEF Subscribe, KeepsUp
  <2> QED
    BY <2>1, <2>2
<1>11. ASSUME NEW b \in Adapters, Recv(b) PROVE Current(a)'
  <2>0. UNCHANGED <<stage, target, subscribed, looping, lossy, since, fanned>>
    BY <1>11 DEF Recv, adapterVars
  <2>1. CASE b = a
    <3>1. Current(a) /\ inbox[a] # <<>>
      BY <1>2, <1>11, <2>0, <2>1 DEF KeepsUp, Recv
    <3>2. /\ received'[a] = Append(received[a], Head(inbox[a]))
          /\ inbox'[a] = Tail(inbox[a])
      BY <1>1, <1>11, <2>1 DEF Recv
    <3>3. Append(received[a], Head(inbox[a])) \o Tail(inbox[a]) = received[a] \o inbox[a]
      <4> DEFINE r == received[a]
                 s == inbox[a]
      <4>1. r \in Seq(S) /\ s \in Seq(S) /\ s # <<>>
        BY <1>1, <3>1
      <4> HIDE DEF S, r, s
      <4>2. Append(r, Head(s)) \o Tail(s) = r \o s
        BY <4>1, MoveHead
      <4> QED
        BY <4>2 DEF r, s
    <3> QED
      BY <2>0, <3>1, <3>2, <3>3 DEF Current, Seen
  <2>2. CASE b # a
    BY <1>1, <1>3, <1>11, <2>0, <2>2 DEF Recv, KeepsUp
  <2> QED
    BY <2>1, <2>2
<1>12. ASSUME NEW b \in Adapters, RecvEnds(b) \/ Unsubscribe(b) PROVE Current(a)'
  <2>1. UNCHANGED <<target, chanVars>>
    BY <1>12 DEF RecvEnds, Unsubscribe
  <2>2. CASE RecvEnds(b)
    <3>1. subscribed[a] /\ looping[a]
      BY <1>1, <2>2 DEF RecvEnds, KeepsUp
    <3> QED
      BY <1>3, <2>1, <3>1 DEF KeepsUp, chanVars
  <2>3. CASE Unsubscribe(b)
    <3>1. subscribed[a] /\ looping[a]
      BY <1>1, <2>3 DEF Unsubscribe, KeepsUp
    <3> QED
      BY <1>3, <2>1, <3>1 DEF KeepsUp, chanVars
  <2> QED
    BY <1>12, <2>2, <2>3
<1>13. CASE Unseen
  BY <1>4, <1>13 DEF Unseen, relayVars, adapterVars
<1>14. CASE UNCHANGED allVars
  BY <1>4, <1>14 DEF allVars, relayVars, adapterVars
<1> QED
  BY <1>5, <1>6, <1>7, <1>8, <1>9, <1>10, <1>11, <1>12, <1>13, <1>14, RelaySteps
-----------------------------------------------------------------------------
\* The invariant and what follows from it

\* The conjunction is inductive.
THEOREM RelayInvariant == RelaySpec => []RelayInv
<1> USE RelayAssumption
<1>1. RelayInit => RelayInv
  <2> SUFFICES ASSUME RelayInit PROVE RelayInv
    OBVIOUS
  <2>1. TypeOK
    <3>1. Init
      BY DEF RelayInit
    <3>2. Init => TypeOK
      BY ConnAssumption, StaleAssumption DEF Init, TypeOK, Phase, Result
    <3> QED
      BY <3>1, <3>2
  <2> USE DEF RelayInit
  <2>2. <<>> \in Seq(1..MaxEnvelopes) /\ Len(<<>>) = 0 /\ 0 \in 0..MaxEnvelopes
    OBVIOUS
  <2>3. inbox \in [Adapters -> Seq(1..MaxEnvelopes)]
        /\ received \in [Adapters -> Seq(1..MaxEnvelopes)]
    BY <2>2
  <2>4. \A a \in Adapters : Len(inbox[a]) <= ChanCap
    BY <2>2
  <2>5. RelayTypeOK
    BY <2>1, <2>2, <2>3, <2>4 DEF RelayTypeOK
  <2>6. \A a \in Adapters : Staged(a)
    BY DEF Staged, Fresh
  <2>7. \A c \in Conns : Serialized(c)
    BY DEF Serialized
  <2>8. \A a \in Adapters : ~KeepsUp(a)
    BY DEF KeepsUp
  <2> QED
    BY <2>5, <2>6, <2>7, <2>8 DEF RelayInv
<1>2. RelayInv /\ [RelayNext]_allVars => RelayInv'
  <2> SUFFICES ASSUME RelayInv, [RelayNext]_allVars PROVE RelayInv'
    OBVIOUS
  <2>1. RelayTypeOK'
    BY RelayTypeStep
  <2>2. \A a \in Adapters : Staged(a)'
    BY <2>1, StagedStep
  <2>3. \A c \in Conns : Serialized(c)'
    BY SerializedStep
  <2>4. \A a \in Adapters : KeepsUp(a)' => Current(a)'
    BY <2>1, SilenceStep
  <2> QED
    BY <2>1, <2>2, <2>3, <2>4 DEF RelayInv
<1> QED
  BY <1>1, <1>2, PTL DEF RelaySpec

\* No channel is closed twice or sent to once closed, for any number of adapters and any
\* capacity, although an adapter may be shut down in the midst of a send.
THEOREM ChannelsStaySafe == RelaySpec => []ChannelsCloseOnce
<1>1. RelayInv => ChannelsCloseOnce
  BY DEF RelayInv, Staged, ChannelsCloseOnce
<1> QED
  BY <1>1, RelayInvariant, PTL

\* sendMu serializes the adapters and the keepalives of a stream; what breaks the single
\* writer that session.go:25 asks for is the RegisterAck and nothing else.
THEOREM OnlyTheAckBypasses == RelaySpec => []OnlyAckOverlaps
<1>1. RelayInv => OnlyAckOverlaps
  BY DEF RelayInv, Serialized, OnlyAckOverlaps
<1> QED
  BY <1>1, RelayInvariant, PTL

\* An adapter whose channel never overflowed has every envelope since it
\* subscribed, in order, whatever the capacity and the other adapters.
THEOREM SilenceLosesNothing == RelaySpec => []NothingLostInSilence
<1>1. RelayInv => NothingLostInSilence
  BY DEF RelayInv, NothingLostInSilence, KeepsUp, Current, Seen, After
<1> QED
  BY <1>1, RelayInvariant, PTL
=============================================================================

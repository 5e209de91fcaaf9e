----------------------- MODULE SignalingSessionsProofs -----------------------
(***************************************************************************)
(* What SignalingSessions guarantees for any number of ids, session        *)
(* objects, calls and candidates.                                          *)
(*                                                                         *)
(* PollLossless needs where a poller stands on its queue (PollInv): its    *)
(* cursor is the one it began with or one the queue has reached, and the   *)
(* events the other calls take out are never candidates.                   *)
(*                                                                         *)
(* SessionsAreFound needs who may touch an id in the table (FindInv): what *)
(* a StartSession call has detached stays detached until it installs its   *)
(* own object, as no other call starts the same id.                        *)
(***************************************************************************)
EXTENDS SignalingSessions, TLAPS

Active(k) == call[k].pc \notin {"idle", "done"}

\* What the point a call has reached says of what it holds.
Steady(k) ==
  /\ Active(k) => call[k].id \in Ids
  /\ call[k].pc \in {"evict", "open", "install"} => call[k].op = "start"
  /\ call[k].pc \in {"evict", "shut"} => call[k].victim \in Objs
  /\ call[k].pc \in {"install", "send", "look", "asleep", "drop"} => call[k].obj \in Objs
  /\ call[k].pc \in {"send", "drop"} => call[k].op # "poll"
  /\ call[k].pc = "idle" /\ call[k].obj # Nobody => call[k].op = "poll"

BaseInv == SessionsTypeOK /\ \A k \in Calls : Steady(k)

LEMMA BaseInit == Init => BaseInv
BY SessionsAssumption
   DEF Init, BaseInv, SessionsTypeOK, Steady, Active, CallState, Pc, Message, Event

\* A call's own step: the others are where they were.
LEMMA BaseCall ==
  ASSUME BaseInv, NEW k \in Calls, NEW c \in CallState, call' = [call EXCEPT ![k] = c],
         Steady(k)'
  PROVE  call' \in [Calls -> CallState] /\ \A j \in Calls : Steady(j)'
<1>1. call \in [Calls -> CallState] /\ \A j \in Calls : Steady(j)
  BY DEF BaseInv, SessionsTypeOK
<1>2. call' \in [Calls -> CallState]
  BY <1>1
<1>3. ASSUME NEW j \in Calls, j # k
      PROVE  Steady(j)'
  BY <1>1, <1>3 DEF Steady, Active
<1> QED  BY <1>2, <1>3

\* A call that only goes to another point.
LEMMA BaseGoto ==
  ASSUME BaseInv, NEW k \in Calls, NEW p \in Pc, Goto(k, p), Steady(k)'
  PROVE  call' \in [Calls -> CallState] /\ \A j \in Calls : Steady(j)'
<1>1. call \in [Calls -> CallState] /\ call[k] \in CallState
  BY DEF BaseInv, SessionsTypeOK
<1>2. [call[k] EXCEPT !.pc = p] \in CallState
  BY <1>1 DEF CallState
<1>3. call' = [call EXCEPT ![k] = [call[k] EXCEPT !.pc = p]]
  BY <1>1 DEF Goto
<1> QED  BY <1>2, <1>3, BaseCall

\* A step of a call that changes nothing else.
LEMMA BaseAside ==
  ASSUME BaseInv, UNCHANGED <<table, objVars, netVars>>,
         call' \in [Calls -> CallState], \A j \in Calls : Steady(j)'
  PROVE  BaseInv'
BY DEF BaseInv, SessionsTypeOK, objVars, netVars

\* The calls' steps within the manager and the wait for events.
LEMMA BaseServe ==
  ASSUME BaseInv, NEW k \in Calls, Serve(k) \/ GiveUp(k)
  PROVE  BaseInv'
<1> DEFINE i == call[k].id
<1>1. /\ call \in [Calls -> CallState] /\ call[k] \in CallState
      /\ table \in [Ids -> Objs \cup {Nobody}]
      /\ Steady(k)
  BY DEF BaseInv, SessionsTypeOK
<1>2. CASE GetSession(k)
  <2> DEFINE o == table[i]
             c == IF o = Nobody THEN [call[k] EXCEPT !.pc = "done"]
                  ELSE IF call[k].op = "poll"
                  THEN [call[k] EXCEPT !.pc = "look", !.obj = o,
                                       !.from = IF o = call[k].obj THEN @ ELSE call[k].cursor,
                                       !.got = IF o = call[k].obj THEN @ ELSE <<>>]
                  ELSE [call[k] EXCEPT !.pc = "send", !.obj = o, !.cursor = nextCursor[o]]
  <2>1. i \in Ids /\ o \in Objs \cup {Nobody}
    BY <1>1, <1>2 DEF GetSession, At, Steady, Active
  <2>2. o \in Objs => nextCursor[o] \in Nat
    BY DEF BaseInv, SessionsTypeOK
  <2>3. c \in CallState
    <3>1. CASE o = Nobody
      <4>1. c = [call[k] EXCEPT !.pc = "done"]
        BY <3>1
      <4> HIDE DEF c, o
      <4> QED  BY <1>1, <4>1 DEF CallState, Pc
    <3>2. CASE o # Nobody /\ call[k].op = "poll"
      <4> DEFINE f == IF o = call[k].obj THEN call[k].from ELSE call[k].cursor
                 g == IF o = call[k].obj THEN call[k].got ELSE <<>>
      <4>1. f \in Nat /\ g \in Seq(SUBSET Nat)
        <5>1. call[k].from \in Nat /\ call[k].cursor \in Nat /\ call[k].got \in Seq(SUBSET Nat)
          BY <1>1 DEF CallState
        <5>2. <<>> \in Seq(SUBSET Nat)
          OBVIOUS
        <5> QED  BY <5>1, <5>2
      <4>2. c = [call[k] EXCEPT !.pc = "look", !.obj = o, !.from = f, !.got = g]
        BY <1>1, <3>2 DEF CallState
      <4>3. o \in Objs
        BY <2>1, <3>2
      <4> HIDE DEF f, g, c, o
      <4> QED  BY <1>1, <4>1, <4>2, <4>3 DEF CallState, Pc
    <3>3. CASE o # Nobody /\ call[k].op # "poll"
      BY <1>1, <2>1, <2>2, <3>3 DEF CallState, Pc
    <3> QED  BY <3>1, <3>2, <3>3
  <2>4. call' = [call EXCEPT ![k] = c]
    BY <1>1, <1>2 DEF GetSession
  <2>5. Steady(k)'
    BY <1>1, <1>2, <2>1, <2>4 DEF GetSession, At, Steady, Active
  <2> HIDE DEF c
  <2> QED  BY <1>2, <2>3, <2>4, <2>5, BaseCall, BaseAside DEF GetSession
<1>3. CASE Detach(k) \/ Remove(k)
  <2>1. i \in Ids /\ table[i] \in Objs \cup {Nobody}
    BY <1>1, <1>3 DEF Detach, Remove, At, Steady, Active
  <2>2. PICK q \in {"open", "evict", "done", "shut"} :
          /\ call' = [call EXCEPT ![k].pc = q, ![k].victim = table[i]]
          /\ q \in {"evict", "shut"} => table[i] # Nobody
          /\ q \in {"open", "evict"} => call[k].op = "start"
    BY <1>3 DEF Detach, Remove
  <2> DEFINE c == [call[k] EXCEPT !.pc = q, !.victim = table[i]]
  <2>3. c \in CallState /\ call' = [call EXCEPT ![k] = c]
    BY <1>1, <2>1, <2>2 DEF CallState, Pc
  <2>4. Steady(k)'
    <3>1. call'[k] = c
      BY <1>1, <2>3
    <3> QED  BY <1>1, <2>1, <2>2, <3>1 DEF Steady, Active, CallState
  <2>5. call' \in [Calls -> CallState] /\ \A j \in Calls : Steady(j)'
    <3> HIDE DEF c
    <3> QED  BY <2>3, <2>4, BaseCall
  <2>6. table' \in [Ids -> Objs \cup {Nobody}] /\ UNCHANGED <<objVars, netVars>>
    BY <1>1, <1>3 DEF Detach, Remove
  <2> QED  BY <2>5, <2>6 DEF BaseInv, SessionsTypeOK, objVars, netVars
<1>4. CASE EvictOld(k) \/ ShutRemoved(k)
  <2>1. PICK p \in {"open", "done"} : Goto(k, p)
    BY <1>4 DEF EvictOld, ShutRemoved
  <2>2. Steady(k)'
    BY <1>1, <1>4, <2>1 DEF EvictOld, ShutRemoved, At, Goto, Steady, Active, CallState
  <2>3. call' \in [Calls -> CallState] /\ \A j \in Calls : Steady(j)'
    BY <2>1, <2>2, BaseGoto DEF Pc
  <2>4. life \in [Objs -> {"unused", "open", "shut", "closed"}]
    BY DEF BaseInv, SessionsTypeOK
  <2>5. life' \in [Objs -> {"unused", "open", "shut", "closed"}]
    BY <1>4, <2>4 DEF EvictOld, ShutRemoved, Shutdown
  <2>6. UNCHANGED <<table, idOf, upstream, inbox, events, nextCursor, heard, netVars>>
    BY <1>4 DEF EvictOld, ShutRemoved
  <2> QED  BY <2>3, <2>5, <2>6 DEF BaseInv, SessionsTypeOK, netVars
<1>5. CASE \E o \in Objs : OpenStream(k, o)
  <2>1. PICK o \in Objs : OpenStream(k, o)
    BY <1>5
  <2> DEFINE c == [call[k] EXCEPT !.pc = "install", !.obj = o]
  <2>2. call' = [call EXCEPT ![k] = c]
    BY <1>1, <2>1 DEF OpenStream
  <2>3. c \in CallState
    BY <1>1 DEF CallState, Pc
  <2>4. Steady(k)'
    BY <1>1, <2>1 DEF OpenStream, At, Steady, Active, CallState
  <2>5. call' \in [Calls -> CallState] /\ \A j \in Calls : Steady(j)'
    <3> HIDE DEF c
    <3> QED  BY <2>2, <2>3, <2>4, BaseCall
  <2>6. i \in Ids
    BY <1>1, <2>1 DEF OpenStream, At, Steady, Active
  <2> QED  BY <2>1, <2>5, <2>6 DEF OpenStream, BaseInv, SessionsTypeOK, netVars
<1>6. CASE Install(k)
  <2>1. Steady(k)'
    BY <1>1, <1>6 DEF Install, At, Goto, Steady, Active, CallState
  <2>2. call' \in [Calls -> CallState] /\ \A j \in Calls : Steady(j)'
    BY <1>6, <2>1, BaseGoto DEF Install, Pc
  <2>3. table' \in [Ids -> Objs \cup {Nobody}]
    BY <1>1, <1>6 DEF Install, At, Steady
  <2> QED  BY <1>6, <2>2, <2>3 DEF Install, BaseInv, SessionsTypeOK, objVars, netVars
<1>7. CASE Send(k)
  <2>1. Steady(k)'
    BY <1>1, <1>7 DEF Send, At, Goto, Steady, Active, CallState
  <2>2. call' \in [Calls -> CallState] /\ \A j \in Calls : Steady(j)'
    BY <1>7, <2>1, BaseGoto DEF Send, Pc
  <2>3. [kind |-> call[k].op, id |-> call[k].id] \in Message
    BY <1>1, <1>7 DEF Send, At, Steady, Active, CallState, Message, Kinds
  <2>4. asks \in Seq(Message)
    BY DEF BaseInv, SessionsTypeOK
  <2>5. asks' \in Seq(Message)
    BY <1>7, <2>3, <2>4 DEF Send
  <2> QED  BY <1>7, <2>2, <2>5 DEF Send, BaseInv, SessionsTypeOK, objVars
<1>8. CASE OpenFails(k) \/ SendFails(k) \/ FindClosed(k) \/ Wake(k) \/ GiveUp(k)
  <2>1. PICK p \in {"done", "look", "idle", "remove"} : Goto(k, p)
    BY <1>8 DEF OpenFails, SendFails, FindClosed, Wake, GiveUp, AfterFailure
  <2>2. Steady(k)'
    BY <1>1, <1>8, <2>1
       DEF OpenFails, SendFails, FindClosed, Wake, GiveUp, AfterFailure,
           At, Goto, Steady, Active, CallState
  <2>3. UNCHANGED <<table, objVars, netVars>>
    BY <1>8 DEF OpenFails, SendFails, FindClosed, Wake, GiveUp
  <2> QED  BY <2>1, <2>2, <2>3, BaseGoto, BaseAside DEF Pc
<1>9. CASE FindMatch(k) \/ SkipOthers(k)
  <2>1. PICK p \in {"drop", "look"}, n \in Nat :
          call' = [call EXCEPT ![k].pc = p, ![k].cursor = n]
    <3>1. call[k].obj \in Objs
      BY <1>1, <1>9 DEF FindMatch, SkipOthers, At, Steady
    <3>2. \A e \in NewEvents(k) : e.cursor \in Nat
      BY <3>1 DEF NewEvents, BaseInv, SessionsTypeOK, Event
    <3>3. Matches(k) \subseteq NewEvents(k)
      BY DEF Matches
    <3>4. CASE FindMatch(k)
      BY <3>2, <3>3, <3>4 DEF FindMatch
    <3>5. CASE SkipOthers(k)
      <4>1. PICK e \in NewEvents(k) : call' = [call EXCEPT ![k].cursor = e.cursor]
        BY <3>5 DEF SkipOthers
      <4>2. call[k].pc = "look"
        BY <3>5 DEF SkipOthers, At
      <4>3. call' = [call EXCEPT ![k].pc = "look", ![k].cursor = e.cursor]
        BY <1>1, <4>1, <4>2 DEF CallState
      <4> QED  BY <3>2, <4>1, <4>3
    <3> QED  BY <1>9, <3>4, <3>5
  <2> DEFINE c == [call[k] EXCEPT !.pc = p, !.cursor = n]
  <2>2. call' = [call EXCEPT ![k] = c]
    BY <1>1, <2>1
  <2>3. c \in CallState
    BY <1>1, <2>1 DEF CallState, Pc
  <2>4. Steady(k)'
    BY <1>1, <1>9, <2>1 DEF FindMatch, SkipOthers, At, Steady, Active, CallState
  <2>5. call' \in [Calls -> CallState] /\ \A j \in Calls : Steady(j)'
    <3> HIDE DEF c
    <3> QED  BY <2>2, <2>3, <2>4, BaseCall
  <2> QED  BY <1>9, <2>5, BaseAside DEF FindMatch, SkipOthers
<1>10. CASE RemoveEvent(k)
  <2>1. PICK p \in {"remove", "done"} : Goto(k, p)
    BY <1>10 DEF RemoveEvent
  <2>2. Steady(k)'
    BY <1>1, <1>10, <2>1 DEF RemoveEvent, At, Goto, Steady, Active, CallState
  <2>3. call' \in [Calls -> CallState] /\ \A j \in Calls : Steady(j)'
    BY <2>1, <2>2, BaseGoto DEF Pc
  <2>4. /\ events' \in [Objs -> SUBSET Event]
        /\ \A o \in Objs : events'[o] \subseteq events[o]
    BY <1>10 DEF RemoveEvent, BaseInv, SessionsTypeOK
  <2>5. UNCHANGED <<table, idOf, life, upstream, inbox, nextCursor, heard, netVars>>
    BY <1>10 DEF RemoveEvent
  <2> QED  BY <2>3, <2>4, <2>5 DEF BaseInv, SessionsTypeOK, netVars
<1>11. CASE PollReturns(k)
  <2> DEFINE batch == {e.cursor : e \in {f \in NewEvents(k) : f.kind = "candidate"}}
  <2>1. \A e \in NewEvents(k) : e.cursor \in Nat
    <3>1. call[k].obj \in Objs
      BY <1>1, <1>11 DEF PollReturns, At, Steady
    <3> QED  BY <3>1 DEF NewEvents, BaseInv, SessionsTypeOK, Event
  <2>2. batch \in SUBSET Nat
    BY <2>1
  <2>3. PICK e \in NewEvents(k) :
          call' = [call EXCEPT ![k].pc = "idle", ![k].cursor = e.cursor,
                               ![k].got = Append(@, batch)]
    BY <1>11 DEF PollReturns
  <2> HIDE DEF batch
  <2> DEFINE c == [call[k] EXCEPT !.pc = "idle", !.cursor = e.cursor, !.got = Append(@, batch)]
  <2>4. call' = [call EXCEPT ![k] = c]
    BY <1>1, <2>3
  <2>5. Append(call[k].got, batch) \in Seq(SUBSET Nat)
    <3>1. call[k].got \in Seq(SUBSET Nat)
      BY <1>1 DEF CallState
    <3> QED  BY <3>1, <2>2
  <2>6. c \in CallState
    BY <1>1, <2>1, <2>5 DEF CallState, Pc
  <2>7. Steady(k)'
    BY <1>1, <1>11, <2>3 DEF PollReturns, At, Steady, Active, CallState
  <2>8. call' \in [Calls -> CallState] /\ \A j \in Calls : Steady(j)'
    <3> HIDE DEF c
    <3> QED  BY <2>4, <2>6, <2>7, BaseCall
  <2> QED  BY <1>11, <2>8, BaseAside DEF PollReturns
<1>12. CASE Sleep(k)
  <2> DEFINE c == [call[k] EXCEPT !.pc = "asleep", !.seen = Generation(call[k].obj)]
  <2>1. call' = [call EXCEPT ![k] = c]
    BY <1>1, <1>12 DEF Sleep
  <2>2. Generation(call[k].obj) \in Nat
    <3>1. call[k].obj \in Objs
      BY <1>1, <1>12 DEF Sleep, At, Steady
    <3>2. nextCursor[call[k].obj] \in Nat
      BY <3>1 DEF BaseInv, SessionsTypeOK
    <3> QED  BY <3>2 DEF Generation
  <2>3. c \in CallState
    BY <1>1, <2>2 DEF CallState, Pc
  <2>4. Steady(k)'
    BY <1>1, <1>12 DEF Sleep, At, Steady, Active, CallState
  <2>5. call' \in [Calls -> CallState] /\ \A j \in Calls : Steady(j)'
    <3> HIDE DEF c
    <3> QED  BY <2>1, <2>3, <2>4, BaseCall
  <2> QED  BY <1>12, <2>5, BaseAside DEF Sleep
<1> QED
  BY <1>2, <1>3, <1>4, <1>5, <1>6, <1>7, <1>8, <1>9, <1>10, <1>11, <1>12 DEF Serve

\* A message taken from a stream: its event is the newest of the queue.
LEMMA BaseReceive ==
  ASSUME BaseInv, NEW o \in Objs, Receive(o)
  PROVE  BaseInv'
<1> DEFINE msg == Head(inbox[o])
           n   == FreshCursor(o)
           e   == [cursor |-> n, kind |-> msg.kind, id |-> msg.id]
<1>1. /\ inbox \in [Objs -> Seq(Message)] /\ events \in [Objs -> SUBSET Event]
      /\ nextCursor \in [Objs -> Nat] /\ heard \in [Objs -> SUBSET Nat]
      /\ \A f \in events[o] : f.cursor \in 1..nextCursor[o]
  BY DEF BaseInv, SessionsTypeOK
<1>2. msg \in Message /\ Tail(inbox[o]) \in Seq(Message)
  <2>1. inbox[o] \in Seq(Message) /\ inbox[o] # <<>>
    BY <1>1 DEF Receive
  <2> QED  BY <2>1
<1>3. n \in Nat /\ n = nextCursor[o] + 1
  BY <1>1 DEF FreshCursor
<1>4. e \in Event
  BY <1>2, <1>3 DEF Event, Message
<1>5. /\ inbox' = [inbox EXCEPT ![o] = Tail(@)]
      /\ \/ UNCHANGED <<nextCursor, events>>
         \/ /\ nextCursor' = [nextCursor EXCEPT ![o] = n]
            /\ events' = [events EXCEPT ![o] = @ \cup {e}]
      /\ heard' = heard \/ heard' = [heard EXCEPT ![o] = @ \cup {n}]
      /\ UNCHANGED <<table, idOf, life, upstream, netVars, call>>
  BY DEF Receive
<1> HIDE DEF msg, n
<1>6. /\ inbox' \in [Objs -> Seq(Message)] /\ events' \in [Objs -> SUBSET Event]
      /\ nextCursor' \in [Objs -> Nat] /\ heard' \in [Objs -> SUBSET Nat]
  <2>1. inbox' \in [Objs -> Seq(Message)]
    BY <1>1, <1>2, <1>5
  <2>2. events' \in [Objs -> SUBSET Event]
    <3>1. events' = events \/ events' = [events EXCEPT ![o] = @ \cup {e}]
      BY <1>5
    <3> HIDE DEF e
    <3>2. events[o] \cup {e} \in SUBSET Event
      BY <1>1, <1>4
    <3> QED  BY <1>1, <3>1, <3>2
  <2>3. nextCursor' \in [Objs -> Nat]
    <3>1. nextCursor' = nextCursor \/ nextCursor' = [nextCursor EXCEPT ![o] = n]
      BY <1>5
    <3> QED  BY <1>1, <1>3, <3>1
  <2>4. heard' \in [Objs -> SUBSET Nat]
    <3>1. heard' = heard \/ heard' = [heard EXCEPT ![o] = @ \cup {n}]
      BY <1>5
    <3>2. heard[o] \cup {n} \in SUBSET Nat
      BY <1>1, <1>3
    <3> QED  BY <1>1, <3>1, <3>2
  <2> QED  BY <2>1, <2>2, <2>3, <2>4
<1>7. ASSUME NEW p \in Objs, NEW f \in events'[p], NEW g \in events'[p]
      PROVE  f.cursor \in 1..nextCursor'[p] /\ (f.cursor = g.cursor => f = g)
  <2>1. \A x, y \in events[p] : x.cursor \in 1..nextCursor[p] /\ (x.cursor = y.cursor => x = y)
    BY DEF BaseInv, SessionsTypeOK
  <2>2. CASE p # o \/ UNCHANGED <<nextCursor, events>>
    BY <1>1, <1>5, <2>1, <2>2
  <2>3. CASE p = o /\ ~UNCHANGED <<nextCursor, events>>
    <3>1. events'[p] = events[p] \cup {e} /\ nextCursor'[p] = n /\ e.cursor = n
      BY <1>1, <1>5, <2>3
    <3>2. \A x \in events[p] : x.cursor \in 1..n /\ x.cursor # n
      <4>1. nextCursor[p] \in Nat
        BY <1>1
      <4> QED  BY <1>3, <2>1, <2>3, <4>1
    <3>3. n \in 1..n
      <4>1. nextCursor[o] \in Nat
        BY <1>1
      <4> QED  BY <1>3, <4>1
    <3> HIDE DEF e
    <3> QED  BY <2>1, <3>1, <3>2, <3>3
  <2> QED  BY <2>2, <2>3
<1>8. \A k \in Calls : Steady(k)'
  BY <1>5 DEF BaseInv, Steady, Active
<1> QED  BY <1>5, <1>6, <1>7, <1>8 DEF BaseInv, SessionsTypeOK, netVars

LEMMA BaseStep == BaseInv /\ [Next]_vars => BaseInv'
<1> SUFFICES ASSUME BaseInv, [Next]_vars PROVE BaseInv'
  OBVIOUS
<1>1. ASSUME UNCHANGED call
      PROVE  \A k \in Calls : Steady(k)'
  BY <1>1 DEF BaseInv, Steady, Active
<1>2. ASSUME NEW msg \in Message, Broadcast(msg)
      PROVE  inbox' \in [Objs -> Seq(Message)]
  BY <1>2 DEF Broadcast, BaseInv, SessionsTypeOK
<1>3. CASE Respond
  <2>1. asks \in Seq(Message) /\ asks # <<>>
    BY <1>3 DEF Respond, BaseInv, SessionsTypeOK
  <2>2. Head(asks) \in Message /\ Tail(asks) \in Seq(Message)
    BY <2>1
  <2>3. inbox' \in [Objs -> Seq(Message)] /\ asks' \in Seq(Message)
    BY <1>2, <1>3, <2>2 DEF Respond
  <2> QED  BY <1>1, <1>3, <2>3 DEF Respond, BaseInv, SessionsTypeOK
<1>4. ASSUME NEW i \in Ids, Candidate(i) PROVE BaseInv'
  <2>1. [kind |-> "candidate", id |-> i] \in Message
    BY DEF Message, Kinds
  <2>2. inbox' \in [Objs -> Seq(Message)]
    BY <1>2, <1>4, <2>1 DEF Candidate
  <2>3. candidates' \in 0..MaxCandidates
    BY <1>4, SessionsAssumption DEF Candidate, BaseInv, SessionsTypeOK
  <2> QED  BY <1>1, <1>4, <2>2, <2>3 DEF Candidate, BaseInv, SessionsTypeOK
<1>5. CASE AcceleratorLost
  <2>1. asks' \in Seq(Message)
    BY <1>5 DEF AcceleratorLost
  <2> QED  BY <1>1, <1>5, <2>1 DEF AcceleratorLost, BaseInv, SessionsTypeOK
<1>6. ASSUME NEW o \in Objs, Session(o) PROVE BaseInv'
  <2>1. CASE Receive(o)
    BY <2>1, BaseReceive
  <2>2. CASE Terminate(o)
    <3>1. table' \in [Ids -> Objs \cup {Nobody}]
      BY <2>2 DEF Terminate, EvictIfCurrent, BaseInv, SessionsTypeOK
    <3>2. life' \in [Objs -> {"unused", "open", "shut", "closed"}]
      BY <2>2 DEF Terminate, BaseInv, SessionsTypeOK
    <3> QED  BY <1>1, <2>2, <3>1, <3>2 DEF Terminate, BaseInv, SessionsTypeOK, netVars
  <2> QED  BY <1>6, <2>1, <2>2 DEF Session
<1>7. ASSUME NEW k \in Calls, Serve(k) \/ GiveUp(k) PROVE BaseInv'
  BY <1>7, BaseServe
<1>8. ASSUME NEW k \in Calls, NEW op \in Ops, NEW i \in Ids, Begin(k, op, i) PROVE BaseInv'
  <2> DEFINE c == [call[k] EXCEPT !.pc = "lookup", !.op = op, !.id = i]
  <2>1. call \in [Calls -> CallState] /\ call[k] \in CallState
    BY DEF BaseInv, SessionsTypeOK
  <2>2. c \in CallState /\ call' = [call EXCEPT ![k] = c]
    BY <1>8, <2>1, SessionsAssumption DEF Begin, CallState, Pc
  <2>3. Steady(k)'
    BY <1>8, <2>1 DEF Begin, Steady, Active, CallState
  <2>4. call' \in [Calls -> CallState] /\ \A j \in Calls : Steady(j)'
    <3> HIDE DEF c
    <3> QED  BY <2>2, <2>3, BaseCall
  <2> QED  BY <1>8, <2>4, BaseAside DEF Begin
<1>9. CASE UNCHANGED vars
  BY <1>1, <1>9 DEF vars, objVars, netVars, BaseInv, SessionsTypeOK
<1> QED  BY <1>3, <1>4, <1>5, <1>6, <1>7, <1>8, <1>9 DEF Next

\* The state stays well typed; the cursors of a queue are distinct, and none is
\* beyond the newest.
THEOREM SessionsTypeCorrect == Spec => []SessionsTypeOK
<1>1. BaseInv => SessionsTypeOK
  BY DEF BaseInv
<1> QED  BY <1>1, BaseInit, BaseStep, PTL DEF Spec
-----------------------------------------------------------------------------
\* What a poller was given: the batches make up what its session heard between the
\* cursors, one after the other.
Given(k) ==
  LET got == call[k].got IN
  /\ UNION {got[j] : j \in DOMAIN got}
       = {n \in heard[call[k].obj] : call[k].from < n /\ n <= call[k].cursor}
  /\ \A i, j \in DOMAIN got : i < j => \A m \in got[i], n \in got[j] : m < n

\* A poller's cursor is where it began, or a cursor of the queue it polls.
Placed(k) ==
  /\ call[k].from <= call[k].cursor
  /\ call[k].cursor = call[k].from \/ call[k].cursor <= nextCursor[call[k].obj]

\* The event that a waiting call takes out is no candidate.
Dropping(k) ==
  call[k].pc = "drop" =>
    call[k].cursor <= nextCursor[call[k].obj] /\ call[k].cursor \notin heard[call[k].obj]

Polls(k) == call[k].op = "poll" /\ call[k].obj # Nobody

OwnInv(k) == (Polls(k) => Given(k) /\ Placed(k)) /\ Dropping(k)

Queued(o) == heard[o] = {e.cursor : e \in {f \in events[o] : f.kind = "candidate"}}

PollInv == BaseInv /\ (\A o \in Objs : Queued(o)) /\ \A k \in Calls : OwnInv(k)

LEMMA PollInit == Init => PollInv
<1> SUFFICES ASSUME Init PROVE PollInv
  OBVIOUS
<1>1. \A o \in Objs : Queued(o)
  BY DEF Init, Queued
<1>2. \A k \in Calls : OwnInv(k)
  BY DEF Init, OwnInv, Polls, Dropping
<1> QED  BY <1>1, <1>2, BaseInit DEF PollInv

\* A call that does not come to drop an event keeps what it has of its poll.
LEMMA OwnKept ==
  ASSUME NEW k \in Calls, OwnInv(k), UNCHANGED <<nextCursor, heard>>,
         call'[k].pc = call[k].pc \/ call'[k].pc # "drop",
         call'[k].op = call[k].op, call'[k].obj = call[k].obj,
         call'[k].cursor = call[k].cursor, call'[k].from = call[k].from,
         call'[k].got = call[k].got
  PROVE  OwnInv(k)'
<1>1. Polls(k)' => Given(k)'
  BY DEF OwnInv, Polls, Given
<1>2. Polls(k)' => Placed(k)'
  BY DEF OwnInv, Polls, Placed
<1>3. Dropping(k)'
  BY DEF OwnInv, Dropping
<1> QED  BY <1>1, <1>2, <1>3 DEF OwnInv

\* A new event: no cursor given out so far reaches it.
LEMMA PollReceive ==
  ASSUME PollInv, NEW o \in Objs, Receive(o)
  PROVE  PollInv'
<1> DEFINE n == FreshCursor(o)
           own == Head(inbox[o]).id = idOf[o]
           candidate == own /\ Head(inbox[o]).kind = "candidate"
           e == [cursor |-> n, kind |-> Head(inbox[o]).kind, id |-> Head(inbox[o]).id]
<1>1. BaseInv' /\ call' = call
  BY BaseReceive DEF PollInv, Receive
<1>2. /\ nextCursor \in [Objs -> Nat] /\ heard \in [Objs -> SUBSET Nat]
      /\ events \in [Objs -> SUBSET Event]
      /\ n = nextCursor[o] + 1
  BY DEF PollInv, BaseInv, SessionsTypeOK, FreshCursor
<1>3. /\ nextCursor' = IF own THEN [nextCursor EXCEPT ![o] = n] ELSE nextCursor
      /\ events' = IF own THEN [events EXCEPT ![o] = @ \cup {e}] ELSE events
      /\ heard' = IF candidate THEN [heard EXCEPT ![o] = @ \cup {n}] ELSE heard
  BY DEF Receive, Keeps
<1>4. e.cursor = n /\ (own => (e.kind = "candidate" <=> candidate))
  OBVIOUS
<1> HIDE DEF e, n
<1>5. ASSUME NEW p \in Objs
      PROVE  Queued(p)'
  <2>1. Queued(p)
    BY DEF PollInv
  <2>2. CASE p # o \/ ~own
    <3>1. events'[p] = events[p] /\ heard'[p] = heard[p]
      BY <1>2, <1>3, <2>2
    <3> QED  BY <2>1, <3>1 DEF Queued
  <2>3. CASE p = o /\ own
    <3>1. /\ events'[o] = events[o] \cup {e}
          /\ heard'[o] = IF candidate THEN heard[o] \cup {n} ELSE heard[o]
      BY <1>2, <1>3, <2>3
    <3> HIDE DEF own, candidate
    <3> QED  BY <1>4, <2>1, <2>3, <3>1 DEF Queued
  <2> QED  BY <2>2, <2>3
<1> HIDE DEF own, candidate
<1>6. \A p \in Objs : /\ nextCursor[p] \in Nat /\ nextCursor'[p] \in Nat
                      /\ nextCursor[p] <= nextCursor'[p]
                      /\ \A m \in heard'[p] : m \in heard[p] \/ m > nextCursor[p]
                      /\ heard[p] \subseteq heard'[p]
  <2> SUFFICES ASSUME NEW p \in Objs
               PROVE  /\ nextCursor[p] \in Nat /\ nextCursor'[p] \in Nat
                      /\ nextCursor[p] <= nextCursor'[p]
                      /\ \A m \in heard'[p] : m \in heard[p] \/ m > nextCursor[p]
                      /\ heard[p] \subseteq heard'[p]
    OBVIOUS
  <2>1. CASE p = o
    <3>1. nextCursor[o] \in Nat
      BY <1>2
    <3>2. nextCursor'[o] = n \/ nextCursor'[o] = nextCursor[o]
      BY <1>2, <1>3
    <3>3. heard'[o] = heard[o] \cup {n} \/ heard'[o] = heard[o]
      BY <1>2, <1>3
    <3> QED  BY <1>2, <2>1, <3>1, <3>2, <3>3
  <2>2. CASE p # o
    <3>1. nextCursor'[p] = nextCursor[p] /\ heard'[p] = heard[p]
      BY <1>2, <1>3, <2>2
    <3> QED  BY <1>2, <3>1
  <2> QED  BY <2>1, <2>2
<1>7. ASSUME NEW k \in Calls
      PROVE  OwnInv(k)'
  <2> DEFINE p == call[k].obj
  <2>1. /\ call[k] \in CallState
        /\ call[k].cursor \in Nat /\ call[k].from \in Nat /\ call[k].obj \in Objs \cup {Nobody}
    BY DEF PollInv, BaseInv, SessionsTypeOK, CallState
  <2>2. OwnInv(k)
    BY DEF PollInv
  <2>3. ASSUME Polls(k)
        PROVE  Given(k)' /\ Placed(k)'
    <3>1. p \in Objs
      BY <2>1, <2>3 DEF Polls
    <3>2. Given(k) /\ Placed(k)
      BY <2>2, <2>3 DEF OwnInv
    <3>3. Placed(k)'
      BY <1>1, <1>6, <2>1, <3>1, <3>2 DEF Placed
    <3>4. \A m \in heard'[p] : call[k].from < m /\ m <= call[k].cursor => m \in heard[p]
      <4>1. call[k].from <= call[k].cursor
        BY <3>2 DEF Placed
      <4>2. call[k].cursor = call[k].from \/ call[k].cursor <= nextCursor[p]
        BY <3>2 DEF Placed
      <4>3. heard'[p] \subseteq Nat
        <5>1. heard' \in [Objs -> SUBSET Nat]
          BY <1>1 DEF BaseInv, SessionsTypeOK
        <5> QED  BY <3>1, <5>1
      <4> QED  BY <1>6, <2>1, <3>1, <4>1, <4>2, <4>3
    <3>5. {m \in heard'[p] : call[k].from < m /\ m <= call[k].cursor}
            = {m \in heard[p] : call[k].from < m /\ m <= call[k].cursor}
      <4>1. heard[p] \subseteq heard'[p]
        BY <1>6, <3>1
      <4> HIDE DEF p
      <4> QED  BY <3>4, <4>1
    <3>6. Given(k)'
      BY <1>1, <3>2, <3>5 DEF Given
    <3> QED  BY <3>3, <3>6
  <2>4. Dropping(k)'
    <3>1. SUFFICES ASSUME call[k].pc = "drop"
                   PROVE  call[k].cursor <= nextCursor'[p] /\ call[k].cursor \notin heard'[p]
      BY <1>1 DEF Dropping
    <3>2. p \in Objs
      BY <3>1 DEF PollInv, BaseInv, Steady
    <3>3. call[k].cursor <= nextCursor[p] /\ call[k].cursor \notin heard[p]
      BY <2>2, <3>1 DEF OwnInv, Dropping
    <3> QED  BY <1>6, <2>1, <3>2, <3>3
  <2> QED  BY <1>1, <2>3, <2>4 DEF OwnInv, Polls
<1> QED  BY <1>1, <1>5, <1>7 DEF PollInv

\* A poll is answered: what it is given is what was heard since its cursor.
LEMMA PollAnswered ==
  ASSUME PollInv, NEW k \in Calls, PollReturns(k)
  PROVE  OwnInv(k)'
<1> DEFINE o     == call[k].obj
           batch == {e.cursor : e \in {f \in NewEvents(k) : f.kind = "candidate"}}
           got   == call[k].got
           all   == Append(got, batch)
<1>1. /\ call \in [Calls -> CallState] /\ call[k] \in CallState
      /\ o \in Objs /\ Polls(k) /\ OwnInv(k) /\ Queued(o)
      /\ heard \in [Objs -> SUBSET Nat] /\ nextCursor \in [Objs -> Nat]
      /\ events[o] \subseteq Event
      /\ \A e \in events[o] : e.cursor <= nextCursor[o]
  <2>1. call \in [Calls -> CallState] /\ Steady(k) /\ OwnInv(k)
    BY DEF PollInv, BaseInv, SessionsTypeOK
  <2>2. o \in Objs
    BY <2>1 DEF PollReturns, At, Steady
  <2>3. Polls(k) /\ Queued(o) /\ call[k] \in CallState
    BY <2>1, <2>2, SessionsAssumption DEF PollReturns, PollInv, Polls
  <2> QED  BY <2>1, <2>2, <2>3 DEF PollInv, BaseInv, SessionsTypeOK
<1>2. Given(k) /\ Placed(k)
  BY <1>1 DEF OwnInv
<1>3. got \in Seq(SUBSET Nat) /\ call[k].cursor \in Nat /\ call[k].from \in Nat
  BY <1>1 DEF CallState
<1>4. PICK last \in NewEvents(k) :
        /\ \A f \in NewEvents(k) : f.cursor <= last.cursor
        /\ call' = [call EXCEPT ![k].pc = "idle", ![k].cursor = last.cursor,
                                ![k].got = Append(@, batch)]
  BY DEF PollReturns, Newest
<1>5. /\ call'[k].pc = "idle" /\ call'[k].op = call[k].op /\ call'[k].obj = o
      /\ call'[k].from = call[k].from /\ call'[k].cursor = last.cursor
      /\ call'[k].got = all
      /\ heard' = heard /\ nextCursor' = nextCursor
  <2> HIDE DEF batch
  <2>1. UNCHANGED objVars
    BY DEF PollReturns
  <2> QED  BY <1>1, <1>4, <2>1 DEF CallState, objVars
<1>6. /\ batch = {n \in heard[o] : call[k].cursor < n}
      /\ batch = {n \in heard[o] : call[k].cursor < n /\ n <= last.cursor}
  <2>1. \A n : n \in batch <=> \E e \in events[o] :
          e.cursor = n /\ e.kind = "candidate" /\ e.cursor > call[k].cursor
    BY DEF NewEvents
  <2>2. \A n : n \in heard[o] <=> \E e \in events[o] : e.cursor = n /\ e.kind = "candidate"
    BY <1>1 DEF Queued
  <2>3. \A e \in events[o] : e.cursor \in Nat
    BY <1>1 DEF Event
  <2>4. \A e \in events[o] : e.cursor > call[k].cursor => e.cursor <= last.cursor
    BY <1>4 DEF NewEvents
  <2>5. \A n : n \in batch <=> n \in heard[o] /\ call[k].cursor < n
    <3> HIDE DEF batch
    <3> QED  BY <1>3, <2>1, <2>2, <2>3
  <2>6. \A n : n \in heard[o] /\ call[k].cursor < n => n <= last.cursor
    BY <1>3, <2>2, <2>3, <2>4
  <2> HIDE DEF batch
  <2> QED  BY <2>5, <2>6
<1>7. last.cursor \in Nat /\ call[k].cursor < last.cursor /\ last.cursor <= nextCursor[o]
  <2>1. last \in events[o] /\ last.cursor > call[k].cursor
    BY <1>4 DEF NewEvents
  <2> QED  BY <1>1, <1>3, <2>1 DEF Event
<1>8. Placed(k)'
  BY <1>2, <1>3, <1>5, <1>7 DEF Placed
<1>9. Dropping(k)'
  BY <1>5 DEF Dropping
<1> DEFINE n == Len(got)
<1>10. /\ n \in Nat /\ DOMAIN got = 1..n /\ DOMAIN all = 1..(n + 1)
       /\ all[n + 1] = batch /\ \A j \in 1..n : all[j] = got[j]
  <2>1. batch \subseteq Nat
    <3>1. heard[o] \subseteq Nat
      BY <1>1
    <3> HIDE DEF batch
    <3> QED  BY <1>6, <3>1
  <2> HIDE DEF batch
  <2> QED  BY <1>3, <2>1
<1> HIDE DEF batch, all, n
<1>11. \A j \in 1..n : \A m \in got[j] : m \in heard[o] /\ call[k].from < m /\ m <= call[k].cursor
  <2>1. UNION {got[j] : j \in 1..n}
          = {m \in heard[o] : call[k].from < m /\ m <= call[k].cursor}
    BY <1>2, <1>10 DEF Given
  <2> HIDE DEF got, o
  <2> QED  BY <2>1
<1>12. UNION {all[j] : j \in 1..(n + 1)}
         = {m \in heard[o] : call[k].from < m /\ m <= last.cursor}
  <2>1. UNION {all[j] : j \in 1..(n + 1)} = (UNION {got[j] : j \in 1..n}) \cup batch
    <3>1. \A j \in 1..(n + 1) : j \in 1..n \/ j = n + 1
      BY <1>10
    <3>2. n + 1 \in 1..(n + 1) /\ \A j \in 1..n : j \in 1..(n + 1)
      BY <1>10
    <3> HIDE DEF got
    <3>3. \A x : (\E j \in 1..(n + 1) : x \in all[j]) <=> (\E j \in 1..n : x \in got[j]) \/ x \in batch
      BY <1>10, <3>1, <3>2
    <3> QED  BY <3>3
  <2>2. UNION {got[j] : j \in 1..n}
          = {m \in heard[o] : call[k].from < m /\ m <= call[k].cursor}
    BY <1>2, <1>10 DEF Given
  <2>3. heard[o] \subseteq Nat
    BY <1>1
  <2>4. call[k].from <= call[k].cursor
    BY <1>2 DEF Placed
  <2>5. \A m \in heard[o] : (call[k].from < m /\ m <= last.cursor)
           <=> (call[k].from < m /\ m <= call[k].cursor) \/ (call[k].cursor < m /\ m <= last.cursor)
    BY <1>3, <1>7, <2>3, <2>4
  <2> HIDE DEF got, o
  <2> QED  BY <1>6, <2>1, <2>2, <2>5
<1>13. \A i, j \in 1..(n + 1) : i < j => \A x \in all[i], y \in all[j] : x < y
  <2> SUFFICES ASSUME NEW i \in 1..(n + 1), NEW j \in 1..(n + 1), i < j,
                      NEW x \in all[i], NEW y \in all[j]
               PROVE  x < y
    OBVIOUS
  <2>1. i \in 1..n /\ (j \in 1..n \/ j = n + 1)
    BY <1>10
  <2>2. x \in got[i]
    BY <1>10, <2>1
  <2>3. CASE j \in 1..n
    <3>1. y \in got[j]
      BY <1>10, <2>3
    <3>2. \A a, b \in DOMAIN got : a < b => \A m \in got[a], l \in got[b] : m < l
      BY <1>2 DEF Given
    <3> HIDE DEF got
    <3> QED  BY <1>10, <2>1, <2>2, <2>3, <3>1, <3>2
  <2>4. CASE j = n + 1
    <3>1. y \in batch
      BY <1>10, <2>4
    <3>2. y \in heard[o] /\ call[k].cursor < y
      BY <1>6, <3>1
    <3>3. x \in heard[o] /\ x <= call[k].cursor
      BY <1>11, <2>1, <2>2
    <3>4. x \in Nat /\ y \in Nat
      <4>1. heard[o] \subseteq Nat
        BY <1>1
      <4> QED  BY <3>2, <3>3, <4>1
    <3> QED  BY <1>3, <3>2, <3>3, <3>4
  <2> QED  BY <2>1, <2>3, <2>4
<1>14. Given(k)'
  BY <1>5, <1>10, <1>12, <1>13 DEF Given
<1> QED  BY <1>8, <1>9, <1>14 DEF OwnInv

\* The match of a waiting call is an answer, so its cursor is no candidate's.
LEMMA PollMatched ==
  ASSUME PollInv, NEW k \in Calls, FindMatch(k)
  PROVE  OwnInv(k)'
<1> DEFINE o == call[k].obj
<1>1. call \in [Calls -> CallState] /\ o \in Objs
  BY DEF PollInv, BaseInv, SessionsTypeOK, FindMatch, At, Steady
<1>2. PICK e \in Matches(k) : call' = [call EXCEPT ![k].pc = "drop", ![k].cursor = e.cursor]
  BY DEF FindMatch
<1>3. /\ e \in events[o] /\ e.kind = call[k].op /\ e.kind # "candidate"
      /\ e.cursor <= nextCursor[o]
  <2>1. call[k] \in CallState
    BY <1>1
  <2>2. e \in events[o] /\ e.kind = call[k].op
    BY <1>2 DEF Matches, NewEvents
  <2>3. e.cursor \in 1..nextCursor[o] /\ nextCursor[o] \in Nat
    BY <1>1, <2>2 DEF PollInv, BaseInv, SessionsTypeOK
  <2> QED  BY <2>1, <2>2, <2>3 DEF CallState
<1>4. e.cursor \notin heard[o]
  <2>1. \A f \in events[o] : f.cursor = e.cursor => f = e
    BY <1>1, <1>3 DEF PollInv, BaseInv, SessionsTypeOK
  <2>2. Queued(o)
    BY <1>1 DEF PollInv
  <2> QED  BY <1>3, <2>1, <2>2 DEF Queued
<1>5. /\ call'[k].op = call[k].op /\ call'[k].obj = o /\ call'[k].cursor = e.cursor
      /\ call[k].op # "poll" /\ UNCHANGED <<nextCursor, heard>>
  BY <1>1, <1>2 DEF FindMatch, CallState, objVars
<1>6. ~Polls(k)' /\ Dropping(k)'
  BY <1>3, <1>4, <1>5 DEF Polls, Dropping
<1> QED  BY <1>6 DEF OwnInv

LEMMA PollServe ==
  ASSUME PollInv, NEW k \in Calls, Serve(k) \/ GiveUp(k)
  PROVE  PollInv'
<1>1. BaseInv' /\ call \in [Calls -> CallState] /\ call[k] \in CallState
  BY BaseServe DEF PollInv, BaseInv, SessionsTypeOK
<1>2. UNCHANGED <<nextCursor, heard>>
  BY DEF Serve, GetSession, Detach, EvictOld, Install, OpenStream, OpenFails, Send, SendFails,
         FindMatch, SkipOthers, RemoveEvent, PollReturns, FindClosed, Sleep, Wake, Remove,
         ShutRemoved, GiveUp, objVars
<1>3. ASSUME NEW j \in Calls, j # k
      PROVE  OwnInv(j)'
  <2>1. call'[j] = call[j]
    BY <1>1, <1>3
       DEF Serve, GetSession, Detach, EvictOld, Install, OpenStream, OpenFails, Send, SendFails,
           FindMatch, SkipOthers, RemoveEvent, PollReturns, FindClosed, Sleep, Wake, Remove,
           ShutRemoved, GiveUp, Goto
  <2> QED  BY <1>2, <2>1, OwnKept DEF PollInv
<1>4. OwnInv(k)'
  <2>1. OwnInv(k) /\ Steady(k)
    BY DEF PollInv, BaseInv
  <2>2. CASE GetSession(k)
    <3>1. call'[k].pc # "drop" /\ call'[k].op = call[k].op
      BY <1>1, <2>2 DEF GetSession, CallState
    <3>2. CASE call[k].op # "poll"
      BY <3>1, <3>2 DEF OwnInv, Polls, Dropping
    <3>3. CASE call[k].op = "poll" /\ call'[k].obj = call[k].obj
      <4>1. /\ call'[k].cursor = call[k].cursor /\ call'[k].from = call[k].from
            /\ call'[k].got = call[k].got
        BY <1>1, <2>2, <3>3 DEF GetSession, CallState
      <4> QED  BY <1>2, <2>1, <3>1, <3>3, <4>1, OwnKept
    <3>4. CASE call[k].op = "poll" /\ call'[k].obj # call[k].obj
      <4>1. /\ call'[k].from = call[k].cursor /\ call'[k].cursor = call[k].cursor
            /\ call'[k].got = <<>>
        BY <1>1, <2>2, <3>4 DEF GetSession, CallState
      <4>2. call[k].cursor \in Nat
        BY <1>1 DEF CallState
      <4>3. Placed(k)' /\ Dropping(k)'
        BY <3>1, <4>1, <4>2 DEF Placed, Dropping
      <4>4. Given(k)'
        <5>1. \A m \in heard'[call'[k].obj] : ~(call[k].cursor < m /\ m <= call[k].cursor)
          <6>1. Steady(k)' /\ call'[k].pc = "look" /\ heard' \in [Objs -> SUBSET Nat]
            <7>1. call'[k].pc = "look"
              BY <1>1, <2>2, <3>4 DEF GetSession, CallState
            <7> QED  BY <1>1, <7>1 DEF BaseInv, SessionsTypeOK
          <6>2. call'[k].obj \in Objs
            BY <6>1 DEF Steady
          <6>3. heard'[call'[k].obj] \subseteq Nat
            BY <6>1, <6>2
          <6> QED  BY <4>2, <6>3
        <5> QED  BY <4>1, <5>1 DEF Given
      <4> QED  BY <4>3, <4>4 DEF OwnInv
    <3> QED  BY <3>2, <3>3, <3>4
  <2>3. CASE Detach(k) \/ EvictOld(k) \/ OpenFails(k) \/ Install(k) \/ Send(k) \/ SendFails(k)
             \/ Remove(k) \/ ShutRemoved(k) \/ RemoveEvent(k) \/ FindClosed(k) \/ Sleep(k)
             \/ Wake(k) \/ GiveUp(k)
    <3>1. /\ call'[k].pc # "drop" /\ call'[k].op = call[k].op /\ call'[k].obj = call[k].obj
          /\ call'[k].cursor = call[k].cursor /\ call'[k].from = call[k].from
          /\ call'[k].got = call[k].got
      BY <1>1, <2>3
         DEF Detach, EvictOld, OpenFails, Install, Send, SendFails, Remove, ShutRemoved,
             RemoveEvent, FindClosed, Sleep, Wake, GiveUp, Goto, AfterFailure, CallState
    <3> QED  BY <1>2, <2>1, <3>1, OwnKept
  <2>4. CASE \E o \in Objs : OpenStream(k, o)
    <3>1. call[k].op = "start" /\ call'[k].op = call[k].op /\ call'[k].pc = "install"
      BY <1>1, <2>1, <2>4 DEF OpenStream, At, Steady, CallState
    <3> QED  BY <3>1 DEF OwnInv, Polls, Dropping
  <2>5. CASE SkipOthers(k)
    <3>1. call[k].op # "poll" /\ call'[k].op = call[k].op /\ call'[k].pc = "look"
      BY <1>1, <2>5 DEF SkipOthers, At, CallState
    <3> QED  BY <3>1 DEF OwnInv, Polls, Dropping
  <2> QED  BY <2>2, <2>3, <2>4, <2>5, PollMatched, PollAnswered DEF Serve
<1>5. ASSUME NEW o \in Objs
      PROVE  Queued(o)'
  <2>1. Queued(o)
    BY DEF PollInv
  <2>2. CASE RemoveEvent(k)
    <3>1. CASE o = call[k].obj
      <4>1. events'[o] = {e \in events[o] : e.cursor # call[k].cursor}
        BY <2>2, <3>1 DEF RemoveEvent, PollInv, BaseInv, SessionsTypeOK
      <4>2. call[k].cursor \notin heard[o]
        BY <2>2, <3>1 DEF RemoveEvent, At, PollInv, OwnInv, Dropping
      <4> QED  BY <1>2, <2>1, <4>1, <4>2 DEF Queued
    <3>2. CASE o # call[k].obj
      <4>1. events'[o] = events[o]
        BY <2>2, <3>2 DEF RemoveEvent, PollInv, BaseInv, SessionsTypeOK
      <4> QED  BY <1>2, <2>1, <4>1 DEF Queued
    <3> QED  BY <3>1, <3>2
  <2>3. CASE ~RemoveEvent(k)
    <3>1. events' = events
      BY <2>3
         DEF Serve, GetSession, Detach, EvictOld, Install, OpenStream, OpenFails, Send,
             SendFails, FindMatch, SkipOthers, PollReturns, FindClosed, Sleep, Wake, Remove,
             ShutRemoved, GiveUp, objVars
    <3> QED  BY <1>2, <2>1, <3>1 DEF Queued
  <2> QED  BY <2>2, <2>3
<1> QED  BY <1>1, <1>3, <1>4, <1>5 DEF PollInv

LEMMA PollStep == PollInv /\ [Next]_vars => PollInv'
<1> SUFFICES ASSUME PollInv, [Next]_vars PROVE PollInv'
  OBVIOUS
<1>1. BaseInv'
  BY BaseStep DEF PollInv
<1>2. ASSUME UNCHANGED <<events, nextCursor, heard, call>>
      PROVE  PollInv'
  <2>1. \A k \in Calls : OwnInv(k)'
    BY <1>2, OwnKept DEF PollInv
  <2>2. \A o \in Objs : Queued(o)'
    BY <1>2 DEF PollInv, Queued
  <2> QED  BY <1>1, <2>1, <2>2 DEF PollInv
<1>3. CASE Respond \/ AcceleratorLost \/ UNCHANGED vars
  BY <1>2, <1>3 DEF Respond, AcceleratorLost, vars, objVars
<1>4. ASSUME NEW i \in Ids, Candidate(i) PROVE PollInv'
  BY <1>2, <1>4 DEF Candidate
<1>5. ASSUME NEW o \in Objs, Session(o) PROVE PollInv'
  BY <1>2, <1>5, PollReceive DEF Session, Terminate
<1>6. ASSUME NEW k \in Calls, Serve(k) \/ GiveUp(k) PROVE PollInv'
  BY <1>6, PollServe
<1>7. ASSUME NEW k \in Calls, NEW op \in Ops, NEW i \in Ids, Begin(k, op, i) PROVE PollInv'
  <2>1. call \in [Calls -> CallState] /\ UNCHANGED <<events, nextCursor, heard>>
    BY <1>7 DEF PollInv, BaseInv, SessionsTypeOK, Begin, objVars
  <2>2. \A j \in Calls : j # k => call'[j] = call[j]
    BY <1>7, <2>1 DEF Begin
  <2>3. OwnInv(k)'
    <3>1. /\ call'[k].pc = "lookup" /\ call'[k].op = op /\ call'[k].obj = call[k].obj
          /\ call'[k].cursor = call[k].cursor /\ call'[k].from = call[k].from
          /\ call'[k].got = call[k].got
      BY <1>7, <2>1 DEF Begin, CallState
    <3>2. CASE call[k].obj = Nobody
      BY <3>1, <3>2 DEF OwnInv, Polls, Dropping
    <3>3. CASE call[k].obj # Nobody
      <4>1. call[k].op = "poll" /\ op = "poll"
        BY <1>7, <3>3 DEF Begin, At, PollInv, BaseInv, Steady
      <4> QED  BY <2>1, <3>1, <4>1, OwnKept DEF PollInv
    <3> QED  BY <3>2, <3>3
  <2>4. \A j \in Calls : OwnInv(j)'
    BY <2>1, <2>2, <2>3, OwnKept DEF PollInv
  <2>5. \A o \in Objs : Queued(o)'
    BY <2>1 DEF PollInv, Queued
  <2> QED  BY <1>1, <2>4, <2>5 DEF PollInv
<1> QED  BY <1>3, <1>4, <1>5, <1>6, <1>7 DEF Next

\* PollEvents serves a client that goes on from the cursor it was told: whatever the
\* other calls on its session take out of the queue in between, and however its polls
\* time out, it is given each candidate once, and in order.
THEOREM PollsLoseNothing == Spec => []PollLossless
<1>1. PollInv => PollLossless
  BY DEF PollInv, OwnInv, Polls, Given, PollLossless
<1> QED  BY <1>1, PollInit, PollStep, PTL DEF Spec
-----------------------------------------------------------------------------
\* An object that was never opened is known to nobody.
UnusedIsFree ==
  \A o \in Objs : life[o] = "unused" =>
    /\ \A i \in Ids : table[i] # o
    /\ \A k \in Calls : call[k].obj # o /\ call[k].victim # o

HasId == \A o \in Objs : life[o] # "unused" => idOf[o] \in Ids

\* A session is in the table under its own id.
UnderOwnId == \A i \in Ids : table[i] \in Objs => idOf[table[i]] = i

\* While a call starts an id nothing is there, and its object is nowhere else.
StartsAlone ==
  \A k \in Calls :
    /\ call[k].pc \in {"evict", "open", "install"} => table[call[k].id] = Nobody
    /\ call[k].pc = "install" =>
         idOf[call[k].obj] = call[k].id /\ \A i \in Ids : table[i] # call[k].obj

Starts(k) == Active(k) /\ call[k].op = "start"

OneStart == \A j, k \in Calls : j # k /\ Starts(j) /\ Starts(k) => call[j].id # call[k].id

FindInv ==
  BaseInv /\ UnusedIsFree /\ HasId /\ UnderOwnId /\ StartsAlone /\ OneStart /\ NoOrphan

LEMMA FindInit == Init => FindInv
<1> SUFFICES ASSUME Init PROVE FindInv
  OBVIOUS
<1>1. UnusedIsFree /\ HasId /\ UnderOwnId /\ StartsAlone /\ OneStart /\ NoOrphan
  BY SessionsAssumption
     DEF Init, UnusedIsFree, HasId, UnderOwnId, StartsAlone, OneStart, Starts, Active, NoOrphan
<1> QED  BY <1>1, BaseInit DEF FindInv

\* One step of LateTerminationHarmless.
LeavesFairly ==
  \A i \in Ids : \A o \in Objs : table[i] = o /\ table'[i] # o =>
    \/ life[o] # "closed" /\ life'[o] = "closed"
    \/ \E k \in Calls : /\ call[k].id = i /\ call[k].pc \in {"lookup", "remove"}
                        /\ call'[k].victim = o

\* A call's step that neither touches the table nor opens or shuts an object: it comes
\* from a point, and goes to one, that says nothing of orphans.
LEMMA FindElsewhere ==
  ASSUME FindInv, BaseInv', UNCHANGED <<table, idOf, life, upstream>>,
         NEW k \in Calls, \A j \in Calls : j # k => call'[j] = call[j],
         call[k].pc \notin {"install", "evict", "shut"},
         call'[k].pc \notin {"install", "evict", "shut", "open"},
         call'[k].id = call[k].id, call'[k].op = call[k].op,
         Active(k)' => Active(k),
         call'[k].victim = call[k].victim,
         call'[k].obj = call[k].obj \/ \E i \in Ids : call'[k].obj = table[i]
  PROVE  FindInv'
<1>1. UnusedIsFree'
  <2> SUFFICES ASSUME NEW o \in Objs, life[o] = "unused"
               PROVE  (\A i \in Ids : table[i] # o)
                      /\ \A j \in Calls : call'[j].obj # o /\ call'[j].victim # o
    BY DEF UnusedIsFree
  <2>1. (\A i \in Ids : table[i] # o) /\ \A j \in Calls : call[j].obj # o /\ call[j].victim # o
    BY DEF FindInv, UnusedIsFree
  <2> QED  BY <2>1
<1>2. UnderOwnId' /\ HasId'
  BY DEF FindInv, UnderOwnId, HasId
<1>3. StartsAlone'
  <2> SUFFICES ASSUME NEW j \in Calls
               PROVE  /\ call'[j].pc \in {"evict", "open", "install"} => table[call'[j].id] = Nobody
                      /\ call'[j].pc = "install" =>
                           /\ idOf[call'[j].obj] = call'[j].id
                           /\ \A i \in Ids : table[i] # call'[j].obj
    BY DEF StartsAlone
  <2>1. CASE j = k
    BY <2>1
  <2>2. CASE j # k
    BY <2>2 DEF FindInv, StartsAlone
  <2> QED  BY <2>1, <2>2
<1>4. OneStart'
  <2>1. \A j \in Calls : (Starts(j)' => Starts(j)) /\ call'[j].id = call[j].id
    BY DEF Starts, Active
  <2> QED  BY <2>1 DEF FindInv, OneStart
<1>5. NoOrphan'
  <2> SUFFICES ASSUME NEW o \in Objs, life[o] = "open", table[idOf[o]] # o, upstream[o]
               PROVE  \E j \in Calls : \/ call'[j].obj = o /\ call'[j].pc = "install"
                                       \/ call'[j].victim = o /\ call'[j].pc \in {"evict", "shut"}
    BY DEF NoOrphan, At
  <2>1. PICK j \in Calls : \/ call[j].obj = o /\ call[j].pc = "install"
                           \/ call[j].victim = o /\ call[j].pc \in {"evict", "shut"}
    BY DEF FindInv, NoOrphan, At
  <2>2. j # k
    BY <2>1
  <2> QED  BY <2>1, <2>2
<1> QED  BY <1>1, <1>2, <1>3, <1>4, <1>5 DEF FindInv

\* A session ends: it leaves the table, and only it.
LEMMA FindTerminate ==
  ASSUME FindInv, BaseInv', NEW o \in Objs, Terminate(o)
  PROVE  FindInv' /\ LeavesFairly
<1>1. /\ table \in [Ids -> Objs \cup {Nobody}] /\ life \in [Objs -> {"unused", "open", "shut", "closed"}]
      /\ idOf \in [Objs -> Ids \cup {Nobody}]
  BY DEF FindInv, BaseInv, SessionsTypeOK
<1>2. /\ life' = [life EXCEPT ![o] = "closed"] /\ life[o] \in {"open", "shut"}
      /\ table' = [i \in Ids |-> IF i = idOf[o] /\ table[i] = o THEN Nobody ELSE table[i]]
      /\ UNCHANGED <<idOf, upstream, call>>
  BY DEF Terminate, Receiving, EvictIfCurrent
<1>3. \A i \in Ids : table'[i] = table[i] \/ (table[i] = o /\ table'[i] = Nobody)
  BY <1>1, <1>2
<1>4. \A i \in Ids, p \in Objs : table[i] = p /\ p # o => table'[i] = p
  BY <1>1, <1>2
<1>5. \A p \in Objs : p # Nobody /\ (life'[p] = life[p] \/ (p = o /\ life'[p] = "closed"))
  BY <1>1, <1>2, SessionsAssumption
<1>6. UnusedIsFree' /\ HasId'
  BY <1>2, <1>3, <1>5 DEF FindInv, UnusedIsFree, HasId
<1>7. UnderOwnId'
  BY <1>2, <1>3, SessionsAssumption DEF FindInv, UnderOwnId
<1>8. StartsAlone'
  <2> SUFFICES ASSUME NEW j \in Calls
               PROVE  /\ call[j].pc \in {"evict", "open", "install"} => table'[call[j].id] = Nobody
                      /\ call[j].pc = "install" =>
                           /\ idOf[call[j].obj] = call[j].id
                           /\ \A i \in Ids : table'[i] # call[j].obj
    BY <1>2 DEF StartsAlone
  <2>1. Steady(j)
    BY DEF FindInv, BaseInv
  <2>2. CASE call[j].pc \in {"evict", "open", "install"}
    <3>1. call[j].id \in Ids /\ table[call[j].id] = Nobody
      BY <2>1, <2>2 DEF FindInv, StartsAlone, Steady, Active
    <3>2. call[j].pc = "install" =>
             /\ call[j].obj \in Objs /\ idOf[call[j].obj] = call[j].id
             /\ \A i \in Ids : table[i] # call[j].obj
      BY <2>1, <2>2 DEF FindInv, StartsAlone, Steady
    <3> QED  BY <1>3, <3>1, <3>2, SessionsAssumption
  <2> QED  BY <2>2
<1>9. OneStart'
  BY <1>2 DEF FindInv, OneStart, Starts, Active
<1>10. NoOrphan'
  <2> SUFFICES ASSUME NEW p \in Objs, life'[p] = "open"
               PROVE  \/ table'[idOf[p]] = p
                      \/ \E k \in Calls : \/ call[k].obj = p /\ call[k].pc = "install"
                                          \/ call[k].victim = p /\ call[k].pc \in {"evict", "shut"}
                      \/ ~upstream[p]
    BY <1>2 DEF NoOrphan, At
  <2>1. p # o /\ life[p] = "open"
    BY <1>1, <1>2
  <2>2. table[idOf[p]] = p => idOf[p] \in Ids
    BY <2>1 DEF FindInv, HasId
  <2> QED  BY <1>4, <2>1, <2>2 DEF FindInv, NoOrphan, At
<1>11. LeavesFairly
  BY <1>1, <1>2, <1>3 DEF LeavesFairly
<1> QED  BY <1>6, <1>7, <1>8, <1>9, <1>10, <1>11 DEF FindInv

\* createSession's first critical section and removeSession take what is under the id;
\* the caller is left with it to shut it down.
LEMMA FindTaken ==
  ASSUME FindInv, BaseInv', NEW k \in Calls, Detach(k) \/ Remove(k)
  PROVE  FindInv' /\ LeavesFairly
<1> DEFINE i == call[k].id
<1>1. /\ table \in [Ids -> Objs \cup {Nobody}] /\ idOf \in [Objs -> Ids \cup {Nobody}]
      /\ call \in [Calls -> CallState] /\ call[k] \in CallState /\ i \in Ids
  <2>1. Steady(k) /\ call \in [Calls -> CallState]
    BY DEF FindInv, BaseInv, SessionsTypeOK
  <2>2. i \in Ids
    BY <2>1 DEF Detach, Remove, At, Steady, Active
  <2> QED  BY <2>1, <2>2 DEF FindInv, BaseInv, SessionsTypeOK
<1>2. /\ call'[k].victim = table[i] /\ call'[k].id = i /\ call'[k].op = call[k].op
      /\ call'[k].obj = call[k].obj
      /\ call'[k].pc \in {"open", "evict", "done", "shut"}
      /\ table[i] # Nobody => call'[k].pc \in {"evict", "shut"}
      /\ \A j \in Calls : j # k => call'[j] = call[j]
      /\ table' = [table EXCEPT ![i] = Nobody]
      /\ UNCHANGED <<idOf, life, upstream>>
      /\ Active(k) /\ call[k].pc \in {"lookup", "remove"}
  BY <1>1 DEF Detach, Remove, objVars, Active, At, CallState
<1>3. table'[i] = Nobody /\ \A h \in Ids : h # i => table'[h] = table[h]
  BY <1>1, <1>2
<1>4. UnusedIsFree' /\ HasId'
  <2>1. SUFFICES ASSUME NEW o \in Objs, life[o] = "unused"
                 PROVE  /\ \A h \in Ids : table'[h] # o
                        /\ \A j \in Calls : call'[j].obj # o /\ call'[j].victim # o
    BY <1>2 DEF UnusedIsFree, HasId, FindInv
  <2>2. /\ \A h \in Ids : table[h] # o
        /\ \A j \in Calls : call[j].obj # o /\ call[j].victim # o
    BY <2>1 DEF FindInv, UnusedIsFree
  <2> QED  BY <1>1, <1>2, <1>3, <2>2, SessionsAssumption
<1>5. UnderOwnId'
  BY <1>2, <1>3, SessionsAssumption DEF FindInv, UnderOwnId
<1>6. StartsAlone'
  <2> SUFFICES ASSUME NEW j \in Calls
               PROVE  /\ call'[j].pc \in {"evict", "open", "install"} => table'[call'[j].id] = Nobody
                      /\ call'[j].pc = "install" =>
                           /\ idOf[call'[j].obj] = call'[j].id
                           /\ \A h \in Ids : table'[h] # call'[j].obj
    BY <1>2 DEF StartsAlone
  <2>1. CASE j = k
    BY <1>2, <1>3, <2>1
  <2>2. CASE j # k
    <3>1. call'[j] = call[j] /\ Steady(j)
      BY <1>2, <2>2 DEF FindInv, BaseInv
    <3>2. call[j].pc \in {"evict", "open", "install"} =>
             call[j].id \in Ids /\ table[call[j].id] = Nobody
      BY <3>1 DEF FindInv, StartsAlone, Steady, Active
    <3>3. call[j].pc = "install" =>
             /\ call[j].obj \in Objs /\ idOf[call[j].obj] = call[j].id
             /\ \A h \in Ids : table[h] # call[j].obj
      BY <3>1 DEF FindInv, StartsAlone, Steady
    <3> QED  BY <1>3, <3>1, <3>2, <3>3, SessionsAssumption
  <2> QED  BY <2>1, <2>2
<1>7. OneStart'
  <2>1. \A j \in Calls : (Starts(j)' => Starts(j)) /\ call'[j].id = call[j].id
    BY <1>2 DEF Starts, Active
  <2> QED  BY <2>1 DEF FindInv, OneStart
<1>8. NoOrphan'
  <2> SUFFICES ASSUME NEW o \in Objs, life[o] = "open", table'[idOf[o]] # o, upstream[o]
               PROVE  \E j \in Calls : \/ call'[j].obj = o /\ call'[j].pc = "install"
                                       \/ call'[j].victim = o /\ call'[j].pc \in {"evict", "shut"}
    BY <1>2 DEF NoOrphan, At
  <2>1. idOf[o] \in Ids
    BY DEF FindInv, HasId
  <2>2. CASE table[idOf[o]] = o
    <3>1. idOf[o] = i /\ table[i] = o /\ table[i] # Nobody
      BY <1>3, <2>1, <2>2, SessionsAssumption
    <3> QED  BY <1>2, <3>1
  <2>3. CASE table[idOf[o]] # o
    <3>1. PICK j \in Calls : \/ call[j].obj = o /\ call[j].pc = "install"
                             \/ call[j].victim = o /\ call[j].pc \in {"evict", "shut"}
      BY <2>3 DEF FindInv, NoOrphan, At
    <3>2. j # k
      BY <1>2, <3>1
    <3> QED  BY <1>2, <3>1, <3>2
  <2> QED  BY <2>2, <2>3
<1>9. LeavesFairly
  <2> SUFFICES ASSUME NEW h \in Ids, NEW o \in Objs, table[h] = o, table'[h] # o
               PROVE  \E j \in Calls : /\ call[j].id = h /\ call[j].pc \in {"lookup", "remove"}
                                       /\ call'[j].victim = o
    BY DEF LeavesFairly
  <2>1. h = i
    BY <1>3
  <2> QED  BY <1>2, <2>1
<1> QED  BY <1>4, <1>5, <1>6, <1>7, <1>8, <1>9 DEF FindInv

\* The old session, or the removed one, is shut down: it is no longer open.
LEMMA FindShut ==
  ASSUME FindInv, BaseInv', NEW k \in Calls, EvictOld(k) \/ ShutRemoved(k)
  PROVE  FindInv' /\ LeavesFairly
<1> DEFINE v == call[k].victim
<1>1. /\ call \in [Calls -> CallState] /\ call[k] \in CallState /\ v \in Objs
      /\ life \in [Objs -> {"unused", "open", "shut", "closed"}]
  <2>1. Steady(k) /\ call \in [Calls -> CallState]
    BY DEF FindInv, BaseInv, SessionsTypeOK
  <2>2. v \in Objs
    BY <2>1 DEF EvictOld, ShutRemoved, At, Steady
  <2> QED  BY <2>1, <2>2 DEF FindInv, BaseInv, SessionsTypeOK
<1>2. /\ call'[k].victim = v /\ call'[k].id = call[k].id /\ call'[k].op = call[k].op
      /\ call'[k].obj = call[k].obj
      /\ (call'[k].pc = "open" /\ call[k].pc = "evict") \/ call'[k].pc = "done"
      /\ \A j \in Calls : j # k => call'[j] = call[j]
      /\ life' = [life EXCEPT ![v] = IF @ = "open" THEN "shut" ELSE @]
      /\ UNCHANGED <<table, idOf, upstream>>
      /\ Active(k)
  BY <1>1 DEF EvictOld, ShutRemoved, Shutdown, Goto, Active, At, CallState
<1>3. \A o \in Objs : /\ life'[o] = "unused" <=> life[o] = "unused"
                      /\ life'[o] = "open" => life[o] = "open" /\ o # v
  BY <1>1, <1>2
<1>4. UnusedIsFree' /\ HasId'
  <2>1. SUFFICES ASSUME NEW o \in Objs, life[o] = "unused"
                 PROVE  /\ \A h \in Ids : table[h] # o
                        /\ \A j \in Calls : call'[j].obj # o /\ call'[j].victim # o
    BY <1>2, <1>3 DEF UnusedIsFree, HasId, FindInv
  <2>2. /\ \A h \in Ids : table[h] # o
        /\ \A j \in Calls : call[j].obj # o /\ call[j].victim # o
    BY <2>1 DEF FindInv, UnusedIsFree
  <2> QED  BY <1>2, <2>2
<1>5. UnderOwnId'
  BY <1>2 DEF FindInv, UnderOwnId
<1>6. StartsAlone'
  <2> SUFFICES ASSUME NEW j \in Calls
               PROVE  /\ call'[j].pc \in {"evict", "open", "install"} => table[call'[j].id] = Nobody
                      /\ call'[j].pc = "install" =>
                           /\ idOf[call'[j].obj] = call'[j].id
                           /\ \A h \in Ids : table[h] # call'[j].obj
    BY <1>2 DEF StartsAlone
  <2>1. CASE j = k
    BY <1>2, <2>1 DEF FindInv, StartsAlone
  <2>2. CASE j # k
    BY <1>2, <2>2 DEF FindInv, StartsAlone
  <2> QED  BY <2>1, <2>2
<1>7. OneStart'
  <2>1. \A j \in Calls : (Starts(j)' => Starts(j)) /\ call'[j].id = call[j].id
    BY <1>2 DEF Starts, Active
  <2> QED  BY <2>1 DEF FindInv, OneStart
<1>8. NoOrphan'
  <2> SUFFICES ASSUME NEW o \in Objs, life'[o] = "open", table[idOf[o]] # o, upstream[o]
               PROVE  \E j \in Calls : \/ call'[j].obj = o /\ call'[j].pc = "install"
                                       \/ call'[j].victim = o /\ call'[j].pc \in {"evict", "shut"}
    BY <1>2 DEF NoOrphan, At
  <2>1. life[o] = "open" /\ o # v
    BY <1>3
  <2>2. PICK j \in Calls : \/ call[j].obj = o /\ call[j].pc = "install"
                           \/ call[j].victim = o /\ call[j].pc \in {"evict", "shut"}
    BY <2>1 DEF FindInv, NoOrphan, At
  <2>3. j # k
    <3>1. call[k].pc \in {"evict", "shut"}
      BY DEF EvictOld, ShutRemoved, At
    <3> QED  BY <2>1, <2>2, <3>1
  <2> QED  BY <1>2, <2>2, <2>3
<1>9. LeavesFairly
  BY <1>2 DEF LeavesFairly
<1> QED  BY <1>4, <1>5, <1>6, <1>7, <1>8, <1>9 DEF FindInv

\* A stream is opened for an object that nobody knows.
LEMMA FindOpened ==
  ASSUME FindInv, BaseInv', NEW k \in Calls, NEW o \in Objs, OpenStream(k, o)
  PROVE  FindInv' /\ LeavesFairly
<1>1. /\ call \in [Calls -> CallState] /\ call[k] \in CallState
      /\ life \in [Objs -> {"unused", "open", "shut", "closed"}]
      /\ idOf \in [Objs -> Ids \cup {Nobody}] /\ upstream \in [Objs -> BOOLEAN]
      /\ table \in [Ids -> Objs \cup {Nobody}]
      /\ call[k].id \in Ids
  <2>1. Steady(k) /\ call \in [Calls -> CallState]
    BY DEF FindInv, BaseInv, SessionsTypeOK
  <2>2. call[k].id \in Ids
    BY <2>1 DEF OpenStream, At, Steady, Active
  <2> QED  BY <2>1, <2>2 DEF FindInv, BaseInv, SessionsTypeOK
<1>2. /\ call'[k].victim = call[k].victim /\ call'[k].id = call[k].id
      /\ call'[k].op = call[k].op /\ call'[k].obj = o
      /\ call'[k].pc = "install" /\ call[k].pc = "open"
      /\ \A j \in Calls : j # k => call'[j] = call[j]
      /\ table' = table
  BY <1>1 DEF OpenStream, At, CallState
<1>3. /\ life[o] = "unused" /\ life'[o] = "open" /\ idOf'[o] = call[k].id
      /\ \A p \in Objs : p # o =>
           life'[p] = life[p] /\ idOf'[p] = idOf[p] /\ upstream'[p] = upstream[p]
  BY <1>1 DEF OpenStream
<1>4. (\A i \in Ids : table[i] # o) /\ \A j \in Calls : call[j].obj # o /\ call[j].victim # o
  BY <1>3 DEF FindInv, UnusedIsFree
<1>5. UnusedIsFree' /\ HasId'
  <2>1. UnusedIsFree'
    BY <1>2, <1>3 DEF FindInv, UnusedIsFree
  <2>2. HasId'
    BY <1>1, <1>3 DEF FindInv, HasId
  <2> QED  BY <2>1, <2>2
<1>6. UnderOwnId'
  BY <1>2, <1>3, <1>4 DEF FindInv, UnderOwnId
<1>7. StartsAlone'
  <2> SUFFICES ASSUME NEW j \in Calls
               PROVE  /\ call'[j].pc \in {"evict", "open", "install"} => table[call'[j].id] = Nobody
                      /\ call'[j].pc = "install" =>
                           /\ idOf'[call'[j].obj] = call'[j].id
                           /\ \A h \in Ids : table[h] # call'[j].obj
    BY <1>2 DEF StartsAlone
  <2>1. CASE j = k
    BY <1>2, <1>3, <1>4, <2>1 DEF FindInv, StartsAlone
  <2>2. CASE j # k
    <3>1. call'[j] = call[j] /\ Steady(j) /\ call[j].obj # o
      BY <1>2, <1>4, <2>2 DEF FindInv, BaseInv
    <3>2. call[j].pc = "install" => call[j].obj \in Objs
      BY <3>1 DEF Steady
    <3> QED  BY <1>3, <3>1, <3>2 DEF FindInv, StartsAlone
  <2> QED  BY <2>1, <2>2
<1>8. OneStart'
  <2>1. \A j \in Calls : (Starts(j)' => Starts(j)) /\ call'[j].id = call[j].id
    BY <1>2 DEF Starts, Active
  <2> QED  BY <2>1 DEF FindInv, OneStart
<1>9. NoOrphan'
  <2> SUFFICES ASSUME NEW p \in Objs, life'[p] = "open", table[idOf'[p]] # p, upstream'[p]
               PROVE  \E j \in Calls : \/ call'[j].obj = p /\ call'[j].pc = "install"
                                       \/ call'[j].victim = p /\ call'[j].pc \in {"evict", "shut"}
    BY <1>2 DEF NoOrphan, At
  <2>1. CASE p = o
    BY <1>2, <2>1
  <2>2. CASE p # o
    <3>1. life[p] = "open" /\ table[idOf[p]] # p /\ upstream[p]
      BY <1>3, <2>2
    <3>2. PICK j \in Calls : \/ call[j].obj = p /\ call[j].pc = "install"
                             \/ call[j].victim = p /\ call[j].pc \in {"evict", "shut"}
      BY <3>1 DEF FindInv, NoOrphan, At
    <3>3. j # k
      BY <1>2, <3>2
    <3> QED  BY <1>2, <3>2, <3>3
  <2> QED  BY <2>1, <2>2
<1>10. LeavesFairly
  BY <1>2 DEF LeavesFairly
<1> QED  BY <1>5, <1>6, <1>7, <1>8, <1>9, <1>10 DEF FindInv

\* createSession's second critical section: nothing is under the id.
LEMMA FindInstalled ==
  ASSUME FindInv, BaseInv', NEW k \in Calls, Install(k)
  PROVE  FindInv' /\ LeavesFairly
<1> DEFINE i == call[k].id
           o == call[k].obj
<1>1. /\ call \in [Calls -> CallState] /\ call[k] \in CallState
      /\ table \in [Ids -> Objs \cup {Nobody}]
      /\ i \in Ids /\ o \in Objs
      /\ table[i] = Nobody /\ idOf[o] = i /\ \A h \in Ids : table[h] # o
      /\ call[k].op = "start" /\ call[k].pc = "install"
  <2>1. Steady(k) /\ call \in [Calls -> CallState] /\ call[k].pc = "install"
    BY DEF FindInv, BaseInv, SessionsTypeOK, Install, At
  <2>2. i \in Ids /\ o \in Objs /\ call[k].op = "start"
    BY <2>1 DEF Steady, Active
  <2>3. table[i] = Nobody /\ idOf[o] = i /\ \A h \in Ids : table[h] # o
    BY <2>1 DEF FindInv, StartsAlone
  <2> QED  BY <2>1, <2>2, <2>3 DEF FindInv, BaseInv, SessionsTypeOK
<1>2. /\ call'[k].victim = call[k].victim /\ call'[k].id = i
      /\ call'[k].op = call[k].op /\ call'[k].obj = o /\ call'[k].pc = "send"
      /\ \A j \in Calls : j # k => call'[j] = call[j]
      /\ UNCHANGED <<idOf, life, upstream>>
  BY <1>1 DEF Install, Goto, objVars, CallState
<1>3. table'[i] = o /\ \A h \in Ids : h # i => table'[h] = table[h]
  BY <1>1 DEF Install
<1>4. UnusedIsFree' /\ HasId'
  <2>1. life[o] # "unused"
    BY <1>1 DEF FindInv, UnusedIsFree
  <2>2. UnusedIsFree'
    BY <1>2, <1>3, <2>1 DEF FindInv, UnusedIsFree
  <2> QED  BY <1>2, <2>2 DEF FindInv, HasId
<1>5. UnderOwnId'
  BY <1>1, <1>2, <1>3 DEF FindInv, UnderOwnId
<1>6. StartsAlone'
  <2> SUFFICES ASSUME NEW j \in Calls
               PROVE  /\ call'[j].pc \in {"evict", "open", "install"} => table'[call'[j].id] = Nobody
                      /\ call'[j].pc = "install" =>
                           /\ idOf[call'[j].obj] = call'[j].id
                           /\ \A h \in Ids : table'[h] # call'[j].obj
    BY <1>2 DEF StartsAlone
  <2>1. CASE j = k
    BY <1>2, <2>1
  <2>2. CASE j # k
    <3>1. call'[j] = call[j] /\ Steady(j)
      BY <1>2, <2>2 DEF FindInv, BaseInv
    <3>2. ASSUME call[j].pc \in {"evict", "open", "install"}
          PROVE  call[j].id \in Ids /\ call[j].id # i
      <4>1. Starts(j) /\ Starts(k) /\ call[j].id \in Ids
        BY <1>1, <3>1, <3>2 DEF Starts, Active, Steady
      <4> QED  BY <2>2, <4>1 DEF FindInv, OneStart
    <3>3. ASSUME call[j].pc = "install"
          PROVE  call[j].obj # o
      BY <1>1, <3>2, <3>3 DEF FindInv, StartsAlone
    <3>4. call[j].pc \in {"evict", "open", "install"} => table'[call[j].id] = Nobody
      BY <1>3, <3>2 DEF FindInv, StartsAlone
    <3>5. ASSUME call[j].pc = "install"
          PROVE  idOf[call[j].obj] = call[j].id /\ \A h \in Ids : table'[h] # call[j].obj
      BY <1>3, <3>3, <3>5 DEF FindInv, StartsAlone
    <3> QED  BY <3>1, <3>4, <3>5
  <2> QED  BY <2>1, <2>2
<1>7. OneStart'
  <2>1. \A j \in Calls : (Starts(j)' => Starts(j)) /\ call'[j].id = call[j].id
    BY <1>1, <1>2 DEF Starts, Active
  <2> QED  BY <2>1 DEF FindInv, OneStart
<1>8. NoOrphan'
  <2> SUFFICES ASSUME NEW p \in Objs, life[p] = "open", table'[idOf[p]] # p, upstream[p]
               PROVE  \E j \in Calls : \/ call'[j].obj = p /\ call'[j].pc = "install"
                                       \/ call'[j].victim = p /\ call'[j].pc \in {"evict", "shut"}
    BY <1>2 DEF NoOrphan, At
  <2>1. p # o /\ idOf[p] \in Ids
    BY <1>1, <1>3 DEF FindInv, HasId
  <2>2. table[idOf[p]] # p
    BY <1>1, <1>3, <2>1, SessionsAssumption
  <2>3. PICK j \in Calls : \/ call[j].obj = p /\ call[j].pc = "install"
                           \/ call[j].victim = p /\ call[j].pc \in {"evict", "shut"}
    BY <2>2 DEF FindInv, NoOrphan, At
  <2>4. j # k
    BY <1>1, <2>1, <2>3
  <2> QED  BY <1>2, <2>3, <2>4
<1>9. LeavesFairly
  BY <1>1, <1>3, SessionsAssumption DEF LeavesFairly
<1> QED  BY <1>4, <1>5, <1>6, <1>7, <1>8, <1>9 DEF FindInv

\* A call begins: a StartSession only when no other is under way for its id.
LEMMA FindBegun ==
  ASSUME SerialStarts, FindInv, BaseInv', NEW k \in Calls, NEW op \in Ops, NEW i \in Ids,
         Begin(k, op, i)
  PROVE  FindInv' /\ LeavesFairly
<1>1. call \in [Calls -> CallState] /\ call[k] \in CallState
  BY DEF FindInv, BaseInv, SessionsTypeOK
<1>2. /\ call'[k].victim = call[k].victim /\ call'[k].id = i /\ call'[k].op = op
      /\ call'[k].obj = call[k].obj /\ call'[k].pc = "lookup" /\ call[k].pc = "idle"
      /\ \A j \in Calls : j # k => call'[j] = call[j]
      /\ UNCHANGED <<table, idOf, life, upstream>>
  BY <1>1 DEF Begin, At, objVars, CallState
<1>3. UnusedIsFree' /\ HasId' /\ UnderOwnId'
  <2>1. UnusedIsFree'
    BY <1>2 DEF FindInv, UnusedIsFree
  <2> QED  BY <1>2, <2>1 DEF FindInv, HasId, UnderOwnId
<1>4. StartsAlone'
  BY <1>2 DEF FindInv, StartsAlone
<1>5. OneStart'
  <2> SUFFICES ASSUME NEW j \in Calls, NEW l \in Calls, j # l, Starts(j)', Starts(l)'
               PROVE  call'[j].id # call'[l].id
    BY DEF OneStart
  <2>1. CASE j # k /\ l # k
    <3>1. Starts(j) /\ Starts(l) /\ call'[j] = call[j] /\ call'[l] = call[l]
      BY <1>2, <2>1 DEF Starts, Active
    <3> QED  BY <3>1 DEF FindInv, OneStart
  <2>2. ASSUME NEW m \in Calls, m # k, Starts(m)', Starts(k)'
        PROVE  call'[m].id # i
    <3>1. op = "start" /\ call'[m] = call[m] /\ Starts(m)
      BY <1>2, <2>2 DEF Starts, Active
    <3> QED  BY <3>1 DEF Begin, At, Starts, Active
  <2>3. CASE j = k
    BY <1>2, <2>2, <2>3
  <2>4. CASE l = k
    BY <1>2, <2>2, <2>4
  <2> QED  BY <2>1, <2>3, <2>4
<1>6. NoOrphan'
  <2> SUFFICES ASSUME NEW p \in Objs, life[p] = "open", table[idOf[p]] # p, upstream[p]
               PROVE  \E j \in Calls : \/ call'[j].obj = p /\ call'[j].pc = "install"
                                       \/ call'[j].victim = p /\ call'[j].pc \in {"evict", "shut"}
    BY <1>2 DEF NoOrphan, At
  <2>1. PICK j \in Calls : \/ call[j].obj = p /\ call[j].pc = "install"
                           \/ call[j].victim = p /\ call[j].pc \in {"evict", "shut"}
    BY DEF FindInv, NoOrphan, At
  <2>2. j # k
    BY <1>2, <2>1
  <2> QED  BY <1>2, <2>1, <2>2
<1>7. LeavesFairly
  BY <1>2 DEF LeavesFairly
<1> QED  BY <1>3, <1>4, <1>5, <1>6, <1>7 DEF FindInv

LEMMA FindStep ==
  ASSUME SerialStarts, FindInv, [Next]_vars
  PROVE  FindInv' /\ LeavesFairly
<1>1. BaseInv' /\ call \in [Calls -> CallState]
  BY BaseStep DEF FindInv, BaseInv, SessionsTypeOK
<1>2. ASSUME UNCHANGED <<table, idOf, life, call>>, \A o \in Objs : upstream'[o] => upstream[o]
      PROVE  FindInv' /\ LeavesFairly
  <2>1. UnusedIsFree' /\ HasId' /\ UnderOwnId' /\ StartsAlone'
    BY <1>2 DEF FindInv, UnusedIsFree, HasId, UnderOwnId, StartsAlone
  <2>2. OneStart'
    BY <1>2 DEF FindInv, OneStart, Starts, Active
  <2>3. NoOrphan'
    BY <1>2 DEF FindInv, NoOrphan, At
  <2>4. LeavesFairly
    BY <1>2 DEF LeavesFairly
  <2> QED  BY <1>1, <2>1, <2>2, <2>3, <2>4 DEF FindInv
<1>3. CASE Respond \/ UNCHANGED vars
  BY <1>2, <1>3 DEF Respond, vars, objVars
<1>4. CASE AcceleratorLost
  BY <1>2, <1>4 DEF AcceleratorLost
<1>5. ASSUME NEW i \in Ids, Candidate(i) PROVE FindInv' /\ LeavesFairly
  BY <1>2, <1>5 DEF Candidate
<1>6. ASSUME NEW o \in Objs, Session(o) PROVE FindInv' /\ LeavesFairly
  BY <1>1, <1>2, <1>6, FindTerminate DEF Session, Receive
<1>7. ASSUME NEW k \in Calls, Serve(k) \/ GiveUp(k) PROVE FindInv' /\ LeavesFairly
  <2>1. Steady(k) /\ call[k] \in CallState
    BY <1>1 DEF FindInv, BaseInv
  <2>2. ASSUME \/ GetSession(k) \/ OpenFails(k) \/ Send(k) \/ SendFails(k) \/ FindMatch(k)
               \/ SkipOthers(k) \/ RemoveEvent(k) \/ PollReturns(k) \/ FindClosed(k)
               \/ Sleep(k) \/ Wake(k) \/ GiveUp(k)
        PROVE  FindInv' /\ LeavesFairly
    <3>1. UNCHANGED <<table, idOf, life, upstream>>
      BY <2>2
         DEF GetSession, OpenFails, Send, SendFails, FindMatch, SkipOthers, RemoveEvent,
             PollReturns, FindClosed, Sleep, Wake, GiveUp, objVars
    <3> DEFINE Stays ==
             /\ \A j \in Calls : j # k => call'[j] = call[j]
             /\ call[k].pc \in {"lookup", "open", "send", "look", "asleep", "drop"}
             /\ call'[k].pc \in {"done", "look", "send", "idle", "remove", "drop", "asleep"}
             /\ call'[k].id = call[k].id /\ call'[k].op = call[k].op
             /\ call'[k].victim = call[k].victim
    <3>2. ASSUME GetSession(k) PROVE FindInv'
      <4>1. call[k].id \in Ids
        BY <2>1, <3>2 DEF GetSession, At, Steady, Active
      <4>2. Stays
        BY <1>1, <2>1, <3>2 DEF GetSession, At, CallState
      <4>3. call'[k].obj = call[k].obj \/ call'[k].obj = table[call[k].id]
        BY <1>1, <2>1, <3>2 DEF GetSession, CallState
      <4> QED  BY <1>1, <3>1, <4>1, <4>2, <4>3, FindElsewhere DEF Active
    <3>3. ASSUME \/ OpenFails(k) \/ Send(k) \/ SendFails(k) \/ RemoveEvent(k) \/ FindClosed(k)
                 \/ Wake(k) \/ GiveUp(k)
          PROVE  FindInv'
      <4>1. PICK p \in {"done", "look", "idle", "remove"} : Goto(k, p)
        BY <3>3 DEF OpenFails, Send, SendFails, RemoveEvent, FindClosed, Wake, GiveUp, AfterFailure
      <4>2. call[k].pc \in {"open", "send", "look", "asleep", "drop"}
        BY <3>3 DEF OpenFails, Send, SendFails, RemoveEvent, FindClosed, Wake, GiveUp, At
      <4>3. Stays /\ call'[k].obj = call[k].obj
        BY <1>1, <2>1, <4>1, <4>2 DEF Goto, CallState
      <4> QED  BY <1>1, <3>1, <4>3, FindElsewhere DEF Active
    <3>4. ASSUME FindMatch(k) \/ SkipOthers(k) \/ PollReturns(k) \/ Sleep(k) PROVE FindInv'
      <4>1. CASE FindMatch(k)
        <5>1. PICK e \in Matches(k) :
                call' = [call EXCEPT ![k].pc = "drop", ![k].cursor = e.cursor]
          BY <4>1 DEF FindMatch
        <5>2. Stays /\ call'[k].obj = call[k].obj
          BY <1>1, <2>1, <4>1, <5>1 DEF FindMatch, At, CallState
        <5> QED  BY <1>1, <3>1, <5>2, FindElsewhere DEF Active
      <4>2. CASE SkipOthers(k)
        BY <1>1, <2>1, <3>1, <4>2, FindElsewhere DEF SkipOthers, At, CallState, Active
      <4>3. CASE PollReturns(k)
        <5>1. PICK n, got : call' = [call EXCEPT ![k].pc = "idle", ![k].cursor = n, ![k].got = got]
          BY <4>3 DEF PollReturns
        <5>2. Stays /\ call'[k].obj = call[k].obj
          BY <1>1, <2>1, <4>3, <5>1 DEF PollReturns, At, CallState
        <5> QED  BY <1>1, <3>1, <5>2, FindElsewhere DEF Active
      <4>4. CASE Sleep(k)
        BY <1>1, <2>1, <3>1, <4>4, FindElsewhere DEF Sleep, At, CallState, Active
      <4> QED  BY <3>4, <4>1, <4>2, <4>3, <4>4
    <3>5. FindInv'
      BY <2>2, <3>2, <3>3, <3>4
    <3>6. LeavesFairly
      BY <3>1 DEF LeavesFairly
    <3> QED  BY <3>5, <3>6
  <2>3. CASE Detach(k) \/ Remove(k)
    BY <1>1, <2>3, FindTaken
  <2>4. CASE EvictOld(k) \/ ShutRemoved(k)
    BY <1>1, <2>4, FindShut
  <2>5. CASE \E o \in Objs : OpenStream(k, o)
    BY <1>1, <2>5, FindOpened
  <2>6. CASE Install(k)
    BY <1>1, <2>6, FindInstalled
  <2> QED  BY <1>7, <2>2, <2>3, <2>4, <2>5, <2>6 DEF Serve
<1>8. ASSUME NEW k \in Calls, NEW op \in Ops, NEW i \in Ids, Begin(k, op, i)
      PROVE  FindInv' /\ LeavesFairly
  BY <1>1, <1>8, FindBegun
<1> QED  BY <1>3, <1>4, <1>5, <1>6, <1>7, <1>8 DEF Next

\* As long as no client starts an id twice at a time, the manager loses no session: the
\* stream of every open one is reachable, through the table or through the call that is
\* about to install it or to shut it down, and the late end of a session that was
\* replaced takes none but itself out of the table.
THEOREM NoSessionIsLost == SerialStarts /\ Spec => SessionsAreFound
<1> DEFINE FindsAll == SerialStarts /\ FindInv
<1>1. SerialStarts /\ Init => FindsAll
  BY FindInit
<1>2. FindsAll /\ [Next]_vars => FindsAll'
  BY FindStep
<1>3. FindsAll /\ [Next]_vars => [NoOrphan' /\ LeavesFairly]_vars
  BY FindStep DEF FindInv
<1>4. SerialStarts /\ Spec => [][NoOrphan' /\ LeavesFairly]_vars
  BY <1>1, <1>2, <1>3, PTL DEF Spec
<1>5. [][NoOrphan' /\ LeavesFairly]_vars => [][NoOrphan']_vars /\ [][LeavesFairly]_vars
  BY PTL
<1>6. [][LeavesFairly]_vars => LateTerminationHarmless
  BY DEF LeavesFairly, LateTerminationHarmless
<1> QED  BY <1>4, <1>5, <1>6 DEF SessionsAreFound
=============================================================================

-------------------------- MODULE SignalingSessions --------------------------
(***************************************************************************)
(* The HTTP face of signaling: webRTCSignalingSessionManager turns calls    *)
(* (StartSession, SendIceCandidate, PollEvents, CloseSession) on a session  *)
(* id into messages on one upstream stream per session object, and collects *)
(* what the accelerator sends back in an event queue with cursors.  Calls   *)
(* overlap as HTTP requests do; every step below is one critical section or *)
(* one blocking call of the code.  Upstream is an adapter of SignalingRelay *)
(* whose channel never overflows: every open object hears every message.    *)
(***************************************************************************)
EXTENDS Integers, Sequences

CONSTANTS
  Ids,          \* session ids that clients use
  Objs,         \* webRTCSignalingSession objects that may be created
  Calls,        \* HTTP calls
  Nobody,       \* nil: no object, no call
  Ops,          \* kinds of call that are made
  SerialStarts, \* clients never overlap two StartSession calls on one id
  MaxCandidates \* bound: candidates the accelerator sends unasked

ASSUME SessionsAssumption ==
  /\ Nobody \notin Objs /\ Nobody \notin Calls
  /\ Ops \subseteq {"start", "ice", "poll", "close"}
  /\ SerialStarts \in BOOLEAN
  /\ MaxCandidates \in Nat

VARIABLES
  table,       \* manager.sessions
  idOf,        \* id of an object
  life,        \* of an object: "unused", "open", "shut" (context cancelled and
               \* unsubscribed), "closed" (its receive loop ended)
  upstream,    \* the accelerator session its stream runs on is alive
  inbox,       \* messages its stream has ready
  events,      \* its event queue: a set, as the cursors give the order
  nextCursor,  \* the cursor of its newest event
  heard,       \* history: cursors of the candidates it queued
  asks,        \* requests on their way to the accelerator
  candidates,  \* candidates sent unasked so far
  call         \* state of each call

objVars == <<idOf, life, upstream, inbox, events, nextCursor, heard>>
netVars == <<asks, candidates>>
vars    == <<table, objVars, netVars, call>>

-----------------------------------------------------------------------------
\* Types

Kinds   == {"start", "ice", "close", "candidate"}
Message == [kind : Kinds, id : Ids]
Event   == [cursor : Nat, kind : Kinds, id : Ids]

Pc == {"idle", "lookup", "evict", "open", "install", "send", "look", "asleep",
       "drop", "remove", "shut", "done"}

\* obj: the object in use; victim: one to shut down; cursor, seen: what a wait
\* has read; from, got: where a poller began on obj, and the candidates each of
\* its polls was given since.
CallState == [pc : Pc, op : {"start", "ice", "poll", "close"}, id : Ids \cup {Nobody},
              obj : Objs \cup {Nobody}, victim : Objs \cup {Nobody},
              cursor : Nat, seen : Nat, from : Nat, got : Seq(SUBSET Nat)]

SessionsTypeOK ==
  /\ table \in [Ids -> Objs \cup {Nobody}]
  /\ idOf \in [Objs -> Ids \cup {Nobody}]
  /\ life \in [Objs -> {"unused", "open", "shut", "closed"}]
  /\ upstream \in [Objs -> BOOLEAN]
  /\ inbox \in [Objs -> Seq(Message)]
  /\ events \in [Objs -> SUBSET Event]
  /\ nextCursor \in [Objs -> Nat]
  /\ heard \in [Objs -> SUBSET Nat]
  /\ asks \in Seq(Message)
  /\ candidates \in 0..MaxCandidates
  /\ call \in [Calls -> CallState]
  /\ \A o \in Objs : \A e, f \in events[o] :
       /\ e.cursor \in 1..nextCursor[o]
       /\ e.cursor = f.cursor => e = f

Init ==
  /\ table = [i \in Ids |-> Nobody]
  /\ idOf = [o \in Objs |-> Nobody]
  /\ life = [o \in Objs |-> "unused"]
  /\ upstream = [o \in Objs |-> FALSE]
  /\ inbox = [o \in Objs |-> <<>>]
  /\ events = [o \in Objs |-> {}]
  /\ nextCursor = [o \in Objs |-> 0]
  /\ heard = [o \in Objs |-> {}]
  /\ asks = <<>>
  /\ candidates = 0
  /\ call = [k \in Calls |->
       [pc |-> "idle", op |-> "start", id |-> Nobody,
        obj |-> Nobody, victim |-> Nobody, cursor |-> 0, seen |-> 0,
        from |-> 0, got |-> <<>>]]

-----------------------------------------------------------------------------
\* The accelerator and the session's receive loop

\* The fan-out reaches every object that is still subscribed.
Broadcast(msg) ==
  inbox' = [o \in Objs |->
    IF life[o] = "open" /\ upstream[o] THEN Append(inbox[o], msg) ELSE inbox[o]]

\* The accelerator answers the oldest request.
Respond ==
  /\ asks # <<>>
  /\ Broadcast(Head(asks))
  /\ asks' = Tail(asks)
  /\ UNCHANGED <<table, idOf, life, upstream, events, nextCursor, heard, candidates, call>>

\* It found an ICE candidate of its own.
Candidate(i) ==
  /\ candidates < MaxCandidates
  /\ candidates' = candidates + 1
  /\ Broadcast([kind |-> "candidate", id |-> i])
  /\ UNCHANGED <<table, idOf, life, upstream, events, nextCursor, heard, asks, call>>

\* The accelerator's control stream ends: every adapter opened on it ends.
AcceleratorLost ==
  /\ \E o \in Objs : upstream[o]
  /\ upstream' = [o \in Objs |-> FALSE]
  /\ asks' = <<>>
  /\ UNCHANGED <<table, idOf, life, inbox, events, nextCursor, heard, candidates, call>>

Receiving(o) == life[o] \in {"open", "shut"}

\* Fault: no filter.
KeepsAll(o, msg) == TRUE

\* The filter of receiveLoop: every subscriber hears every session's messages.
Keeps(o, msg) == msg.id = idOf[o]

\* appendEvent counts from 1.
FreshCursor(o) == nextCursor[o] + 1

\* receiveLoop gets a message and queues it under the next cursor.
Receive(o) ==
  LET msg == Head(inbox[o])
      n   == FreshCursor(o)
      Own == Keeps(o, msg)
      e   == [cursor |-> n, kind |-> msg.kind, id |-> msg.id] IN
  /\ Receiving(o)
  /\ inbox[o] # <<>>
  /\ inbox' = [inbox EXCEPT ![o] = Tail(@)]
  /\ nextCursor' = IF Own THEN [nextCursor EXCEPT ![o] = n] ELSE nextCursor
  /\ events' = IF Own THEN [events EXCEPT ![o] = @ \cup {e}] ELSE events
  /\ heard' = IF msg.id = idOf[o] /\ msg.kind = "candidate"
              THEN [heard EXCEPT ![o] = @ \cup {n}] ELSE heard
  /\ UNCHANGED <<table, idOf, life, upstream, netVars, call>>

\* evictIfCurrent, by pointer identity.
EvictIfCurrent(o) ==
  table' = [i \in Ids |-> IF i = idOf[o] /\ table[i] = o THEN Nobody ELSE table[i]]

\* Recv fails (its select may prefer that to messages it still has): markClosed
\* and, under the same lock, the manager's callback.
Terminate(o) ==
  /\ Receiving(o)
  /\ life[o] = "shut" \/ ~upstream[o]
  /\ life' = [life EXCEPT ![o] = "closed"]
  /\ EvictIfCurrent(o)
  /\ UNCHANGED <<idOf, upstream, inbox, events, nextCursor, heard, netVars, call>>

\* shutdown: cancel the stream's context and unsubscribe, once.
Shutdown(o) ==
  life' = [life EXCEPT ![o] = IF @ = "open" THEN "shut" ELSE @]

-----------------------------------------------------------------------------
\* Calls: createSession, removeSession and send

At(k, p)   == call[k].pc = p
Goto(k, p) == call' = [call EXCEPT ![k].pc = p]

\* A client makes a call.  It may go on polling from the cursor it has.
Begin(k, op, i) ==
  /\ At(k, "idle")
  /\ call[k].obj # Nobody => op = "poll" /\ i = call[k].id
  /\ op = "start" /\ SerialStarts =>
       \A j \in Calls : call[j].op = "start" /\ call[j].id = i => At(j, "idle") \/ At(j, "done")
  /\ call' = [call EXCEPT ![k].pc = "lookup", ![k].op = op, ![k].id = i]
  /\ UNCHANGED <<table, objVars, netVars>>

\* getSession of the calls that need an existing session; the ICE and close
\* calls note currentCursor before they send.
GetSession(k) ==
  LET o == table[call[k].id] IN
  /\ At(k, "lookup") /\ call[k].op # "start"
  /\ call' = IF o = Nobody THEN [call EXCEPT ![k].pc = "done"]
             ELSE IF call[k].op = "poll"
             THEN [call EXCEPT ![k].pc = "look", ![k].obj = o,
                               ![k].from = IF o = call[k].obj THEN @ ELSE call[k].cursor,
                               ![k].got = IF o = call[k].obj THEN @ ELSE <<>>]
             ELSE [call EXCEPT ![k].pc = "send", ![k].obj = o, ![k].cursor = nextCursor[o]]
  /\ UNCHANGED <<table, objVars, netVars>>

\* Fault: the session found under the id is left as it is and replaced later.
DetachNothing(k) ==
  /\ At(k, "lookup") /\ call[k].op = "start"
  /\ Goto(k, "open")
  /\ UNCHANGED <<table, objVars, netVars>>

\* createSession, first critical section: the session found is detached.
Detach(k) ==
  LET i == call[k].id IN
  /\ At(k, "lookup") /\ call[k].op = "start"
  /\ call' = [call EXCEPT ![k].pc = IF table[i] = Nobody THEN "open" ELSE "evict",
                          ![k].victim = table[i]]
  /\ table' = [table EXCEPT ![i] = Nobody]
  /\ UNCHANGED <<objVars, netVars>>

\* ... and shut down.
EvictOld(k) ==
  /\ At(k, "evict")
  /\ Shutdown(call[k].victim)
  /\ Goto(k, "open")
  /\ UNCHANGED <<table, idOf, upstream, inbox, events, nextCursor, heard, netVars>>

\* The upstream stream is opened and its receive loop starts, before the
\* manager knows the new object.
OpenStream(k, o) ==
  /\ At(k, "open")
  /\ life[o] = "unused"
  /\ life' = [life EXCEPT ![o] = "open"]
  /\ idOf' = [idOf EXCEPT ![o] = call[k].id]
  /\ upstream' = [upstream EXCEPT ![o] = TRUE]
  /\ call' = [call EXCEPT ![k].pc = "install", ![k].obj = o]
  /\ UNCHANGED <<table, inbox, events, nextCursor, heard, netVars>>

\* No accelerator is registered: the call fails.
OpenFails(k) ==
  /\ At(k, "open")
  /\ Goto(k, "done")
  /\ UNCHANGED <<table, objVars, netVars>>

\* createSession, second critical section.
Install(k) ==
  /\ At(k, "install")
  /\ table' = [table EXCEPT ![call[k].id] = call[k].obj]
  /\ Goto(k, "send")
  /\ UNCHANGED <<objVars, netVars>>

\* The request goes upstream; StartSession waits from cursor 0.
Send(k) ==
  /\ At(k, "send")
  /\ upstream[call[k].obj]
  /\ asks' = Append(asks, [kind |-> call[k].op, id |-> call[k].id])
  /\ Goto(k, "look")
  /\ UNCHANGED <<table, objVars, candidates>>

AfterFailure(k) == IF call[k].op \in {"start", "close"} THEN "remove" ELSE "done"

SendFails(k) ==
  /\ At(k, "send")
  /\ ~upstream[call[k].obj]
  /\ Goto(k, AfterFailure(k))
  /\ UNCHANGED <<table, objVars, netVars>>

\* removeSession: whatever has the id by now is taken out of the map.
Remove(k) ==
  LET i == call[k].id IN
  /\ At(k, "remove")
  /\ call' = [call EXCEPT ![k].pc = IF table[i] = Nobody THEN "done" ELSE "shut",
                          ![k].victim = table[i]]
  /\ table' = [table EXCEPT ![i] = Nobody]
  /\ UNCHANGED <<objVars, netVars>>

ShutRemoved(k) ==
  /\ At(k, "shut")
  /\ Shutdown(call[k].victim)
  /\ Goto(k, "done")
  /\ UNCHANGED <<table, idOf, upstream, inbox, events, nextCursor, heard, netVars>>

-----------------------------------------------------------------------------
\* Calls: waitForEvents and waitForMatch

NewEvents(k) == {e \in events[call[k].obj] : e.cursor > call[k].cursor}

Matches(k) == {e \in NewEvents(k) : e.kind = call[k].op /\ e.id = call[k].id}

\* The cursor from which a wait goes on once it has read all the new events.
Newest(k, e) == e \in NewEvents(k) /\ \A f \in NewEvents(k) : f.cursor <= e.cursor

\* Fault: only the end of the session notifies.
NotifiedAtEnd(o) == IF life[o] = "closed" THEN 1 ELSE 0

\* What notifyCh tells apart: it is replaced with every event and closed for
\* good with the session.
Generation(o) == nextCursor[o] + (IF life[o] = "closed" THEN 1 ELSE 0)

\* New events and the one waited for among them.
FindMatch(k) ==
  /\ At(k, "look") /\ call[k].op # "poll"
  /\ \E e \in Matches(k) :
       /\ \A f \in Matches(k) : e.cursor <= f.cursor
       /\ call' = [call EXCEPT ![k].pc = "drop", ![k].cursor = e.cursor]
  /\ UNCHANGED <<table, objVars, netVars>>

\* New events, none of which is.
SkipOthers(k) ==
  /\ At(k, "look") /\ call[k].op # "poll"
  /\ Matches(k) = {}
  /\ \E e \in NewEvents(k) :
       Newest(k, e) /\ call' = [call EXCEPT ![k].cursor = e.cursor]
  /\ UNCHANGED <<table, objVars, netVars>>

\* removeEvent of the match, in a critical section of its own.
RemoveEvent(k) ==
  /\ At(k, "drop")
  /\ events' = [events EXCEPT ![call[k].obj] = {e \in @ : e.cursor # call[k].cursor}]
  /\ Goto(k, IF call[k].op = "close" THEN "remove" ELSE "done")
  /\ UNCHANGED <<table, idOf, life, upstream, inbox, nextCursor, heard, netVars>>

\* PollEvents returns all the new events and the cursor of the last.
PollReturns(k) ==
  LET batch == {e.cursor : e \in {f \in NewEvents(k) : f.kind = "candidate"}} IN
  /\ At(k, "look") /\ call[k].op = "poll"
  /\ \E e \in NewEvents(k) :
       /\ Newest(k, e)
       /\ call' = [call EXCEPT ![k].pc = "idle", ![k].cursor = e.cursor,
                               ![k].got = Append(@, batch)]
  /\ UNCHANGED <<table, objVars, netVars>>

\* Nothing new on a closed session: errSignalingSessionClosed.
FindClosed(k) ==
  /\ At(k, "look")
  /\ NewEvents(k) = {} /\ life[call[k].obj] = "closed"
  /\ Goto(k, AfterFailure(k))
  /\ UNCHANGED <<table, objVars, netVars>>

\* Nothing new: take the current notifyCh and block on it.
Sleep(k) ==
  /\ At(k, "look")
  /\ NewEvents(k) = {} /\ life[call[k].obj] # "closed"
  /\ call' = [call EXCEPT ![k].pc = "asleep", ![k].seen = Generation(call[k].obj)]
  /\ UNCHANGED <<table, objVars, netVars>>

Wake(k) ==
  /\ At(k, "asleep")
  /\ Generation(call[k].obj) # call[k].seen
  /\ Goto(k, "look")
  /\ UNCHANGED <<table, objVars, netVars>>

\* The request's context ends (the client left) or the poll timeout expires,
\* which makes an empty answer.
GiveUp(k) ==
  /\ At(k, "asleep")
  /\ Goto(k, IF call[k].op = "poll" THEN "idle" ELSE AfterFailure(k))
  /\ UNCHANGED <<table, objVars, netVars>>

-----------------------------------------------------------------------------
Session(o) == Receive(o) \/ Terminate(o)

\* What the API does for a call once the client has made it.
Serve(k) ==
  \/ GetSession(k) \/ Detach(k) \/ EvictOld(k) \/ Install(k)
  \/ (\E o \in Objs : OpenStream(k, o)) \/ OpenFails(k)
  \/ Send(k) \/ SendFails(k)
  \/ FindMatch(k) \/ SkipOthers(k) \/ RemoveEvent(k) \/ PollReturns(k)
  \/ FindClosed(k) \/ Sleep(k) \/ Wake(k)
  \/ Remove(k) \/ ShutRemoved(k)

Next ==
  \/ Respond \/ AcceleratorLost
  \/ \E i \in Ids : Candidate(i)
  \/ \E o \in Objs : Session(o)
  \/ \E k \in Calls : \/ Serve(k) \/ GiveUp(k)
                      \/ \E op \in Ops, i \in Ids : Begin(k, op, i)

Spec == Init /\ [][Next]_vars

\* Goroutines run when they can.  Clients, the accelerator and the requests'
\* deadlines promise nothing.  A terminated stream ends its receive loop even
\* when messages are left, as Recv's select chooses at random.
FairSpec ==
  /\ Spec
  /\ \A o \in Objs : WF_vars(Session(o)) /\ WF_vars(Terminate(o))
  /\ \A k \in Calls : WF_vars(Serve(k))

-----------------------------------------------------------------------------
\* Properties

Busy(k) == call[k].pc \notin {"idle", "done"}

\* A poller is given every candidate of its session exactly once and in order,
\* although other calls read the same queue and take their answers out of it: the
\* polls' batches follow each other and miss nothing up to its cursor.
PollLossless ==
  \A k \in Calls : call[k].op = "poll" /\ call[k].obj # Nobody =>
    LET got == call[k].got IN
    /\ UNION {got[j] : j \in DOMAIN got}
         = {n \in heard[call[k].obj] : call[k].from < n /\ n <= call[k].cursor}
    /\ \A i, j \in DOMAIN got : i < j => \A m \in got[i], n \in got[j] : m < n

\* evictIfCurrent: the end of a session's stream never takes another session
\* out of the map; only calls on the id do.
LateTerminationHarmless ==
  [][\A i \in Ids : \A o \in Objs : table[i] = o /\ table'[i] # o =>
       \/ life[o] # "closed" /\ life'[o] = "closed"
       \/ \E k \in Calls : /\ call[k].id = i /\ call[k].pc \in {"lookup", "remove"}
                           /\ call'[k].victim = o]_vars

\* No upstream stream leaks: an open session can be found under its id, or a
\* call is about to install it or to shut it down.
NoOrphan ==
  \A o \in Objs : life[o] = "open" =>
    \/ table[idOf[o]] = o
    \/ \E k \in Calls : \/ call[k].obj = o /\ At(k, "install")
                        \/ call[k].victim = o /\ call[k].pc \in {"evict", "shut"}
    \/ ~upstream[o]

\* A session is lost neither to those who hold its stream nor to those who look for it:
\* no step orphans a stream, and none takes a living session out of the table.
SessionsAreFound == [][NoOrphan']_vars /\ LateTerminationHarmless

\* No lost wakeup: a call that sleeps while its session holds something newer
\* than it has read, or is closed, wakes.
WaitersWake ==
  \A k \in Calls :
    At(k, "asleep") /\ (life[call[k].obj] = "closed" \/ NewEvents(k) # {})
      ~> ~At(k, "asleep")

\* A session that ended releases everything: it leaves the map although it may
\* have been installed after its end, and the calls on it return.
DeadSessionReleased ==
  \A o \in Objs :
    life[o] = "closed" ~> /\ \A i \in Ids : table[i] # o
                          /\ \A k \in Calls : call[k].obj = o => ~Busy(k)
=============================================================================

--------------------------- MODULE ControlChannel ---------------------------
(***************************************************************************)
(* ControlChannelService, the browser's request/response client over the   *)
(* "control" data channels, with the WebRTC service that announces these   *)
(* channels and the accelerator that answers on them.  The browser runs    *)
(* one task at a time: a step is one task, or one message's way through    *)
(* the accelerator.                                                        *)
(***************************************************************************)
EXTENDS Naturals, FiniteSets, Functions, SequencesExt, Subsequence

CONSTANTS
  Channels,  \* the control data channels the page creates, one per session
  Requests,  \* the calls of sendRequest
  MaxParts,  \* bound: how many chunks a response takes at most
  MaxOthers, \* bound: other messages a session numbers between two answers
  MaxInFlight,  \* MAX_IN_FLIGHT_MESSAGES
  None       \* no channel

ASSUME ChannelAssumption ==
  /\ None \notin Channels
  /\ MaxParts \in Nat \ {0} /\ MaxInFlight \in Nat \ {0} /\ MaxOthers \in Nat

VARIABLES
  state,      \* readyState; "removed": closing, and no longer in controlChannels;
              \* "failing": closed by an error, its close event still due
  inbox,      \* per channel, the requests on their way to the accelerator
  down,       \* per channel, the response chunks on their way back
  nextId,     \* per session, outgoing_message_id, which all its channels share
  channel,    \* this.channel
  listeners,  \* per channel, its "message" listeners, 2 standing for 2 or more
  partial,    \* this.reassembler: the chunks of unfinished messages
  order,      \* its inFlightOrder: the ids of these messages, oldest first
  queue,      \* this.queue
  req,        \* per call: its promise; "pending" while it is in this.pending
  via,        \* per call: the channel it was sent on
  sends,      \* history: how often its dispatch sent it
  lost        \* history: calls whose answer was not sent whole, or was thrown away or mixed
              \* up by the reassembler

wires   == <<state, inbox, down, nextId>>
service == <<channel, listeners, partial, order, queue>>
calls   == <<req, via, sends>>
channelVars == <<wires, service, calls, lost>>

Chunks == [id : Nat, from : Requests, part : 1 .. MaxParts, of : 1 .. MaxParts]

ControlTypeOK ==
  /\ state \in [Channels -> {"new", "open", "closing", "removed", "failing", "closed"}]
  /\ inbox \in [Channels -> Seq(Requests)]
  /\ down \in [Channels -> Seq(Chunks)]
  /\ nextId \in [Channels -> Nat]
  /\ channel \in Channels \cup {None}
  /\ listeners \in [Channels -> 0 .. 2]
  /\ partial \in SUBSET Chunks
  /\ order \in Seq(Nat) /\ IsInjective(order) /\ ToSet(order) = {k.id : k \in partial}
  /\ queue \in Seq(Requests)
  /\ req \in [Requests -> {"new", "pending", "resolved", "rejected", "timedout"}]
  /\ via \in [Requests -> Channels \cup {None}]
  /\ sends \in [Requests -> Nat]
  /\ lost \subseteq Requests

ChannelInit ==
  /\ state = [c \in Channels |-> "new"]
  /\ inbox = [c \in Channels |-> <<>>]
  /\ down = [c \in Channels |-> <<>>]
  /\ nextId = [c \in Channels |-> 0]
  /\ channel = None
  /\ listeners = [c \in Channels |-> 0]
  /\ partial = {} /\ order = <<>>
  /\ queue = <<>>
  /\ req = [r \in Requests |-> "new"]
  /\ via = [r \in Requests |-> None]
  /\ sends = [r \in Requests |-> 0]
  /\ lost = {}

Ready == channel # None /\ state[channel] = "open"
Pending == {r \in Requests : req[r] = "pending"}

-----------------------------------------------------------------------------
\* The calls.  Where dispatch sends, `fails' are the calls for which send throws.

Occurrences(r, rs) == Cardinality({i \in DOMAIN rs : rs[i] = r})

\* The dispatch closures of the sequence rs run against the open channel c; up is
\* what the channels carry before.
Dispatched(rs, c, up, fails) ==
  LET sent == Filtered(rs, {i \in DOMAIN rs : rs[i] \notin fails}) IN
  /\ inbox' = [up EXCEPT ![c] = @ \o sent]
  /\ via' = [r \in Requests |-> IF r \in ToSet(sent) THEN c ELSE via[r]]
  /\ sends' = [r \in Requests |-> sends[r] + Occurrences(r, sent)]
  /\ req' = [r \in Requests |-> IF r \in ToSet(rs) \cap fails \cap Pending THEN "rejected" ELSE req[r]]

Call(r) ==
  /\ req[r] = "new"
  /\ IF Ready
     THEN \/ /\ req' = [req EXCEPT ![r] = "pending"]
             /\ inbox' = [inbox EXCEPT ![channel] = Append(@, r)]
             /\ via' = [via EXCEPT ![r] = channel]
             /\ sends' = [sends EXCEPT ![r] = @ + 1]
             /\ UNCHANGED queue
          \/ req' = [req EXCEPT ![r] = "rejected"] /\ UNCHANGED <<inbox, via, sends, queue>>
     ELSE /\ req' = [req EXCEPT ![r] = "pending"]
          /\ queue' = Append(queue, r)
          /\ UNCHANGED <<inbox, via, sends>>
  /\ UNCHANGED <<state, down, nextId, channel, listeners, partial, order, lost>>

\* The 15 s timer of a call; its dispatch closure stays where it is.
Timeout(r) ==
  /\ req[r] = "pending"
  /\ req' = [req EXCEPT ![r] = "timedout"]
  /\ UNCHANGED <<wires, service, via, sends, lost>>

-----------------------------------------------------------------------------
\* The channels come and go.

\* A new ChunkReassembler.
Reassembles == partial' = {} /\ order' = <<>> /\ lost' = lost \cup {k.from : k \in partial}

\* Fault: the queue is walked but not emptied.
AttachKeepsQueue(c, rs, up, fails) ==
  /\ channel' = c
  /\ listeners' = [listeners EXCEPT ![c] = IF @ = 2 THEN 2 ELSE @ + 1]
  /\ Reassembles
  /\ queue' = rs
  /\ Dispatched(rs, c, up, fails)

\* attachChannel for a channel that is not the current one; rs is what it and its
\* caller flush.
Attach(c, rs, up, fails) ==
  /\ channel' = c
  /\ listeners' = [listeners EXCEPT ![c] = IF @ = 2 THEN 2 ELSE @ + 1]
  /\ Reassembles
  /\ queue' = <<>>
  /\ Dispatched(rs, c, up, fails)

\* A channel opens and notifyOpen hands it to the service; it is not the current one.
Opens(c) ==
  /\ state[c] = "new"
  /\ state' = [state EXCEPT ![c] = "open"]
  /\ \E fails \in SUBSET ToSet(queue) : Attach(c, queue, inbox, fails)
  /\ UNCHANGED <<down, nextId>>

\* onChannelChange(_, null), whichever channel it is about; st and up are the
\* channels' new states and what they still carry.
Nulled(st, up) ==
  LET others == {c \in Channels : st[c] = "open"} IN
  IF channel = None
  THEN inbox' = up /\ UNCHANGED <<service, calls, lost>>
  ELSE \/ \E c \in others, fails \in SUBSET ToSet(queue) : Attach(c, queue, up, fails)
       \/ /\ others = {}
          /\ channel' = None /\ Reassembles /\ queue' = <<>>
          /\ req' = [r \in Requests |-> IF r \in Pending THEN "rejected" ELSE req[r]]
          /\ inbox' = up
          /\ UNCHANGED <<listeners, via, sends>>

\* What a channel carries is gone when it leaves the open state.
Leaves(c, s) ==
  /\ state' = [state EXCEPT ![c] = s]
  /\ down' = [down EXCEPT ![c] = <<>>]
  /\ UNCHANGED nextId

\* The accelerator or the transport closes a channel: no event yet.
Closing(c) ==
  /\ state[c] = "open"
  /\ Leaves(c, "closing")
  /\ inbox' = [inbox EXCEPT ![c] = <<>>]
  /\ UNCHANGED <<service, calls, lost>>

\* cleanupSession: close(), the entry removed, the listeners told.
CleansUp(c) ==
  /\ state[c] \in {"new", "open", "closing"}
  /\ Leaves(c, "removed")
  /\ Nulled(state', [inbox EXCEPT ![c] = <<>>])

\* An error closes a channel: the error event calls notifyClose, and the close
\* event that follows calls it again.
ErrorEvent(c) ==
  /\ state[c] \in {"new", "open", "closing", "removed"}
  /\ Leaves(c, "failing")
  /\ Nulled(state', [inbox EXCEPT ![c] = <<>>])

CloseEvent(c) ==
  /\ state[c] \in {"closing", "removed", "failing"}
  /\ Leaves(c, "closed")
  /\ Nulled(state', inbox)

-----------------------------------------------------------------------------
\* The answers.

\* PackMessage and SendFramed: the first m of the n chunks of the response to r.
Framed(r, id, n, m) ==
  [i \in 1 .. m |-> [id |-> id, from |-> r, part |-> i, of |-> n]]

\* HandleControlMessage: no response (a request that does not parse or is not complete, a
\* response that does not serialize or fit), or one framed under the session's next id,
\* where a send that fails ends it midway.
Answer(c) ==
  LET r == Head(inbox[c]) IN
  /\ state[c] = "open" /\ inbox[c] # <<>>
  /\ inbox' = [inbox EXCEPT ![c] = Tail(@)]
  /\ \/ UNCHANGED <<down, nextId>> /\ lost' = lost \cup {r}
     \/ \E others \in 0 .. MaxOthers, n \in 1 .. MaxParts : \E m \in 1 .. n :
          /\ nextId' = [nextId EXCEPT ![c] = @ + others + 1]
          /\ down' = [down EXCEPT ![c] = @ \o Framed(r, nextId'[c], n, m)]
          /\ lost' = IF m = n THEN lost ELSE lost \cup {r}
  /\ UNCHANGED <<state, service, calls>>

\* pushChunk: the chunks of its message that are there before k is pushed.
Slots(k) == {x \in partial : x.id = k.id}
Fits(k) == \A x \in Slots(k) : x.part # k.part /\ x.of = k.of

\* Fault: a message is complete one chunk too late.
CompletesLate(k) == Fits(k) /\ Cardinality(Slots(k)) = k.of

Completes(k) == Fits(k) /\ Cardinality(Slots(k)) + 1 = k.of

\* At the limit the first chunk of a message evicts the oldest unfinished one, also if
\* the message has no other chunk.
Evicts(k) == Slots(k) = {} /\ Len(order) >= MaxInFlight
Evicted(k) == {x \in partial : Evicts(k) /\ x.id = Head(order)}
Begun(k) ==
  LET kept == IF Evicts(k) THEN Tail(order) ELSE order IN
  IF Slots(k) = {} THEN Append(kept, k.id) ELSE kept

\* What a public method makes of the response to its request: a payload of the kind asked
\* for, or an error, another kind, a camera stream not accepted.
Unwrapped == {"resolved", "rejected"}

\* A chunk reaches the listeners.  A second listener finds a chunk that was kept to be
\* a duplicate, and begins a message anew with one that completed a message.
Deliver(c) ==
  /\ state[c] = "open" /\ down[c] # <<>>
  /\ LET k == Head(down[c])
         whole == Slots(k) \cup {k}
         origins == {x.from : x \in whole}
         first == CHOOSE x \in whole : x.part = 1
         again == IF listeners[c] = 2 /\ k.of > 1 THEN {k} ELSE {}
         evicted == {x.from : x \in Evicted(k)}
     IN
     \/ ~Fits(k) /\ UNCHANGED <<partial, order, req>> /\ lost' = lost \cup {k.from}
     \/ /\ Fits(k) /\ ~Completes(k)
        /\ partial' = (partial \ Evicted(k)) \cup {k} /\ order' = Begun(k)
        /\ lost' = lost \cup evicted /\ UNCHANGED req
     \/ /\ Completes(k)
        /\ partial' = (partial \ (Evicted(k) \cup Slots(k))) \cup again
        /\ order' = Remove(Begun(k), k.id) \o (IF again = {} THEN <<>> ELSE <<k.id>>)
        /\ \/ /\ \E v \in Unwrapped :
                  req' = [req EXCEPT ![first.from] = IF @ = "pending" THEN v ELSE @]
              /\ lost' = lost \cup evicted \cup (IF origins = {first.from} THEN {} ELSE origins)
           \/ \* the chunks of two responses need not decode
              /\ origins # {first.from}
              /\ lost' = lost \cup evicted \cup origins /\ UNCHANGED req
  /\ down' = [down EXCEPT ![c] = Tail(@)]
  /\ UNCHANGED <<state, inbox, nextId, channel, listeners, queue, via, sends>>

\* The 5 s timer of an unfinished message.
AssemblyTimeout ==
  \E id \in ToSet(order) :
    /\ partial' = {k \in partial : k.id # id} /\ order' = Remove(order, id)
    /\ lost' = lost \cup {k.from : k \in {x \in partial : x.id = id}}
    /\ UNCHANGED <<wires, channel, listeners, queue, calls>>

ChannelNext ==
  \/ \E r \in Requests : Call(r) \/ Timeout(r)
  \/ \E c \in Channels : \/ Opens(c) \/ Closing(c) \/ CleansUp(c) \/ ErrorEvent(c)
                         \/ CloseEvent(c) \/ Answer(c) \/ Deliver(c)
  \/ AssemblyTimeout

ChannelSpec == ChannelInit /\ [][ChannelNext]_channelVars

-----------------------------------------------------------------------------
\* A call goes out at most once, and never again after it was sent: flushes, fallbacks
\* and closes hand its dispatch closure on without running it twice.
SentOnce ==
  \A r \in Requests : sends[r] + Occurrences(r, queue) <= 1

\* The answer of a pending call, if the accelerator sent it whole, is lost only to a reset of
\* the reassembler, its timer, its limit or a clash of ids: never because its channel was
\* replaced, announced twice or is no longer the current one.
AnswersArrive ==
  \A r \in Pending : \A c \in Channels :
    (via[r] = c /\ state[c] = "open") =>
      \/ r \in ToSet(inbox[c]) \cup {down[c][i].from : i \in DOMAIN down[c]}
      \/ r \in lost
=============================================================================

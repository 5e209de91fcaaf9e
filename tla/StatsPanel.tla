------------------------------ MODULE StatsPanel ------------------------------
(***************************************************************************)
(* What the page says of the cards and their connections: the badge of     *)
(* each card, and the panel that shows the details of the selected card    *)
(* and a row for the frame transport, gRPC and WebRTC.  The rows are read  *)
(* at once when the transport changes and every 2 s after that, by an      *)
(* interval that keeps the transport it was armed for.  The rows of gRPC   *)
(* and WebRTC, read with the other and of services that stay the same, are *)
(* left out.  A click finds the last one committed; VideoGrid has the      *)
(* steps in between.                                                       *)
(***************************************************************************)
EXTENDS Integers, FiniteSetsExt

CONSTANTS
  LastCard,        \* bound: cards that are added
  ConnectionState  \* the states of a connection, normalized

ASSUME StatsAssumption ==
  LastCard \in Nat \ {0} /\ {"disconnected", "connecting"} \subseteq ConnectionState

VARIABLES
  sources,           \* the cards by their numbers, which are in the order they were added
  kind,              \* of each card its type; only a local camera has no transport, a remote one
                     \* is as a picture is
  built,             \* the number of the newest card
  selectedSourceId,  \* the selected card, 0 for null
  collapsed,         \* cards whose badge is collapsed
  wire,              \* the state of each card's transport
  watched,           \* selectedTransportService for which the effect ran last, 0 for null
  intervals,         \* the intervals armed, as the transport each of them reads
  connections,       \* the row of the frames: the transport read and its state
  expanded           \* the panel is

cardVars == <<sources, kind, built, selectedSourceId, collapsed>>
rowVars == <<watched, intervals, connections, expanded>>
statsVars == <<cardVars, wire, rowVars>>

SourceIds == 1 .. LastCard
SourceTypes == {"camera", "static"}

\* What a transport of null is taken to report.
StateOf(t) == IF t = 0 THEN "disconnected" ELSE wire[t]

UpdateConnections(t) ==
  connections' = [of |-> t, state |-> StateOf(t)]

StatsInit ==
  /\ sources = {} /\ kind = [n \in SourceIds |-> "static"] /\ built = 0
  /\ selectedSourceId = 0 /\ collapsed = {}
  /\ wire = [n \in SourceIds |-> "disconnected"]
  /\ watched = 0 /\ intervals = {0} /\ expanded = TRUE
  /\ connections = [of |-> 0, state |-> "disconnected"]

-----------------------------------------------------------------------------
\* activeTransportService: that of the selected card, or else of the first that has one.
HasTransport(n) == kind[n] # "camera"
ActiveTransport ==
  LET wired == {n \in sources : HasTransport(n)}
  IN  IF selectedSourceId \in wired THEN selectedSourceId
      ELSE IF wired = {} THEN 0 ELSE Min(wired)

\* Fault: the interval of the last run stays.
RearmedOnly ==
  /\ watched # ActiveTransport /\ watched' = ActiveTransport
  /\ intervals' = intervals \cup {ActiveTransport}
  /\ UpdateConnections(ActiveTransport)
  /\ UNCHANGED <<cardVars, wire, expanded>>

\* The effect of the panel, some time after a render with another transport: the interval
\* of the last run is cleared.
Rearmed ==
  /\ watched # ActiveTransport /\ watched' = ActiveTransport
  /\ intervals' = (intervals \ {watched}) \cup {ActiveTransport}
  /\ UpdateConnections(ActiveTransport)
  /\ UNCHANGED <<cardVars, wire, expanded>>

IntervalFires ==
  /\ \E t \in intervals : UpdateConnections(t)
  /\ UNCHANGED <<cardVars, wire, watched, intervals, expanded>>

\* A click into the panel, on the badge in it too, whose own toggle does nothing.
Collapse ==
  expanded /\ expanded' = FALSE /\ UNCHANGED <<cardVars, wire, watched, intervals, connections>>

Expand ==
  ~expanded /\ expanded' = TRUE /\ UNCHANGED <<cardVars, wire, watched, intervals, connections>>

-----------------------------------------------------------------------------
\* A new card is selected if it is the only one; its transport connects at once.
AddCard(type) ==
  /\ built < LastCard /\ built' = built + 1
  /\ sources' = sources \cup {built'}
  /\ kind' = [kind EXCEPT ![built'] = type]
  /\ selectedSourceId' = IF sources = {} THEN built' ELSE selectedSourceId
  /\ wire' = [wire EXCEPT ![built'] = IF type = "camera" THEN "disconnected" ELSE "connecting"]
  /\ UNCHANGED <<collapsed, rowVars>>

\* A click on the card, but not on its badge or its buttons, which keep it to themselves.
ClickCard(n) ==
  /\ selectedSourceId' = n
  /\ UNCHANGED <<sources, kind, built, collapsed, wire, rowVars>>

ClickBadge(n) ==
  /\ collapsed' = IF n \in collapsed THEN collapsed \ {n} ELSE collapsed \cup {n}
  /\ UNCHANGED <<sources, kind, built, selectedSourceId, wire, rowVars>>

\* The card goes, its badge with it; the first of those that stay is selected instead.
Close(n) ==
  /\ sources' = sources \ {n}
  /\ collapsed' = collapsed \ {n}
  /\ wire' = [wire EXCEPT ![n] = "disconnected"]
  /\ UNCHANGED <<kind, built, rowVars>>

\* Fault: the click goes on to the card.
ClickCloseBubbles(n) == Close(n) /\ selectedSourceId' = n

ClickClose(n) ==
  /\ Close(n)
  /\ selectedSourceId' =
       IF selectedSourceId # n THEN selectedSourceId
       ELSE IF sources' = {} THEN 0 ELSE Min(sources')

-----------------------------------------------------------------------------
\* A transport connects, breaks and fails as FrameTransport has it, also when its card is
\* gone and an attempt to connect is not.
WireMoves(n, s) ==
  /\ n <= built /\ HasTransport(n)
  /\ wire' = [wire EXCEPT ![n] = s]
  /\ UNCHANGED <<cardVars, rowVars>>

StatsNext ==
  \/ Rearmed \/ IntervalFires \/ Collapse \/ Expand
  \/ \E type \in SourceTypes : AddCard(type)
  \/ \E n \in sources : ClickCard(n) \/ ClickBadge(n) \/ ClickClose(n)
  \/ \E s \in ConnectionState, n \in SourceIds : WireMoves(n, s)

-----------------------------------------------------------------------------
\* The row of the frames is read from the transport in use, from the effect that follows a
\* change until the next: an interval of a former transport does not write over it, and
\* without a transport the row does not go on saying that there is a connection.
RowIsOfTransport ==
  watched = ActiveTransport =>
    /\ connections.of = ActiveTransport
    /\ ActiveTransport = 0 => connections.state = "disconnected"

\* The details are of a card on the page: none is selected that a click on one of its own
\* buttons has closed, and there is no choice only if there is no card.
SelectionIsOnPage ==
  IF sources = {} THEN selectedSourceId = 0 ELSE selectedSourceId \in sources
=============================================================================

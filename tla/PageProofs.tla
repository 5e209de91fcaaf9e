------------------------------- MODULE PageProofs -------------------------------
(***************************************************************************)
(* What the page keeps, for every number of cards, filters, flags,         *)
(* channels and calls under way, every window and every place an element   *)
(* can have.  Its views: the tooltip of the tour is on the screen, the     *)
(* grid's selection and its panel agree, the panel lists what is offered   *)
(* and keeps the filters of every card, a closed card leaves nothing open  *)
(* behind it, the rows of the flags are those of the backend, the row of   *)
(* the frames is of the transport in use, the details are of a card on the *)
(* page, the bar has one thing open, and nothing disturbs an upload.  The  *)
(* control channel the views' calls go out on: none goes out twice, and no *)
(* answer is forgotten.                                                    *)
(***************************************************************************)
EXTENDS Views, FiniteSetTheorems, WellFoundedInduction, TLAPS

-----------------------------------------------------------------------------
\* Sequences.

\* Each of the positions P is the n-th for one n.
LEMMA Positions ==
  ASSUME NEW P \in SUBSET Nat, IsFiniteSet(P)
  PROVE  /\ \A n \in 1 .. Cardinality(P) : Nth(P, n) \in P
         /\ \A i \in P : \E n \in 1 .. Cardinality(P) : Nth(P, n) = i
         /\ \A m, n \in 1 .. Cardinality(P) : Nth(P, m) = Nth(P, n) => m = n
<1> DEFINE upTo(i) == {j \in P : j <= i}
           rank == [i \in P |-> Cardinality(upTo(i))]
           N == Cardinality(P)
<1>1. N \in Nat /\ IsFiniteSet(1 .. N) /\ Cardinality(1 .. N) = N
  BY FS_CardinalityType, FS_Interval
<1>2. ASSUME NEW i \in P PROVE IsFiniteSet(upTo(i)) /\ Cardinality(upTo(i)) \in 1 .. N
  <2>1. IsFiniteSet(upTo(i)) /\ Cardinality(upTo(i)) <= N
    BY FS_Subset
  <2>2. Cardinality(upTo(i)) \in Nat /\ Cardinality(upTo(i)) # 0
    <3>1. i \in upTo(i)
      OBVIOUS
    <3> QED BY <2>1, <3>1, FS_CardinalityType, FS_EmptySet
  <2> QED BY <1>1, <2>1, <2>2
<1>3. ASSUME NEW i \in P, NEW k \in P, i < k PROVE rank[i] # rank[k]
  <2>1. upTo(i) \in SUBSET upTo(k) /\ k \in upTo(k) /\ k \notin upTo(i)
    <3>1. i \in Nat /\ k \in Nat /\ \A j \in P : j \in Nat
      OBVIOUS
    <3>2. ASSUME NEW j \in upTo(i) PROVE j \in upTo(k)
      <4>1. j \in P /\ j \in Nat /\ j <= i
        BY <3>1
      <4> QED BY <1>3, <3>1, <4>1
    <3>3. k \in upTo(k) /\ k \notin upTo(i)
      BY <1>3, <3>1
    <3> HIDE DEF upTo
    <3> QED BY <3>2, <3>3
  <2>2. Cardinality(upTo(k)) # Cardinality(upTo(i))
    <3> HIDE DEF upTo
    <3> QED BY <1>2, <2>1, FS_Subset
  <2> QED BY <2>2
<1>4. rank \in [P -> 1 .. N]
  BY <1>2
<1> HIDE DEF rank
<1>5. IsInjective(rank)
  <2> SUFFICES ASSUME NEW i \in P, NEW k \in P, rank[i] = rank[k] PROVE i = k
    BY <1>4 DEF IsInjective
  <2>1. i \in Nat /\ k \in Nat /\ ~(i < k) /\ ~(k < i)
    BY <1>3
  <2> QED BY <2>1
<1>6. rank \in Surjection(P, 1 .. N)
  <2>1. rank \in Injection(P, 1 .. N)
    BY <1>4, <1>5 DEF Injection
  <2> QED BY <1>1, <2>1, FS_Injection
<1>7. \A n \in 1 .. N : \E i \in P : rank[i] = n
  BY <1>6 DEF Surjection
<1>8. \A i \in P, n \in 1 .. N : rank[i] = n <=> Cardinality({j \in P : j <= i}) = n
  BY DEF rank
<1>9. ASSUME NEW n \in 1 .. N PROVE Nth(P, n) \in P /\ rank[Nth(P, n)] = n
  BY <1>7, <1>8 DEF Nth
<1>10. ASSUME NEW i \in P PROVE rank[i] \in 1 .. N /\ Nth(P, rank[i]) = i
  <2>1. rank[i] \in 1 .. N
    BY <1>4
  <2>2. Nth(P, rank[i]) \in P /\ rank[Nth(P, rank[i])] = rank[i]
    BY <1>9, <2>1
  <2> QED BY <1>4, <1>5, <2>1, <2>2 DEF IsInjective
<1> QED BY <1>9, <1>10

\* What filter keeps.
LEMMA FilteredElements ==
  ASSUME NEW S, NEW s \in Seq(S), NEW P \in SUBSET (DOMAIN s)
  PROVE  /\ Filtered(s, P) \in Seq(S)
         /\ \A i \in P : s[i] \in ToSet(Filtered(s, P))
         /\ \A x \in ToSet(Filtered(s, P)) : \E i \in P : x = s[i]
         /\ IsInjective(s) => IsInjective(Filtered(s, P))
<1> DEFINE N == Cardinality(P)
<1>1. Len(s) \in Nat /\ DOMAIN s = 1 .. Len(s)
  OBVIOUS
<1>2. P \in SUBSET Nat /\ IsFiniteSet(P) /\ N \in Nat
  <2>1. IsFiniteSet(1 .. Len(s)) /\ P \in SUBSET (1 .. Len(s))
    BY <1>1, FS_Interval
  <2> QED BY <2>1, FS_Subset, FS_CardinalityType
<1>3. Filtered(s, P) = [n \in 1 .. N |-> s[Nth(P, n)]]
  BY DEF Filtered
<1>4. \A n \in 1 .. N : Nth(P, n) \in P
  BY <1>2, Positions
<1>5. \A i \in P : \E n \in 1 .. N : Nth(P, n) = i
  BY <1>2, Positions
<1>6. \A m, n \in 1 .. N : Nth(P, m) = Nth(P, n) => m = n
  BY <1>2, Positions
<1>7. \A i \in P : i \in DOMAIN s /\ s[i] \in S
  OBVIOUS
<1> HIDE DEF N
<1>8. Filtered(s, P) \in Seq(S)
  <2>1. Filtered(s, P) \in [1 .. N -> S]
    BY <1>3, <1>4, <1>7
  <2> QED BY <1>2, <2>1
<1>9. ASSUME NEW i \in P PROVE s[i] \in ToSet(Filtered(s, P))
  BY <1>3, <1>5 DEF ToSet
<1>10. ASSUME NEW x \in ToSet(Filtered(s, P)) PROVE \E i \in P : x = s[i]
  BY <1>3, <1>4 DEF ToSet
<1>11. ASSUME IsInjective(s) PROVE IsInjective(Filtered(s, P))
  BY <1>3, <1>4, <1>6, <1>7, <1>11 DEF IsInjective
<1> QED BY <1>8, <1>9, <1>10, <1>11

\* What concatenation keeps.
LEMMA InBoth ==
  ASSUME NEW S, NEW s \in Seq(S), NEW t \in Seq(S)
  PROVE  ToSet(s \o t) = ToSet(s) \cup ToSet(t)
<1>1. /\ Len(s) \in Nat /\ Len(t) \in Nat /\ Len(s \o t) = Len(s) + Len(t)
      /\ DOMAIN s = 1 .. Len(s) /\ DOMAIN t = 1 .. Len(t) /\ DOMAIN (s \o t) = 1 .. Len(s) + Len(t)
      /\ \A i \in 1 .. Len(s) + Len(t) : (s \o t)[i] = IF i <= Len(s) THEN s[i] ELSE t[i - Len(s)]
  OBVIOUS
<1>2. ASSUME NEW i \in DOMAIN s PROVE i \in DOMAIN (s \o t) /\ (s \o t)[i] = s[i]
  BY <1>1
<1>3. ASSUME NEW i \in DOMAIN t PROVE Len(s) + i \in DOMAIN (s \o t) /\ (s \o t)[Len(s) + i] = t[i]
  BY <1>1
<1>4. ASSUME NEW i \in DOMAIN (s \o t)
      PROVE  \/ i \in DOMAIN s /\ (s \o t)[i] = s[i]
             \/ i - Len(s) \in DOMAIN t /\ (s \o t)[i] = t[i - Len(s)]
  BY <1>1
<1>5. ASSUME NEW x \in ToSet(s) \cup ToSet(t) PROVE x \in ToSet(s \o t)
  <2>1. CASE x \in ToSet(s)
    <3>1. PICK i \in DOMAIN s : x = s[i]
      BY <2>1 DEF ToSet
    <3> QED BY <1>2, <3>1 DEF ToSet
  <2>2. CASE x \in ToSet(t)
    <3>1. PICK i \in DOMAIN t : x = t[i]
      BY <2>2 DEF ToSet
    <3> QED BY <1>3, <3>1 DEF ToSet
  <2> QED BY <2>1, <2>2
<1>6. ASSUME NEW x \in ToSet(s \o t) PROVE x \in ToSet(s) \cup ToSet(t)
  <2>1. PICK i \in DOMAIN (s \o t) : x = (s \o t)[i]
    BY DEF ToSet
  <2> QED BY <1>4, <2>1 DEF ToSet
<1> QED BY <1>5, <1>6

\* The first element and the others.
LEMMA FirstAndRest ==
  ASSUME NEW S, NEW s \in Seq(S), s # << >>
  PROVE  /\ Head(s) \in S /\ Tail(s) \in Seq(S)
         /\ ToSet(s) = ToSet(Tail(s)) \cup {Head(s)}
         /\ \A i \in DOMAIN Tail(s) : i + 1 \in DOMAIN s /\ Tail(s)[i] = s[i + 1]
         /\ 1 \in DOMAIN s /\ Head(s) = s[1]
<1>1. /\ Head(s) \in S /\ Tail(s) \in Seq(S) /\ 1 \in DOMAIN s /\ Head(s) = s[1]
      /\ Len(s) \in Nat \ {0} /\ DOMAIN s = 1 .. Len(s) /\ DOMAIN Tail(s) = 1 .. Len(s) - 1
      /\ \A i \in 1 .. Len(s) - 1 : Tail(s)[i] = s[i + 1]
  OBVIOUS
<1>2. ASSUME NEW i \in DOMAIN s PROVE i = 1 \/ (i - 1 \in DOMAIN Tail(s) /\ Tail(s)[i - 1] = s[i])
  <2>1. CASE i # 1
    <3>1. i - 1 \in 1 .. Len(s) - 1 /\ i - 1 + 1 = i
      BY <1>1, <2>1
    <3> QED BY <1>1, <3>1
  <2> QED BY <2>1
<1>3. \A i \in DOMAIN Tail(s) : i + 1 \in DOMAIN s /\ Tail(s)[i] = s[i + 1]
  BY <1>1
<1>4. ToSet(s) = ToSet(Tail(s)) \cup {Head(s)}
  <2>1. ASSUME NEW x \in ToSet(s) PROVE x \in ToSet(Tail(s)) \cup {Head(s)}
    <3>1. PICK i \in DOMAIN s : x = s[i]
      BY DEF ToSet
    <3> QED BY <1>1, <1>2, <3>1 DEF ToSet
  <2>2. ASSUME NEW x \in ToSet(Tail(s)) PROVE x \in ToSet(s)
    <3>1. PICK i \in DOMAIN Tail(s) : x = Tail(s)[i]
      BY DEF ToSet
    <3> QED BY <1>3, <3>1 DEF ToSet
  <2>3. Head(s) \in ToSet(s)
    BY <1>1 DEF ToSet
  <2> QED BY <2>1, <2>2, <2>3
<1> QED BY <1>1, <1>3, <1>4

-----------------------------------------------------------------------------
\* The tour.
\* The tooltip is where calculateTooltipPosition puts it for the element, whenever the
\* element is on the page.
TooltipPlaced ==
  tour = "active" /\ target # Nowhere => tooltip = Position(viewport, target, step)

\* The parts of the state that the geometry depends on.
TourTypeOK ==
  /\ viewport \in Viewports
  /\ target \in Targets \cup {Nowhere} /\ fallback \in Targets

TourInv == TourTypeOK /\ TooltipPlaced

-----------------------------------------------------------------------------
\* calculateTooltipPosition keeps the tooltip on a screen that has room for it and shows
\* a part of the element.
LEMMA PositionOnScreen ==
  ASSUME NEW v, v.width \in Nat, v.height \in Nat, NEW s,
         v.width >= Width + 2 * Margin, v.height >= Height + 2 * Margin,
         NEW rect, rect.top \in Int, rect.left \in Int, rect.width \in Nat, rect.height \in Nat,
         rect.left <= v.width, rect.left + rect.width >= 0,
         rect.top <= v.height, rect.top + rect.height >= 0
  PROVE  LET p == Position(v, rect, s) IN
         /\ p.left >= 0 /\ p.left + Width <= v.width
         /\ p.top >= 0 /\ p.top + Height <= v.height
<1>1. ASSUME NEW x \in Int PROVE InX(v, x) \in Margin .. v.width - Width - Margin
  BY DEF InX, Within, Width, Margin
<1>2. ASSUME NEW y \in Int PROVE InY(v, y) \in Margin .. v.height - Height - Margin
  BY DEF InY, Within, Height, Margin
<1>3. Centered(v, rect) \in Margin .. v.width - Width - Margin
  <2>1. rect.left + rect.width \div 2 - Width \div 2 \in Int
    BY DEF Width
  <2> QED BY <2>1, <1>1 DEF Centered
<1>4. Middle(v, rect) \in Margin .. v.height - Height - Margin
  <2>1. rect.top + rect.height \div 2 - Height \div 2 \in Int
    BY DEF Height
  <2> QED BY <2>1, <1>2 DEF Middle
<1>5. InY(v, rect.top - Height - Margin) \in Margin .. v.height - Height - Margin
  BY <1>2 DEF Height, Margin
<1>6. InY(v, v.height - 20 - Height - Margin) \in Margin .. v.height - Height - Margin
  BY <1>2 DEF Height, Margin
<1>7. InX(v, v.width - 22 - Width \div 2) \in Margin .. v.width - Width - Margin
  <2>1. v.width - 22 - Width \div 2 \in Int
    BY DEF Width
  <2> QED BY <2>1, <1>1
<1>8. CASE s = LastStep
  BY <1>6, <1>7, <1>8 DEF Position, AtToggle, Width, Height, Margin
<1>9. CASE s # LastStep
  BY <1>3, <1>4, <1>5, <1>9 DEF Position, Above, RightOf, LeftOf, Below, Width, Height, Margin
<1> QED BY <1>8, <1>9

-----------------------------------------------------------------------------
\* The tooltip follows the element: every step that moves the element, the window or the
\* tour puts it anew.
THEOREM TooltipPlacedHolds == TourSpec => []TourInv
<1>1. TourInit => TourInv
  BY DEF TourInit, TourInv, TourTypeOK, TooltipPlaced
<1>2. TourInv /\ [TourNext]_tourVars => TourInv'
  <2> SUFFICES ASSUME TourInv, [TourNext]_tourVars PROVE TourInv'
    OBVIOUS
  <2>1. CASE TourStarts
    BY <2>1 DEF TourInv, TourTypeOK, TooltipPlaced, TourStarts, UpdateLayout
  <2>2. CASE NextStep
    BY <2>2 DEF TourInv, TourTypeOK, TooltipPlaced, NextStep
  <2>3. CASE Relayout
    BY <2>3 DEF TourInv, TourTypeOK, TooltipPlaced, Relayout, UpdateLayout
  <2>4. CASE Frame
    BY <2>4 DEF TourInv, TourTypeOK, TooltipPlaced, Frame
  <2>5. CASE Dismiss
    BY <2>5 DEF TourInv, TourTypeOK, TooltipPlaced, Dismiss
  <2>6. CASE UNCHANGED tourVars
    BY <2>6 DEF TourInv, TourTypeOK, TooltipPlaced, tourVars
  <2> QED BY <2>1, <2>2, <2>3, <2>4, <2>5, <2>6 DEF TourNext
<1> QED BY <1>1, <1>2, PTL DEF TourSpec

\* However the window is resized and the page scrolled, the tooltip is on a screen that
\* has room for it, whenever a part of the element is.
THEOREM TooltipAlwaysInView == TourSpec => []TooltipInView
<1>1. TourInv => TooltipInView
  <2> SUFFICES ASSUME TourInv, tour = "active", OnScreen
               PROVE  /\ tooltip.left >= 0 /\ tooltip.left + Width <= viewport.width
                      /\ tooltip.top >= 0 /\ tooltip.top + Height <= viewport.height
    BY DEF TooltipInView
  <2>1. target \in Targets /\ viewport \in Viewports /\ tooltip = Position(viewport, target, step)
    BY DEF TourInv, TourTypeOK, TooltipPlaced, OnScreen
  <2>2. viewport.width \in Nat /\ viewport.height \in Nat
    BY <2>1, TourAssumption
  <2>3. target.top \in Int /\ target.left \in Int /\ target.width \in Nat /\ target.height \in Nat
    BY <2>1, TourAssumption
  <2> QED BY <2>1, <2>2, <2>3, PositionOnScreen DEF OnScreen
<1> QED BY <1>1, TooltipPlacedHolds, PTL

-----------------------------------------------------------------------------
\* The dialog of feature flags.

ListCall == [seen : [Keys -> Settings] \cup {Unserved}, bySave : BOOLEAN]
SaveCall == [key : Keys, value : Settings, served : BOOLEAN]

FlagsTypeOK ==
  /\ backend \in [Keys -> Settings] /\ rows \in [Keys -> Settings] \cup {Unserved}
  /\ lists \in Seq(ListCall) /\ saves \in Seq(SaveCall)

\* What the backend has is on its way to the rows, or there.
OnItsWay ==
  \/ \E i \in DOMAIN saves : saves[i].served
  \/ lists # << >> /\ lists[1].seen \in {Unserved, backend}
  \/ lists = << >> /\ \A k \in DOMAIN rows \ edited : rows[k] = backend[k]

\* As long as lists do not meet there is one, and it brings what the backend has.
FlagsInv ==
  FlagsTypeOK /\ (~crossed => Len(lists) <= 1) /\ (~crossed /\ ~failed => OnItsWay)

\* A list or a save without one of its parts is still one.
LEMMA RemoveAtLists ==
  ASSUME NEW s \in Seq(ListCall), NEW i \in DOMAIN s
  PROVE  RemoveAt(s, i) \in Seq(ListCall) /\ (Len(s) <= 1 => RemoveAt(s, i) = << >>)
<1>1. SubSeq(s, 1, i - 1) \in Seq(ListCall) /\ SubSeq(s, i + 1, Len(s)) \in Seq(ListCall)
  OBVIOUS
<1>2. Len(s) <= 1 => SubSeq(s, 1, i - 1) = << >> /\ SubSeq(s, i + 1, Len(s)) = << >>
  OBVIOUS
<1> QED BY <1>1, <1>2 DEF RemoveAt

\* A list that is asked for by itself will bring what the backend has by then.
LEMMA LoadFlagsInv ==
  ASSUME FlagsTypeOK, NEW bySave \in BOOLEAN, LoadFlags(bySave),
         UNCHANGED <<rows, backend>>, saves' \in Seq(SaveCall), lists # << >> => crossed'
  PROVE  FlagsInv'
<1>1. lists' = Append(lists, [seen |-> Unserved, bySave |-> bySave])
  BY DEF LoadFlags
<1>2. FlagsTypeOK'
  <2>1. [seen |-> Unserved, bySave |-> bySave] \in ListCall
    BY DEF ListCall
  <2> QED BY <1>1, <2>1 DEF FlagsTypeOK
<1>3. /\ Len(lists') = Len(lists) + 1 /\ Len(lists) \in Nat
      /\ lists'[Len(lists) + 1].seen = Unserved
  BY <1>1 DEF FlagsTypeOK
<1>4. CASE lists # << >>
  BY <1>2, <1>4 DEF FlagsInv
<1>5. CASE lists = << >>
  <2>1. Len(lists') = 1 /\ lists'[1].seen = Unserved
    BY <1>3, <1>5
  <2>2. lists' # << >>
    BY <2>1
  <2> QED BY <1>2, <2>1, <2>2 DEF FlagsInv, OnItsWay
<1> QED BY <1>4, <1>5

\* The dialog asks, or a list is served, answered or fails.
LEMMA ListsInv ==
  ASSUME FlagsInv,
         \/ OpenFlags \/ Refresh
         \/ \E i \in DOMAIN lists : ListServed(i) \/ ListAnswers(i) \/ ListFails(i)
  PROVE  FlagsInv'
<1>0. /\ FlagsTypeOK /\ Len(lists) \in Nat /\ DOMAIN lists = 1 .. Len(lists)
      /\ \A i \in DOMAIN lists : lists[i] \in ListCall
  BY DEF FlagsInv, FlagsTypeOK
<1>1. CASE OpenFlags \/ Refresh
  BY <1>0, <1>1, LoadFlagsInv DEF OpenFlags, Refresh, Asks, FlagsTypeOK
<1>2. ASSUME NEW i \in DOMAIN lists, ListServed(i) PROVE FlagsInv'
  <2>1. /\ lists' = [lists EXCEPT ![i].seen = backend]
        /\ UNCHANGED <<rows, backend, saves, edited, failed, crossed>>
    BY <1>2 DEF ListServed
  <2>2. /\ Len(lists') = Len(lists) /\ DOMAIN lists' = DOMAIN lists
        /\ lists'[i].seen = backend /\ \A j \in DOMAIN lists \ {i} : lists'[j] = lists[j]
    BY <1>0, <2>1
  <2>3. FlagsTypeOK'
    <3>1. lists'[i] \in ListCall
      BY <1>0, <2>1 DEF FlagsTypeOK, ListCall
    <3> QED BY <1>0, <2>1, <2>2, <3>1 DEF FlagsTypeOK
  <2>4. ~crossed' => OnItsWay'
    <3> SUFFICES ASSUME ~crossed PROVE OnItsWay'
      BY <2>1
    <3>1. i = 1 /\ lists' # << >>
      BY <1>0, <2>2 DEF FlagsInv
    <3> QED BY <2>1, <2>2, <3>1 DEF OnItsWay
  <2> QED BY <2>1, <2>2, <2>3, <2>4 DEF FlagsInv
<1>3. ASSUME NEW i \in DOMAIN lists, ListAnswers(i) \/ ListFails(i) PROVE FlagsInv'
  <2>1. /\ lists' = RemoveAt(lists, i) /\ UNCHANGED <<backend, saves, crossed>>
        /\ rows' \in {rows, lists[i].seen}
    BY <1>3 DEF ListAnswers, ListFails, ListEnds
  <2>2. lists' \in Seq(ListCall) /\ (Len(lists) <= 1 => lists' = << >>)
    BY <1>0, <2>1, RemoveAtLists DEF FlagsTypeOK
  <2>3. FlagsTypeOK'
    <3>1. rows' \in [Keys -> Settings] \cup {Unserved}
      BY <1>0, <2>1 DEF FlagsTypeOK, ListCall
    <3> QED BY <1>0, <2>1, <2>2, <3>1 DEF FlagsTypeOK
  <2>4. ~crossed' /\ ~failed' => OnItsWay'
    <3> SUFFICES ASSUME ListAnswers(i), ~crossed, ~failed PROVE OnItsWay'
      BY <1>3, <2>1 DEF ListFails, ListAnswers
    <3>1. /\ rows' = lists[i].seen /\ edited' = {} /\ lists[i].seen # Unserved
          /\ Len(lists) <= 1 /\ OnItsWay
      BY DEF ListAnswers, FlagsInv
    <3>2. i = 1 /\ lists # << >> /\ lists' = << >>
      BY <1>0, <2>2, <3>1
    <3> QED BY <2>1, <3>1, <3>2 DEF OnItsWay
  <2>5. ~crossed' => Len(lists') <= 1
    BY <2>1, <2>2 DEF FlagsInv
  <2> QED BY <2>3, <2>4, <2>5 DEF FlagsInv
<1> QED BY <1>1, <1>2, <1>3

\* A save without one of its parts is still a sequence of saves.
LEMMA RemoveAtSaves ==
  ASSUME NEW s \in Seq(SaveCall), NEW i \in DOMAIN s
  PROVE  RemoveAt(s, i) \in Seq(SaveCall)
<1>1. SubSeq(s, 1, i - 1) \in Seq(SaveCall) /\ SubSeq(s, i + 1, Len(s)) \in Seq(SaveCall)
  OBVIOUS
<1> QED BY <1>1 DEF RemoveAt

\* The user edits and saves; a save is served, answered or fails.
LEMMA SavesInv ==
  ASSUME FlagsInv,
         \/ CloseFlags
         \/ \E k \in Keys : Save(k) \/ \E v \in Settings : Edit(k, v)
         \/ \E i \in DOMAIN saves : SaveServed(i) \/ SaveAnswers(i) \/ SaveFails(i)
  PROVE  FlagsInv'
<1>0. /\ FlagsTypeOK /\ Len(saves) \in Nat /\ DOMAIN saves = 1 .. Len(saves)
      /\ \A i \in DOMAIN saves : saves[i] \in SaveCall
  BY DEF FlagsInv, FlagsTypeOK
<1>1. CASE CloseFlags
  BY <1>0, <1>1 DEF CloseFlags, FlagsInv, FlagsTypeOK, OnItsWay
<1>2. ASSUME NEW k \in Keys, NEW v \in Settings, Edit(k, v) PROVE FlagsInv'
  <2>1. /\ rows' = [rows EXCEPT ![k] = v] /\ edited' = edited \cup {k} /\ k \in DOMAIN rows
        /\ UNCHANGED <<backend, lists, saves, failed, crossed>>
    BY <1>2 DEF Edit
  <2>2. FlagsTypeOK'
    <3>1. rows \in [Keys -> Settings]
      BY <1>0, <2>1 DEF FlagsTypeOK, Unserved
    <3>2. rows' \in [Keys -> Settings]
      BY <2>1, <3>1
    <3> QED BY <1>0, <2>1, <3>2 DEF FlagsTypeOK
  <2>3. \A c \in DOMAIN rows' \ edited' : c \in DOMAIN rows \ edited /\ rows'[c] = rows[c]
    BY <2>1
  <2>4. OnItsWay => OnItsWay'
    BY <2>1, <2>3 DEF OnItsWay
  <2> QED BY <1>0, <2>1, <2>2, <2>4 DEF FlagsInv
<1>3. ASSUME NEW k \in Keys, Save(k) PROVE FlagsInv'
  <2> DEFINE c == [key |-> k, value |-> rows[k], served |-> FALSE]
  <2>1. /\ k \in DOMAIN rows /\ saves' = Append(saves, c)
        /\ UNCHANGED <<rows, backend, lists, edited, failed, crossed>>
    BY <1>3 DEF Save
  <2>2. FlagsTypeOK'
    <3>1. rows \in [Keys -> Settings]
      BY <1>0, <2>1 DEF FlagsTypeOK, Unserved
    <3>2. c \in SaveCall
      BY <2>1, <3>1 DEF SaveCall
    <3>3. saves' \in Seq(SaveCall)
      BY <1>0, <2>1, <3>2 DEF FlagsTypeOK
    <3> QED BY <1>0, <2>1, <3>3 DEF FlagsTypeOK
  <2>3. \A i \in DOMAIN saves : i \in DOMAIN saves' /\ saves'[i] = saves[i]
    BY <1>0, <2>1
  <2>4. OnItsWay => OnItsWay'
    BY <2>1, <2>3 DEF OnItsWay
  <2> QED BY <1>0, <2>1, <2>2, <2>4 DEF FlagsInv
<1>4. ASSUME NEW i \in DOMAIN saves, SaveServed(i) PROVE FlagsInv'
  <2>1. /\ backend' = [backend EXCEPT ![saves[i].key] = saves[i].value]
        /\ saves' = [saves EXCEPT ![i].served = TRUE]
        /\ UNCHANGED <<rows, lists, edited, failed, crossed>>
    BY <1>4 DEF SaveServed
  <2>2. FlagsTypeOK'
    <3>1. saves[i].key \in Keys /\ saves[i].value \in Settings
      BY <1>0 DEF SaveCall
    <3>2. [saves[i] EXCEPT !.served = TRUE] \in SaveCall
      BY <1>0 DEF SaveCall
    <3>3. saves' \in Seq(SaveCall)
      BY <1>0, <2>1, <3>2 DEF FlagsTypeOK
    <3>4. backend' \in [Keys -> Settings]
      BY <1>0, <2>1, <3>1 DEF FlagsTypeOK
    <3> QED BY <1>0, <2>1, <3>3, <3>4 DEF FlagsTypeOK
  <2>3. i \in DOMAIN saves' /\ saves'[i].served
    BY <1>0, <2>1 DEF SaveCall
  <2>4. OnItsWay'
    BY <2>3 DEF OnItsWay
  <2> QED BY <1>0, <2>1, <2>2, <2>4 DEF FlagsInv
<1>5. ASSUME NEW i \in DOMAIN saves, SaveAnswers(i) PROVE FlagsInv'
  <2>1. /\ saves' = RemoveAt(saves, i) /\ LoadFlags(TRUE) /\ UNCHANGED <<rows, backend>>
        /\ lists # << >> => crossed'
    BY <1>5 DEF SaveAnswers
  <2>2. saves' \in Seq(SaveCall)
    BY <1>0, <2>1, RemoveAtSaves DEF FlagsTypeOK
  <2> QED BY <1>0, <2>1, <2>2, LoadFlagsInv
<1>6. ASSUME NEW i \in DOMAIN saves, SaveFails(i) PROVE FlagsInv'
  <2>1. saves' = RemoveAt(saves, i) /\ failed' = TRUE /\ UNCHANGED <<rows, backend, lists, edited, crossed>>
    BY <1>6 DEF SaveFails
  <2>2. saves' \in Seq(SaveCall)
    BY <1>0, <2>1, RemoveAtSaves DEF FlagsTypeOK
  <2> QED BY <1>0, <2>1, <2>2 DEF FlagsInv, FlagsTypeOK
<1> QED BY <1>1, <1>2, <1>3, <1>4, <1>5, <1>6

LEMMA FlagsInitInv == FlagsInit => FlagsInv
  BY DEF FlagsInit, FlagsInv, FlagsTypeOK, OnItsWay, Unserved

LEMMA FlagsStepInv == FlagsInv /\ [FlagsNext]_flagsVars => FlagsInv'
<1> SUFFICES ASSUME FlagsInv, [FlagsNext]_flagsVars PROVE FlagsInv'
  OBVIOUS
<1>1. CASE UNCHANGED flagsVars
  BY <1>1 DEF flagsVars, FlagsInv, FlagsTypeOK, OnItsWay
<1>2. CASE FlagsNext
  BY <1>2, ListsInv, SavesInv DEF FlagsNext
<1> QED BY <1>1, <1>2

-----------------------------------------------------------------------------
\* The upload in the drawer.

\* At most one upload is under way or has just ended, and the box knows of it: the timer
\* that empties the bar is never of an earlier upload.
UploadCounts ==
  /\ uploads \in Nat /\ timers \in Nat /\ progress \in 0 .. 10
  /\ uploads + timers <= 1

UploadBox ==
  /\ uploading \in BOOLEAN /\ picker \in BOOLEAN
  /\ uploads + timers = 1 <=> uploading
  /\ picker => ~uploading

UploadInv == UploadCounts /\ UploadBox

Undisturbed == uploads > 0 /\ uploads' > 0 => uploads' = 1 /\ uploading' /\ progress' >= progress

LEMMA UploadInitInv == UploadInit => UploadInv
<1> SUFFICES ASSUME UploadInit PROVE UploadCounts /\ UploadBox
  BY DEF UploadInv
<1>1. UploadCounts
  BY DEF UploadInit, UploadCounts
<1>2. UploadBox
  <2>1. ~uploading /\ ~picker /\ uploading \in BOOLEAN /\ picker \in BOOLEAN
    BY DEF UploadInit
  <2>2. uploads + timers # 1
    BY DEF UploadInit
  <2> QED BY <2>1, <2>2 DEF UploadBox
<1> QED BY <1>1, <1>2

LEMMA UploadStepInv == UploadInv /\ [UploadNext]_uploadVars => UploadInv' /\ Undisturbed
<1> SUFFICES ASSUME UploadCounts, UploadBox, [UploadNext]_uploadVars
             PROVE  UploadCounts' /\ UploadBox' /\ Undisturbed
  BY DEF UploadInv
<1>1. CASE UNCHANGED uploadVars
  BY <1>1 DEF uploadVars, UploadCounts, UploadBox, Undisturbed
<1>2. CASE \/ ToggleDrawer \/ ClickBox \/ DragOver \/ DragLeave \/ PickerCancelled
           \/ VideosTab \/ \E i \in 1 .. Len(toasts) : DismissToast(i)
  <2>1. UNCHANGED <<uploading, progress, uploads, timers>>
    BY <1>2 DEF ToggleDrawer, ClickBox, DragOver, DragLeave, PickerCancelled, VideosTab, DismissToast
  <2>2. picker' \in BOOLEAN /\ (picker' => picker \/ ~uploading)
    <3>1. CASE ClickBox
      BY <3>1 DEF ClickBox
    <3>2. CASE PickerCancelled
      BY <3>2 DEF PickerCancelled
    <3>3. CASE picker' = picker
      BY <3>3 DEF UploadBox
    <3> QED BY <1>2, <3>1, <3>2, <3>3 DEF ToggleDrawer, DragOver, DragLeave, VideosTab, DismissToast
  <2>3. UploadCounts' /\ Undisturbed
    BY <2>1 DEF UploadCounts, UploadBox, Undisturbed
  <2>4. UploadBox'
    <3>1. uploading' = uploading /\ uploads' = uploads /\ timers' = timers
      BY <2>1
    <3> QED BY <2>2, <3>1 DEF UploadBox
  <2> QED BY <2>3, <2>4
<1>3. CASE \E file \in Files : Dropped(file) \/ FileChosen(file)
  <2>1. /\ picker' = FALSE /\ timers' = timers
        /\ \/ ~uploading /\ uploads' = uploads + 1 /\ uploading' /\ progress' = 0
           \/ ~uploading /\ uploads' = uploads /\ uploading' = uploading /\ progress' = 0
           \/ UNCHANGED <<uploading, uploads, progress>>
    BY <1>3 DEF Dropped, FileChosen, Upload, UploadBox
  <2>2. UploadCounts'
    BY <2>1 DEF UploadCounts, UploadBox
  <2>3. UploadBox'
    <3>1. uploading' \in BOOLEAN
      BY <1>3 DEF Dropped, FileChosen, Upload, UploadBox
    <3>2. uploads' + timers' = 1 <=> uploading'
      BY <2>1 DEF UploadCounts, UploadBox
    <3> QED BY <2>1, <3>1, <3>2 DEF UploadBox
  <2>4. Undisturbed
    BY <2>1 DEF UploadCounts, UploadBox, Undisturbed
  <2> QED BY <2>2, <2>3, <2>4
<1>4. CASE Tick
  <2>1. UploadCounts'
    BY <1>4 DEF Tick, UploadCounts
  <2>2. UploadBox' /\ Undisturbed
    BY <1>4 DEF Tick, UploadCounts, UploadBox, Undisturbed
  <2> QED BY <2>1, <2>2
<1>5. CASE Sent
  <2>1. UploadCounts'
    BY <1>5 DEF Sent, Returned, UploadCounts
  <2>2. UploadBox' /\ Undisturbed
    BY <1>5 DEF Sent, Returned, UploadCounts, UploadBox, Undisturbed
  <2> QED BY <2>1, <2>2
<1>6. CASE Emptied \/ SendFails
  <2>1. uploads' = 0 /\ timers' = 0 /\ progress' = 0
    BY <1>6 DEF Emptied, SendFails, Returned, UploadCounts
  <2>2. uploading' = FALSE /\ picker' = picker
    BY <1>6 DEF Emptied, SendFails
  <2>3. UploadCounts' /\ Undisturbed
    BY <2>1 DEF UploadCounts, Undisturbed
  <2>4. UploadBox'
    <3>1. uploads' + timers' # 1
      BY <2>1
    <3> QED BY <2>2, <3>1 DEF UploadBox
  <2> QED BY <2>3, <2>4
<1> QED BY <1>1, <1>2, <1>3, <1>4, <1>5, <1>6 DEF UploadNext

-----------------------------------------------------------------------------
\* The grid of cards.

\* Cards are numbered in the order they are built; what was started for one that is gone
\* was either over when it was closed, or is known to have been under way.
Numbering ==
  /\ Shown \subseteq Cards
  /\ Cards \cup creating \cup early \subseteq 1 .. next - 1
  /\ synced[1] < next

ClosedClean ==
  \A n \in Numbers \ (Cards \cup early) :
    link[n] = "down" /\ n \notin creating /\ \A f \in Filters : <<n, f, "raster">> \notin jobs

Sessions ==
  /\ \A n \in creating : link[n] = "connecting"
  /\ \A n \in Numbers : camera[n] \in {"loading", "live"} => n \in Shown

\* The selection is a card as long as there is one, and what was synchronised last is
\* what its card carries.
Selection ==
  /\ selected = 0 => Cards = {}
  /\ selected # 0 => selected \in Cards /\ number = selected
  /\ synced[1] \in Cards => grid[synced[1]].filters = synced[2]
  /\ panel.epoch > 0 => panel.shown = active

GridInv == GridTypeOK /\ Numbering /\ ClosedClean /\ Sessions /\ Selection

PanelState == [key : Numbers, epoch : 0 .. Epochs, shown : Filters, initial : Filters]
JobState == Numbers \X Filters \X {"raster", "answer"}

LEMMA Counting == LastNumber \in Nat /\ Numbers = 1 .. LastNumber /\ 1 \in Numbers
<1>1. LastNumber \in Nat
  BY GridAssumption, FS_CardinalityType DEF LastNumber
<1>2. Numbers = 1 .. LastNumber /\ Numbers # {}
  BY GridAssumption DEF LastNumber
<1> QED BY <1>1, <1>2

\* A grid is a function from some of the numbers.
LEMMA GridsAre ==
  ASSUME NEW g
  PROVE  g \in Grids <=> DOMAIN g \subseteq Numbers /\ g \in [DOMAIN g -> GridSource]
  BY DEF Grids

LEMMA UpdateFilters ==
  ASSUME NEW g \in Grids, NEW n, NEW f \in Filters
  PROVE  /\ Update(g, n, "filters", f) \in Grids
         /\ DOMAIN Update(g, n, "filters", f) = DOMAIN g
         /\ \A m \in DOMAIN g :
              /\ Update(g, n, "filters", f)[m].filters = IF m = n THEN f ELSE g[m].filters
              /\ Update(g, n, "filters", f)[m].type = g[m].type
<1> DEFINE u == Update(g, n, "filters", f)
<1>1. DOMAIN g \subseteq Numbers /\ g \in [DOMAIN g -> GridSource]
  BY GridsAre
<1>2. DOMAIN u = DOMAIN g /\ \A m \in DOMAIN g : u[m] = IF m = n THEN [g[m] EXCEPT !["filters"] = f] ELSE g[m]
  BY DEF Update
<1>3. \A m \in DOMAIN g : g[m] \in GridSource
  BY <1>1
<1>4. \A m \in DOMAIN g : /\ [g[m] EXCEPT !["filters"] = f] \in GridSource
                          /\ [g[m] EXCEPT !["filters"] = f].filters = f
                          /\ [g[m] EXCEPT !["filters"] = f].type = g[m].type
  BY <1>3 DEF GridSource
<1>5. u \in [DOMAIN u -> GridSource]
  BY <1>2, <1>3, <1>4 DEF Update
<1>6. u \in Grids
  BY <1>1, <1>2, <1>5, GridsAre
<1> QED BY <1>2, <1>4, <1>6

LEMMA UpdateSession ==
  ASSUME NEW g \in Grids, NEW n
  PROVE  /\ Update(g, n, "session", TRUE) \in Grids
         /\ DOMAIN Update(g, n, "session", TRUE) = DOMAIN g
         /\ \A m \in DOMAIN g : Update(g, n, "session", TRUE)[m].filters = g[m].filters
<1> DEFINE u == Update(g, n, "session", TRUE)
<1>1. DOMAIN g \subseteq Numbers /\ g \in [DOMAIN g -> GridSource]
  BY GridsAre
<1>2. DOMAIN u = DOMAIN g /\ \A m \in DOMAIN g : u[m] = IF m = n THEN [g[m] EXCEPT !["session"] = TRUE] ELSE g[m]
  BY DEF Update
<1>3. \A m \in DOMAIN g : g[m] \in GridSource
  BY <1>1
<1>4. \A m \in DOMAIN g : /\ [g[m] EXCEPT !["session"] = TRUE] \in GridSource
                          /\ [g[m] EXCEPT !["session"] = TRUE].filters = g[m].filters
  BY <1>3 DEF GridSource
<1>5. u \in [DOMAIN u -> GridSource]
  BY <1>2, <1>3, <1>4 DEF Update
<1>6. u \in Grids
  BY <1>1, <1>2, <1>5, GridsAre
<1> QED BY <1>2, <1>4, <1>6

\* A card that is built joins the grid, which is as it was.
LEMMA BuiltGrid ==
  ASSUME GridTypeOK, NEW type \in Kinds, next \in Numbers
  PROVE  /\ Built(type) \in Grids /\ DOMAIN Built(type) = Cards \cup {next}
         /\ \A m \in Cards : m # next => Built(type)[m] = grid[m]
<1> DEFINE b == Built(type)
           card == [type |-> type, filters |-> synced[2], session |-> FALSE]
<1>1. Cards \subseteq Numbers /\ grid \in [Cards -> GridSource]
  BY GridsAre DEF GridTypeOK, Cards
<1>2. /\ b = [n \in Cards \cup {next} |-> IF n = next THEN card ELSE grid[n]]
      /\ DOMAIN b = Cards \cup {next}
  BY DEF Built
<1>3. card \in GridSource
  BY DEF GridSource, GridTypeOK
<1>4. b \in [Cards \cup {next} -> GridSource]
  <2> HIDE DEF card, b
  <2> QED BY <1>1, <1>2, <1>3
<1>5. b \in Grids
  BY <1>1, <1>2, <1>4, GridsAre
<1> HIDE DEF card
<1> QED BY <1>2, <1>5

LEMMA RestrictedGrid ==
  ASSUME GridTypeOK, NEW n
  PROVE  /\ Restrict(grid, Cards \ {n}) \in Grids /\ DOMAIN Restrict(grid, Cards \ {n}) = Cards \ {n}
         /\ \A m \in Cards \ {n} : Restrict(grid, Cards \ {n})[m] = grid[m]
<1>1. Cards \subseteq Numbers /\ grid \in [Cards -> GridSource]
  BY GridsAre DEF GridTypeOK, Cards
<1>2. Restrict(grid, Cards \ {n}) \in [Cards \ {n} -> GridSource]
  BY <1>1 DEF Restrict
<1> QED BY <1>1, <1>2, GridsAre DEF Restrict

\* Of some cards one is the first: the one below which there are the fewest others.
LEMMA FirstCard ==
  ASSUME NEW S \in SUBSET Nat, S # {}
  PROVE  LET first == CHOOSE m \in S : \A k \in S : m <= k IN first \in S
<1> DEFINE Smaller(m) == {k \in S : k < m}
           T == {Smaller(m) : m \in S}
<1>1. T \subseteq FiniteSubsetsOf(S) /\ T # {}
  <2>1. ASSUME NEW m \in S PROVE IsFiniteSet(Smaller(m))
    <3>1. \A k \in Smaller(m) : k <= m
      OBVIOUS
    <3> HIDE DEF Smaller
    <3>2. Smaller(m) \in SUBSET Nat /\ m \in Nat
      BY DEF Smaller
    <3> QED BY <3>1, <3>2, FS_BoundedSetOfNaturals
  <2> QED BY <2>1 DEF FiniteSubsetsOf
<1>2. PICK t \in T : \A u \in T : ~(<<u, t>> \in StrictSubsetOrdering(S))
  <2> HIDE DEF T
  <2> QED BY <1>1, FS_StrictSubsetOrderingWellFounded, WFMin
<1>3. PICK m \in S : t = Smaller(m)
  BY <1>2
<1>4. ASSUME NEW k \in S, k < m PROVE FALSE
  <2>0. Smaller(k) \in T
    <3> HIDE DEF Smaller
    <3> QED OBVIOUS
  <2>1. Smaller(k) \subseteq Smaller(m) /\ k \in Smaller(m) /\ k \notin Smaller(k)
    <3>1. k \in Nat /\ m \in Nat /\ k < m /\ \A j \in S : j \in Nat
      BY <1>4
    <3>2. \A j \in Nat : j < k => j < m
      BY <3>1
    <3>3. ~(k < k)
      BY <3>1
    <3> HIDE DEF T
    <3> QED BY <3>1, <3>2, <3>3
  <2>2. Smaller(k) \subseteq S /\ Smaller(m) \subseteq S
    OBVIOUS
  <2> QED BY <1>2, <1>3, <2>0, <2>1, <2>2 DEF StrictSubsetOrdering
<1>5. \A k \in S : m <= k
  BY <1>4
<1> QED BY <1>5

-----------------------------------------------------------------------------
\* What Commit leaves, given that the selection s is a card of g, that the filters of a
\* card that is synchronised are known, and that a panel that stays shows f.
Committable(g, s, f, k) ==
  /\ g \in Grids /\ s \in Numbers \cup {0} /\ f \in Filters /\ k \in Numbers
  /\ s = 0 => DOMAIN g = {}
  /\ s # 0 => s \in DOMAIN g /\ k = s
  /\ s \in DOMAIN g /\ s = synced[1] => g[s].filters = synced[2]
  /\ panel.key = k /\ panel.epoch > 0 => panel.shown = f

LEMMA Committed ==
  ASSUME GridTypeOK, NEW g, NEW s, NEW f, NEW k, Committable(g, s, f, k), Commit(g, s, f, k)
  PROVE  /\ grid' \in Grids /\ ref' = g /\ Cards' = DOMAIN g /\ Shown' = DOMAIN g
         /\ selected' = s /\ selectedRef' = s /\ active' = f /\ number' = k /\ synced' = <<s, f>>
         /\ panel' \in PanelState /\ jobs' \subseteq JobState
         /\ \A j \in jobs' \ jobs : j[1] = s /\ s \in DOMAIN g
         /\ \A m \in DOMAIN g : m # s => grid'[m].filters = g[m].filters
         /\ s \in DOMAIN g => grid'[s].filters = f
         /\ Selection'
<1> DEFINE runs == s \in DOMAIN g /\ synced # <<s, f>>
<1>0. 0 \notin Numbers
  BY Counting
<1>1. /\ g \in Grids /\ f \in Filters /\ k \in Numbers /\ (s \in DOMAIN g => s \in Numbers)
  BY GridsAre DEF Committable
<1>2. /\ ref' = g /\ selectedRef' = s /\ selected' = s /\ active' = f /\ number' = k
      /\ synced' = <<s, f>>
      /\ grid' = IF runs THEN Update(g, s, "filters", f) ELSE g
      /\ jobs' = IF runs /\ g[s].type = "static" THEN jobs \cup {<<s, f, "raster">>} ELSE jobs
      /\ panel' = IF panel.key = k THEN panel
                  ELSE [key |-> k, epoch |-> 0, shown |-> NoFilters, initial |-> f]
  BY DEF Commit
<1>3. grid' \in Grids /\ DOMAIN grid' = DOMAIN g
  BY <1>1, <1>2, UpdateFilters
<1>4. \A m \in DOMAIN g : m # s => grid'[m].filters = g[m].filters
  BY <1>1, <1>2, UpdateFilters
<1>5. s \in DOMAIN g => grid'[s].filters = f
  <2>1. CASE runs
    BY <1>1, <1>2, <2>1, UpdateFilters
  <2>2. CASE s \in DOMAIN g /\ synced = <<s, f>>
    BY <1>2, <2>2 DEF Committable
  <2> QED BY <2>1, <2>2
<1>6. panel' \in PanelState
  BY <1>1, <1>2, GridAssumption DEF GridTypeOK, PanelState, Epochs
<1>7. jobs' \subseteq JobState /\ \A j \in jobs' \ jobs : j[1] = s /\ s \in DOMAIN g
  <2>1. jobs \subseteq JobState
    BY DEF GridTypeOK, JobState
  <2>2. s \in DOMAIN g => <<s, f, "raster">> \in JobState
    BY <1>1 DEF JobState
  <2>3. \/ jobs' = jobs
        \/ s \in DOMAIN g /\ jobs' = jobs \cup {<<s, f, "raster">>}
    BY <1>2
  <2> QED BY <2>1, <2>2, <2>3
<1>8. Selection'
  <2>1. panel'.epoch > 0 => panel'.shown = active'
    BY <1>2 DEF Committable
  <2>2. synced'[1] = s /\ synced'[2] = f
    BY <1>2
  <2> QED BY <1>2, <1>3, <1>5, <2>1, <2>2 DEF Selection, Committable, Cards
<1> QED BY <1>2, <1>3, <1>4, <1>5, <1>6, <1>7, <1>8 DEF Cards, Shown

\* A commit keeps the invariant, given that what it leaves of the sessions does.
LEMMA CommitInv ==
  ASSUME GridInv, NEW g, NEW s, NEW f, NEW k, Committable(g, s, f, k), Commit(g, s, f, k),
         next' \in 1 .. LastNumber + 1, DOMAIN g \cup creating \cup early' \subseteq 1 .. next' - 1,
         link' \in [Numbers -> {"down", "connecting", "open"}],
         camera' \in [Numbers -> {"off", "asking", "loading", "live"}],
         early' \subseteq Numbers, UNCHANGED <<creating, picking>>,
         \A n \in Numbers \ (DOMAIN g \cup early') :
           link'[n] = "down" /\ n \notin creating /\ \A h \in Filters : <<n, h, "raster">> \notin jobs,
         \A n \in creating : link'[n] = "connecting",
         \A n \in Numbers : camera'[n] \in {"loading", "live"} => n \in DOMAIN g
  PROVE  GridInv'
<1>1. GridTypeOK
  BY DEF GridInv
<1>2. /\ grid' \in Grids /\ ref' = g /\ Cards' = DOMAIN g /\ Shown' = DOMAIN g
      /\ selected' = s /\ selectedRef' = s /\ active' = f /\ number' = k /\ synced' = <<s, f>>
      /\ panel' \in PanelState /\ jobs' \subseteq JobState
      /\ \A j \in jobs' \ jobs : j[1] = s /\ s \in DOMAIN g
      /\ Selection'
  BY <1>1, Committed
<1>3. g \in Grids /\ s \in Numbers \cup {0} /\ f \in Filters /\ k \in Numbers /\ (s # 0 => s \in DOMAIN g)
  BY DEF Committable
<1>4. GridTypeOK'
  BY <1>1, <1>2, <1>3 DEF GridTypeOK, PanelState, JobState
<1>5. Numbering'
  <2>1. synced'[1] = s
    BY <1>2
  <2>2. s < next'
    BY <1>3, Counting
  <2> QED BY <1>2, <2>1, <2>2 DEF Numbering
<1>6. ClosedClean'
  <2> SUFFICES ASSUME NEW n \in Numbers, n \notin DOMAIN g, n \notin early'
               PROVE  /\ link'[n] = "down" /\ n \notin creating'
                      /\ \A h \in Filters : <<n, h, "raster">> \notin jobs'
    BY <1>2 DEF ClosedClean
  <2>1. \A h \in Filters : <<n, h, "raster">>[1] = n
    OBVIOUS
  <2> QED BY <1>2, <2>1
<1>7. Sessions'
  BY <1>2 DEF Sessions
<1> QED BY <1>2, <1>4, <1>5, <1>6, <1>7 DEF GridInv

Others == \A n \in Cards \cap DOMAIN grid' : grid'[n].filters # grid[n].filters => selected = n

LEMMA RenderInv ==
  ASSUME GridInv, Render
  PROVE  GridInv' /\ Others
<1>1. /\ Commit(grid, selected, active, number)
      /\ UNCHANGED <<next, picking, link, camera, creating, early>>
  BY DEF Render, media
<1>2. Committable(grid, selected, active, number)
  BY DEF Committable, GridInv, GridTypeOK, Selection, Cards
<1>3. GridInv'
  <2>1. Shown \subseteq Cards /\ Cards \cup creating \cup early \subseteq 1 .. next - 1
    BY DEF GridInv, Numbering
  <2>2. GridTypeOK /\ ClosedClean /\ Sessions
    BY DEF GridInv
  <2> QED BY <1>1, <1>2, <2>1, <2>2, CommitInv DEF GridTypeOK, ClosedClean, Sessions, Cards, Shown
<1>4. Others
  BY <1>1, <1>2, Committed DEF Others, GridInv, Cards
<1> QED BY <1>3, <1>4

LEMMA SelectInv ==
  ASSUME GridInv, Settled, NEW c \in Numbers, OnSelectSource(c)
  PROVE  GridInv' /\ Others
<1>1. /\ c \in Cards /\ Commit(grid, c, grid[c].filters, c)
      /\ UNCHANGED <<next, picking, link, camera, creating, early>>
  BY DEF OnSelectSource, media, Settled, Cards, Shown
<1>2. GridTypeOK /\ ClosedClean /\ Sessions /\ Selection /\ Numbering
  BY DEF GridInv
<1>3. grid[c].filters \in Filters
  BY <1>1, <1>2, GridsAre DEF GridTypeOK, GridSource, Cards
<1>4. Committable(grid, c, grid[c].filters, c)
  <2>1. c # 0
    BY Counting
  <2>2. synced = <<selected, active>> /\ panel.key = number
    BY DEF Settled
  <2>3. panel.key = c => grid[c].filters = active
    BY <1>1, <1>2, <2>2 DEF Selection
  <2> QED BY <1>1, <1>2, <1>3, <2>1, <2>2, <2>3 DEF Committable, GridTypeOK, Selection, Cards
<1>5. GridInv'
  <2>1. Shown \subseteq Cards /\ Cards \cup creating \cup early \subseteq 1 .. next - 1
    BY <1>2 DEF Numbering
  <2> QED BY <1>1, <1>2, <1>4, <2>1, CommitInv DEF GridTypeOK, ClosedClean, Sessions, Cards, Shown
<1>6. Others
  BY <1>1, <1>2, <1>4, Committed DEF Others, Cards
<1> QED BY <1>5, <1>6

\* What starts with a card that is built: its transport or its camera, none before.
LEMMA StartsClean ==
  ASSUME GridInv, NEW type \in Kinds, next \in Numbers, Starts(type)
  PROVE  /\ next' = next + 1 /\ next' \in 1 .. LastNumber + 1
         /\ next \notin Cards \cup Shown \cup creating \cup early
         /\ Cards \cup {next} \cup creating \cup early \subseteq 1 .. next' - 1
         /\ link' \in [Numbers -> {"down", "connecting", "open"}]
         /\ camera' \in [Numbers -> {"off", "asking", "loading", "live"}]
         /\ camera'[next] \in {"off", "asking"}
         /\ \A n \in Numbers \ {next} : link'[n] = link[n] /\ camera'[n] = camera[n]
<1>1. GridTypeOK /\ Numbering
  BY DEF GridInv
<1>2. /\ next' = next + 1
      /\ link' = [link EXCEPT ![next] = IF type = "camera" THEN "down" ELSE "connecting"]
      /\ camera' = [camera EXCEPT ![next] = IF type = "camera" THEN "asking" ELSE "off"]
  BY DEF Starts
<1>3. next \in 1 .. LastNumber /\ LastNumber \in Nat
  BY Counting
<1>4. next \notin Cards \cup Shown \cup creating \cup early
  BY <1>1, <1>3 DEF Numbering
<1>5. Cards \cup {next} \cup creating \cup early \subseteq 1 .. next' - 1
  BY <1>1, <1>2, <1>3 DEF Numbering
<1>6. /\ link' \in [Numbers -> {"down", "connecting", "open"}]
      /\ camera' \in [Numbers -> {"off", "asking", "loading", "live"}]
  BY <1>1, <1>2 DEF GridTypeOK
<1>7. camera'[next] \in {"off", "asking"}
  BY <1>1, <1>2 DEF GridTypeOK
<1>8. \A n \in Numbers \ {next} : link'[n] = link[n] /\ camera'[n] = camera[n]
  BY <1>1, <1>2 DEF GridTypeOK
<1> QED BY <1>2, <1>3, <1>4, <1>5, <1>6, <1>7, <1>8

LEMMA AddInv ==
  ASSUME GridInv, Settled, NEW type \in Kinds, AddSource(type)
  PROVE  GridInv' /\ Others
<1> DEFINE g == Built(type)
           s == IF Shown = {} THEN next ELSE selected
           k == IF Shown = {} THEN next ELSE number
<1>1. /\ Starts(type) /\ UNCHANGED <<picking, creating, early>> /\ next <= LastNumber
      /\ Commit(g, s, active, k)
  BY DEF AddSource
<1>2. GridTypeOK /\ ClosedClean /\ Sessions /\ Selection /\ Numbering /\ Shown = Cards
  BY DEF GridInv, Settled, Shown, Cards
<1>3. next \in Numbers /\ next # 0
  BY <1>1, <1>2, Counting DEF GridTypeOK
<1>4. /\ g \in Grids /\ DOMAIN g = Cards \cup {next}
      /\ \A m \in Cards : m # next => g[m] = grid[m]
  BY <1>2, <1>3, BuiltGrid
<1>5. /\ next' = next + 1 /\ next' \in 1 .. LastNumber + 1
      /\ next \notin Cards \cup Shown \cup creating \cup early
      /\ Cards \cup {next} \cup creating \cup early \subseteq 1 .. next' - 1
      /\ link' \in [Numbers -> {"down", "connecting", "open"}]
      /\ camera' \in [Numbers -> {"off", "asking", "loading", "live"}]
      /\ camera'[next] \in {"off", "asking"}
      /\ \A n \in Numbers \ {next} : link'[n] = link[n] /\ camera'[n] = camera[n]
  BY <1>1, <1>3, StartsClean
<1> HIDE DEF g
<1>6. Committable(g, s, active, k)
  <2>1. CASE Shown = {}
    <3>1. synced[1] # next
      BY <1>2, <1>3, Counting DEF Numbering
    <3>2. s = next /\ k = next
      BY <2>1
    <3> QED BY <1>2, <1>3, <1>4, <3>1, <3>2 DEF Committable, GridTypeOK, Selection
  <2>2. CASE Shown # {}
    <3>1. s = selected /\ k = number /\ selected \in Cards /\ selected # 0
      BY <1>2, <2>2 DEF Selection
    <3>2. s # next
      BY <1>5, <3>1
    <3> QED BY <1>2, <1>4, <3>1, <3>2 DEF Committable, GridTypeOK, Selection
  <2> QED BY <2>1, <2>2
<1> HIDE DEF s, k
<1>7. GridInv'
  <2>1. \A n \in Numbers \ (DOMAIN g \cup early') :
          link'[n] = "down" /\ n \notin creating /\ \A h \in Filters : <<n, h, "raster">> \notin jobs
    BY <1>1, <1>2, <1>4, <1>5 DEF ClosedClean
  <2>2. \A n \in creating : link'[n] = "connecting"
    BY <1>2, <1>5 DEF Sessions, GridTypeOK
  <2>3. \A n \in Numbers : camera'[n] \in {"loading", "live"} => n \in DOMAIN g
    BY <1>2, <1>4, <1>5 DEF Sessions
  <2>4. DOMAIN g \cup creating \cup early' \subseteq 1 .. next' - 1 /\ early' \subseteq Numbers
    BY <1>1, <1>2, <1>4, <1>5 DEF GridTypeOK
  <2> QED BY <1>1, <1>5, <1>6, <2>1, <2>2, <2>3, <2>4, CommitInv
<1>8. Others
  <2>1. \A m \in Cards : m # s => grid'[m].filters = grid[m].filters
    BY <1>1, <1>2, <1>4, <1>5, <1>6, Committed
  <2>2. s \in Cards => s = selected
    BY <1>5 DEF s
  <2> QED BY <2>1, <2>2 DEF Others
<1> QED BY <1>7, <1>8

LEMMA PickedInv ==
  ASSUME GridInv, NEW type \in Kinds, Picked(type)
  PROVE  GridInv' /\ Others
<1>1. /\ Starts(type) /\ next <= LastNumber /\ picking' = FALSE
      /\ grid' = Built(type) /\ selected' = next /\ number' = next
      /\ UNCHANGED <<ref, selectedRef, active, synced, panel, creating, jobs, early>>
  BY DEF Picked
<1>2. GridTypeOK /\ ClosedClean /\ Sessions /\ Selection /\ Numbering
  BY DEF GridInv
<1>3. next \in Numbers /\ next # 0
  BY <1>1, <1>2, Counting DEF GridTypeOK
<1>4. /\ grid' \in Grids /\ Cards' = Cards \cup {next}
      /\ \A m \in Cards : m # next => grid'[m] = grid[m]
  BY <1>1, <1>2, <1>3, BuiltGrid DEF Cards
<1>5. /\ next' = next + 1 /\ next' \in 1 .. LastNumber + 1
      /\ next \notin Cards \cup Shown \cup creating \cup early
      /\ Cards \cup {next} \cup creating \cup early \subseteq 1 .. next' - 1
      /\ link' \in [Numbers -> {"down", "connecting", "open"}]
      /\ camera' \in [Numbers -> {"off", "asking", "loading", "live"}]
      /\ camera'[next] \in {"off", "asking"}
      /\ \A n \in Numbers \ {next} : link'[n] = link[n] /\ camera'[n] = camera[n]
  BY <1>1, <1>3, StartsClean
<1>6. GridTypeOK'
  BY <1>1, <1>2, <1>3, <1>4, <1>5 DEF GridTypeOK
<1>7. Numbering'
  <2>1. Shown' = Shown /\ synced' = synced
    BY <1>1 DEF Shown
  <2>2. synced[1] < next'
    BY <1>2, <1>5, Counting DEF Numbering, GridTypeOK
  <2> QED BY <1>1, <1>2, <1>4, <1>5, <2>1, <2>2 DEF Numbering
<1>8. ClosedClean'
  BY <1>1, <1>2, <1>4, <1>5 DEF ClosedClean
<1>9. Sessions'
  <2>1. \A n \in creating : link'[n] = "connecting"
    BY <1>2, <1>5 DEF Sessions, GridTypeOK
  <2>2. \A n \in Numbers : camera'[n] \in {"loading", "live"} => n \in Shown
    BY <1>2, <1>5 DEF Sessions
  <2> QED BY <1>1, <2>1, <2>2 DEF Sessions, Shown
<1>10. Selection'
  <2>1. synced[1] # next
    BY <1>2, <1>3, Counting DEF Numbering
  <2>2. synced[1] \in Cards' => synced[1] \in Cards /\ grid'[synced[1]] = grid[synced[1]]
    BY <1>4, <2>1
  <2> QED BY <1>1, <1>2, <1>3, <1>4, <2>2 DEF Selection
<1>11. Others
  BY <1>4, <1>5 DEF Others
<1> QED BY <1>6, <1>7, <1>8, <1>9, <1>10, <1>11 DEF GridInv

LEMMA CloseInv ==
  ASSUME GridInv, Settled, NEW c \in Numbers, OnCloseSource(c)
  PROVE  GridInv' /\ Others
<1> DEFINE g == Restrict(grid, Cards \ {c})
           remaining == Cards \ {c}
           first == CHOOSE m \in remaining : \A k \in remaining : m <= k
           moves == selected = c /\ remaining # {}
           s == IF selected # c THEN selected ELSE IF remaining = {} THEN 0 ELSE first
           f == IF moves THEN grid[first].filters ELSE active
           k == IF moves THEN first ELSE number
<1>1. GridTypeOK /\ ClosedClean /\ Sessions /\ Selection /\ Numbering
  BY DEF GridInv
<1>2. /\ ref = grid /\ Shown = Cards /\ selectedRef = selected
      /\ synced = <<selected, active>> /\ panel.key = number
  BY DEF Settled, Cards, Shown
<1>3. /\ c \in Cards /\ Disconnected(c) /\ UNCHANGED <<next, picking, creating>>
      /\ early' = IF Unfinished(c) THEN early \cup {c} ELSE early
      /\ camera' = [camera EXCEPT ![c] = IF @ = "asking" THEN @ ELSE "off"]
  BY <1>2 DEF OnCloseSource
<1>4. Commit(g, s, f, k)
  <2>1. Removed(c)
    BY DEF OnCloseSource
  <2>2. CASE selected # c
    BY <1>2, <2>1, <2>2 DEF Removed
  <2>3. CASE selected = c /\ remaining = {}
    BY <1>2, <2>1, <2>3 DEF Removed
  <2>4. CASE moves
    BY <1>2, <2>1, <2>4 DEF Removed
  <2> QED BY <2>2, <2>3, <2>4
<1>5. /\ g \in Grids /\ DOMAIN g = remaining /\ \A m \in remaining : g[m] = grid[m]
  BY <1>1, RestrictedGrid
<1>6. remaining # {} => first \in remaining
  <2>1. remaining \in SUBSET Nat
    BY <1>1, GridsAre, Counting DEF GridTypeOK, Cards
  <2> HIDE DEF remaining
  <2> QED BY <2>1, FirstCard
<1>7. \A m \in Cards : m \in Numbers /\ m # 0 /\ grid[m].filters \in Filters
  BY <1>1, GridsAre, Counting DEF GridTypeOK, GridSource, Cards
<1> HIDE DEF g, first
<1>8. Committable(g, s, f, k)
  <2>1. /\ active \in Filters /\ number \in Numbers /\ selected \in Numbers \cup {0}
        /\ synced[1] = selected /\ synced[2] = active
    BY <1>1, <1>2 DEF GridTypeOK
  <2>2. CASE selected # c
    <3>1. s = selected /\ f = active /\ k = number
      BY <2>2
    <3> QED BY <1>1, <1>5, <1>7, <2>1, <2>2, <3>1 DEF Committable, Selection
  <2>3. CASE selected = c /\ remaining = {}
    <3>1. s = 0 /\ f = active /\ k = number
      BY <2>3
    <3> QED BY <1>1, <1>5, <1>7, <2>1, <2>3, <3>1 DEF Committable, Selection
  <2>4. CASE moves
    <3>1. s = first /\ f = grid[first].filters /\ k = first /\ first \in Cards /\ first # c
      BY <1>6, <2>4
    <3>2. panel.key # k
      BY <1>1, <1>2, <1>3, <1>7, <2>4, <3>1 DEF Selection
    <3> QED BY <1>5, <1>6, <1>7, <2>1, <2>4, <3>1, <3>2 DEF Committable
  <2> QED BY <2>2, <2>3, <2>4
<1>9. GridInv'
  <2>1. /\ link' \in [Numbers -> {"down", "connecting", "open"}]
        /\ \A n \in Numbers \ {c} : link'[n] = link[n]
        /\ link[c] = "connecting" => link'[c] = "connecting"
        /\ ~Unfinished(c) => link'[c] = "down"
    BY <1>1, <1>2, <1>3 DEF Disconnected, GridTypeOK, Unfinished
  <2>2. /\ camera' \in [Numbers -> {"off", "asking", "loading", "live"}]
        /\ \A n \in Numbers \ {c} : camera'[n] = camera[n]
        /\ camera'[c] \notin {"loading", "live"}
    BY <1>1, <1>3 DEF GridTypeOK
  <2>3. \A n \in Numbers \ (DOMAIN g \cup early') :
          link'[n] = "down" /\ n \notin creating /\ \A h \in Filters : <<n, h, "raster">> \notin jobs
    <3> SUFFICES ASSUME NEW n \in Numbers, n \notin DOMAIN g, n \notin early'
                 PROVE  link'[n] = "down" /\ n \notin creating /\ \A h \in Filters : <<n, h, "raster">> \notin jobs
      OBVIOUS
    <3>1. CASE n = c
      <4>1. ~Unfinished(c)
        BY <1>3, <3>1
      <4>2. c \notin creating
        BY <1>1, <4>1 DEF Sessions, Unfinished
      <4> QED BY <2>1, <3>1, <4>1, <4>2 DEF Unfinished
    <3>2. CASE n # c
      <4>1. n \notin Cards /\ n \notin early
        BY <1>3, <1>5, <3>2
      <4> QED BY <1>1, <2>1, <3>2, <4>1 DEF ClosedClean
    <3> QED BY <3>1, <3>2
  <2>4. \A n \in creating : link'[n] = "connecting"
    BY <1>1, <2>1 DEF Sessions, GridTypeOK
  <2>5. \A n \in Numbers : camera'[n] \in {"loading", "live"} => n \in DOMAIN g
    BY <1>1, <1>2, <1>5, <2>2 DEF Sessions
  <2>6. early' \subseteq Numbers /\ DOMAIN g \cup creating \cup early' \subseteq 1 .. next' - 1
    BY <1>1, <1>3, <1>5 DEF GridTypeOK, Numbering
  <2>7. next' \in 1 .. LastNumber + 1
    BY <1>1, <1>3 DEF GridTypeOK
  <2> HIDE DEF s, f, k, remaining
  <2> QED BY <1>3, <1>4, <1>8, <2>1, <2>2, <2>3, <2>4, <2>5, <2>6, <2>7, CommitInv
<1>10. Others
  <2> HIDE DEF s, f, k, remaining
  <2>1. /\ \A m \in remaining : m # s => grid'[m].filters = grid[m].filters
        /\ s \in remaining => grid'[s].filters = f
        /\ DOMAIN grid' = remaining
    BY <1>1, <1>4, <1>5, <1>8, Committed DEF Cards
  <2>2. ASSUME s \in remaining, s # selected PROVE f = grid[s].filters
    BY <2>2, <1>7 DEF s, f, remaining
  <2> QED BY <2>1, <2>2 DEF Others
<1> QED BY <1>9, <1>10

\* Sessions open and end, for a card that is there or not.
LinkStep(n) ==
  \/ LinkOpens(n) \/ LinkFails(n) \/ CameraGranted(n) \/ CameraFails(n)
  \/ StreamReady(n) \/ SessionRefused(n)

LEMMA LinkInv ==
  ASSUME GridInv, NEW c \in Numbers, LinkStep(c)
  PROVE  GridInv' /\ Others
<1>1. GridTypeOK /\ ClosedClean /\ Sessions /\ Selection /\ Numbering
  BY DEF GridInv
<1>2. /\ UNCHANGED <<data, choice, panel, picking, early>>
      /\ link' \in [Numbers -> {"down", "connecting", "open"}]
      /\ camera' \in [Numbers -> {"off", "asking", "loading", "live"}]
      /\ creating' \subseteq Numbers /\ jobs' \subseteq jobs
      /\ \A n \in Numbers \ {c} :
           /\ link'[n] = link[n] /\ camera'[n] = camera[n]
           /\ n \in creating' => n \in creating
  <2>1. CASE LinkOpens(c)
    BY <1>1, <2>1 DEF LinkOpens, GridTypeOK
  <2>2. CASE LinkFails(c)
    BY <1>1, <2>2 DEF LinkFails, GridTypeOK
  <2>3. CASE CameraGranted(c)
    BY <1>1, <2>3 DEF CameraGranted, GridTypeOK
  <2>4. CASE CameraFails(c)
    BY <1>1, <2>4 DEF CameraFails, GridTypeOK
  <2>5. CASE StreamReady(c)
    <3>1. \/ creating' = creating \cup {c} /\ link' = [link EXCEPT ![c] = "connecting"]
          \/ UNCHANGED <<creating, link>>
      BY <2>5 DEF StreamReady
    <3>2. camera' = [camera EXCEPT ![c] = "live"] /\ UNCHANGED <<data, choice, panel, picking, jobs, early>>
      BY <2>5 DEF StreamReady
    <3> QED BY <1>1, <3>1, <3>2 DEF GridTypeOK
  <2>6. CASE SessionRefused(c)
    BY <1>1, <2>6 DEF SessionRefused, GridTypeOK
  <2> QED BY <2>1, <2>2, <2>3, <2>4, <2>5, <2>6 DEF LinkStep
<1>3. c \in Cards \cup early \/ (link'[c] = "down" /\ c \notin creating')
  <2> SUFFICES ASSUME c \notin Cards \cup early
               PROVE  link'[c] = "down" /\ c \notin creating'
    OBVIOUS
  <2>1. link[c] = "down" /\ c \notin creating /\ c \notin Shown
    BY <1>1 DEF ClosedClean, Numbering
  <2> QED BY <1>1, <2>1 DEF LinkStep, LinkOpens, LinkFails, CameraGranted, CameraFails, StreamReady,
                            SessionRefused, media
<1>4. c \in creating' => link'[c] = "connecting"
  BY <1>1 DEF LinkStep, LinkOpens, LinkFails, CameraGranted, CameraFails, StreamReady,
              SessionRefused, media, Sessions, GridTypeOK
<1>5. camera'[c] \in {"loading", "live"} => c \in Shown
  BY <1>1 DEF LinkStep, LinkOpens, LinkFails, CameraGranted, CameraFails, StreamReady,
              SessionRefused, media, Sessions, GridTypeOK
<1>6. c \in creating' => c \in Shown \cup creating
  BY <1>1 DEF LinkStep, LinkOpens, LinkFails, CameraGranted, CameraFails, StreamReady,
              SessionRefused, media
<1>7. GridTypeOK'
  BY <1>1, <1>2 DEF GridTypeOK, data, choice
<1>8. Numbering'
  <2>1. Cards' = Cards /\ Shown' = Shown /\ next' = next /\ synced' = synced /\ early' = early
    BY <1>2 DEF data, choice, Cards, Shown
  <2>2. creating' \subseteq creating \cup Shown
    BY <1>2, <1>6
  <2> QED BY <1>1, <2>1, <2>2 DEF Numbering
<1>9. ClosedClean'
  <2>1. Cards' = Cards /\ early' = early
    BY <1>2 DEF data, Cards
  <2> QED BY <1>1, <1>2, <1>3, <2>1 DEF ClosedClean
<1>10. Sessions'
  <2>1. Shown' = Shown
    BY <1>2 DEF data, Shown
  <2> QED BY <1>1, <1>2, <1>4, <1>5, <2>1 DEF Sessions, GridTypeOK
<1>11. Selection' /\ Others
  BY <1>1, <1>2 DEF Selection, Others, data, choice, Cards
<1> QED BY <1>7, <1>8, <1>9, <1>10, <1>11 DEF GridInv

\* A card gets its session.
LEMMA SessionInv ==
  ASSUME GridInv, NEW c \in Numbers, Connected(c) \/ SessionCreated(c)
  PROVE  GridInv' /\ Others
<1>1. GridTypeOK /\ ClosedClean /\ Sessions /\ Selection /\ Numbering
  BY DEF GridInv
<1>2. /\ UNCHANGED <<ref, next, choice, panel, picking, camera, jobs, early>>
      /\ grid' = Update(grid, c, "session", TRUE)
      /\ link' \in [Numbers -> {"down", "connecting", "open"}]
      /\ \A n \in Numbers \ {c} : link'[n] = link[n]
      /\ \/ link'[c] = link[c] /\ creating' = creating /\ c \in Cards
         \/ c \in creating /\ creating' = creating \ {c}
  <2>1. CASE Connected(c)
    BY <1>1, <2>1 DEF Connected, GridTypeOK
  <2>2. CASE SessionCreated(c)
    BY <1>1, <2>2 DEF SessionCreated, GridTypeOK
  <2> QED BY <2>1, <2>2
<1>3. grid' \in Grids /\ Cards' = Cards /\ \A m \in Cards : grid'[m].filters = grid[m].filters
  <2>1. grid \in Grids
    BY <1>1 DEF GridTypeOK
  <2> DEFINE u == Update(grid, c, "session", TRUE)
  <2>2. u \in Grids /\ DOMAIN u = DOMAIN grid /\ \A m \in DOMAIN grid : u[m].filters = grid[m].filters
    BY <2>1, UpdateSession
  <2> HIDE DEF u
  <2>3. grid' = u
    BY <1>2 DEF u
  <2> QED BY <2>2, <2>3 DEF Cards
<1>4. GridTypeOK'
  BY <1>1, <1>2, <1>3 DEF GridTypeOK, choice
<1>5. Numbering'
  <2>1. Shown' = Shown /\ synced' = synced
    BY <1>2 DEF choice, Shown
  <2> QED BY <1>1, <1>2, <1>3, <2>1 DEF Numbering
<1>6. ClosedClean'
  <2>1. c \in Cards \cup early
    BY <1>1, <1>2 DEF ClosedClean
  <2> QED BY <1>1, <1>2, <1>3, <2>1 DEF ClosedClean
<1>7. Sessions'
  <2>1. Shown' = Shown
    BY <1>2 DEF Shown
  <2> QED BY <1>1, <1>2, <2>1 DEF Sessions, GridTypeOK
<1>8. Selection'
  <2>1. UNCHANGED <<selected, number, synced, panel, active>>
    BY <1>2 DEF choice
  <2> QED BY <1>1, <1>3, <2>1 DEF Selection
<1>9. Others
  BY <1>3 DEF Others, Cards
<1> QED BY <1>4, <1>5, <1>6, <1>7, <1>8, <1>9 DEF GridInv

\* applyStaticFilters goes on, for a card that is there or not.
LEMMA JobInv ==
  ASSUME GridInv, NEW j \in jobs, Rasterized(j) \/ Answered(j) \/ NotApplied(j)
  PROVE  GridInv' /\ Others
<1>1. GridTypeOK /\ ClosedClean /\ Sessions /\ Selection /\ Numbering
  BY DEF GridInv
<1>2. j[1] \in Numbers /\ j[2] \in Filters /\ j = <<j[1], j[2], j[3]>>
  BY <1>1 DEF GridTypeOK
<1>3. /\ UNCHANGED <<data, choice, panel, picking, camera, creating, early>>
      /\ jobs' \subseteq jobs \cup {<<j[1], j[2], "answer">>}
      /\ link' \in [Numbers -> {"down", "connecting", "open"}]
      /\ \A n \in Numbers : link'[n] # link[n] => /\ n = j[1] /\ j[3] = "raster"
                                                  /\ link[n] # "open" /\ link'[n] = "connecting"
  <2>1. CASE Rasterized(j)
    BY <1>1, <1>2, <2>1 DEF Rasterized, GridTypeOK
  <2>2. CASE Answered(j)
    BY <1>1, <2>2 DEF Answered, GridTypeOK, media
  <2>3. CASE NotApplied(j)
    BY <1>1, <2>3 DEF NotApplied, GridTypeOK, media
  <2> QED BY <2>1, <2>2, <2>3
<1>4. GridTypeOK'
  <2>1. <<j[1], j[2], "answer">> \in Numbers \X Filters \X {"raster", "answer"}
    BY <1>2
  <2>2. jobs' \subseteq Numbers \X Filters \X {"raster", "answer"}
    BY <1>1, <1>3, <2>1 DEF GridTypeOK
  <2> QED BY <1>1, <1>3, <2>2 DEF GridTypeOK, data, choice
<1>5. Numbering' /\ Selection' /\ Others
  BY <1>1, <1>3 DEF Numbering, Selection, Others, data, choice, Cards, Shown
<1>6. ClosedClean'
  <2>1. j[3] = "raster" => j[1] \in Cards \cup early
    BY <1>1, <1>2 DEF ClosedClean
  <2>2. \A n, f : <<n, f, "raster">> # <<j[1], j[2], "answer">>
    OBVIOUS
  <2>3. Cards' = Cards /\ early' = early /\ creating' = creating
    BY <1>3 DEF data, Cards
  <2> QED BY <1>1, <1>3, <2>1, <2>2, <2>3 DEF ClosedClean
<1>7. Sessions'
  <2>1. Shown' = Shown
    BY <1>3 DEF data, Shown
  <2> QED BY <1>1, <1>3, <2>1 DEF Sessions, GridTypeOK
<1> QED BY <1>4, <1>5, <1>6, <1>7 DEF GridInv

\* They are applied again to the selected card, which is there.
LEMMA ReappliedInv ==
  ASSUME GridInv, Reapplied
  PROVE  GridInv' /\ Others
<1> DEFINE j == <<selectedRef, synced[2], "raster">>
<1>1. GridTypeOK /\ ClosedClean /\ Sessions /\ Selection /\ Numbering
  BY DEF GridInv
<1>2. /\ selectedRef \in Cards /\ selectedRef \in Numbers /\ jobs' = jobs \cup {j}
      /\ UNCHANGED <<data, choice, panel, picking, media, early>>
  <2>1. selectedRef \in Shown /\ Cards \subseteq Numbers
    BY <1>1, GridsAre DEF Reapplied, GridTypeOK, Cards
  <2> QED BY <1>1, <2>1 DEF Reapplied, Numbering
<1>3. GridTypeOK'
  <2>1. j \in Numbers \X Filters \X {"raster", "answer"}
    BY <1>1, <1>2 DEF GridTypeOK
  <2> HIDE DEF j
  <2> QED BY <1>1, <1>2, <2>1 DEF GridTypeOK, data, choice, media
<1>4. Numbering' /\ Selection' /\ Sessions' /\ Others
  BY <1>1, <1>2 DEF Numbering, Selection, Sessions, Others, data, choice, media, Cards, Shown
<1>5. ClosedClean'
  BY <1>1, <1>2 DEF ClosedClean, data, media, Cards
<1> QED BY <1>3, <1>4, <1>5 DEF GridInv

\* The panel shows the filters it was mounted with, or what the user sets.
LEMMA PanelInv ==
  ASSUME GridInv, PickedNothing \/ PanelLoads \/ \E f \in Filters : Toggle(f)
  PROVE  GridInv' /\ Others
<1>1. GridTypeOK /\ ClosedClean /\ Sessions /\ Selection /\ Numbering
  BY DEF GridInv
<1> DEFINE Shows(f) == /\ active' = f
                       /\ \E e \in 0 .. Epochs : panel' = [panel EXCEPT !.epoch = e, !.shown = f]
<1>2. /\ UNCHANGED <<data, selected, selectedRef, number, synced, media, jobs, early>>
      /\ picking' \in BOOLEAN
      /\ UNCHANGED <<active, panel>> \/ \E f \in Filters : Shows(f)
  <2>1. CASE PickedNothing
    BY <1>1, <2>1 DEF PickedNothing, GridTypeOK, choice
  <2>2. CASE PanelLoads
    <3>1. panel.epoch + 1 \in 0 .. Epochs /\ panel.initial \in Filters
      BY <1>1, <2>2 DEF PanelLoads, GridTypeOK, Epochs
    <3> QED BY <1>1, <2>2, <3>1 DEF PanelLoads, GridTypeOK
  <2>3. CASE \E f \in Filters : Toggle(f)
    <3>1. PICK f \in Filters : Toggle(f)
      BY <2>3
    <3>2. /\ panel.epoch \in 0 .. Epochs
          /\ [panel EXCEPT !.shown = f] = [panel EXCEPT !.epoch = panel.epoch, !.shown = f]
      BY <1>1 DEF GridTypeOK
    <3>3. Shows(f)
      BY <3>1, <3>2 DEF Toggle
    <3>4. UNCHANGED <<data, selected, selectedRef, number, synced, picking, media, jobs, early>>
      BY <3>1 DEF Toggle
    <3> QED BY <1>1, <3>3, <3>4 DEF GridTypeOK
  <2> QED BY <2>1, <2>2, <2>3
<1>3. GridTypeOK' /\ (panel'.epoch > 0 => panel'.shown = active')
  BY <1>1, <1>2 DEF GridTypeOK, Selection, data, media
<1>4. Numbering' /\ Selection' /\ ClosedClean' /\ Sessions' /\ Others
  BY <1>1, <1>2, <1>3 DEF Numbering, Selection, ClosedClean, Sessions, Others, data, media, Cards, Shown
<1> QED BY <1>3, <1>4 DEF GridInv

LEMMA GridInitInv == Init => GridInv
<1> SUFFICES ASSUME Init PROVE GridInv
  OBVIOUS
<1>1. Empty \in Grids /\ DOMAIN Empty = {}
  <2>1. DOMAIN Empty = {} /\ Empty \in [{} -> GridSource]
    BY DEF Empty
  <2> QED BY <2>1, GridsAre
<1>2. 1 .. LastNumber + 1 = 1 .. LastNumber + 1 /\ 1 \in 1 .. LastNumber + 1
  BY Counting
<1>3. GridTypeOK
  BY <1>1, <1>2, Counting, GridAssumption DEF Init, GridTypeOK, Epochs
<1>4. Numbering /\ ClosedClean /\ Sessions /\ Selection
  BY <1>1, Counting DEF Init, Numbering, ClosedClean, Sessions, Selection, Cards, Shown
<1> QED BY <1>3, <1>4 DEF GridInv

LEMMA GridStepInv == GridInv /\ [Next]_vars => GridInv' /\ Others
<1> SUFFICES ASSUME GridInv, [Next]_vars PROVE GridInv' /\ Others
  OBVIOUS
<1>1. CASE UNCHANGED vars
  BY <1>1 DEF vars, data, choice, media, GridInv, GridTypeOK, Numbering, ClosedClean, Sessions,
              Selection, Others, Cards, Shown
<1>2. CASE Click
  <2>1. Settled
    BY <1>2 DEF Click
  <2>2. CASE \E t \in Kinds : AddSource(t)
    BY <2>1, <2>2, AddInv
  <2>3. CASE \E n \in Numbers : OnSelectSource(n) \/ OnCloseSource(n)
    BY <2>1, <2>3, SelectInv, CloseInv
  <2>4. CASE \E f \in Filters : Toggle(f)
    BY <2>4, PanelInv
  <2> QED BY <1>2, <2>2, <2>3, <2>4 DEF Click
<1>3. CASE Render
  BY <1>3, RenderInv
<1>4. CASE PickedNothing \/ PanelLoads
  BY <1>4, PanelInv
<1>5. CASE \E t \in Kinds : Picked(t)
  BY <1>5, PickedInv
<1>6. CASE \E n \in Numbers :
             LinkOpens(n) \/ LinkFails(n) \/ Connected(n) \/ CameraGranted(n) \/ CameraFails(n)
             \/ StreamReady(n) \/ SessionCreated(n) \/ SessionRefused(n)
  BY <1>6, LinkInv, SessionInv DEF LinkStep
<1>7. CASE \E j \in jobs : Rasterized(j) \/ Answered(j) \/ NotApplied(j)
  BY <1>7, JobInv
<1>8. CASE Reapplied
  BY <1>8, ReappliedInv
<1> QED BY <1>1, <1>2, <1>3, <1>4, <1>5, <1>6, <1>7, <1>8 DEF Next

LEMMA GridInvImplies == GridInv => OnlyUnfinishedLeak /\ PanelMatchesSelection
<1> SUFFICES ASSUME GridInv PROVE OnlyUnfinishedLeak /\ PanelMatchesSelection
  OBVIOUS
<1>1. OnlyUnfinishedLeak
  BY DEF OnlyUnfinishedLeak, GridInv, ClosedClean, Sessions
<1>2. PanelMatchesSelection
  <2> SUFFICES ASSUME Settled, selected # 0
               PROVE  /\ selected \in Cards /\ number = selected
                      /\ grid[selected].filters = active
                      /\ panel.epoch > 0 => panel.shown = active
    BY DEF PanelMatchesSelection
  <2>1. synced[1] = selected /\ synced[2] = active
    BY DEF Settled
  <2> QED BY <2>1 DEF GridInv, Selection
<1> QED BY <1>1, <1>2
-----------------------------------------------------------------------------
\* The statistics and the bar.
\* One interval is armed, for the transport that the row is read from; a card is selected
\* whenever there is one.
StatsInv ==
  /\ built \in Nat /\ sources \subseteq 1 .. built /\ SelectionIsOnPage
  /\ intervals = {watched} /\ connections.of = watched
  /\ watched = 0 => connections.state = "disconnected"

\* The only answer that is awaited is that of the last run of the effect.
NavInv ==
  /\ mount \in 1 .. 2 /\ loads \subseteq 1 .. mount
  /\ LoadingIsTrue /\ OneIsOpen

\* What a read of the rows leaves, of which transport ever.
LEMMA RowsRead ==
  ASSUME NEW t, UpdateConnections(t)
  PROVE  connections'.of = t /\ (t = 0 => connections'.state = "disconnected")
<1> QED BY DEF UpdateConnections, StateOf

LEMMA StatsInitInv == StatsInit => StatsInv
<1> QED BY DEF StatsInit, StatsInv, SelectionIsOnPage

LEMMA StatsStepInv == StatsInv /\ [StatsNext]_statsVars => StatsInv'
<1> SUFFICES ASSUME StatsInv, [StatsNext]_statsVars PROVE StatsInv'
  OBVIOUS
<1> USE DEF StatsInv, SelectionIsOnPage
<1>1. CASE UNCHANGED statsVars \/ Collapse \/ Expand
  BY <1>1 DEF statsVars, cardVars, rowVars, Collapse, Expand
<1>2. CASE Rearmed
  <2>1. connections'.of = watched' /\ (watched' = 0 => connections'.state = "disconnected")
    BY <1>2, RowsRead DEF Rearmed
  <2>2. intervals' = {watched'} /\ UNCHANGED cardVars
    BY <1>2 DEF Rearmed
  <2> QED BY <2>1, <2>2 DEF cardVars
<1>3. CASE IntervalFires
  <2>1. UpdateConnections(watched) /\ UNCHANGED <<cardVars, watched, intervals>>
    BY <1>3 DEF IntervalFires
  <2> QED BY <2>1, RowsRead DEF cardVars
<1>4. ASSUME NEW type \in SourceTypes, AddCard(type) PROVE StatsInv'
  <2>1. built' = built + 1 /\ sources' = sources \cup {built'} /\ UNCHANGED rowVars
    BY <1>4 DEF AddCard
  <2>2. built' \in Nat /\ sources' \subseteq 1 .. built'
    BY <2>1
  <2>3. SelectionIsOnPage'
    BY <1>4, <2>1 DEF AddCard
  <2> QED BY <2>1, <2>2, <2>3 DEF rowVars
<1>5. ASSUME NEW n \in sources, ClickCard(n) \/ ClickBadge(n) PROVE StatsInv'
  BY <1>5 DEF ClickCard, ClickBadge, rowVars
<1>6. ASSUME NEW n \in sources, ClickClose(n) PROVE StatsInv'
  <2>1. sources' = sources \ {n} /\ UNCHANGED <<built, rowVars>>
    BY <1>6 DEF ClickClose, Close
  <2>2. SelectionIsOnPage'
    <3>1. CASE sources' = {}
      BY <1>6, <2>1, <3>1 DEF ClickClose
    <3>2. CASE sources' # {}
      <4>1. sources' \in SUBSET Nat
        BY <2>1
      <4>2. Min(sources') \in sources'
        BY <3>2, <4>1, FirstCard DEF Min
      <4> QED BY <1>6, <2>1, <3>2, <4>2 DEF ClickClose
    <3> QED BY <3>1, <3>2
  <2> QED BY <2>1, <2>2 DEF rowVars
<1>7. ASSUME NEW n, NEW s, WireMoves(n, s) PROVE StatsInv'
  BY <1>7 DEF WireMoves, cardVars, rowVars
<1> QED BY <1>1, <1>2, <1>3, <1>4, <1>5, <1>6, <1>7 DEF StatsNext

LEMMA NavInitInv == NavbarInit => NavInv
<1> SUFFICES ASSUME NavbarInit PROVE NavInv
  OBVIOUS
<1>1. mount = 1 /\ loads = {1} /\ mount \in 1 .. 2 /\ loads \subseteq 1 .. mount
  BY DEF NavbarInit
<1>2. LoadingIsTrue /\ OneIsOpen
  BY <1>1, Zenon DEF NavbarInit, LoadingIsTrue, OneIsOpen
<1> QED BY <1>1, <1>2 DEF NavInv

LEMMA NavStepInv == NavInv /\ [NavbarNext]_navVars => NavInv'
<1> SUFFICES ASSUME NavInv, [NavbarNext]_navVars PROVE NavInv'
  OBVIOUS
<1>1. CASE UNCHANGED navVars
  BY <1>1, Zenon DEF navVars, NavInv, LoadingIsTrue, OneIsOpen
<1>2. CASE Remounted
  <2>1. mount = 1 /\ mount' = 2 /\ loads = {1} /\ loads' = {1, 2}
    BY <1>2 DEF Remounted
  <2>2. /\ mount' \in 1 .. 2 /\ loads' \subseteq 1 .. mount'
        /\ mount \in loads /\ mount' \in loads'
    BY <2>1
  <2>3. LoadingIsTrue' /\ OneIsOpen'
    BY <1>2, <2>2, Zenon DEF Remounted, NavInv, LoadingIsTrue, OneIsOpen
  <2> QED BY <2>2, <2>3 DEF NavInv
<1>3. ASSUME NEW i \in loads, SystemInfoAnswers(i) \/ SystemInfoFails(i) PROVE NavInv'
  <2>1. /\ loads' = loads \ {i} /\ Loading(i)
        /\ UNCHANGED <<isToolsOpen, isVersionOpen, mount>>
        /\ environment' \in {environment, "told", "Error"}
        /\ i = mount => environment' \in {"told", "Error"}
    BY <1>3 DEF SystemInfoAnswers, SystemInfoFails
  <2>2. mount' \in 1 .. 2 /\ loads' \subseteq 1 .. mount'
    BY <2>1 DEF NavInv
  <2>3. isVersionLoading' <=> mount' \in loads'
    BY <2>1, Zenon DEF NavInv, LoadingIsTrue, Loading
  <2>4. environment' = "Loading..." => isVersionLoading'
    <3>1. environment' = "Loading..." => environment = "Loading..." /\ i # mount
      BY <2>1
    <3> QED BY <2>1, <3>1, Zenon DEF NavInv, LoadingIsTrue, Loading
  <2>5. OneIsOpen'
    BY <2>1, Zenon DEF NavInv, OneIsOpen
  <2> QED BY <2>2, <2>3, <2>4, <2>5, Zenon DEF NavInv, LoadingIsTrue
<1>4. CASE ClickTools \/ ClickVersion \/ ClickElsewhere \/ ChooseTool \/ CloseVersion
  <2>1. UNCHANGED <<isVersionLoading, environment, mount, loads>>
    BY <1>4 DEF ClickTools, ClickVersion, ClickElsewhere, ChooseTool, CloseVersion
  <2>2. ~isToolsOpen' \/ ~isVersionOpen'
    BY <1>4, Zenon DEF ClickTools, ClickVersion, ClickElsewhere, ChooseTool, CloseVersion
  <2>3. LoadingIsTrue'
    BY <2>1, Zenon DEF NavInv, LoadingIsTrue
  <2> QED BY <2>1, <2>2, <2>3, Zenon DEF NavInv, OneIsOpen
<1> QED BY <1>1, <1>2, <1>3, <1>4, Zenon DEF NavbarNext

-----------------------------------------------------------------------------
\* The filter panel.

PanelCard == [id : STRING, enabled : BOOLEAN, expanded : BOOLEAN, value : Low .. High]
ActiveFilter == [id : STRING, value : Low .. High]

\* getActiveFilters loses no enabled filter and no parameter.
LEMMA ActiveFiltersAre ==
  ASSUME NEW list \in Seq(PanelCard)
  PROVE  /\ ActiveFilters(list) \in Seq(ActiveFilter)
         /\ \A a \in ToSet(ActiveFilters(list)) : \E i \in DOMAIN list :
              list[i].enabled /\ a = [id |-> list[i].id, value |-> list[i].value]
         /\ \A i \in DOMAIN list : list[i].enabled =>
              [id |-> list[i].id, value |-> list[i].value] \in ToSet(ActiveFilters(list))
<1> DEFINE P == {i \in DOMAIN list : list[i].enabled}
           on == Filtered(list, P)
           F(card) == [id |-> card.id, value |-> card.value]
<1>1. ActiveFilters(list) = [n \in DOMAIN on |-> F(on[n])]
  BY DEF ActiveFilters
<1>2. \A i \in P : i \in DOMAIN list /\ list[i].enabled
  OBVIOUS
<1>3. \A i \in DOMAIN list : list[i].enabled => i \in P
  OBVIOUS
<1>4. P \in SUBSET (DOMAIN list)
  BY <1>2
<1> HIDE DEF P
<1>5. /\ on \in Seq(PanelCard)
      /\ \A i \in P : list[i] \in ToSet(on)
      /\ \A x \in ToSet(on) : \E i \in P : x = list[i]
  BY <1>4, FilteredElements
<1> HIDE DEF on
<1>6. DOMAIN on = 1 .. Len(on) /\ Len(on) \in Nat /\ \A n \in DOMAIN on : on[n] \in PanelCard
  BY <1>5
<1>7. ActiveFilters(list) \in Seq(ActiveFilter)
  <2>1. \A card \in PanelCard : F(card) \in ActiveFilter
    BY DEF PanelCard, ActiveFilter
  <2> HIDE DEF F
  <2>2. ActiveFilters(list) \in [1 .. Len(on) -> ActiveFilter]
    BY <1>1, <1>6, <2>1
  <2> QED BY <1>6, <2>2
<1>8. ASSUME NEW a \in ToSet(ActiveFilters(list)) PROVE \E i \in P : a = F(list[i])
  <2>1. PICK n \in DOMAIN on : a = F(on[n])
    BY <1>1 DEF ToSet
  <2>2. PICK i \in P : on[n] = list[i]
    BY <1>5, <2>1 DEF ToSet
  <2> QED BY <2>1, <2>2
<1>9. ASSUME NEW i \in P PROVE F(list[i]) \in ToSet(ActiveFilters(list))
  <2>1. PICK n \in DOMAIN on : list[i] = on[n]
    BY <1>5 DEF ToSet
  <2> QED BY <1>1, <2>1 DEF ToSet
<1> QED BY <1>2, <1>3, <1>7, <1>8, <1>9 DEF F

\* The filters of a list are those of another one, once each.
SameFilters(list, old) ==
  /\ Len(list) = Len(old)
  /\ \A i \in DOMAIN list : \E j \in DOMAIN old : list[i].id = old[j].id
  /\ \A j \in DOMAIN old : \E i \in DOMAIN list : list[i].id = old[j].id

Distinct(list) == \A i, j \in DOMAIN list : list[i].id = list[j].id => i = j

LEMMA Joined ==
  ASSUME NEW S, NEW s \in Seq(S), NEW t \in Seq(S)
  PROVE  /\ s \o t \in Seq(S) /\ Len(s \o t) = Len(s) + Len(t)
         /\ \A j \in 1 .. Len(s) + Len(t) :
              (s \o t)[j] = IF j <= Len(s) THEN s[j] ELSE t[j - Len(s)]
OBVIOUS

\* A card that is dropped elsewhere takes the others along by one place at most.
LEMMA MovedPlaces ==
  ASSUME NEW list \in Seq(PanelCard), NEW from \in DOMAIN list, NEW to \in DOMAIN list
  PROVE  /\ Moved(list, from, to) \in Seq(PanelCard)
         /\ SameFilters(Moved(list, from, to), list)
         /\ Distinct(list) => Distinct(Moved(list, from, to))
<1> DEFINE n == Len(list)
           rest == RemoveAt(list, from)
           moved == Moved(list, from, to)
           past(j) == IF j < from THEN j ELSE j + 1
           was(j) == IF j = to THEN from ELSE IF j < to THEN past(j) ELSE past(j - 1)
           left(i) == IF i < from THEN i ELSE i - 1
           now(i) == IF i = from THEN to ELSE IF left(i) < to THEN left(i) ELSE left(i) + 1
<1>1. n \in Nat /\ DOMAIN list = 1 .. n /\ from \in 1 .. n /\ to \in 1 .. n /\ list[from] \in PanelCard
  OBVIOUS
<1>2. /\ rest \in Seq(PanelCard) /\ Len(rest) = n - 1
      /\ \A j \in 1 .. n - 1 : rest[j] = list[past(j)]
  <2> DEFINE a == SubSeq(list, 1, from - 1)
             b == SubSeq(list, from + 1, n)
  <2>1. a \in Seq(PanelCard) /\ Len(a) = from - 1 /\ \A j \in 1 .. from - 1 : a[j] = list[j]
    BY <1>1
  <2>2. b \in Seq(PanelCard) /\ Len(b) = n - from /\ \A j \in 1 .. n - from : b[j] = list[from + j]
    BY <1>1
  <2>3. rest = a \o b
    BY DEF RemoveAt
  <2> HIDE DEF a, b, rest
  <2>4. /\ rest \in Seq(PanelCard) /\ Len(rest) = Len(a) + Len(b)
        /\ \A j \in 1 .. Len(a) + Len(b) :
             rest[j] = IF j <= Len(a) THEN a[j] ELSE b[j - Len(a)]
    BY <2>1, <2>2, <2>3, Joined
  <2>5. Len(rest) = n - 1
    BY <1>1, <2>1, <2>2, <2>4
  <2>6. ASSUME NEW j \in 1 .. n - 1 PROVE rest[j] = list[past(j)]
    <3>1. CASE j < from
      <4>1. j \in 1 .. from - 1 /\ rest[j] = a[j]
        BY <1>1, <2>1, <2>2, <2>4, <3>1
      <4> QED BY <2>1, <3>1, <4>1
    <3>2. CASE ~(j < from)
      <4>1. j - (from - 1) \in 1 .. n - from /\ rest[j] = b[j - (from - 1)]
        BY <1>1, <2>1, <2>2, <2>4, <3>2
      <4>2. from + (j - (from - 1)) = j + 1
        BY <1>1
      <4> QED BY <2>2, <3>2, <4>1, <4>2
    <3> QED BY <3>1, <3>2
  <2> QED BY <2>4, <2>5, <2>6
<1> HIDE DEF rest
<1>3. /\ moved \in Seq(PanelCard) /\ Len(moved) = n /\ moved[to] = list[from]
      /\ \A j \in 1 .. n : j < to => moved[j] = rest[j]
      /\ \A j \in 1 .. n : j > to => moved[j] = rest[j - 1]
  <2> DEFINE a == SubSeq(rest, 1, to - 1)
             b == SubSeq(rest, to, n - 1)
             c == a \o <<list[from]>>
  <2>1. a \in Seq(PanelCard) /\ Len(a) = to - 1 /\ \A j \in 1 .. to - 1 : a[j] = rest[j]
    BY <1>1, <1>2
  <2>2. b \in Seq(PanelCard) /\ Len(b) = n - to /\ \A j \in 1 .. n - to : b[j] = rest[to + j - 1]
    BY <1>1, <1>2
  <2>3. moved = c \o b
    BY <1>2 DEF Moved, InsertAt, rest
  <2> HIDE DEF a, b, moved
  <2>4. c \in Seq(PanelCard) /\ Len(c) = to /\ c[to] = list[from] /\ \A j \in 1 .. to - 1 : c[j] = rest[j]
    BY <1>1, <2>1
  <2> HIDE DEF c
  <2>5. /\ moved \in Seq(PanelCard) /\ Len(moved) = Len(c) + Len(b)
        /\ \A j \in 1 .. Len(c) + Len(b) :
             moved[j] = IF j <= Len(c) THEN c[j] ELSE b[j - Len(c)]
    BY <2>2, <2>3, <2>4, Joined
  <2>6. Len(moved) = n
    BY <1>1, <2>2, <2>4, <2>5
  <2>7. ASSUME NEW j \in 1 .. n PROVE moved[j] = IF j <= to THEN c[j] ELSE b[j - to]
    BY <1>1, <2>2, <2>4, <2>5
  <2>8. moved[to] = list[from]
    BY <1>1, <2>4, <2>7
  <2>9. ASSUME NEW j \in 1 .. n, j < to PROVE moved[j] = rest[j]
    BY <1>1, <2>4, <2>7, <2>9
  <2>10. ASSUME NEW j \in 1 .. n, j > to PROVE moved[j] = rest[j - 1]
    <3>1. j - to \in 1 .. n - to /\ to + (j - to) - 1 = j - 1
      BY <1>1, <2>10
    <3>2. moved[j] = b[j - to] /\ b[j - to] = rest[to + (j - to) - 1]
      BY <1>1, <2>2, <2>7, <2>10, <3>1
    <3> QED BY <3>1, <3>2
  <2> QED BY <2>5, <2>6, <2>8, <2>9, <2>10
<1> HIDE DEF moved
<1>4. ASSUME NEW j \in 1 .. n PROVE was(j) \in 1 .. n /\ moved[j] = list[was(j)]
  <2>1. CASE j = to
    BY <1>1, <1>3, <2>1
  <2>2. CASE j < to
    <3>1. j \in 1 .. n - 1 /\ j # to
      BY <1>1, <2>2
    <3> QED BY <1>1, <1>2, <1>3, <2>2, <3>1
  <2>3. CASE j > to
    <3>1. j - 1 \in 1 .. n - 1 /\ j # to /\ ~(j < to)
      BY <1>1, <2>3
    <3> QED BY <1>1, <1>2, <1>3, <2>3, <3>1
  <2> QED BY <1>1, <2>1, <2>2, <2>3
<1>5. \A i \in 1 .. n : now(i) \in 1 .. n /\ was(now(i)) = i
  BY <1>1
<1>6. \A i, j \in 1 .. n : was(i) = was(j) => i = j
  BY <1>1
<1>7. DOMAIN moved = 1 .. n
  BY <1>3
<1> HIDE DEF was, now
<1>10. \A i \in 1 .. n : moved[now(i)] = list[i]
  BY <1>4, <1>5
<1>8. SameFilters(moved, list)
  <2>1. \A i \in DOMAIN moved : \E j \in DOMAIN list : moved[i].id = list[j].id
    BY <1>1, <1>4, <1>7
  <2>2. \A j \in DOMAIN list : \E i \in DOMAIN moved : moved[i].id = list[j].id
    BY <1>1, <1>5, <1>7, <1>10
  <2> QED BY <1>3, <2>1, <2>2 DEF SameFilters
<1>9. Distinct(list) => Distinct(moved)
  BY <1>1, <1>4, <1>6, <1>7 DEF Distinct
<1> QED BY <1>3, <1>8, <1>9 DEF moved

-----------------------------------------------------------------------------
OneEach(actives) == \A a, b \in ToSet(actives) : a.id = b.id => a = b

SameActive(actives, others) == ToSet(actives) = ToSet(others)

FilterTypeOK ==
  /\ source \in Sources /\ accelerator \in Accelerators /\ options \in {{}, Available}
  /\ kept \in [Sources -> Seq(ActiveFilter)] /\ given \in Seq(ActiveFilter)
  /\ fetches \subseteq [accelerator : Accelerators, newest : BOOLEAN]
  /\ defs \in Seq(STRING) /\ cards \in Seq(PanelCard) /\ dragRef \in Nat

\* The newest request is for the selected accelerator, and its answer what the panel has
\* definitions of.  A panel with definitions is on an accelerator that is there.
Fetching ==
  /\ options = {} \/ accelerator \in Available
  /\ \A f \in fetches : f.newest => f.accelerator = accelerator
  /\ \/ \E f \in fetches : f.newest
     \/ refused
     \/ defs = Offered[accelerator]
  /\ defs # << >> => accelerator \in Available

\* The list has a card for each definition.
Listing ==
  /\ IsInjective(defs) /\ Distinct(cards) /\ Len(cards) = Len(defs)
  /\ \A i \in DOMAIN cards : \E j \in DOMAIN defs : cards[i].id = defs[j]
  /\ \A j \in DOMAIN defs : \E i \in DOMAIN cards : cards[i].id = defs[j]

\* Until it has a list the panel has what it was mounted with.
Keeping ==
  /\ \A s \in Sources : OneEach(kept[s])
  /\ OneEach(given)
  /\ cards = << >> => SameActive(given, kept[source])

FilterInv == FilterTypeOK /\ Fetching /\ Listing /\ Keeping

\* The filters of a list of different cards are one of each.
LEMMA OneOfEach ==
  ASSUME NEW list \in Seq(PanelCard), Distinct(list)
  PROVE  OneEach(ActiveFilters(list))
<1> SUFFICES ASSUME NEW a \in ToSet(ActiveFilters(list)), NEW b \in ToSet(ActiveFilters(list)),
                    a.id = b.id
             PROVE  a = b
  BY DEF OneEach
<1>1. PICK i \in DOMAIN list : a = [id |-> list[i].id, value |-> list[i].value]
  BY ActiveFiltersAre
<1>2. PICK j \in DOMAIN list : b = [id |-> list[j].id, value |-> list[j].value]
  BY ActiveFiltersAre
<1>3. list[i].id = list[j].id
  BY <1>1, <1>2
<1>4. i = j
  BY <1>3 DEF Distinct
<1> QED BY <1>1, <1>2, <1>4

\* What the card is told when the list has the filters of the definitions still.
LEMMA ReportedInv ==
  ASSUME FilterInv, NEW list \in Seq(PanelCard), Distinct(list), list # << >>,
         cards' = list, Reported(source, cards'), UNCHANGED <<source, given>>
  PROVE  kept' \in [Sources -> Seq(ActiveFilter)] /\ Keeping'
<1>1. kept' = [kept EXCEPT ![source] = ActiveFilters(list)]
  BY DEF Reported
<1>2. ActiveFilters(list) \in Seq(ActiveFilter) /\ OneEach(ActiveFilters(list))
  BY ActiveFiltersAre, OneOfEach
<1>3. kept' \in [Sources -> Seq(ActiveFilter)]
  BY <1>1, <1>2 DEF FilterInv, FilterTypeOK
<1>4. \A s \in Sources : kept'[s] = IF s = source THEN ActiveFilters(list) ELSE kept[s]
  BY <1>1 DEF FilterInv, FilterTypeOK
<1>5. \A s \in Sources : OneEach(kept'[s])
  BY <1>2, <1>4 DEF FilterInv, Keeping
<1>6. OneEach(given') /\ cards' # << >>
  BY DEF FilterInv, Keeping
<1> QED BY <1>3, <1>5, <1>6 DEF Keeping

\* An edit keeps the filters that are listed.
LEMMA EditInv ==
  ASSUME FilterInv, cards # << >>, NEW list \in Seq(PanelCard), SameFilters(list, cards), Distinct(list),
         cards' = list, Reported(source, cards'), dragRef' \in Nat,
         UNCHANGED <<source, given, accelerator, options, fetches, refused, defs>>
  PROVE  FilterInv'
<1>1. Len(list) = Len(cards) /\ Len(cards) \in Nat /\ Len(cards) # 0 /\ list # << >>
  BY DEF SameFilters, FilterInv, FilterTypeOK
<1>2. kept' \in [Sources -> Seq(ActiveFilter)] /\ Keeping'
  BY <1>1, ReportedInv
<1>3. FilterTypeOK'
  BY <1>2 DEF FilterInv, FilterTypeOK
<1>4. Fetching'
  BY DEF FilterInv, Fetching
<1>5. Listing'
  <2>1. IsInjective(defs') /\ Distinct(cards') /\ Len(cards') = Len(defs')
    BY <1>1 DEF FilterInv, Listing
  <2>2. ASSUME NEW i \in DOMAIN list PROVE \E j \in DOMAIN defs : list[i].id = defs[j]
    <3>1. PICK k \in DOMAIN cards : list[i].id = cards[k].id
      BY DEF SameFilters
    <3>2. \E j \in DOMAIN defs : cards[k].id = defs[j]
      BY DEF FilterInv, Listing
    <3> QED BY <3>1, <3>2
  <2>3. ASSUME NEW j \in DOMAIN defs PROVE \E i \in DOMAIN list : list[i].id = defs[j]
    <3>1. PICK k \in DOMAIN cards : cards[k].id = defs[j]
      BY DEF FilterInv, Listing
    <3>2. \E i \in DOMAIN list : list[i].id = cards[k].id
      BY DEF SameFilters
    <3> QED BY <3>1, <3>2
  <2> QED BY <2>1, <2>2, <2>3 DEF Listing
<1> QED BY <1>2, <1>3, <1>4, <1>5 DEF FilterInv

\* A step that leaves the id of every card where it is.
LEMMA ChangedInv ==
  ASSUME FilterInv, NEW i \in DOMAIN cards, NEW c \in PanelCard, c.id = cards[i].id,
         Edited([cards EXCEPT ![i] = c])
  PROVE  FilterInv'
<1> DEFINE list == [cards EXCEPT ![i] = c]
<1>1. cards \in Seq(PanelCard) /\ Distinct(cards) /\ dragRef \in Nat
  BY DEF FilterInv, FilterTypeOK, Listing
<1>2. /\ list \in Seq(PanelCard) /\ Len(list) = Len(cards) /\ DOMAIN list = DOMAIN cards
      /\ \A j \in DOMAIN cards : list[j].id = cards[j].id
  BY <1>1
<1>3. cards' = list /\ Reported(source, cards')
      /\ UNCHANGED <<source, given, accelerator, options, fetches, refused, defs, dragRef>>
  BY DEF Edited
<1>4. cards # << >>
  BY <1>1
<1> HIDE DEF list
<1>5. SameFilters(list, cards)
  BY <1>2 DEF SameFilters
<1>6. Distinct(list)
  BY <1>1, <1>2 DEF Distinct
<1> QED BY <1>1, <1>2, <1>3, <1>4, <1>5, <1>6, EditInv

\* The buttons and the parameter of a card.
LEMMA EditsInv ==
  ASSUME FilterInv, NEW i \in DOMAIN cards,
         \/ ToggleCard(i) \/ SetEnabled(i)
         \/ \E v \in Values : Chosen(i, v) \/ Typed(i, v)
         \/ \E v \in {cards[i].value - Step, cards[i].value + Step} : Arrow(i, v) \/ Wheel(i, v)
  PROVE  FilterInv'
<1>0. cards \in Seq(PanelCard) /\ cards[i] \in PanelCard
  BY DEF FilterInv, FilterTypeOK
<1>1. /\ cards[i].id \in STRING /\ cards[i].enabled \in BOOLEAN /\ cards[i].expanded \in BOOLEAN
      /\ cards[i].value \in Low .. High
      /\ cards[i] = [id |-> cards[i].id, enabled |-> cards[i].enabled,
                     expanded |-> cards[i].expanded, value |-> cards[i].value]
  BY <1>0 DEF PanelCard
<1>3. ASSUME NEW v \in Low .. High, SetParameter(i, v) PROVE FilterInv'
  <2> DEFINE c == [cards[i] EXCEPT !.value = v]
  <2>1. [cards EXCEPT ![i].value = v] = [cards EXCEPT ![i] = c]
    OBVIOUS
  <2>2. c \in PanelCard /\ c.id = cards[i].id
    BY <1>0 DEF PanelCard
  <2> QED BY <1>3, <2>1, <2>2, ChangedInv DEF SetParameter
<1>4. \A v \in Int : Clamped(v) \in Low .. High
  BY PanelAssumption DEF Clamped
<1>5. CASE ToggleCard(i)
  <2> DEFINE c == [cards[i] EXCEPT !.expanded = ~@, !.enabled = @ \/ ~cards[i].expanded]
  <2>1. [cards EXCEPT ![i].expanded = ~@, ![i].enabled = @ \/ ~cards[i].expanded]
          = [cards EXCEPT ![i] = c]
    BY <1>0 DEF PanelCard
  <2>2. c \in PanelCard /\ c.id = cards[i].id
    BY <1>0 DEF PanelCard
  <2> QED BY <1>5, <2>1, <2>2, ChangedInv DEF ToggleCard
<1>6. CASE SetEnabled(i)
  <2> DEFINE c == [cards[i] EXCEPT !.enabled = ~@, !.expanded = @ /\ ~cards[i].enabled]
  <2>1. [cards EXCEPT ![i].enabled = ~@, ![i].expanded = @ /\ ~cards[i].enabled]
          = [cards EXCEPT ![i] = c]
    BY <1>0 DEF PanelCard
  <2>2. c \in PanelCard /\ c.id = cards[i].id
    BY <1>0 DEF PanelCard
  <2> QED BY <1>6, <2>1, <2>2, ChangedInv DEF SetEnabled
<1>7. CASE \E v \in Values : Chosen(i, v) \/ Typed(i, v)
  BY <1>3, <1>4, <1>7, PanelAssumption DEF Chosen, Typed, Values
<1>8. CASE \E v \in {cards[i].value - Step, cards[i].value + Step} : Arrow(i, v) \/ Wheel(i, v)
  <2>1. cards[i].value - Step \in Int /\ cards[i].value + Step \in Int
    BY <1>1, PanelAssumption
  <2> QED BY <1>3, <1>4, <1>8, <2>1 DEF Arrow, Wheel
<1> QED BY <1>5, <1>6, <1>7, <1>8

\* A drop.
LEMMA DropInv ==
  ASSUME FilterInv, NEW to \in DOMAIN cards, Drop(to)
  PROVE  FilterInv'
<1>1. /\ cards \in Seq(PanelCard) /\ Distinct(cards) /\ dragRef \in Nat /\ dragRef # 0
      /\ dragRef' = 0 /\ Reported(source, cards') /\ cards # << >>
      /\ UNCHANGED <<source, given, accelerator, options, fetches, refused, defs>>
  BY DEF FilterInv, FilterTypeOK, Listing, Drop
<1>2. CASE cards' = cards
  <2>1. SameFilters(cards, cards)
    BY DEF SameFilters
  <2> QED BY <1>1, <1>2, <2>1, EditInv
<1>3. CASE dragRef <= Len(cards) /\ cards' = Moved(cards, dragRef, to)
  <2>1. dragRef \in DOMAIN cards
    BY <1>1, <1>3
  <2> QED BY <1>1, <1>3, <2>1, MovedPlaces, EditInv
<1>4. CASE dragRef > Len(cards)
  <2>1. cards' = cards
    BY <1>4 DEF Drop
  <2> QED BY <1>2, <2>1
<1>5. CASE dragRef <= Len(cards)
  <2>1. ~(dragRef > Len(cards))
    BY <1>1, <1>5
  <2>2. ~broken'
    BY <2>1 DEF Drop
  <2>3. cards' = cards \/ cards' = Moved(cards, dragRef, to)
    BY <2>2 DEF Drop
  <2> QED BY <1>2, <1>3, <1>5, <2>3
<1>6. Len(cards) \in Nat
  BY <1>1
<1> QED BY <1>1, <1>4, <1>5, <1>6

\* The list that the definitions give: it has their ids, and if it has all that the panel
\* was mounted with, these are its active ones.
LEMMA InitializedList ==
  ASSUME NEW ids \in Seq(STRING), given \in Seq(ActiveFilter)
  PROVE  /\ Initialized(ids) \in Seq(PanelCard) /\ Len(Initialized(ids)) = Len(ids)
         /\ \A i \in DOMAIN ids :
              /\ Initialized(ids)[i].id = ids[i]
              /\ Initialized(ids)[i].enabled <=> \E a \in ToSet(given) : a.id = ids[i]
              /\ Initialized(ids)[i].enabled =>
                   \E a \in ToSet(given) : a.id = ids[i] /\ Initialized(ids)[i].value = a.value
<1> DEFINE among(i) == {a \in ToSet(given) : a.id = ids[i]}
           value(i) == IF among(i) = {} THEN Default ELSE (CHOOSE a \in among(i) : TRUE).value
<1>1. Initialized(ids) = [i \in DOMAIN ids |->
        [id |-> ids[i], enabled |-> among(i) # {}, expanded |-> among(i) # {}, value |-> value(i)]]
  BY DEF Initialized
<1>2. \A a \in ToSet(given) : a \in ActiveFilter
  BY DEF ToSet
<1>3. ASSUME NEW i \in DOMAIN ids, among(i) # {}
      PROVE  \E a \in among(i) : value(i) = a.value
  BY <1>3
<1>4. ASSUME NEW i \in DOMAIN ids PROVE value(i) \in Low .. High
  <2>1. CASE among(i) = {}
    BY <2>1, PanelAssumption
  <2>2. CASE among(i) # {}
    <3>1. PICK a \in among(i) : value(i) = a.value
      BY <1>3, <2>2
    <3>2. a \in ActiveFilter
      BY <1>2
    <3>3. a.value \in Low .. High
      BY <3>2 DEF ActiveFilter
    <3> QED BY <3>1, <3>3
  <2> QED BY <2>1, <2>2
<1>5. \A i \in DOMAIN ids : among(i) # {} <=> \E a \in ToSet(given) : a.id = ids[i]
  OBVIOUS
<1>6. \A i \in DOMAIN ids : \A a \in among(i) : a \in ToSet(given) /\ a.id = ids[i]
  OBVIOUS
<1>7. /\ Len(ids) \in Nat /\ DOMAIN ids = 1 .. Len(ids) /\ \A i \in DOMAIN ids : ids[i] \in STRING
  OBVIOUS
<1> HIDE DEF among, value
<1>8. Initialized(ids) \in Seq(PanelCard) /\ Len(Initialized(ids)) = Len(ids)
  <2>1. ASSUME NEW i \in DOMAIN ids
        PROVE  [id |-> ids[i], enabled |-> among(i) # {}, expanded |-> among(i) # {}, value |-> value(i)]
                 \in PanelCard
    BY <1>4, <1>7 DEF PanelCard
  <2>2. Initialized(ids) \in [1 .. Len(ids) -> PanelCard]
    BY <1>1, <1>7, <2>1
  <2> QED BY <1>7, <2>2
<1>9. ASSUME NEW i \in DOMAIN ids
      PROVE  /\ Initialized(ids)[i].id = ids[i]
             /\ Initialized(ids)[i].enabled = (among(i) # {})
             /\ Initialized(ids)[i].value = value(i)
  BY <1>1
<1>10. ASSUME NEW i \in DOMAIN ids, among(i) # {}
       PROVE  \E a \in ToSet(given) : a.id = ids[i] /\ Initialized(ids)[i].value = a.value
  BY <1>3, <1>6, <1>9, <1>10
<1> QED BY <1>5, <1>8, <1>9, <1>10

\* The active filters of the list that the definitions give are those the panel was
\* mounted with, as far as they are offered.
LEMMA InitializedKeeps ==
  ASSUME NEW ids \in Seq(STRING), IsInjective(ids), given \in Seq(ActiveFilter), OneEach(given),
         \A a \in ToSet(given) : \E i \in DOMAIN ids : a.id = ids[i]
  PROVE  SameActive(ActiveFilters(Initialized(ids)), given)
<1> DEFINE list == Initialized(ids)
<1>1. /\ list \in Seq(PanelCard) /\ Len(list) = Len(ids) /\ DOMAIN list = DOMAIN ids
      /\ \A i \in DOMAIN ids :
           /\ list[i].id = ids[i]
           /\ list[i].enabled <=> \E a \in ToSet(given) : a.id = ids[i]
           /\ list[i].enabled =>
                \E a \in ToSet(given) : a.id = ids[i] /\ list[i].value = a.value
  <2>1. list \in Seq(PanelCard) /\ Len(list) = Len(ids)
    BY InitializedList
  <2> QED BY <2>1, InitializedList
<1> HIDE DEF list
<1>2. ASSUME NEW i \in DOMAIN ids, NEW a \in ToSet(given), a.id = ids[i]
      PROVE  list[i].enabled /\ a = [id |-> list[i].id, value |-> list[i].value]
  <2>1. list[i].enabled
    BY <1>1, <1>2
  <2>2. PICK b \in ToSet(given) : b.id = ids[i] /\ list[i].value = b.value
    BY <1>1, <2>1
  <2>3. a = b
    BY <1>2, <2>2 DEF OneEach
  <2>4. a \in ActiveFilter
    BY DEF ToSet
  <2>5. a = [id |-> a.id, value |-> a.value]
    BY <2>4 DEF ActiveFilter
  <2>6. a.id = list[i].id /\ a.value = list[i].value
    BY <1>1, <1>2, <2>2, <2>3
  <2> QED BY <2>1, <2>5, <2>6
<1>3. ASSUME NEW a \in ToSet(given) PROVE a \in ToSet(ActiveFilters(list))
  <2>1. PICK i \in DOMAIN ids : a.id = ids[i]
    OBVIOUS
  <2>2. list[i].enabled /\ a = [id |-> list[i].id, value |-> list[i].value]
    BY <1>2, <2>1
  <2>3. [id |-> list[i].id, value |-> list[i].value] \in ToSet(ActiveFilters(list))
    BY <1>1, <2>2, ActiveFiltersAre
  <2> QED BY <2>2, <2>3
<1>4. ASSUME NEW a \in ToSet(ActiveFilters(list)) PROVE a \in ToSet(given)
  <2>1. PICK i \in DOMAIN list : list[i].enabled /\ a = [id |-> list[i].id, value |-> list[i].value]
    BY <1>1, ActiveFiltersAre
  <2>2. PICK b \in ToSet(given) : b.id = ids[i]
    BY <1>1, <2>1
  <2>3. b = [id |-> list[i].id, value |-> list[i].value]
    BY <1>1, <1>2, <2>2
  <2> QED BY <2>1, <2>3
<1> QED BY <1>3, <1>4 DEF SameActive, list

\* The list is initialized with what the newest request brings.
LEMMA DefinedInv ==
  ASSUME FilterInv, NEW f \in fetches, f.newest, fetches' = fetches \ {f}, Defined(Offered[f.accelerator]),
         UNCHANGED <<source, given, accelerator, options, refused, dragRef>>
  PROVE  FilterInv'
<1> DEFINE ids == Offered[accelerator]
<1>1. /\ f.accelerator = accelerator /\ ids \in Seq(STRING) /\ IsInjective(ids)
      /\ given \in Seq(ActiveFilter) /\ OneEach(given)
      /\ cards \in Seq(PanelCard) /\ defs \in Seq(STRING) /\ Len(cards) = Len(defs)
  BY PanelAssumption DEF FilterInv, FilterTypeOK, Fetching, Keeping, Listing
<1>2. defs' = ids /\ cards' = (IF ids = defs THEN cards ELSE Initialized(ids)) /\ Reported(source, cards')
  BY <1>1 DEF Defined
<1>3. /\ cards' \in Seq(PanelCard) /\ Listing'
  <2>1. CASE ids = defs
    BY <1>1, <1>2, <2>1 DEF FilterInv, Listing
  <2>2. CASE ids # defs
    <3>1. cards' = Initialized(ids)
      BY <1>2, <2>2
    <3>2. /\ cards' \in Seq(PanelCard) /\ Len(cards') = Len(ids) /\ DOMAIN cards' = DOMAIN ids
          /\ \A i \in DOMAIN ids : cards'[i].id = ids[i]
      <4>1. Initialized(ids) \in Seq(PanelCard) /\ Len(Initialized(ids)) = Len(ids)
        BY <1>1, InitializedList
      <4>2. DOMAIN Initialized(ids) = DOMAIN ids
        BY <1>1, <4>1
      <4>3. \A i \in DOMAIN ids : Initialized(ids)[i].id = ids[i]
        BY <1>1, InitializedList
      <4> QED BY <3>1, <4>1, <4>2, <4>3
    <3> HIDE DEF ids
    <3> QED BY <1>1, <1>2, <3>2 DEF Listing, Distinct, IsInjective
  <2> QED BY <2>1, <2>2
<1>4. kept' \in [Sources -> Seq(ActiveFilter)] /\ Keeping'
  <2>1. CASE cards' = << >>
    <3>1. kept' = kept
      BY <1>2, <2>1 DEF Reported
    <3>2. cards = << >>
      <4>1. ids = << >>
        BY <1>1, <1>2, <1>3, <2>1 DEF Listing
      <4>2. accelerator \notin Available
        BY <4>1 DEF Available
      <4>3. defs = << >>
        BY <4>2 DEF FilterInv, Fetching
      <4> QED BY <1>1, <4>3
    <3> QED BY <2>1, <3>1, <3>2 DEF FilterInv, FilterTypeOK, Keeping
  <2>2. CASE cards' # << >>
    <3>1. Distinct(cards')
      BY <1>3 DEF Listing
    <3> QED BY <1>2, <1>3, <2>2, <3>1, ReportedInv
  <2> QED BY <2>1, <2>2
<1>5. Fetching'
  <2>1. defs' # << >> => accelerator' \in Available
    BY <1>2, <1>1 DEF Available, FilterInv, FilterTypeOK
  <2>2. defs' = Offered[accelerator']
    BY <1>2
  <2> QED BY <2>1, <2>2 DEF FilterInv, Fetching
<1>6. FilterTypeOK'
  BY <1>1, <1>2, <1>3, <1>4 DEF FilterInv, FilterTypeOK
<1> QED BY <1>3, <1>4, <1>5, <1>6 DEF FilterInv

\* Requests are answered, fail and are made.
LEMMA AnswersInv ==
  ASSUME FilterInv, NEW f \in fetches, FiltersAnswer(f) \/ FiltersFail(f)
  PROVE  FilterInv'
<1>0. f \in [accelerator : Accelerators, newest : BOOLEAN]
  BY DEF FilterInv, FilterTypeOK
<1>1. CASE FiltersAnswer(f) /\ f.newest
  BY <1>1, DefinedInv DEF FiltersAnswer
<1>2. CASE ~f.newest /\ (FiltersAnswer(f) \/ FiltersFail(f))
  <2>1. fetches' = fetches \ {f} /\ UNCHANGED <<source, kept, given, accelerator, options, defs, cards, dragRef>>
    BY <1>2 DEF FiltersAnswer, FiltersFail
  <2>2. refused => refused'
    <3>1. CASE FiltersAnswer(f)
      BY <3>1 DEF FiltersAnswer
    <3>2. CASE FiltersFail(f)
      BY <3>2, Zenon DEF FiltersFail
    <3> QED BY <1>2, <3>1, <3>2
  <2>3. Fetching'
    BY <1>2, <2>1, <2>2 DEF FilterInv, Fetching
  <2>4. FilterTypeOK' /\ Listing' /\ Keeping'
    BY <2>1 DEF FilterInv, FilterTypeOK, Listing, Keeping
  <2> QED BY <2>3, <2>4 DEF FilterInv
<1>3. CASE FiltersFail(f) /\ f.newest
  <2>1. fetches' = fetches \ {f} /\ UNCHANGED <<source, kept, given, accelerator, options, defs, cards, dragRef>>
    BY <1>3 DEF FiltersFail
  <2>2. refused'
    BY <1>3, Zenon DEF FiltersFail
  <2>3. Fetching'
    BY <2>1, <2>2 DEF FilterInv, Fetching
  <2>4. FilterTypeOK' /\ Listing' /\ Keeping'
    BY <2>1 DEF FilterInv, FilterTypeOK, Listing, Keeping
  <2> QED BY <2>3, <2>4 DEF FilterInv
<1> QED BY <1>1, <1>2, <1>3

\* The accelerator is chosen.
LEMMA AcceleratorInv ==
  ASSUME FilterInv, NEW a \in Available, SetAccelerator(a),
         options' \in {{}, Available},
         UNCHANGED <<source, kept, given, defs, cards, dragRef>>
  PROVE  FilterInv'
<1>1. accelerator' = a /\ a \in Accelerators
  BY DEF SetAccelerator, Available
<1>2. CASE a # accelerator
  <2>1. fetches' = {[f EXCEPT !.newest = FALSE] : f \in fetches} \cup {[accelerator |-> a, newest |-> TRUE]}
    BY <1>2 DEF SetAccelerator, Refetched
  <2>2. ASSUME NEW g \in fetches'
        PROVE  g \in [accelerator : Accelerators, newest : BOOLEAN] /\ (g.newest => g.accelerator = a)
    <3>1. CASE g = [accelerator |-> a, newest |-> TRUE]
      BY <1>1, <3>1
    <3>2. CASE \E f \in fetches : g = [f EXCEPT !.newest = FALSE]
      <4>1. PICK f \in fetches : g = [f EXCEPT !.newest = FALSE]
        BY <3>2
      <4>2. f \in [accelerator : Accelerators, newest : BOOLEAN]
        BY DEF FilterInv, FilterTypeOK
      <4> QED BY <4>1, <4>2
    <3> QED BY <2>1, <3>1, <3>2
  <2>3. \E g \in fetches' : g.newest
    <3>1. [accelerator |-> a, newest |-> TRUE] \in fetches' /\ [accelerator |-> a, newest |-> TRUE].newest
      BY <2>1
    <3> QED BY <3>1, Zenon
  <2>4. Fetching'
    BY <1>1, <2>2, <2>3 DEF FilterInv, Fetching
  <2>5. FilterTypeOK'
    BY <1>1, <2>2 DEF FilterInv, FilterTypeOK
  <2>6. Listing' /\ Keeping'
    BY DEF FilterInv, Listing, Keeping
  <2> QED BY <2>4, <2>5, <2>6 DEF FilterInv
<1>3. CASE a = accelerator
  <2>1. UNCHANGED <<fetches, refused, accelerator>>
    BY <1>3 DEF SetAccelerator
  <2>2. Fetching'
    BY <1>3, <2>1 DEF FilterInv, Fetching
  <2>3. FilterTypeOK' /\ Listing' /\ Keeping'
    BY <2>1 DEF FilterInv, FilterTypeOK, Listing, Keeping
  <2> QED BY <2>2, <2>3 DEF FilterInv
<1> QED BY <1>2, <1>3

\* Another card is selected: the new panel starts with what the card has.
LEMMA SelectCardInv ==
  ASSUME FilterInv, NEW s \in Sources, SelectCard(s)
  PROVE  FilterInv' /\ kept' = kept
<1>1. /\ source' = s /\ given' = kept[s] /\ defs' = << >> /\ cards' = << >> /\ dragRef' = 0
      /\ UNCHANGED <<accelerator, options>>
      /\ fetches' = {[accelerator |-> accelerator, newest |-> TRUE]}
  BY DEF SelectCard, Refetched
<1>2. kept' = kept
  BY <1>1 DEF SelectCard, Reported
<1>3. FilterTypeOK'
  BY <1>1, <1>2 DEF FilterInv, FilterTypeOK
<1>4. Fetching'
  BY <1>1 DEF FilterInv, Fetching
<1>5. Listing'
  BY <1>1 DEF Listing, Distinct, IsInjective
<1>6. Keeping'
  BY <1>1, <1>2 DEF FilterInv, FilterTypeOK, Keeping, SameActive
<1> QED BY <1>2, <1>3, <1>4, <1>5, <1>6 DEF FilterInv

LEMMA FilterInitInv == PanelInit => FilterInv
<1> SUFFICES ASSUME PanelInit PROVE FilterInv
  OBVIOUS
<1>1. FilterTypeOK
  BY DEF PanelInit, FilterTypeOK
<1>2. Fetching
  <2>1. fetches = {[accelerator |-> accelerator, newest |-> TRUE]} /\ options = {} /\ defs = << >>
    BY DEF PanelInit
  <2>2. \E f \in fetches : f.newest
    <3>1. [accelerator |-> accelerator, newest |-> TRUE] \in fetches
          /\ [accelerator |-> accelerator, newest |-> TRUE].newest
      BY <2>1
    <3> QED BY <3>1, Zenon
  <2> QED BY <2>1, <2>2 DEF Fetching
<1>3. Listing
  BY DEF PanelInit, Listing, Distinct, IsInjective
<1>4. Keeping
  BY DEF PanelInit, Keeping, OneEach, SameActive, ToSet
<1> QED BY <1>1, <1>2, <1>3, <1>4 DEF FilterInv

LEMMA FilterStepInv == FilterInv /\ [PanelNext]_panelVars => FilterInv'
<1> SUFFICES ASSUME FilterInv, [PanelNext]_panelVars PROVE FilterInv'
  OBVIOUS
<1>1. CASE UNCHANGED panelVars
  BY <1>1 DEF FilterInv, FilterTypeOK, Fetching, Listing, Keeping, panelVars
<1>2. ASSUME NEW s \in Sources, SelectCard(s) PROVE FilterInv'
  BY <1>2, SelectCardInv
<1>3. CASE CapabilitiesAnswer
  <2>1. PICK a \in Available : SetAccelerator(IF accelerator \in Available THEN accelerator ELSE a)
    BY <1>3 DEF CapabilitiesAnswer
  <2>2. options' = Available /\ UNCHANGED <<source, kept, given, defs, cards, dragRef>>
    BY <1>3 DEF CapabilitiesAnswer
  <2> QED BY <2>1, <2>2, AcceleratorInv
<1>4. ASSUME NEW a \in Accelerators, ChooseAccelerator(a) PROVE FilterInv'
  <2>1. /\ a \in options /\ SetAccelerator(a) /\ options' = options
        /\ UNCHANGED <<source, kept, given, defs, cards, dragRef>>
    BY <1>4 DEF ChooseAccelerator
  <2>2. a \in Available /\ options' \in {{}, Available}
    BY <2>1 DEF FilterInv, FilterTypeOK
  <2> QED BY <2>1, <2>2, AcceleratorInv
<1>5. ASSUME NEW f \in fetches, FiltersAnswer(f) \/ FiltersFail(f) PROVE FilterInv'
  BY <1>5, AnswersInv
<1>6. ASSUME NEW i \in DOMAIN cards,
             \/ ToggleCard(i) \/ SetEnabled(i)
             \/ \E v \in Values : Chosen(i, v) \/ Typed(i, v)
             \/ \E v \in {cards[i].value - Step, cards[i].value + Step} : Arrow(i, v) \/ Wheel(i, v)
      PROVE  FilterInv'
  BY <1>6, EditsInv
<1>7. ASSUME NEW i \in DOMAIN cards, Drop(i) PROVE FilterInv'
  BY <1>7, DropInv
<1>8. ASSUME DragEnd \/ \E i \in DOMAIN cards : DragStart(i) PROVE FilterInv'
  <2>1. dragRef' \in Nat
    BY <1>8 DEF FilterInv, FilterTypeOK, DragEnd, DragStart
  <2>2. UNCHANGED <<source, kept, given, accelerator, options, fetches, refused, defs, cards>>
    BY <1>8 DEF DragEnd, DragStart
  <2> QED BY <2>1, <2>2 DEF FilterInv, FilterTypeOK, Fetching, Listing, Keeping
<1> QED BY <1>1, <1>2, <1>3, <1>4, <1>5, <1>6, <1>7, <1>8 DEF PanelNext

\* The panel tells its own card only.
LEMMA OnlyItsCard ==
  ASSUME FilterInv, PanelNext, NEW s \in Sources, s # source
  PROVE  kept'[s] = kept[s]
<1>1. \/ kept' = kept
      \/ Reported(source, cards')
      \/ \E r \in Sources : SelectCard(r)
  BY DEF PanelNext, CapabilitiesAnswer, ChooseAccelerator, FiltersAnswer, FiltersFail, Defined, ToggleCard,
         SetEnabled, SetParameter, Chosen, Typed, Arrow, Wheel, Edited, DragStart, DragEnd, Drop
<1>2. CASE Reported(source, cards')
  BY <1>2 DEF Reported, FilterInv, FilterTypeOK
<1>3. CASE \E r \in Sources : SelectCard(r)
  BY <1>3, SelectCardInv
<1> QED BY <1>1, <1>2, <1>3

\* Before the panel has a list it takes no active filter that is offered.
LEMMA WithoutList ==
  ASSUME FilterInv, PanelNext, cards = << >>, Ids(kept[source]) \subseteq Ids(cards')
  PROVE  ToSet(kept'[source]) = ToSet(kept[source])
<1>1. DOMAIN cards = {}
  OBVIOUS
<1>2. \/ kept' = kept
      \/ \E r \in Sources : SelectCard(r)
      \/ \E f \in fetches : FiltersAnswer(f) /\ f.newest
  BY <1>1 DEF PanelNext, CapabilitiesAnswer, ChooseAccelerator, FiltersAnswer, FiltersFail, DragEnd
<1>3. CASE \E r \in Sources : SelectCard(r)
  BY <1>3, SelectCardInv
<1>4. ASSUME NEW f \in fetches, FiltersAnswer(f), f.newest PROVE ToSet(kept'[source]) = ToSet(kept[source])
  <2> DEFINE ids == Offered[f.accelerator]
  <2>1. f.accelerator \in Accelerators
    BY DEF FilterInv, FilterTypeOK
  <2>2. ids \in Seq(STRING) /\ IsInjective(ids)
    BY <2>1, PanelAssumption
  <2>3. cards' = (IF ids = defs THEN cards ELSE Initialized(ids)) /\ Reported(source, cards')
    BY <1>4 DEF FiltersAnswer, Defined
  <2>4. /\ given \in Seq(ActiveFilter) /\ OneEach(given) /\ ToSet(given) = ToSet(kept[source])
        /\ kept \in [Sources -> Seq(ActiveFilter)] /\ source \in Sources
    BY DEF FilterInv, FilterTypeOK, Keeping, SameActive
  <2> HIDE DEF ids
  <2>5. CASE cards' = << >>
    BY <2>3, <2>5 DEF Reported
  <2>6. CASE cards' # << >>
    <3>1. cards' = Initialized(ids)
      BY <2>3, <2>6
    <3>2. /\ Initialized(ids) \in Seq(PanelCard) /\ DOMAIN Initialized(ids) = DOMAIN ids
          /\ \A i \in DOMAIN ids : Initialized(ids)[i].id = ids[i]
      <4>1. Initialized(ids) \in Seq(PanelCard) /\ Len(Initialized(ids)) = Len(ids)
        BY <2>2, <2>4, InitializedList
      <4>2. DOMAIN Initialized(ids) = DOMAIN ids
        BY <2>2, <4>1
      <4> QED BY <2>2, <2>4, <4>1, <4>2, InitializedList
    <3>3. ASSUME NEW a \in ToSet(given) PROVE \E i \in DOMAIN ids : a.id = ids[i]
      <4>1. a.id \in Ids(kept[source])
        BY <2>4 DEF Ids
      <4>2. a.id \in Ids(cards')
        BY <4>1
      <4>3. PICK i \in DOMAIN ids : a.id = Initialized(ids)[i].id
        BY <3>1, <3>2, <4>2 DEF Ids, ToSet
      <4> QED BY <3>2, <4>3
    <3>4. SameActive(ActiveFilters(Initialized(ids)), given)
      BY <2>2, <2>4, <3>3, InitializedKeeps
    <3>5. kept'[source] = ActiveFilters(Initialized(ids))
      BY <2>3, <2>4, <2>6, <3>1 DEF Reported
    <3> QED BY <2>4, <3>4, <3>5 DEF SameActive
  <2> QED BY <2>5, <2>6
<1> QED BY <1>2, <1>3, <1>4

Surviving ==
  \A s \in Sources :
    ToSet(kept'[s]) # ToSet(kept[s]) =>
      s = source /\ (cards # << >> \/ ~(Ids(kept[s]) \subseteq Ids(cards')))

LEMMA FilterSteps == FilterInv /\ [PanelNext]_panelVars => Surviving
<1> SUFFICES ASSUME FilterInv, [PanelNext]_panelVars, NEW s \in Sources, ToSet(kept'[s]) # ToSet(kept[s])
             PROVE  s = source /\ (cards # << >> \/ ~(Ids(kept[s]) \subseteq Ids(cards')))
  BY DEF Surviving
<1>1. PanelNext
  BY DEF panelVars
<1>2. s = source
  BY <1>1, OnlyItsCard
<1>3. cards # << >> \/ ~(Ids(kept[s]) \subseteq Ids(cards'))
  BY <1>1, <1>2, WithoutList
<1> QED BY <1>2, <1>3

LEMMA FilterInvImplies == FilterInv => PanelListsOffered
<1> SUFFICES ASSUME FilterInv PROVE PanelListsOffered
  OBVIOUS
<1>1. ASSUME NEW c \in ToSet(cards) PROVE c.value \in Low .. High
  <2>1. c \in PanelCard
    BY DEF FilterInv, FilterTypeOK, ToSet
  <2> QED BY <2>1 DEF PanelCard
<1>2. ASSUME fetches = {}, ~refused
      PROVE  Len(cards) = Len(Offered[accelerator]) /\ Ids(cards) = ToSet(Offered[accelerator])
  <2>1. defs = Offered[accelerator]
    BY <1>2 DEF FilterInv, Fetching
  <2>2. Len(cards) = Len(defs)
    BY DEF FilterInv, Listing
  <2>3. ASSUME NEW x \in Ids(cards) PROVE x \in ToSet(defs)
    BY DEF FilterInv, Listing, Ids, ToSet
  <2>4. ASSUME NEW x \in ToSet(defs) PROVE x \in Ids(cards)
    BY DEF FilterInv, Listing, Ids, ToSet
  <2> QED BY <2>1, <2>2, <2>3, <2>4
<1> QED BY <1>1, <1>2, Zenon DEF PanelListsOffered

-----------------------------------------------------------------------------
\* The views together: each keeps its invariant whichever moves.

ViewsInv == GridInv /\ FilterInv /\ FlagsInv /\ UploadInv /\ StatsInv /\ NavInv

LEMMA ViewsInitInv == ViewsInit => ViewsInv
<1> SUFFICES ASSUME ViewsInit PROVE ViewsInv
  OBVIOUS
<1>1. Init /\ PanelInit /\ FlagsInit /\ UploadInit /\ StatsInit /\ NavbarInit
  BY DEF ViewsInit
<1> QED BY <1>1, GridInitInv, FilterInitInv, FlagsInitInv, UploadInitInv, StatsInitInv, NavInitInv DEF ViewsInv

LEMMA ViewsStepInv ==
  ViewsInv /\ [ViewsNext]_viewVars => ViewsInv' /\ Others /\ Surviving /\ Undisturbed
<1> SUFFICES ASSUME ViewsInv, [ViewsNext]_viewVars
             PROVE  ViewsInv' /\ Others /\ Surviving /\ Undisturbed
  OBVIOUS
<1>1. /\ [Next]_vars /\ [PanelNext]_panelVars /\ [FlagsNext]_flagsVars /\ [UploadNext]_uploadVars
      /\ [StatsNext]_statsVars /\ [NavbarNext]_navVars
  BY DEF ViewsNext, viewVars
<1> QED BY <1>1, GridStepInv, FilterStepInv, FilterSteps, FlagsStepInv, UploadStepInv, StatsStepInv, NavStepInv
        DEF ViewsInv

\* The grid, the panel, the dialog of flags, the upload, the statistics and the bar keep
\* their invariants.
THEOREM ViewsInvariant == ViewsSpec => []ViewsInv
<1> QED BY ViewsInitInv, ViewsStepInv, PTL DEF ViewsSpec

\* Closing a card releases what it holds, unless something it had started was not done.
THEOREM ClosingReleases == ViewsSpec => []OnlyUnfinishedLeak
<1>1. ViewsInv => OnlyUnfinishedLeak
  BY GridInvImplies DEF ViewsInv
<1> QED BY <1>1, ViewsInvariant, PTL

\* The selected card, its number and its filters agree with the panel in every settled
\* state.
THEOREM PanelFollowsSelection == ViewsSpec => []PanelMatchesSelection
<1>1. ViewsInv => PanelMatchesSelection
  BY GridInvImplies DEF ViewsInv
<1> QED BY <1>1, ViewsInvariant, PTL

\* With every request answered the panel lists what the selected accelerator offers, each
\* filter once, however late answers come in and however cards are dragged; and no
\* parameter leaves its range.
THEOREM PanelAlwaysLists == ViewsSpec => []PanelListsOffered
<1>1. ViewsInv => PanelListsOffered
  BY FilterInvImplies DEF ViewsInv
<1> QED BY <1>1, ViewsInvariant, PTL

\* No step of the grid changes the filters of a card that is not selected, and the panel
\* changes those of its own card only, from a list of them: mounting it for one card after
\* another loses none that the accelerator offers.
THEOREM FiltersStayWithTheirCard == ViewsSpec => FiltersAreKept
<1>1. ViewsInv /\ [ViewsNext]_viewVars
        => [\A n \in Cards \cap DOMAIN grid' : grid'[n].filters # grid[n].filters => selected = n]_vars
  BY ViewsStepInv DEF Others
<1>2. ViewsInv /\ [ViewsNext]_viewVars
        => [\A s \in Sources :
              ToSet(kept'[s]) # ToSet(kept[s]) =>
                s = source /\ (cards # << >> \/ ~(Ids(kept[s]) \subseteq Ids(cards')))]_panelVars
  BY ViewsStepInv DEF Surviving
<1> QED BY <1>1, <1>2, ViewsInvariant, PTL
        DEF ViewsSpec, FiltersAreKept, OthersKeepFilters, FiltersSurviveSelection

\* What the page tells is so: of the flags once every call is answered, none failed and no
\* two lists were under way at once, of the transport in use, of a card on the page and of
\* the version while it loads; and of the menu and the tooltip one is open.
THEOREM PageTellsTheTruth == ViewsSpec => []PageIsCurrent
<1>1. ViewsInv => PageIsCurrent
  <2> SUFFICES ASSUME ViewsInv PROVE PageIsCurrent
    OBVIOUS
  <2>1. RowsAreCurrent
    BY DEF ViewsInv, FlagsInv, FlagsTypeOK, OnItsWay, RowsAreCurrent
  <2>2. RowIsOfTransport
    BY DEF ViewsInv, StatsInv, RowIsOfTransport
  <2>3. SelectionIsOnPage /\ LoadingIsTrue /\ OneIsOpen
    BY DEF ViewsInv, StatsInv, NavInv
  <2> QED BY <2>1, <2>2, <2>3 DEF PageIsCurrent
<1> QED BY <1>1, ViewsInvariant, PTL

\* No step of the page disturbs the upload under way.
THEOREM UploadsUndisturbed == ViewsSpec => UploadUndisturbed
<1>1. ViewsInv /\ [ViewsNext]_viewVars
        => [uploads > 0 /\ uploads' > 0 => uploads' = 1 /\ uploading' /\ progress' >= progress]_uploadVars
  BY ViewsStepInv DEF Undisturbed
<1> QED BY <1>1, ViewsInvariant, PTL DEF ViewsSpec, UploadUndisturbed

-----------------------------------------------------------------------------
\* The control channel.

WiresTypeOK ==
  /\ state \in [Channels -> {"new", "open", "closing", "removed", "failing", "closed"}]
  /\ inbox \in [Channels -> Seq(Requests)] /\ down \in [Channels -> Seq(Chunks)]
  /\ nextId \in [Channels -> Nat]
  /\ channel \in Channels \cup {None} /\ queue \in Seq(Requests)
  /\ partial \subseteq Chunks /\ lost \subseteq Requests

CallsTypeOK ==
  /\ req \in [Requests -> {"new", "pending", "resolved", "rejected", "timedout"}]
  /\ via \in [Requests -> Channels \cup {None}]
  /\ sends \in [Requests -> Nat]

\* A queued call has not been sent, and is queued once.
Sending ==
  /\ IsInjective(queue)
  /\ \A r \in ToSet(queue) : sends[r] = 0 /\ req[r] # "new"
  /\ \A r \in Requests :
       sends[r] <= 1 /\ (req[r] = "new" => sends[r] = 0) /\ (sends[r] = 0 => via[r] = None)

\* A call was sent on a channel that was open.
SentOnOpened == \A r \in Requests : \A c \in Channels : via[r] = c => state[c] # "new"

\* The chunks of an unfinished message are of one size, have different numbers, and one is
\* missing.
Assembling ==
  /\ \A c \in Channels : \A i \in DOMAIN down[c] : down[c][i].part <= down[c][i].of
  /\ \A x \in partial :
       /\ x.part <= x.of
       /\ \E p \in 1 .. x.of : \A y \in partial : y.id = x.id => y.part # p
  /\ \A x, y \in partial : x.id = y.id => x.of = y.of /\ (x.part = y.part => x = y)

\* Each chunk of the answer to a pending call is on its way or kept, unless the answer is lost.
Chunk(id, r, p, n) == [id |-> id, from |-> r, part |-> p, of |-> n]
Arrives(r, c) ==
  \E id \in Nat : \E n \in 1 .. MaxParts : \A p \in 1 .. n : Chunk(id, r, p, n) \in partial \cup ToSet(down[c])
Waits(r, c) == req[r] = "pending" /\ via[r] = c /\ state[c] = "open" /\ r \notin ToSet(inbox[c]) /\ r \notin lost
Arriving == \A r \in Requests : \A c \in Channels : Waits(r, c) => Arrives(r, c)

ChannelInv == WiresTypeOK /\ CallsTypeOK /\ Sending /\ SentOnOpened /\ Assembling /\ Arriving

LEMMA Counted ==
  ASSUME NEW rs \in Seq(Requests), IsInjective(rs), NEW r
  PROVE  Occurrences(r, rs) = IF r \in ToSet(rs) THEN 1 ELSE 0
<1>1. CASE r \in ToSet(rs)
  <2>1. PICK i \in DOMAIN rs : rs[i] = r
    BY <1>1 DEF ToSet
  <2>2. {j \in DOMAIN rs : rs[j] = r} = {i}
    BY <2>1 DEF IsInjective
  <2> QED BY <1>1, <2>2, FS_Singleton DEF Occurrences
<1>2. CASE r \notin ToSet(rs)
  <2>1. {j \in DOMAIN rs : rs[j] = r} = {}
    BY <1>2 DEF ToSet
  <2> QED BY <1>2, <2>1, FS_EmptySet DEF Occurrences
<1> QED BY <1>1, <1>2

\* A flush sends each queued call once.
LEMMA DispatchedInv ==
  ASSUME CallsTypeOK, Sending, queue \in Seq(Requests),
         NEW c \in Channels, NEW fails, NEW up \in [Channels -> Seq(Requests)],
         Dispatched(queue, c, up, fails), queue' = << >>
  PROVE  /\ CallsTypeOK' /\ Sending'
         /\ inbox' \in [Channels -> Seq(Requests)]
         /\ \A d \in Channels : ToSet(up[d]) \subseteq ToSet(inbox'[d])
         /\ \A r \in Requests : \/ via'[r] = via[r]
                                \/ via'[r] = c /\ r \in ToSet(inbox'[c])
         /\ \A r \in Requests : req'[r] = "pending" => req[r] = "pending"
<1> DEFINE P == {i \in DOMAIN queue : queue[i] \notin fails}
           sent == Filtered(queue, P)
<1>1. /\ inbox' = [up EXCEPT ![c] = @ \o sent]
      /\ via' = [r \in Requests |-> IF r \in ToSet(sent) THEN c ELSE via[r]]
      /\ sends' = [r \in Requests |-> sends[r] + Occurrences(r, sent)]
      /\ req' = [r \in Requests |-> IF r \in ToSet(queue) \cap fails \cap Pending THEN "rejected" ELSE req[r]]
  BY DEF Dispatched
<1>2. /\ sent \in Seq(Requests) /\ IsInjective(sent)
      /\ \A x \in ToSet(sent) : \E i \in P : x = queue[i]
  <2>1. P \in SUBSET (DOMAIN queue)
    OBVIOUS
  <2> HIDE DEF P
  <2> QED BY <2>1, FilteredElements DEF Sending
<1>3. \A x \in ToSet(sent) : x \in ToSet(queue)
  BY <1>2 DEF ToSet
<1> HIDE DEF sent, P
<1>4. ASSUME NEW r \in Requests PROVE sends'[r] = IF r \in ToSet(sent) THEN 1 ELSE sends[r]
  <2>1. sends[r] \in Nat /\ (r \in ToSet(sent) => sends[r] = 0)
    BY <1>3 DEF CallsTypeOK, Sending
  <2>2. sends'[r] = sends[r] + Occurrences(r, sent)
    BY <1>1
  <2>3. Occurrences(r, sent) = IF r \in ToSet(sent) THEN 1 ELSE 0
    BY <1>2, Counted
  <2> QED BY <2>1, <2>2, <2>3
<1>5. CallsTypeOK'
  <2>1. ASSUME NEW r \in Requests PROVE sends'[r] \in Nat
    <3>1. sends[r] \in Nat
      BY DEF CallsTypeOK
    <3>2. sends'[r] \in {1, sends[r]}
      BY <1>4
    <3> QED BY <3>1, <3>2
  <2>2. sends' \in [Requests -> Nat]
    BY <1>1, <2>1
  <2> QED BY <1>1, <2>2 DEF CallsTypeOK
<1>6. Sending'
  <2>1. IsInjective(queue') /\ ToSet(queue') = {}
    BY DEF IsInjective, ToSet
  <2>2. ASSUME NEW r \in Requests
        PROVE  sends'[r] <= 1 /\ (req'[r] = "new" => sends'[r] = 0) /\ (sends'[r] = 0 => via'[r] = None)
    <3>1. req'[r] = "new" => req[r] = "new"
      BY <1>1
    <3>2. r \in ToSet(sent) => req[r] # "new"
      BY <1>3 DEF Sending
    <3>3. via'[r] = IF r \in ToSet(sent) THEN c ELSE via[r]
      BY <1>1
    <3> QED BY <1>4, <3>1, <3>2, <3>3 DEF Sending, CallsTypeOK
  <2> QED BY <2>1, <2>2 DEF Sending
<1>7. /\ inbox' \in [Channels -> Seq(Requests)]
      /\ inbox'[c] = up[c] \o sent /\ \A d \in Channels \ {c} : inbox'[d] = up[d]
  BY <1>1, <1>2
<1>8. ToSet(up[c]) \subseteq ToSet(inbox'[c]) /\ ToSet(sent) \subseteq ToSet(inbox'[c])
  BY <1>2, <1>7, InBoth
<1>9. \A r \in Requests : via'[r] = via[r] \/ (via'[r] = c /\ r \in ToSet(sent))
  BY <1>1
<1> QED BY <1>1, <1>5, <1>6, <1>7, <1>8, <1>9

\* What is on its way stays so or is kept.
LEMMA StillArrives ==
  ASSUME NEW r, NEW c, Arrives(r, c),
         \A x \in partial \cup ToSet(down[c]) : x.from = r => x \in partial' \cup ToSet(down'[c])
  PROVE  Arrives(r, c)'
<1>1. PICK id \in Nat, n \in 1 .. MaxParts : \A p \in 1 .. n : Chunk(id, r, p, n) \in partial \cup ToSet(down[c])
  BY DEF Arrives
<1>2. \A p \in 1 .. n : Chunk(id, r, p, n).from = r
  BY DEF Chunk
<1> HIDE DEF Chunk
<1>3. \A p \in 1 .. n : Chunk(id, r, p, n) \in partial' \cup ToSet(down'[c])
  BY <1>1, <1>2
<1> QED BY <1>3 DEF Arrives

\* ... or is lost.
LEMMA ArrivingKept ==
  ASSUME Arriving,
         \A r \in Requests : \A c \in Channels : Waits(r, c)' =>
           /\ Waits(r, c)
           /\ \A x \in partial \cup ToSet(down[c]) : x.from = r => x \in partial' \cup ToSet(down'[c])
  PROVE  Arriving'
<1> SUFFICES ASSUME NEW r \in Requests, NEW c \in Channels, Waits(r, c)' PROVE Arrives(r, c)'
  BY DEF Arriving
<1>1. /\ Arrives(r, c)
      /\ \A x \in partial \cup ToSet(down[c]) : x.from = r => x \in partial' \cup ToSet(down'[c])
  BY DEF Arriving
<1> QED BY <1>1, StillArrives

LEMMA ChannelInitInv == ChannelInit => ChannelInv
<1> SUFFICES ASSUME ChannelInit PROVE ChannelInv
  OBVIOUS
<1>1. WiresTypeOK /\ CallsTypeOK
  BY DEF ChannelInit, WiresTypeOK, CallsTypeOK
<1>2. Sending
  BY DEF ChannelInit, Sending, IsInjective, ToSet
<1>3. Assembling
  BY DEF ChannelInit, Assembling
<1>4. Arriving
  BY DEF ChannelInit, Arriving, Waits
<1>5. SentOnOpened
  BY ChannelAssumption DEF ChannelInit, SentOnOpened
<1> QED BY <1>1, <1>2, <1>3, <1>4, <1>5 DEF ChannelInv

LEMMA CallInv ==
  ASSUME ChannelInv, NEW r \in Requests, Call(r)
  PROVE  ChannelInv'
<1>0. /\ WiresTypeOK /\ CallsTypeOK /\ Sending /\ SentOnOpened /\ Assembling /\ Arriving
      /\ req[r] = "new" /\ sends[r] = 0 /\ r \notin ToSet(queue)
      /\ UNCHANGED <<state, down, nextId, channel, listeners, partial, order, lost>>
  BY DEF ChannelInv, Call, Sending
<1>1. Assembling'
  BY <1>0 DEF Assembling
<1>2. CASE /\ Ready
           /\ req' = [req EXCEPT ![r] = "pending"]
           /\ inbox' = [inbox EXCEPT ![channel] = Append(@, r)]
           /\ via' = [via EXCEPT ![r] = channel]
           /\ sends' = [sends EXCEPT ![r] = @ + 1]
           /\ UNCHANGED queue
  <2>1. channel \in Channels /\ inbox[channel] \in Seq(Requests)
    BY <1>0, <1>2 DEF Ready, WiresTypeOK
  <2>2. inbox' \in [Channels -> Seq(Requests)] /\ inbox'[channel] = inbox[channel] \o <<r>>
        /\ \A c \in Channels \ {channel} : inbox'[c] = inbox[c]
    BY <1>0, <1>2, <2>1 DEF WiresTypeOK
  <2>3. ToSet(inbox'[channel]) = ToSet(inbox[channel]) \cup {r}
    <3>1. ToSet(<<r>>) = {r}
      BY DEF ToSet
    <3>2. <<r>> \in Seq(Requests)
      OBVIOUS
    <3>3. ToSet(inbox[channel] \o <<r>>) = ToSet(inbox[channel]) \cup ToSet(<<r>>)
      BY <2>1, <3>2, InBoth
    <3> QED BY <2>2, <3>1, <3>3
  <2>4. WiresTypeOK' /\ CallsTypeOK'
    BY <1>0, <1>2, <2>1, <2>2 DEF WiresTypeOK, CallsTypeOK
  <2>5. Sending'
    BY <1>0, <1>2 DEF Sending, CallsTypeOK
  <2>6. Arriving'
    <3>1. ASSUME NEW q \in Requests, NEW c \in Channels, Waits(q, c)'
          PROVE  Waits(q, c)
      <4>1. q # r
        BY <1>0, <1>2, <2>1, <2>3, <3>1 DEF Waits, CallsTypeOK
      <4>2. req'[q] = req[q] /\ via'[q] = via[q]
        BY <1>0, <1>2, <4>1 DEF CallsTypeOK
      <4>3. q \notin ToSet(inbox[c])
        BY <2>2, <2>3, <3>1 DEF Waits
      <4> QED BY <1>0, <3>1, <4>2, <4>3 DEF Waits
    <3> QED BY <1>0, <3>1, ArrivingKept
  <2>7. SentOnOpened'
    BY <1>0, <1>2 DEF SentOnOpened, Ready, CallsTypeOK
  <2> QED BY <1>1, <2>4, <2>5, <2>6, <2>7 DEF ChannelInv
<1>3. CASE req' = [req EXCEPT ![r] = "rejected"] /\ UNCHANGED <<inbox, via, sends, queue>>
  <2>1. WiresTypeOK' /\ CallsTypeOK' /\ Sending'
    BY <1>0, <1>3 DEF WiresTypeOK, CallsTypeOK, Sending
  <2>2. \A q \in Requests : \A c \in Channels : Waits(q, c)' => Waits(q, c)
    BY <1>0, <1>3 DEF Waits, CallsTypeOK
  <2>3. Arriving'
    BY <1>0, <2>2, ArrivingKept
  <2>4. SentOnOpened'
    BY <1>0, <1>3 DEF SentOnOpened
  <2> QED BY <1>1, <2>1, <2>3, <2>4 DEF ChannelInv
<1>4. CASE /\ req' = [req EXCEPT ![r] = "pending"]
           /\ queue' = Append(queue, r)
           /\ UNCHANGED <<inbox, via, sends>>
  <2>1. queue \in Seq(Requests)
    BY <1>0 DEF WiresTypeOK
  <2>2. /\ queue' \in Seq(Requests) /\ DOMAIN queue' = 1 .. Len(queue) + 1 /\ queue'[Len(queue) + 1] = r
        /\ DOMAIN queue = 1 .. Len(queue) /\ Len(queue) \in Nat
        /\ \A i \in DOMAIN queue : queue'[i] = queue[i] /\ queue[i] # r
    BY <1>0, <1>4, <2>1 DEF ToSet
  <2>3. WiresTypeOK' /\ CallsTypeOK'
    BY <1>0, <1>4, <2>2 DEF WiresTypeOK, CallsTypeOK
  <2>4. IsInjective(queue')
    <3>1. \A i \in DOMAIN queue' : i \in DOMAIN queue \/ i = Len(queue) + 1
      BY <2>2
    <3> QED BY <1>0, <2>2, <3>1 DEF Sending, IsInjective
  <2>5. \A q \in ToSet(queue') : q \in ToSet(queue) \/ q = r
    BY <2>2 DEF ToSet
  <2>6. Sending'
    <3>1. ASSUME NEW q \in ToSet(queue') PROVE sends'[q] = 0 /\ req'[q] # "new"
      <4>1. q \in Requests
        BY <2>2 DEF ToSet
      <4> QED BY <1>0, <1>4, <2>5, <4>1 DEF Sending, CallsTypeOK
    <3>2. ASSUME NEW q \in Requests
          PROVE  sends'[q] <= 1 /\ (req'[q] = "new" => sends'[q] = 0) /\ (sends'[q] = 0 => via'[q] = None)
      BY <1>0, <1>4 DEF Sending, CallsTypeOK
    <3> QED BY <2>4, <3>1, <3>2 DEF Sending
  <2>7. ASSUME NEW q \in Requests, NEW c \in Channels, Waits(q, c)' PROVE Waits(q, c)
    <3>1. q # r
      <4>1. via[r] = None
        BY <1>0 DEF Sending
      <4> QED BY <1>0, <1>4, <2>7, <4>1, ChannelAssumption DEF Waits
    <3> QED BY <1>0, <1>4, <2>7, <3>1 DEF Waits, CallsTypeOK
  <2>8. Arriving'
    BY <1>0, <2>7, ArrivingKept
  <2>9. SentOnOpened'
    BY <1>0, <1>4 DEF SentOnOpened
  <2> QED BY <1>1, <2>3, <2>6, <2>8, <2>9 DEF ChannelInv
<1> QED BY <1>2, <1>3, <1>4 DEF Call

LEMMA TimeoutInv ==
  ASSUME ChannelInv, NEW r \in Requests, Timeout(r)
  PROVE  ChannelInv'
<1>1. /\ WiresTypeOK /\ CallsTypeOK /\ Sending /\ SentOnOpened /\ Assembling /\ Arriving
      /\ req' = [req EXCEPT ![r] = "timedout"]
      /\ UNCHANGED <<state, inbox, down, nextId, channel, partial, queue, via, sends, lost>>
  BY DEF ChannelInv, Timeout, wires, service
<1>2. WiresTypeOK' /\ CallsTypeOK' /\ SentOnOpened' /\ Assembling'
  BY <1>1 DEF WiresTypeOK, CallsTypeOK, SentOnOpened, Assembling
<1>3. Sending'
  <2>1. ASSUME NEW q \in Requests PROVE req'[q] = "new" => req[q] = "new"
    BY <1>1 DEF CallsTypeOK
  <2>2. \A q \in ToSet(queue) : q \in Requests
    BY <1>1 DEF WiresTypeOK, ToSet
  <2> QED BY <1>1, <2>1, <2>2 DEF Sending
<1>4. Arriving'
  <2>1. \A q \in Requests : \A c \in Channels : Waits(q, c)' => Waits(q, c)
    BY <1>1 DEF Waits, CallsTypeOK
  <2> QED BY <1>1, <2>1, ArrivingKept
<1> QED BY <1>2, <1>3, <1>4 DEF ChannelInv

\* A new reassembler: what the old one kept is lost.
LEMMA ReassemblesKeeps ==
  ASSUME WiresTypeOK, Assembling, Reassembles,
         \A c \in Channels : down'[c] \in {down[c], << >>}
  PROVE  /\ partial' = {} /\ Assembling' /\ lost' \subseteq Requests
         /\ \A x \in partial : x.from \in lost'
         /\ lost \subseteq lost'
<1>1. partial' = {} /\ lost' = lost \cup {k.from : k \in partial}
  BY DEF Reassembles
<1>2. \A x \in partial : x.from \in Requests
  BY DEF WiresTypeOK, Chunks
<1>3. \A c \in Channels : \A i \in DOMAIN down'[c] : down'[c][i].part <= down'[c][i].of
  BY DEF Assembling
<1> QED BY <1>1, <1>2, <1>3 DEF Assembling, WiresTypeOK

\* A channel is attached; those that are open were so, and carry what they did.
LEMMA AttachInv ==
  ASSUME ChannelInv, NEW c \in Channels, NEW fails, NEW up \in [Channels -> Seq(Requests)],
         Attach(c, queue, up, fails),
         state' \in [Channels -> {"new", "open", "closing", "removed", "failing", "closed"}],
         down' \in [Channels -> Seq(Chunks)], nextId' \in [Channels -> Nat],
         \A d \in Channels : down'[d] \in {down[d], << >>},
         \A d \in Channels : state'[d] = "open" =>
           /\ state[d] = "open" \/ d = c
           /\ inbox[d] = up[d] /\ down'[d] = down[d],
         \A d \in Channels : state[d] # "new" => state'[d] # "new",
         state'[c] = "open", state[c] \in {"new", "open"}
  PROVE  ChannelInv'
<1>1. /\ WiresTypeOK /\ CallsTypeOK /\ Sending /\ SentOnOpened /\ Assembling /\ Arriving
      /\ channel' = c /\ Reassembles /\ queue' = << >> /\ Dispatched(queue, c, up, fails)
  BY DEF ChannelInv, Attach
<1>2. /\ CallsTypeOK' /\ Sending'
      /\ inbox' \in [Channels -> Seq(Requests)]
      /\ \A d \in Channels : ToSet(up[d]) \subseteq ToSet(inbox'[d])
      /\ \A r \in Requests : via'[r] = via[r] \/ (via'[r] = c /\ r \in ToSet(inbox'[c]))
      /\ \A r \in Requests : req'[r] = "pending" => req[r] = "pending"
  BY <1>1, DispatchedInv DEF WiresTypeOK
<1>3. /\ partial' = {} /\ Assembling' /\ lost' \subseteq Requests
      /\ \A x \in partial : x.from \in lost'
      /\ lost \subseteq lost'
  BY <1>1, ReassemblesKeeps
<1>4. WiresTypeOK'
  BY <1>1, <1>2, <1>3 DEF WiresTypeOK
<1>5. Arriving'
  <2>1. ASSUME NEW r \in Requests, NEW d \in Channels, Waits(r, d)'
        PROVE  /\ Waits(r, d)
               /\ \A x \in partial \cup ToSet(down[d]) : x.from = r => x \in partial' \cup ToSet(down'[d])
    <3>1. req[r] = "pending" /\ r \notin lost /\ r \notin lost'
      BY <1>2, <1>3, <2>1 DEF Waits
    <3>2. via[r] = d
      BY <1>2, <2>1 DEF Waits
    <3>3. state[d] = "open" /\ inbox[d] = up[d] /\ down'[d] = down[d]
      BY <1>1, <2>1, <3>2 DEF Waits, SentOnOpened
    <3>4. r \notin ToSet(inbox[d])
      BY <1>2, <2>1, <3>3 DEF Waits
    <3> QED BY <1>3, <3>1, <3>2, <3>3, <3>4 DEF Waits
  <2> QED BY <1>1, <2>1, ArrivingKept
<1>6. SentOnOpened'
  <2> SUFFICES ASSUME NEW r \in Requests, NEW d \in Channels, via'[r] = d PROVE state'[d] # "new"
    BY DEF SentOnOpened
  <2>1. CASE via[r] = d
    BY <1>1, <2>1 DEF SentOnOpened
  <2>2. CASE d = c
    BY <2>2
  <2> QED BY <1>2, <2>1, <2>2
<1> QED BY <1>2, <1>3, <1>4, <1>5, <1>6 DEF ChannelInv

LEMMA OpensInv ==
  ASSUME ChannelInv, NEW c \in Channels, Opens(c)
  PROVE  ChannelInv'
<1>1. /\ WiresTypeOK /\ state[c] = "new" /\ state' = [state EXCEPT ![c] = "open"]
      /\ down' = down /\ nextId' = nextId
  BY DEF ChannelInv, Opens
<1>2. PICK fails \in SUBSET ToSet(queue) : Attach(c, queue, inbox, fails)
  BY DEF Opens
<1>3. /\ state' \in [Channels -> {"new", "open", "closing", "removed", "failing", "closed"}]
      /\ inbox \in [Channels -> Seq(Requests)] /\ down' \in [Channels -> Seq(Chunks)]
      /\ nextId' \in [Channels -> Nat]
  BY <1>1 DEF WiresTypeOK
<1>4. /\ state'[c] = "open" /\ \A d \in Channels : state[d] # "new" => state'[d] # "new"
      /\ \A d \in Channels : state'[d] = "open" => state[d] = "open" \/ d = c
  BY <1>1 DEF WiresTypeOK
<1>5. \A d \in Channels : down'[d] = down[d]
  BY <1>1
<1> QED BY <1>1, <1>2, <1>3, <1>4, <1>5, AttachInv

\* No channel opens.
LEMMA NulledInv ==
  ASSUME ChannelInv, NEW up \in [Channels -> Seq(Requests)], Nulled(state', up),
         state' \in [Channels -> {"new", "open", "closing", "removed", "failing", "closed"}],
         down' \in [Channels -> Seq(Chunks)], nextId' \in [Channels -> Nat],
         \A d \in Channels : down'[d] \in {down[d], << >>},
         \A d \in Channels : state'[d] = "open" =>
           state[d] = "open" /\ inbox[d] = up[d] /\ down'[d] = down[d],
         \A d \in Channels : state[d] # "new" => state'[d] # "new"
  PROVE  ChannelInv'
<1>0. WiresTypeOK /\ CallsTypeOK /\ Sending /\ SentOnOpened /\ Assembling /\ Arriving
  BY DEF ChannelInv
<1>1. CASE channel = None
  <2>1. inbox' = up /\ UNCHANGED <<channel, partial, queue, req, via, sends, lost>>
    BY <1>1 DEF Nulled, service, calls
  <2>2. WiresTypeOK' /\ CallsTypeOK' /\ Sending'
    BY <1>0, <2>1 DEF WiresTypeOK, CallsTypeOK, Sending
  <2>3. SentOnOpened'
    BY <1>0, <2>1 DEF SentOnOpened
  <2>4. Assembling'
    <3>1. ASSUME NEW d \in Channels PROVE \A i \in DOMAIN down'[d] : down'[d][i].part <= down'[d][i].of
      <4>1. CASE down'[d] = down[d]
        BY <1>0, <4>1 DEF Assembling
      <4>2. CASE down'[d] = << >>
        BY <4>2
      <4> QED BY <4>1, <4>2
    <3> QED BY <1>0, <2>1, <3>1 DEF Assembling
  <2>5. Arriving'
    <3>1. ASSUME NEW r \in Requests, NEW d \in Channels, Waits(r, d)'
          PROVE  /\ Waits(r, d)
                 /\ \A x \in partial \cup ToSet(down[d]) : x.from = r => x \in partial' \cup ToSet(down'[d])
      BY <2>1, <3>1 DEF Waits
    <3> QED BY <1>0, <3>1, ArrivingKept
  <2> QED BY <2>2, <2>3, <2>4, <2>5 DEF ChannelInv
<1>2. ASSUME NEW c \in {d \in Channels : state'[d] = "open"}, NEW fails \in SUBSET ToSet(queue),
             Attach(c, queue, up, fails)
      PROVE  ChannelInv'
  <2>1. c \in Channels /\ state'[c] = "open" /\ state[c] = "open"
    OBVIOUS
  <2> QED BY <1>2, <2>1, AttachInv
<1>3. CASE /\ \A d \in Channels : state'[d] # "open"
           /\ channel' = None /\ Reassembles /\ queue' = << >>
           /\ req' = [r \in Requests |-> IF r \in Pending THEN "rejected" ELSE req[r]]
           /\ inbox' = up
           /\ UNCHANGED <<listeners, via, sends>>
  <2>1. /\ partial' = {} /\ Assembling' /\ lost' \subseteq Requests
    BY <1>0, <1>3, ReassemblesKeeps
  <2>2. WiresTypeOK' /\ CallsTypeOK'
    BY <1>0, <1>3, <2>1 DEF WiresTypeOK, CallsTypeOK
  <2>3. Sending'
    <3>1. IsInjective(queue') /\ ToSet(queue') = {}
      BY <1>3 DEF IsInjective, ToSet
    <3>2. \A r \in Requests : req'[r] = "new" => req[r] = "new"
      BY <1>3
    <3> QED BY <1>0, <1>3, <3>1, <3>2 DEF Sending
  <2>4. SentOnOpened' /\ Arriving'
    BY <1>0, <1>3 DEF SentOnOpened, Arriving, Waits
  <2> QED BY <2>1, <2>2, <2>3, <2>4 DEF ChannelInv
<1>4. \/ channel = None
      \/ \E c \in {d \in Channels : state'[d] = "open"}, fails \in SUBSET ToSet(queue) :
           Attach(c, queue, up, fails)
      \/ /\ \A d \in Channels : state'[d] # "open"
         /\ channel' = None /\ Reassembles /\ queue' = << >>
         /\ req' = [r \in Requests |-> IF r \in Pending THEN "rejected" ELSE req[r]]
         /\ inbox' = up
         /\ UNCHANGED <<listeners, via, sends>>
  BY DEF Nulled
<1> QED BY <1>1, <1>2, <1>3, <1>4

\* What a channel's leaving the open state leaves of the others.
LEMMA LeavesOthers ==
  ASSUME WiresTypeOK, NEW c \in Channels, NEW s \in {"closing", "removed", "failing", "closed"},
         Leaves(c, s), NEW up, up = inbox \/ up = [inbox EXCEPT ![c] = << >>]
  PROVE  /\ up \in [Channels -> Seq(Requests)]
         /\ state' \in [Channels -> {"new", "open", "closing", "removed", "failing", "closed"}]
         /\ down' \in [Channels -> Seq(Chunks)] /\ nextId' \in [Channels -> Nat]
         /\ \A d \in Channels : down'[d] \in {down[d], << >>}
         /\ \A d \in Channels : state'[d] = "open" =>
              state[d] = "open" /\ inbox[d] = up[d] /\ down'[d] = down[d]
         /\ \A d \in Channels : state[d] # "new" => state'[d] # "new"
<1>1. /\ state' = [state EXCEPT ![c] = s] /\ down' = [down EXCEPT ![c] = << >>] /\ nextId' = nextId
  BY DEF Leaves
<1>2. << >> \in Seq(Requests) /\ << >> \in Seq(Chunks)
  OBVIOUS
<1>3. /\ state \in [Channels -> {"new", "open", "closing", "removed", "failing", "closed"}]
      /\ inbox \in [Channels -> Seq(Requests)] /\ down \in [Channels -> Seq(Chunks)]
      /\ nextId \in [Channels -> Nat]
  BY DEF WiresTypeOK
<1>4. /\ up \in [Channels -> Seq(Requests)] /\ down' \in [Channels -> Seq(Chunks)]
      /\ \A d \in Channels \ {c} : inbox[d] = up[d]
  BY <1>1, <1>2, <1>3
<1> QED BY <1>1, <1>3, <1>4

LEMMA ClosesInv ==
  ASSUME ChannelInv, NEW c \in Channels, CleansUp(c) \/ ErrorEvent(c) \/ CloseEvent(c)
  PROVE  ChannelInv'
<1>0. \E s \in {"closing", "removed", "failing", "closed"}, up \in {inbox, [inbox EXCEPT ![c] = << >>]} :
        Leaves(c, s) /\ Nulled(state', up)
  <2>1. CASE CleansUp(c)
    BY <2>1 DEF CleansUp
  <2>2. CASE ErrorEvent(c)
    BY <2>2 DEF ErrorEvent
  <2>3. CASE CloseEvent(c)
    BY <2>3 DEF CloseEvent
  <2> QED BY <2>1, <2>2, <2>3
<1>1. PICK s \in {"closing", "removed", "failing", "closed"}, up \in {inbox, [inbox EXCEPT ![c] = << >>]} :
        Leaves(c, s) /\ Nulled(state', up)
  BY <1>0
<1>4. Leaves(c, s) /\ Nulled(state', up) /\ (up = inbox \/ up = [inbox EXCEPT ![c] = << >>])
  BY <1>1
<1>2. WiresTypeOK
  BY DEF ChannelInv
<1>3. /\ up \in [Channels -> Seq(Requests)]
      /\ state' \in [Channels -> {"new", "open", "closing", "removed", "failing", "closed"}]
      /\ down' \in [Channels -> Seq(Chunks)] /\ nextId' \in [Channels -> Nat]
      /\ \A d \in Channels : down'[d] \in {down[d], << >>}
      /\ \A d \in Channels : state'[d] = "open" =>
           state[d] = "open" /\ inbox[d] = up[d] /\ down'[d] = down[d]
      /\ \A d \in Channels : state[d] # "new" => state'[d] # "new"
  BY <1>2, <1>4, LeavesOthers
<1> QED BY <1>3, <1>4, NulledInv

LEMMA ClosingInv ==
  ASSUME ChannelInv, NEW c \in Channels, Closing(c)
  PROVE  ChannelInv'
<1>6. PICK s \in {"closing", "removed", "failing", "closed"} : Leaves(c, s)
  BY DEF Closing
<1>7. PICK up : up = [inbox EXCEPT ![c] = << >>]
  OBVIOUS
<1>0. /\ WiresTypeOK /\ CallsTypeOK /\ Sending /\ SentOnOpened /\ Assembling /\ Arriving
      /\ inbox' = up
      /\ UNCHANGED <<channel, partial, queue, req, via, sends, lost>>
  BY <1>7 DEF ChannelInv, Closing, service, calls
<1>1. /\ up \in [Channels -> Seq(Requests)]
      /\ state' \in [Channels -> {"new", "open", "closing", "removed", "failing", "closed"}]
      /\ down' \in [Channels -> Seq(Chunks)] /\ nextId' \in [Channels -> Nat]
      /\ \A d \in Channels : down'[d] \in {down[d], << >>}
      /\ \A d \in Channels : state'[d] = "open" =>
           state[d] = "open" /\ inbox[d] = up[d] /\ down'[d] = down[d]
      /\ \A d \in Channels : state[d] # "new" => state'[d] # "new"
  BY <1>0, <1>6, <1>7, LeavesOthers
<1>2. WiresTypeOK' /\ CallsTypeOK' /\ Sending'
  BY <1>0, <1>1 DEF WiresTypeOK, CallsTypeOK, Sending
<1>3. SentOnOpened'
  BY <1>0, <1>1 DEF SentOnOpened
<1>4. Assembling'
  <2>1. ASSUME NEW d \in Channels PROVE \A i \in DOMAIN down'[d] : down'[d][i].part <= down'[d][i].of
    <3>1. CASE down'[d] = down[d]
      BY <1>0, <3>1 DEF Assembling
    <3>2. CASE down'[d] = << >>
      BY <3>2
    <3> QED BY <1>1, <3>1, <3>2
  <2> QED BY <1>0, <2>1 DEF Assembling
<1>5. Arriving'
  <2>1. ASSUME NEW r \in Requests, NEW d \in Channels, Waits(r, d)'
        PROVE  /\ Waits(r, d)
               /\ \A x \in partial \cup ToSet(down[d]) : x.from = r => x \in partial' \cup ToSet(down'[d])
    BY <1>0, <1>1, <2>1 DEF Waits
  <2> QED BY <1>0, <2>1, ArrivingKept
<1> QED BY <1>2, <1>3, <1>4, <1>5 DEF ChannelInv

LEMMA AnswerInv ==
  ASSUME ChannelInv, NEW c \in Channels, Answer(c)
  PROVE  ChannelInv'
<1> DEFINE r == Head(inbox[c])
           id == nextId'[c]
<1>0. /\ WiresTypeOK /\ CallsTypeOK /\ Sending /\ SentOnOpened /\ Assembling /\ Arriving
      /\ inbox[c] \in Seq(Requests) /\ inbox[c] # << >>
      /\ inbox' = [inbox EXCEPT ![c] = Tail(@)]
      /\ UNCHANGED <<state, channel, partial, queue, req, via, sends>>
  BY DEF ChannelInv, Answer, WiresTypeOK, service, calls
<1>2. /\ r \in Requests /\ Tail(inbox[c]) \in Seq(Requests)
      /\ ToSet(inbox[c]) = ToSet(Tail(inbox[c])) \cup {r}
  BY <1>0, FirstAndRest
<1>a. /\ inbox' \in [Channels -> Seq(Requests)]
      /\ inbox'[c] = Tail(inbox[c]) /\ \A d \in Channels \ {c} : inbox'[d] = inbox[d]
  BY <1>0, <1>2 DEF WiresTypeOK
<1>b. CASE UNCHANGED <<down, nextId>> /\ lost' = lost \cup {r}
  <2>1. WiresTypeOK' /\ CallsTypeOK' /\ Sending' /\ SentOnOpened' /\ Assembling'
    BY <1>0, <1>2, <1>a, <1>b DEF WiresTypeOK, CallsTypeOK, Sending, SentOnOpened, Assembling
  <2>2. ASSUME NEW q \in Requests, NEW d \in Channels, Waits(q, d)' PROVE Arrives(q, d)'
    <3>1. q # r
      BY <1>b, <2>2 DEF Waits
    <3>2. Waits(q, d)
      BY <1>0, <1>2, <1>a, <1>b, <2>2, <3>1 DEF Waits
    <3>3. Arrives(q, d)
      BY <1>0, <3>2 DEF Arriving
    <3> QED BY <1>0, <1>b, <3>3, StillArrives
  <2> QED BY <2>1, <2>2 DEF ChannelInv, Arriving
<1>d. CASE \E others \in 0 .. MaxOthers, n \in 1 .. MaxParts : \E m \in 1 .. n :
             /\ nextId' = [nextId EXCEPT ![c] = @ + others + 1]
             /\ down' = [down EXCEPT ![c] = @ \o Framed(r, id, n, m)]
             /\ lost' = IF m = n THEN lost ELSE lost \cup {r}
  <2>1. PICK others \in 0 .. MaxOthers, n \in 1 .. MaxParts : \E m \in 1 .. n :
             /\ nextId' = [nextId EXCEPT ![c] = @ + others + 1]
             /\ down' = [down EXCEPT ![c] = @ \o Framed(r, id, n, m)]
             /\ lost' = IF m = n THEN lost ELSE lost \cup {r}
    BY <1>d
  <2>2. PICK m \in 1 .. n :
             /\ nextId' = [nextId EXCEPT ![c] = @ + others + 1]
             /\ down' = [down EXCEPT ![c] = @ \o Framed(r, id, n, m)]
             /\ lost' = IF m = n THEN lost ELSE lost \cup {r}
    BY <2>1
  <2>3. id \in Nat /\ n \in Nat /\ m \in Nat /\ nextId' \in [Channels -> Nat]
    BY <1>0, <2>1, <2>2, ChannelAssumption DEF WiresTypeOK
  <2> HIDE DEF r, id
  <2> DEFINE sent == Framed(r, id, n, m)
  <2>4. /\ sent \in Seq(Chunks) /\ DOMAIN sent = 1 .. m
        /\ \A i \in 1 .. m : sent[i] = Chunk(id, r, i, n)
    <3>1. sent = [i \in 1 .. m |-> Chunk(id, r, i, n)]
      BY DEF Framed, Chunk
    <3>2. \A i \in 1 .. m : Chunk(id, r, i, n) \in Chunks
      BY <2>1, <2>2, <1>2, <2>3, ChannelAssumption DEF Chunk, Chunks
    <3> HIDE DEF Chunk, sent
    <3>3. sent \in [1 .. m -> Chunks]
      BY <3>1, <3>2
    <3> QED BY <2>3, <3>1, <3>3
  <2> HIDE DEF sent
  <2>5. /\ down[c] \in Seq(Chunks) /\ down' \in [Channels -> Seq(Chunks)]
        /\ down'[c] = down[c] \o sent /\ \A d \in Channels \ {c} : down'[d] = down[d]
    BY <1>0, <2>2, <2>4 DEF WiresTypeOK, sent
  <2>6. ToSet(down'[c]) = ToSet(down[c]) \cup ToSet(sent)
    BY <2>4, <2>5, InBoth
  <2>7. WiresTypeOK' /\ CallsTypeOK' /\ Sending' /\ SentOnOpened'
    BY <1>0, <1>2, <1>a, <2>2, <2>3, <2>5 DEF WiresTypeOK, CallsTypeOK, Sending, SentOnOpened
  <2>8. Assembling'
    <3>1. ASSUME NEW d \in Channels, NEW i \in DOMAIN down'[d] PROVE down'[d][i].part <= down'[d][i].of
      <4>1. CASE d # c
        BY <1>0, <2>5, <4>1 DEF Assembling
      <4>2. CASE d = c
        <5>1. down'[c][i] \in ToSet(down[c]) \cup ToSet(sent)
          BY <2>6, <4>2 DEF ToSet
        <5>2. \A x \in ToSet(down[c]) : x.part <= x.of
          BY <1>0 DEF Assembling, ToSet
        <5>3. \A x \in ToSet(sent) : x.part <= x.of
          BY <2>2, <2>3, <2>4 DEF ToSet, Chunk
        <5> QED BY <4>2, <5>1, <5>2, <5>3
      <4> QED BY <4>1, <4>2
    <3> QED BY <1>0, <3>1 DEF Assembling
  <2>9. Arriving'
    <3> SUFFICES ASSUME NEW q \in Requests, NEW d \in Channels, Waits(q, d)' PROVE Arrives(q, d)'
      BY DEF Arriving
    <3>1. CASE q = r /\ d = c
      <4>1. m = n
        BY <2>2, <3>1 DEF Waits
      <4>2. \A p \in 1 .. n : Chunk(id, r, p, n) \in ToSet(sent)
        BY <2>4, <4>1 DEF ToSet
      <4>3. \A p \in 1 .. n : Chunk(id, q, p, n) \in partial' \cup ToSet(down'[d])
        BY <2>6, <3>1, <4>2
      <4> QED BY <2>3, <4>3 DEF Arrives
    <3>2. CASE ~(q = r /\ d = c)
      <4>1. Waits(q, d)
        BY <1>0, <1>2, <1>a, <2>2, <3>2 DEF Waits
      <4>2. Arrives(q, d)
        BY <1>0, <4>1 DEF Arriving
      <4>3. \A x \in partial \cup ToSet(down[d]) : x \in partial' \cup ToSet(down'[d])
        BY <1>0, <2>5, <2>6
      <4> QED BY <4>2, <4>3, StillArrives
    <3> QED BY <3>1, <3>2
  <2> QED BY <2>7, <2>8, <2>9 DEF ChannelInv
<1> QED BY <1>b, <1>d DEF Answer

\* A message whose every other chunk is there is complete.
LEMMA AllPartsComplete ==
  ASSUME WiresTypeOK, Assembling, NEW k \in Chunks, k.part <= k.of, Fits(k),
         \A p \in 1 .. k.of : p # k.part => \E x \in Slots(k) : x.part = p
  PROVE  Completes(k)
<1> DEFINE parts == (1 .. k.of) \ {k.part}
           chunk == [p \in parts |-> CHOOSE x \in Slots(k) : x.part = p]
<1>1. k.of \in Nat /\ k.part \in 1 .. k.of
  BY ChannelAssumption DEF Chunks
<1>2. IsFiniteSet(parts) /\ Cardinality(parts) = k.of - 1
  <2>1. IsFiniteSet(1 .. k.of) /\ Cardinality(1 .. k.of) = k.of
    BY <1>1, FS_Interval
  <2>2. /\ IsFiniteSet((1 .. k.of) \ {k.part})
        /\ Cardinality((1 .. k.of) \ {k.part})
             = IF k.part \in 1 .. k.of THEN Cardinality(1 .. k.of) - 1 ELSE Cardinality(1 .. k.of)
    BY <2>1, FS_RemoveElement
  <2> QED BY <1>1, <2>1, <2>2
<1>3. \A p \in parts : chunk[p] \in Slots(k) /\ chunk[p].part = p
  OBVIOUS
<1>4. \A x \in Slots(k) : x.part \in parts
  <2> SUFFICES ASSUME NEW x \in Slots(k) PROVE x.part \in parts
    OBVIOUS
  <2>1. x \in partial /\ x \in Chunks /\ x.of = k.of /\ x.part # k.part
    BY DEF Slots, Fits, WiresTypeOK
  <2>2. x.part <= x.of /\ x.part \in 1 .. MaxParts
    BY <2>1 DEF Assembling, Chunks
  <2> QED BY <1>1, <2>1, <2>2, ChannelAssumption
<1>5. \A x, y \in Slots(k) : x.part = y.part => x = y
  BY DEF Slots, Assembling
<1> HIDE DEF parts
<1>6. chunk \in [parts -> Slots(k)] /\ DOMAIN chunk = parts
  BY <1>3
<1> HIDE DEF chunk
<1>7. chunk \in Bijection(parts, Slots(k))
  <2>1. \A p, q \in parts : chunk[p] = chunk[q] => p = q
    BY <1>3
  <2>2. \A x \in Slots(k) : \E p \in parts : chunk[p] = x
    BY <1>3, <1>4, <1>5
  <2> QED BY <1>6, <2>1, <2>2 DEF Bijection, Injection, Surjection, IsInjective
<1>8. Cardinality(Slots(k)) = k.of - 1
  BY <1>2, <1>7, FS_Bijection DEF ExistsBijection
<1> QED BY <1>1, <1>8 DEF Completes

\* A chunk that leaves its message unfinished, or is the first of the message a second
\* listener begins.
LEMMA KeepsAssembling ==
  ASSUME WiresTypeOK, Assembling, NEW k \in Chunks, k.part <= k.of,
         NEW old \in SUBSET partial, Fits(k), partial' \in {old, old \cup {k}},
         k \in partial' => \E p \in 1 .. k.of : p # k.part /\ \A x \in old : x.id = k.id => x.part # p,
         \A c \in Channels : \A i \in DOMAIN down'[c] : down'[c][i].part <= down'[c][i].of
  PROVE  Assembling'
<1>1. \A x \in old : x \in partial /\ x \in Chunks
  BY DEF WiresTypeOK
<1>2. \A x \in partial' : x \in old \/ (x = k /\ k \in partial')
  OBVIOUS
<1>3. \A x \in old : x.id = k.id => x.part # k.part /\ x.of = k.of
  BY <1>1 DEF Fits, Slots
<1>4. ASSUME NEW x \in partial'
      PROVE  x.part <= x.of /\ \E p \in 1 .. x.of : \A y \in partial' : y.id = x.id => y.part # p
  <2>1. CASE k \in partial' /\ x.id = k.id
    <3>1. PICK p \in 1 .. k.of : p # k.part /\ \A y \in old : y.id = k.id => y.part # p
      BY <2>1
    <3>2. x.of = k.of
      BY <1>2, <1>3, <2>1
    <3>3. x.part <= x.of
      BY <1>1, <1>2 DEF Assembling
    <3>4. \A y \in partial' : y.id = x.id => y.part # p
      BY <1>2, <2>1, <3>1
    <3> QED BY <3>1, <3>2, <3>3, <3>4
  <2>2. CASE ~(k \in partial' /\ x.id = k.id)
    <3>1. x \in old /\ x \in partial /\ \A y \in partial' : y.id = x.id => y \in partial
      BY <1>1, <1>2, <2>2
    <3>2. x.part <= x.of /\ \E p \in 1 .. x.of : \A y \in partial : y.id = x.id => y.part # p
      BY <3>1 DEF Assembling
    <3> QED BY <3>1, <3>2
  <2> QED BY <2>1, <2>2
<1>5. ASSUME NEW x \in partial', NEW y \in partial', x.id = y.id
      PROVE  x.of = y.of /\ (x.part = y.part => x = y)
  <2>1. CASE x \in old /\ y \in old
    BY <1>1, <1>5, <2>1 DEF Assembling
  <2>2. CASE x = k \/ y = k
    BY <1>2, <1>3, <1>5, <2>2
  <2> QED BY <1>2, <2>1, <2>2
<1> QED BY <1>4, <1>5 DEF Assembling

LEMMA DeliverInv ==
  ASSUME ChannelInv, NEW c \in Channels, Deliver(c)
  PROVE  ChannelInv'
<1> DEFINE k == Head(down[c])
           whole == Slots(k) \cup {k}
           origins == {x.from : x \in whole}
           first == CHOOSE x \in whole : x.part = 1
           again == IF listeners[c] = 2 /\ k.of > 1 THEN {k} ELSE {}
           evicted == {x.from : x \in Evicted(k)}
<1>0. /\ WiresTypeOK /\ CallsTypeOK /\ Sending /\ SentOnOpened /\ Assembling /\ Arriving
      /\ down[c] \in Seq(Chunks) /\ down[c] # << >> /\ down' = [down EXCEPT ![c] = Tail(@)]
      /\ UNCHANGED <<state, inbox, nextId, channel, queue, via, sends>>
  BY DEF ChannelInv, Deliver, WiresTypeOK
<1>1. \/ ~Fits(k) /\ UNCHANGED <<partial, req>> /\ lost' = lost \cup {k.from}
      \/ /\ Fits(k) /\ ~Completes(k)
         /\ partial' = (partial \ Evicted(k)) \cup {k}
         /\ lost' = lost \cup evicted /\ UNCHANGED req
      \/ /\ Completes(k)
         /\ partial' = (partial \ (Evicted(k) \cup Slots(k))) \cup again
         /\ \/ /\ \E v \in Unwrapped :
                   req' = [req EXCEPT ![first.from] = IF @ = "pending" THEN v ELSE @]
               /\ lost' = lost \cup evicted \cup (IF origins = {first.from} THEN {} ELSE origins)
            \/ origins # {first.from} /\ lost' = lost \cup evicted \cup origins /\ UNCHANGED req
  BY DEF Deliver
<1>2. /\ k \in Chunks /\ Tail(down[c]) \in Seq(Chunks)
      /\ ToSet(down[c]) = ToSet(Tail(down[c])) \cup {k}
      /\ \A i \in DOMAIN Tail(down[c]) : i + 1 \in DOMAIN down[c] /\ Tail(down[c])[i] = down[c][i + 1]
      /\ 1 \in DOMAIN down[c] /\ k = down[c][1]
  BY <1>0, FirstAndRest
<1>3. /\ down' \in [Channels -> Seq(Chunks)]
      /\ down'[c] = Tail(down[c]) /\ \A d \in Channels \ {c} : down'[d] = down[d]
  BY <1>0, <1>2 DEF WiresTypeOK
<1>4. k.part <= k.of /\ k.from \in Requests
  BY <1>0, <1>2 DEF Assembling, Chunks
<1>5. \A d \in Channels : \A i \in DOMAIN down'[d] : down'[d][i].part <= down'[d][i].of
  BY <1>0, <1>2, <1>3 DEF Assembling
<1>6. Slots(k) \in SUBSET partial /\ Evicted(k) \in SUBSET partial /\ \A x \in partial : x \in Chunks /\ x.from \in Requests
  BY <1>0 DEF Slots, Evicted, WiresTypeOK, Chunks
<1>7. evicted \subseteq Requests /\ origins \subseteq Requests
  BY <1>4, <1>6
<1> HIDE DEF k
<1>8. WiresTypeOK'
  <2>1. lost' \subseteq Requests
    <3>1. lost \subseteq Requests
      BY <1>0 DEF WiresTypeOK
    <3> HIDE DEF evicted, origins, first
    <3> QED BY <1>1, <1>4, <1>7, <3>1
  <2>2. partial' \subseteq Chunks
    BY <1>1, <1>2, <1>6
  <2> QED BY <1>0, <1>3, <2>1, <2>2 DEF WiresTypeOK
<1>9. /\ req' \in [Requests -> {"new", "pending", "resolved", "rejected", "timedout"}]
      /\ \A r \in Requests : /\ req'[r] = "pending" => req[r] = "pending"
                             /\ req'[r] = "new" => req[r] = "new"
  <2>1. PICK v \in Unwrapped : \E q :
          UNCHANGED req \/ req' = [req EXCEPT ![q] = IF @ = "pending" THEN v ELSE @]
    <3>1. "resolved" \in Unwrapped
      BY DEF Unwrapped
    <3>2. UNCHANGED req \/ \E v \in Unwrapped : req' = [req EXCEPT ![first.from] = IF @ = "pending" THEN v ELSE @]
      BY <1>1
    <3> HIDE DEF first
    <3> QED BY <3>1, <3>2
  <2>2. PICK q : UNCHANGED req \/ req' = [req EXCEPT ![q] = IF @ = "pending" THEN v ELSE @]
    BY <2>1
  <2> QED BY <1>0, <2>2 DEF CallsTypeOK, Unwrapped
<1>10. CallsTypeOK'
  BY <1>0, <1>9 DEF CallsTypeOK
<1>11. Sending' /\ SentOnOpened'
  <2>1. \A q \in ToSet(queue) : q \in Requests
    BY <1>0 DEF WiresTypeOK, ToSet
  <2> QED BY <1>0, <1>9, <2>1 DEF Sending, SentOnOpened
<1>12. Assembling'
  <2>1. CASE ~Fits(k)
    <3>1. partial' = partial
      BY <1>1, <2>1 DEF Completes
    <3> QED BY <1>0, <1>5, <3>1 DEF Assembling
  <2>2. CASE Fits(k) /\ ~Completes(k)
    <3>1. PICK p \in 1 .. k.of : p # k.part /\ \A x \in Slots(k) : x.part # p
      BY <1>0, <1>2, <1>4, <2>2, AllPartsComplete
    <3>2. \A x \in partial \ Evicted(k) : x.id = k.id => x \in Slots(k)
      BY DEF Slots
    <3>3. partial' = (partial \ Evicted(k)) \cup {k}
      BY <1>1, <2>2
    <3> DEFINE old == partial \ Evicted(k)
    <3>4. old \in SUBSET partial /\ partial' \in {old, old \cup {k}}
      BY <3>3
    <3>5. \E q \in 1 .. k.of : q # k.part /\ \A x \in old : x.id = k.id => x.part # q
      BY <3>1, <3>2
    <3> HIDE DEF old
    <3> QED BY <1>0, <1>2, <1>4, <1>5, <2>2, <3>4, <3>5, KeepsAssembling
  <2>3. CASE Completes(k)
    <3> DEFINE old == partial \ (Evicted(k) \cup Slots(k))
    <3>1. partial' = old \cup again
      BY <1>1, <2>3 DEF Completes
    <3>2. \A x \in old : x.id # k.id
      BY DEF Slots
    <3>3. old \in SUBSET partial /\ partial' \in {old, old \cup {k}}
      BY <3>1
    <3>4. k \in partial' => \E p \in 1 .. k.of : p # k.part /\ \A x \in old : x.id = k.id => x.part # p
      <4>1. k \notin old
        BY <3>2
      <4>2. CASE k.of > 1
        <5>1. k.of \in Nat /\ 1 \in 1 .. k.of /\ 2 \in 1 .. k.of
          BY <1>2, <4>2, ChannelAssumption DEF Chunks
        <5>2. \E p \in 1 .. k.of : p # k.part
          BY <5>1
        <5> HIDE DEF old
        <5> QED BY <3>2, <5>2
      <4> HIDE DEF old
      <4> QED BY <3>1, <4>1, <4>2
    <3>5. Fits(k)
      BY <2>3 DEF Completes
    <3> HIDE DEF old
    <3> QED BY <1>0, <1>2, <1>4, <1>5, <3>3, <3>4, <3>5, KeepsAssembling
  <2> QED BY <2>1, <2>2, <2>3
<1>13. Arriving'
  <2>1. ASSUME NEW r \in Requests, NEW d \in Channels, Waits(r, d)'
        PROVE  /\ Waits(r, d)
               /\ \A x \in partial \cup ToSet(down[d]) : x.from = r => x \in partial' \cup ToSet(down'[d])
    <3>1. Waits(r, d) /\ r \notin lost' /\ req'[r] = "pending" /\ req[r] = "pending"
      BY <1>0, <1>1, <1>9, <2>1 DEF Waits
    <3>2. \A x \in Evicted(k) : x.from # r
      <4>1. Evicted(k) # {} => Fits(k)
        BY DEF Evicted, Evicts, Fits
      <4> QED BY <1>1, <3>1, <4>1 DEF Completes
    <3>3. ASSUME NEW x \in whole, x.from = r PROVE x \in partial'
      <4>1. CASE ~Fits(k)
        <5>1. lost' = lost \cup {k.from} /\ partial' = partial
          BY <1>1, <4>1 DEF Completes
        <5> QED BY <1>6, <3>1, <3>3, <5>1
      <4>2. CASE Fits(k) /\ ~Completes(k)
        BY <1>1, <1>6, <3>2, <3>3, <4>2
      <4>3. CASE Completes(k)
        <5>1. x.from \in origins
          OBVIOUS
        <5>2. origins = {first.from} => first.from = r
          BY <3>3, <5>1
        <5> HIDE DEF origins, first, whole, again, evicted
        <5> QED BY <1>0, <1>1, <3>1, <3>3, <4>3, <5>1, <5>2 DEF Unwrapped, CallsTypeOK, Completes
      <4> QED BY <4>1, <4>2, <4>3
    <3>4. ASSUME NEW x \in partial \cup ToSet(down[d]), x.from = r, x \notin whole
          PROVE  x \in partial' \cup ToSet(down'[d])
      <4>1. CASE x \in partial
        BY <1>1, <3>2, <3>4, <4>1
      <4>2. CASE x \in ToSet(down[d])
        BY <1>2, <1>3, <3>4, <4>2
      <4> QED BY <4>1, <4>2
    <3> QED BY <3>1, <3>3, <3>4
  <2> QED BY <1>0, <2>1, ArrivingKept
<1> QED BY <1>8, <1>10, <1>11, <1>12, <1>13 DEF ChannelInv

LEMMA AssemblyTimeoutInv ==
  ASSUME ChannelInv, AssemblyTimeout
  PROVE  ChannelInv'
<1>0. /\ WiresTypeOK /\ CallsTypeOK /\ Sending /\ SentOnOpened /\ Assembling /\ Arriving
      /\ UNCHANGED <<state, inbox, down, nextId, channel, queue, req, via, sends>>
  BY DEF ChannelInv, AssemblyTimeout, wires, calls
<1>1. PICK id : /\ partial' = {k \in partial : k.id # id}
                /\ lost' = lost \cup {k.from : k \in {x \in partial : x.id = id}}
  BY DEF AssemblyTimeout
<1>2. \A x \in partial : x.from \in Requests
  BY <1>0 DEF WiresTypeOK, Chunks
<1>3. WiresTypeOK' /\ CallsTypeOK' /\ Sending' /\ SentOnOpened'
  BY <1>0, <1>1, <1>2 DEF WiresTypeOK, CallsTypeOK, Sending, SentOnOpened
<1>4. Assembling'
  BY <1>0, <1>1 DEF Assembling
<1>5. Arriving'
  <2>1. ASSUME NEW r \in Requests, NEW c \in Channels, Waits(r, c)'
        PROVE  /\ Waits(r, c)
               /\ \A x \in partial \cup ToSet(down[c]) : x.from = r => x \in partial' \cup ToSet(down'[c])
    BY <1>0, <1>1, <2>1 DEF Waits
  <2> QED BY <1>0, <2>1, ArrivingKept
<1> QED BY <1>3, <1>4, <1>5 DEF ChannelInv

LEMMA ChannelStepInv == ChannelInv /\ [ChannelNext]_channelVars => ChannelInv'
<1> SUFFICES ASSUME ChannelInv, [ChannelNext]_channelVars PROVE ChannelInv'
  OBVIOUS
<1>1. CASE \E r \in Requests : Call(r) \/ Timeout(r)
  BY <1>1, CallInv, TimeoutInv
<1>2. CASE \E c \in Channels : Opens(c) \/ Closing(c) \/ CleansUp(c) \/ ErrorEvent(c) \/ CloseEvent(c)
  BY <1>2, OpensInv, ClosingInv, ClosesInv
<1>3. CASE \E c \in Channels : Answer(c) \/ Deliver(c)
  BY <1>3, AnswerInv, DeliverInv
<1>4. CASE AssemblyTimeout
  BY <1>4, AssemblyTimeoutInv
<1>5. CASE UNCHANGED channelVars
  BY <1>5 DEF channelVars, wires, service, calls, ChannelInv, WiresTypeOK, CallsTypeOK, Sending, SentOnOpened,
     Assembling, Arriving, Waits, Arrives
<1> QED BY <1>1, <1>2, <1>3, <1>4, <1>5 DEF ChannelNext

LEMMA ChannelInvImplies == ChannelInv => SentOnce /\ AnswersArrive
<1> SUFFICES ASSUME ChannelInv PROVE SentOnce /\ AnswersArrive
  OBVIOUS
<1>0. WiresTypeOK /\ CallsTypeOK /\ Sending /\ Assembling /\ Arriving
  BY DEF ChannelInv
<1>1. ASSUME NEW r \in Requests PROVE sends[r] + Occurrences(r, queue) <= 1
  <2>1. Occurrences(r, queue) = IF r \in ToSet(queue) THEN 1 ELSE 0
    BY <1>0, Counted DEF Sending, WiresTypeOK
  <2>2. sends[r] \in Nat /\ sends[r] <= 1 /\ (r \in ToSet(queue) => sends[r] = 0)
    BY <1>0 DEF CallsTypeOK, Sending
  <2> QED BY <2>1, <2>2
<1>2. ASSUME NEW r \in Pending, NEW c \in Channels, via[r] = c, state[c] = "open",
             r \notin ToSet(inbox[c]) \cup {down[c][i].from : i \in DOMAIN down[c]}, r \notin lost
      PROVE  FALSE
  <2>1. r \in Requests /\ Waits(r, c)
    BY <1>2 DEF Waits, Pending
  <2>2. PICK id \in Nat, n \in 1 .. MaxParts : \A p \in 1 .. n : Chunk(id, r, p, n) \in partial \cup ToSet(down[c])
    BY <1>0, <2>1 DEF Arriving, Arrives
  <2>3. \A x \in ToSet(down[c]) : x.from # r
    BY <1>2 DEF ToSet
  <2>4. \A p \in 1 .. n : /\ Chunk(id, r, p, n) \in partial
                          /\ Chunk(id, r, p, n).id = id /\ Chunk(id, r, p, n).part = p
                          /\ Chunk(id, r, p, n).of = n
    <3>1. \A p \in 1 .. n : Chunk(id, r, p, n).from = r
      BY DEF Chunk
    <3>2. \A p \in 1 .. n : Chunk(id, r, p, n).id = id /\ Chunk(id, r, p, n).part = p /\ Chunk(id, r, p, n).of = n
      BY DEF Chunk
    <3> HIDE DEF Chunk
    <3> QED BY <2>2, <2>3, <3>1, <3>2
  <2>5. 1 \in 1 .. n
    BY <2>2, ChannelAssumption
  <2> HIDE DEF Chunk
  <2>6. \E p \in 1 .. n : \A y \in partial : y.id = id => y.part # p
    BY <1>0, <2>4, <2>5 DEF Assembling
  <2> QED BY <2>4, <2>6
<1> QED BY <1>1, <1>2 DEF SentOnce, AnswersArrive

\* A call goes out at most once, and never again after it was sent: flushes, fallbacks
\* and closes hand its dispatch closure on without running it twice (sendRequest,
\* flushQueue, attachChannel and onChannelChange of ControlChannelService).
THEOREM CallsGoOutOnce == ChannelSpec => []SentOnce
<1>1. ChannelInit => ChannelInv
  BY ChannelInitInv
<1>2. ChannelInv /\ [ChannelNext]_channelVars => ChannelInv'
  BY ChannelStepInv
<1>3. ChannelInv => SentOnce
  BY ChannelInvImplies
<1> QED BY <1>1, <1>2, <1>3, PTL DEF ChannelSpec

\* While the channel a pending call was sent on is open, the request or a chunk of its
\* answer is on the way, or the answer is lost to the reassembler: its reset, its timer,
\* its limit or a clash of message ids (attachChannel, handleMessage, pushChunk).
THEOREM NoAnswerIsForgotten == ChannelSpec => []AnswersArrive
<1>1. ChannelInit => ChannelInv
  BY ChannelInitInv
<1>2. ChannelInv /\ [ChannelNext]_channelVars => ChannelInv'
  BY ChannelStepInv
<1>3. ChannelInv => AnswersArrive
  BY ChannelInvImplies
<1> QED BY <1>1, <1>2, <1>3, PTL DEF ChannelSpec
===============================================================================

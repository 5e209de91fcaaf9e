------------------------------ MODULE FilterPanel ------------------------------
(***************************************************************************)
(* The filter panel of the sidebar.  It belongs to the selected card: for  *)
(* another one it is mounted anew with that card's active filters, and     *)
(* lists what the selected accelerator offers once listFilters answers.    *)
(* The user toggles filters, drags them into another order and sets their  *)
(* parameters (here one number at most); the card gets every change.       *)
(***************************************************************************)
EXTENDS Integers, SequencesExt, Subsequence

CONSTANTS
  Sources,       \* the cards
  Accelerators,  \* the accelerator types
  Offered,       \* per accelerator: its filter definitions, in order; << >> if it is not there
  Tunable,       \* the filters with a parameter
  Low, High, Step, Default  \* minValue, maxValue, step, defaultValue

ASSUME PanelAssumption ==
  /\ Low \in Int /\ High \in Int /\ Step \in Nat \ {0} /\ Default \in Low .. High
  /\ Offered \in [Accelerators -> Seq(STRING)]
  /\ \A a \in Accelerators : IsInjective(Offered[a])

VARIABLES
  source,       \* selectedSourceNumber, the panel's key
  kept,         \* per card: its active filters, each with its parameter
  given,        \* initialActiveFiltersRef
  accelerator,  \* selectedAccelerator
  options,      \* the accelerators reported, {} before
  fetches,      \* listFilters under way: for which accelerator, and if it is the newest
  refused,      \* the newest one failed
  defs,         \* the definitions, as of which filterIdsKeyRef is
  cards,        \* localFilters
  dragRef,      \* draggedIndexRef, 0 for null
  broken        \* rendering has failed

panelVars == <<source, kept, given, accelerator, options, fetches, refused, defs, cards, dragRef, broken>>

Values == (Low - 1) .. (High + 1)  \* what can be typed

PanelInit ==
  /\ source \in Sources /\ accelerator \in Accelerators /\ options = {}
  /\ kept = [s \in Sources |-> << >>] /\ given = << >>
  /\ fetches = {[accelerator |-> accelerator, newest |-> TRUE]} /\ refused = FALSE
  /\ defs = << >> /\ cards = << >> /\ dragRef = 0 /\ broken = FALSE

-----------------------------------------------------------------------------
\* getActiveFilters.
ActiveFilters(list) ==
  LET on == Filtered(list, {i \in DOMAIN list : list[i].enabled}) IN
  [n \in DOMAIN on |-> [id |-> on[n].id, value |-> on[n].value]]

\* onFiltersChange, after every change of the list.
Reported(s, list) ==
  kept' = IF list = << >> THEN kept ELSE [kept EXCEPT ![s] = ActiveFilters(list)]

\* The definitions with the active filters the panel was mounted with: those are enabled
\* and expanded with their parameters, unless they are not offered.
Initialized(ids) ==
  [i \in DOMAIN ids |->
     LET active == {a \in ToSet(given) : a.id = ids[i]} IN
     [id |-> ids[i], enabled |-> active # {}, expanded |-> active # {},
      value |-> IF active = {} THEN Default ELSE (CHOOSE a \in active : TRUE).value]]

Refetched(a, old) ==
  /\ fetches' = {[f EXCEPT !.newest = FALSE] : f \in old} \cup {[accelerator |-> a, newest |-> TRUE]}
  /\ refused' = FALSE

\* Fault: the new panel starts with the filters the old one was mounted with.
SelectCardKeepsRef(s) ==
  /\ s # source /\ source' = s /\ UNCHANGED given
  /\ defs' = << >> /\ cards' = << >> /\ dragRef' = 0
  /\ Refetched(accelerator, {})
  /\ Reported(s, cards')
  /\ UNCHANGED <<accelerator, options, broken>>

\* Another card is selected: a new panel, which drops the answers the old one waits for.
SelectCard(s) ==
  /\ s # source /\ source' = s /\ given' = kept[s]
  /\ defs' = << >> /\ cards' = << >> /\ dragRef' = 0
  /\ Refetched(accelerator, {})
  /\ Reported(s, cards')
  /\ UNCHANGED <<accelerator, options, broken>>

-----------------------------------------------------------------------------
\* The accelerator and its filters.

SetAccelerator(a) ==
  /\ accelerator' = a
  /\ IF a # accelerator THEN Refetched(a, fetches) ELSE UNCHANGED <<fetches, refused>>

\* HandleGetAcceleratorCapabilities: those that some filter supports.
Available == {a \in Accelerators : Offered[a] # << >>}

\* getAcceleratorCapabilities answers: if the selected accelerator is not there, the
\* first one that is is selected.  A failure changes nothing.
CapabilitiesAnswer ==
  /\ options = {} /\ options' = Available
  /\ \E a \in Available : SetAccelerator(IF accelerator \in Available THEN accelerator ELSE a)
  /\ UNCHANGED <<source, kept, given, defs, cards, dragRef, broken>>

ChooseAccelerator(a) ==
  /\ a \in options /\ SetAccelerator(a)
  /\ UNCHANGED <<source, kept, given, options, defs, cards, dragRef, broken>>

\* The list is initialized if other filters are offered than before; a drag goes on.
Defined(ids) ==
  /\ defs' = ids
  /\ cards' = IF ids = defs THEN cards ELSE Initialized(ids)
  /\ Reported(source, cards')

\* Fault: the answer is taken whichever request it is to.
FiltersAnswerAny(f) ==
  /\ f \in fetches /\ fetches' = fetches \ {f}
  /\ Defined(Offered[f.accelerator])
  /\ UNCHANGED <<source, given, accelerator, options, refused, dragRef, broken>>

FiltersAnswer(f) ==
  /\ f \in fetches /\ fetches' = fetches \ {f}
  /\ IF f.newest THEN Defined(Offered[f.accelerator]) ELSE UNCHANGED <<kept, defs, cards>>
  /\ UNCHANGED <<source, given, accelerator, options, refused, dragRef, broken>>

FiltersFail(f) ==
  /\ f \in fetches /\ fetches' = fetches \ {f}
  /\ refused' = (refused \/ f.newest)
  /\ UNCHANGED <<source, kept, given, accelerator, options, defs, cards, dragRef, broken>>

-----------------------------------------------------------------------------
\* The user's edits.

Edited(list) ==
  /\ cards' = list /\ Reported(source, cards')
  /\ UNCHANGED <<source, given, accelerator, options, fetches, refused, defs, dragRef, broken>>

\* Expanding a card enables its filter; collapsing it does not disable it.
ToggleCard(i) ==
  Edited([cards EXCEPT ![i].expanded = ~@, ![i].enabled = @ \/ ~cards[i].expanded])

SetEnabled(i) ==
  Edited([cards EXCEPT ![i].enabled = ~@, ![i].expanded = @ /\ ~cards[i].enabled])

SetParameter(i, v) ==
  cards[i].id \in Tunable /\ cards[i].expanded /\ Edited([cards EXCEPT ![i].value = v])

Clamped(v) == IF v < Low THEN Low ELSE IF v > High THEN High ELSE v

\* A list, a slider or a check box offers only values in range.
Chosen(i, v) == v \in Low .. High /\ SetParameter(i, v)

\* A number that is typed is adjusted.
Typed(i, v) == SetParameter(i, Clamped(v))

\* The arrow keys do not leave the range, the wheel is adjusted to it.
Arrow(i, v) == v \in Low .. High /\ SetParameter(i, v)
Wheel(i, v) == SetParameter(i, Clamped(v))

DragStart(i) ==
  /\ dragRef' = i
  /\ UNCHANGED <<source, kept, given, accelerator, options, fetches, refused, defs, cards, broken>>

DragEnd ==
  /\ dragRef # 0 /\ dragRef' = 0
  /\ UNCHANGED <<source, kept, given, accelerator, options, fetches, refused, defs, cards, broken>>

\* REORDER.
Moved(list, from, to) == InsertAt(RemoveAt(list, from), to, list[from])

\* An index from before the definitions changed may be beyond the list: what is then
\* inserted is undefined, and rendering it throws.
Drop(to) ==
  /\ dragRef # 0 /\ dragRef' = 0
  /\ broken' = (dragRef > Len(cards))
  /\ cards' = IF dragRef = to \/ broken' THEN cards ELSE Moved(cards, dragRef, to)
  /\ Reported(source, cards')
  /\ UNCHANGED <<source, given, accelerator, options, fetches, refused, defs>>

-----------------------------------------------------------------------------
PanelNext ==
  /\ ~broken
  /\ \/ \E s \in Sources : SelectCard(s)
     \/ CapabilitiesAnswer
     \/ \E a \in Accelerators : ChooseAccelerator(a)
     \/ \E f \in fetches : FiltersAnswer(f) \/ FiltersFail(f)
     \/ \E i \in DOMAIN cards :
          \/ ToggleCard(i) \/ SetEnabled(i) \/ DragStart(i) \/ Drop(i)
          \/ \E v \in Values : Chosen(i, v) \/ Typed(i, v)
          \/ \E v \in {cards[i].value - Step, cards[i].value + Step} : Arrow(i, v) \/ Wheel(i, v)
     \/ DragEnd

PanelSpec == PanelInit /\ [][PanelNext]_panelVars

-----------------------------------------------------------------------------
Ids(list) == {c.id : c \in ToSet(list)}

\* With no request left and the last one answered, the panel lists each filter of the
\* selected accelerator once, in whatever order the user dragged them, also when
\* requests for other accelerators are answered late; and every parameter is in range.
PanelListsOffered ==
  /\ fetches = {} /\ ~refused /\ ~broken =>
       Len(cards) = Len(Offered[accelerator]) /\ Ids(cards) = ToSet(Offered[accelerator])
  /\ \A c \in ToSet(cards) : c.value \in Low .. High

\* The active filters of a card, and their parameters, change only under a panel that
\* lists its filters: selecting cards back and forth changes none, even while the panel
\* waits for its definitions, except those the accelerator does not offer.
FiltersSurviveSelection ==
  [][\A s \in Sources :
       ToSet(kept'[s]) # ToSet(kept[s]) =>
         s = source /\ (cards # << >> \/ ~(Ids(kept[s]) \subseteq Ids(cards')))]_panelVars
=============================================================================

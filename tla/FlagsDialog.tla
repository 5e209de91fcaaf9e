------------------------------ MODULE FlagsDialog ------------------------------
(***************************************************************************)
(* The dialog that manages the feature flags of the backend.  It loads     *)
(* their list when it is opened, on request and after each save, with one  *)
(* loading state for all loads and one savingKey for all saves; what is    *)
(* loaded replaces the rows, edits included.                               *)
(***************************************************************************)
EXTENDS Integers, Sequences, SequencesExt

CONSTANTS
  Keys,      \* keys of the flags
  Settings,  \* what a flag may be set to
  UnderWay   \* bound: lists and saves under way

ASSUME FlagsAssumption == Keys # {} /\ Settings # {} /\ UnderWay \in Nat \ {0}

VARIABLES
  managed,    \* isOpen
  fetching,   \* loading
  savingKey,  \* savingKey, "none" for null
  rows,       \* flags: what the rows show, without a row before the first list
  backend,    \* the flags of the backend
  lists,      \* listFeatureFlags under way
  saves,      \* upsertFeatureFlag under way
  edited,     \* rows edited since the last list
  failed,     \* a call has failed since the dialog last loaded with nothing under way
  crossed     \* two lists have been under way at once since then

flagsVars ==
  <<managed, fetching, savingKey, rows, backend, lists, saves, edited, failed, crossed>>

Unserved == [k \in {} |-> "none"]

MoreCalls == Len(lists) + Len(saves) < UnderWay

-----------------------------------------------------------------------------
FlagsInit ==
  /\ managed = FALSE /\ fetching = FALSE /\ savingKey = "none"
  /\ rows = Unserved /\ backend \in [Keys -> Settings]
  /\ lists = << >> /\ saves = << >>
  /\ edited = {} /\ failed = FALSE /\ crossed = FALSE

\* loadFlags, by a save or not.
LoadFlags(bySave) ==
  /\ fetching' = TRUE
  /\ lists' = Append(lists, [seen |-> Unserved, bySave |-> bySave])

\* The user has the list loaded: what was before no longer matters if nothing else is
\* under way.
Asks ==
  /\ MoreCalls /\ LoadFlags(FALSE)
  /\ failed' = (failed /\ (lists # << >> \/ saves # << >>))
  /\ crossed' = (lists # << >> \/ (crossed /\ saves # << >>))
  /\ UNCHANGED <<savingKey, rows, backend, saves, edited>>

OpenFlags == ~managed /\ managed' = TRUE /\ Asks

Refresh == managed /\ ~fetching /\ Asks /\ UNCHANGED managed

CloseFlags ==
  /\ managed /\ managed' = FALSE
  /\ UNCHANGED <<fetching, savingKey, rows, backend, lists, saves, edited, failed,
                 crossed>>

\* Lists are independent calls: the backend may serve them in any order, and any may be
\* answered first.
ListServed(i) ==
  /\ lists[i].seen = Unserved
  /\ lists' = [lists EXCEPT ![i].seen = backend]
  /\ UNCHANGED <<managed, fetching, savingKey, rows, backend, saves, edited, failed, crossed>>

\* loadFlags returns, and updateFlag with it.
ListEnds(i) ==
  /\ lists' = RemoveAt(lists, i)
  /\ fetching' = FALSE
  /\ savingKey' = IF lists[i].bySave THEN "none" ELSE savingKey
  /\ UNCHANGED <<managed, backend, saves, crossed>>

\* The last to be answered is shown.
ListAnswers(i) ==
  /\ ListEnds(i) /\ lists[i].seen # Unserved
  /\ rows' = lists[i].seen /\ edited' = {}
  /\ UNCHANGED failed

ListFails(i) == ListEnds(i) /\ failed' = TRUE /\ UNCHANGED <<rows, edited>>

-----------------------------------------------------------------------------
\* The rows are on the page.
Table == managed /\ ~fetching

Edit(k, v) ==
  /\ Table /\ k \in DOMAIN rows /\ rows[k] # v
  /\ rows' = [rows EXCEPT ![k] = v] /\ edited' = edited \cup {k}
  /\ UNCHANGED <<managed, fetching, savingKey, backend, lists, saves, failed, crossed>>

\* updateFlag; a save of another flag enables the button of the first again.
Save(k) ==
  /\ Table /\ k \in DOMAIN rows /\ savingKey # k /\ MoreCalls
  /\ savingKey' = k
  /\ saves' = Append(saves, [key |-> k, value |-> rows[k], served |-> FALSE])
  /\ UNCHANGED <<managed, fetching, rows, backend, lists, edited, failed, crossed>>

\* Saves are independent calls: the backend may take them in any order.
SaveServed(i) ==
  /\ ~saves[i].served
  /\ backend' = [backend EXCEPT ![saves[i].key] = saves[i].value]
  /\ saves' = [saves EXCEPT ![i].served = TRUE]
  /\ UNCHANGED <<managed, fetching, savingKey, rows, lists, edited, failed, crossed>>

\* Fault: the rows are taken to be right.
SaveAnswersOnly(i) ==
  /\ saves[i].served /\ saves' = RemoveAt(saves, i)
  /\ savingKey' = "none"
  /\ UNCHANGED <<managed, fetching, rows, backend, lists, edited, failed, crossed>>

SaveAnswers(i) ==
  /\ saves[i].served /\ saves' = RemoveAt(saves, i)
  /\ LoadFlags(TRUE)
  /\ crossed' = (crossed \/ lists # << >>)
  /\ UNCHANGED <<managed, savingKey, rows, backend, edited, failed>>

\* The call fails, whether or not the backend took it.
SaveFails(i) ==
  /\ saves' = RemoveAt(saves, i)
  /\ savingKey' = "none" /\ failed' = TRUE
  /\ UNCHANGED <<managed, fetching, rows, backend, lists, edited, crossed>>

FlagsNext ==
  \/ OpenFlags \/ Refresh \/ CloseFlags
  \/ \E i \in DOMAIN lists : ListServed(i) \/ ListAnswers(i) \/ ListFails(i)
  \/ \E k \in Keys : Save(k) \/ \E v \in Settings : Edit(k, v)
  \/ \E i \in DOMAIN saves : SaveServed(i) \/ SaveAnswers(i) \/ SaveFails(i)

-----------------------------------------------------------------------------
\* Once all calls have been answered, none has failed and no two lists were under way at
\* once, the rows show what the backend has, except those the user is editing: however
\* the saves of several flags overlap, with each other and with a list, the list after
\* the last of them is the one that stays.  With two lists under way nothing is promised:
\* an old list that is answered last replaces the newer one.
RowsAreCurrent ==
  lists = << >> /\ saves = << >> /\ ~failed /\ ~crossed =>
    \A k \in DOMAIN rows \ edited : rows[k] = backend[k]
=============================================================================

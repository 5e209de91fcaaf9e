------------------------------ MODULE VideoGrid ------------------------------
(***************************************************************************)
(* The dashboard's grid of cards: VideoGridHost with the hooks it is made  *)
(* of, the camera preview, the filter panel and the state they share.  A   *)
(* handler reads the refs of the last commit and dispatches; a click is    *)
(* rendered and its effects run before the next event, what a promise, a   *)
(* timer or an effect dispatches waits for a later render.  The user is    *)
(* slower than that: a click finds everything rendered, what is awaited    *)
(* may end at any point.                                                   *)
(***************************************************************************)
EXTENDS Naturals, FiniteSets, Functions

CONSTANTS
  Numbers,   \* the cards that are ever built: nextNumberRef counts them
  Kinds,     \* the types of input sources on offer
  Filters,   \* the lists of active filters the panel can show
  NoFilters  \* the empty one

ASSUME GridAssumption ==
  /\ IsFiniteSet(Numbers) /\ Numbers # {} /\ Numbers = 1 .. Cardinality(Numbers)
  /\ Kinds \subseteq {"static", "camera", "remote_camera"}
  /\ NoFilters \in Filters

VARIABLES
  grid,      \* the cards as dispatched: of each its type, its filters, whether it has a
             \* sessionId
  ref,       \* sourcesRef: the grid of the last commit
  next,      \* nextNumberRef
  selected, selectedRef,  \* the selected card or 0, and the ref of the last commit
  active,    \* activeFilters of the dashboard
  number,    \* selectedSourceNumber, which keys the filter panel
  synced,    \* the selection and filters for which useSourceFilterSync ran last
  panel,     \* FilterPanel: its key, the definitions it has loaded, the filters it
             \* shows, those it was mounted with
  picking,   \* the default source for the empty grid is being chosen, from the start
  link,      \* per card, its session: "down", "connecting", "open"
  camera,    \* CameraPreview: "off", "asking", "loading", "live"
  creating,  \* cameraSessionSourceIdsRef
  jobs,      \* runs of applyStaticFilters: card, filters, what they await
  early      \* cards closed before what they had started was done

data == <<grid, ref, next>>
choice == <<selected, selectedRef, active, number, synced>>
media == <<link, camera, creating>>
vars == <<data, choice, panel, picking, media, jobs, early>>

LastNumber == Cardinality(Numbers)
MaxSources == 9
Epochs == 2  \* bound: the definitions a panel loads in its life
Cards == DOMAIN grid
Shown == DOMAIN ref

GridSource == [type : Kinds, filters : Filters, session : BOOLEAN]
Grids == UNION {[C -> GridSource] : C \in SUBSET Numbers}

GridTypeOK ==
  /\ grid \in Grids /\ ref \in Grids
  /\ next \in 1 .. LastNumber + 1
  /\ selected \in Numbers \cup {0} /\ selectedRef \in Numbers \cup {0}
  /\ active \in Filters /\ number \in Numbers
  /\ synced \in (Numbers \cup {0}) \X Filters
  /\ panel \in [key : Numbers, epoch : 0 .. Epochs, shown : Filters, initial : Filters]
  /\ picking \in BOOLEAN
  /\ link \in [Numbers -> {"down", "connecting", "open"}]
  /\ camera \in [Numbers -> {"off", "asking", "loading", "live"}]
  /\ creating \subseteq Numbers
  /\ jobs \subseteq Numbers \X Filters \X {"raster", "answer"}
  /\ early \subseteq Numbers

Empty == [n \in {} |-> NoFilters]

Init ==
  /\ grid = Empty /\ ref = Empty /\ next = 1
  /\ selected = 0 /\ selectedRef = 0 /\ active = NoFilters /\ number = 1
  /\ synced = <<0, NoFilters>>
  /\ panel = [key |-> 1, epoch |-> 0, shown |-> NoFilters, initial |-> NoFilters]
  /\ picking = TRUE
  /\ link = [n \in Numbers |-> "down"]
  /\ camera = [n \in Numbers |-> "off"]
  /\ creating = {} /\ jobs = {} /\ early = {}

\* gridSourceReducer: what is dispatched for a card that is gone changes nothing.
Update(g, n, field, value) ==
  [m \in DOMAIN g |-> IF m = n THEN [g[m] EXCEPT ![field] = value] ELSE g[m]]

-----------------------------------------------------------------------------
\* Rendering.

\* The cards g, the selection s, the filters f and the number k are committed: refs are
\* updated, the panel is mounted anew for another number, and useSourceFilterSync runs
\* if the selection or the filters changed: it synchronises the selected card, and the
\* filters are applied to an image.
Commit(g, s, f, k) ==
  LET runs == s \in DOMAIN g /\ synced # <<s, f>> IN
  /\ ref' = g /\ selectedRef' = s /\ selected' = s /\ active' = f /\ number' = k
  /\ synced' = <<s, f>>
  /\ grid' = IF runs THEN Update(g, s, "filters", f) ELSE g
  /\ jobs' = IF runs /\ g[s].type = "static" THEN jobs \cup {<<s, f, "raster">>} ELSE jobs
  /\ panel' = IF panel.key = k THEN panel
              ELSE [key |-> k, epoch |-> 0, shown |-> NoFilters, initial |-> f]

Settled == ref = grid /\ selectedRef = selected /\ synced = <<selected, active>> /\ panel.key = number

Render ==
  /\ ~Settled
  /\ Commit(grid, selected, active, number)
  /\ UNCHANGED <<next, picking, media, early>>

\* The effect runs again although selection and filters are the same: for another
\* accelerator or resolution, or for a list that is equal and not identical.
Reapplied ==
  /\ selectedRef \in Shown /\ ref[selectedRef].type = "static"
  /\ jobs' = jobs \cup {<<selectedRef, synced[2], "raster">>}
  /\ UNCHANGED <<data, choice, panel, picking, media, early>>

-----------------------------------------------------------------------------
\* Cards are built and added.

\* buildSource: a card with the active filters of the last commit; a transport that
\* connects, unless it is a local camera, which asks for the device when it is shown.
Built(type) ==
  LET card == [type |-> type, filters |-> synced[2], session |-> FALSE] IN
  [n \in Cards \cup {next} |-> IF n = next THEN card ELSE grid[n]]
Starts(type) ==
  LET local == type = "camera" IN
  /\ next' = next + 1
  /\ link' = [link EXCEPT ![next] = IF local THEN "down" ELSE "connecting"]
  /\ camera' = [camera EXCEPT ![next] = IF local THEN "asking" ELSE "off"]

\* addSource, from the drawer: the first card is selected.
AddSource(type) ==
  /\ next <= LastNumber /\ Cardinality(Shown) < MaxSources
  /\ Starts(type)
  /\ IF Shown = {} THEN Commit(Built(type), next, active, next)
     ELSE Commit(Built(type), selected, active, number)
  /\ UNCHANGED <<picking, creating, early>>

\* pickDefaultSource resolves: its source is added to an empty grid and selected.
Picked(type) ==
  /\ picking /\ picking' = FALSE /\ next <= LastNumber
  /\ Shown = {}
  /\ Starts(type)
  /\ grid' = Built(type)
  /\ selected' = next /\ number' = next
  /\ UNCHANGED <<ref, selectedRef, active, synced, panel, creating, jobs, early>>

\* There is none to pick, or the grid has a card by now.
PickedNothing ==
  /\ picking /\ picking' = FALSE
  /\ UNCHANGED <<data, choice, panel, media, jobs, early>>

-----------------------------------------------------------------------------
\* The user selects and closes cards.

\* Fault: the dashboard keeps the filters of the card selected before.
SelectOnly(n) ==
  /\ n \in Shown
  /\ Commit(grid, n, active, n)
  /\ UNCHANGED <<next, picking, media, early>>

OnSelectSource(n) ==
  /\ n \in Shown
  /\ Commit(grid, n, ref[n].filters, n)
  /\ UNCHANGED <<next, picking, media, early>>

\* What is under way for card n when it is closed, and its end is not.
Unfinished(n) ==
  \/ link[n] = "connecting"
  \/ ref[n].type = "camera" /\ link[n] = "open" /\ ~ref[n].session
  \/ \E f \in Filters : <<n, f, "raster">> \in jobs

\* removeSource: the selection moves to the first card that remains.
Removed(n) ==
  LET remaining == Shown \ {n}
      first == CHOOSE m \in remaining : \A k \in remaining : m <= k
      g == Restrict(grid, Cards \ {n}) IN
  IF selectedRef # n THEN Commit(g, selected, active, number)
  ELSE IF remaining = {} THEN Commit(g, 0, active, number)
  ELSE Commit(g, first, ref[first].filters, first)

\* The session the card knows of is closed.
Disconnected(n) ==
  link' = [link EXCEPT ![n] = IF @ = "open" /\ (ref[n].type # "camera" \/ ref[n].session)
                              THEN "down" ELSE @]

\* Fault: the transport of the card is left alone.
CloseCardOnly(n) ==
  /\ n \in Shown
  /\ early' = IF Unfinished(n) THEN early \cup {n} ELSE early
  /\ Removed(n)
  /\ camera' = [camera EXCEPT ![n] = IF @ = "asking" THEN @ ELSE "off"]
  /\ UNCHANGED <<next, picking, link, creating>>

\* onCloseSource: the transport disconnects, the session is closed, the card removed;
\* its preview is unmounted and stops the tracks it has.
OnCloseSource(n) ==
  /\ n \in Shown
  /\ early' = IF Unfinished(n) THEN early \cup {n} ELSE early
  /\ Disconnected(n) /\ Removed(n)
  /\ camera' = [camera EXCEPT ![n] = IF @ = "asking" THEN @ ELSE "off"]
  /\ UNCHANGED <<next, picking, creating>>

-----------------------------------------------------------------------------
\* Sessions.

\* The session of card n opens, whether its card is still there or not.
LinkOpens(n) ==
  /\ link[n] = "connecting" /\ n \notin creating
  /\ link' = [link EXCEPT ![n] = "open"]
  /\ UNCHANGED <<data, choice, panel, picking, camera, creating, jobs, early>>

\* It cannot be created, or breaks; the requests on it are rejected.
LinkFails(n) ==
  /\ link[n] # "down" /\ n \notin creating
  /\ link' = [link EXCEPT ![n] = "down"]
  /\ jobs' = {j \in jobs : j[1] # n \/ j[3] # "answer"}
  /\ UNCHANGED <<data, choice, panel, picking, camera, creating, early>>

\* waitForConnected finds the transport connected: a remote camera gets its sessionId.
Connected(n) ==
  /\ n \in Cards /\ grid[n].type = "remote_camera" /\ ~grid[n].session
  /\ link[n] = "open"
  /\ grid' = Update(grid, n, "session", TRUE)
  /\ UNCHANGED <<ref, next, choice, panel, picking, link, camera, creating, jobs, early>>

\* getUserMedia: the camera is granted; a preview that is gone stops it at once.
CameraGranted(n) ==
  /\ camera[n] = "asking"
  /\ camera' = [camera EXCEPT ![n] = IF n \in Shown THEN "loading" ELSE "off"]
  /\ UNCHANGED <<data, choice, panel, picking, link, creating, jobs, early>>

\* It is refused, or granted and cannot be played: the preview keeps what it has.
CameraFails(n) ==
  /\ camera[n] \in {"asking", "loading"}
  /\ camera' = [camera EXCEPT ![n] = IF @ = "asking" THEN "off" ELSE "live"]
  /\ UNCHANGED <<data, choice, panel, picking, link, creating, jobs, early>>

\* The preview plays: onCameraStreamReady, createCameraSession unless there is one or
\* one is being created.
StreamReady(n) ==
  /\ camera[n] = "loading" /\ camera' = [camera EXCEPT ![n] = "live"]
  /\ IF n \in Shown \ creating /\ ~ref[n].session
     THEN creating' = creating \cup {n} /\ link' = [link EXCEPT ![n] = "connecting"]
     ELSE UNCHANGED <<creating, link>>
  /\ UNCHANGED <<data, choice, panel, picking, jobs, early>>

\* createSession resolves: SET_SESSION, for a card that may have gone.
SessionCreated(n) ==
  /\ n \in creating /\ creating' = creating \ {n}
  /\ link' = [link EXCEPT ![n] = "open"]
  /\ grid' = Update(grid, n, "session", TRUE)
  /\ UNCHANGED <<ref, next, choice, panel, picking, camera, jobs, early>>

SessionRefused(n) ==
  /\ n \in creating /\ creating' = creating \ {n}
  /\ link' = [link EXCEPT ![n] = "down"]
  /\ UNCHANGED <<data, choice, panel, picking, camera, jobs, early>>

-----------------------------------------------------------------------------
\* applyStaticFilters.

\* The image is rasterized.  Without filters it is shown as it is; otherwise
\* sendSingleImage connects if it has to, for a card that may have gone.
Rasterized(j) ==
  /\ j \in jobs /\ j[3] = "raster"
  /\ IF j[2] = NoFilters THEN jobs' = jobs \ {j} /\ UNCHANGED link
     ELSE /\ jobs' = (jobs \ {j}) \cup {<<j[1], j[2], "answer">>}
          /\ link' = [link EXCEPT ![j[1]] = IF @ = "open" THEN @ ELSE "connecting"]
  /\ UNCHANGED <<data, choice, panel, picking, camera, creating, early>>

\* The processed image arrives and is shown.
Answered(j) ==
  /\ j \in jobs /\ j[3] = "answer" /\ link[j[1]] = "open"
  /\ jobs' = jobs \ {j}
  /\ UNCHANGED <<data, choice, panel, picking, media, early>>

\* The image cannot be loaded or processed: a toast, the picture stays.
NotApplied(j) ==
  /\ j \in jobs /\ jobs' = jobs \ {j}
  /\ UNCHANGED <<data, choice, panel, picking, media, early>>

-----------------------------------------------------------------------------
\* The filter panel.

\* Fault: what the panel shows is not handed on.
PanelLoadsUnnoticed ==
  /\ panel.epoch < Epochs
  /\ panel' = [panel EXCEPT !.epoch = @ + 1, !.shown = panel.initial]
  /\ UNCHANGED <<data, choice, picking, media, jobs, early>>

\* listFilters answers with other definitions than before: the panel shows the filters
\* it was mounted with, and these become the active ones.
PanelLoads ==
  /\ panel.epoch < Epochs
  /\ panel' = [panel EXCEPT !.epoch = @ + 1, !.shown = panel.initial]
  /\ active' = panel.initial
  /\ UNCHANGED <<data, selected, selectedRef, number, synced, picking, media, jobs, early>>

\* The user sets, drags or clears filters: rendered, then onFiltersChange.
Toggle(f) ==
  /\ panel.epoch > 0 /\ f # panel.shown
  /\ panel' = [panel EXCEPT !.shown = f]
  /\ active' = f
  /\ UNCHANGED <<data, selected, selectedRef, number, synced, picking, media, jobs, early>>

-----------------------------------------------------------------------------
Click ==
  /\ Settled
  /\ \/ \E t \in Kinds : AddSource(t)
     \/ \E n \in Numbers : OnSelectSource(n) \/ OnCloseSource(n)
     \/ \E f \in Filters : Toggle(f)

Next ==
  \/ Click \/ Render \/ Reapplied \/ PickedNothing \/ PanelLoads
  \/ \E t \in Kinds : Picked(t)
  \/ \E n \in Numbers :
       LinkOpens(n) \/ LinkFails(n) \/ Connected(n) \/ CameraGranted(n) \/ CameraFails(n)
       \/ StreamReady(n) \/ SessionCreated(n) \/ SessionRefused(n)
  \/ \E j \in jobs : Rasterized(j) \/ Answered(j) \/ NotApplied(j)

Spec == Init /\ [][Next]_vars

-----------------------------------------------------------------------------
\* Closing a card releases what it holds.  A session of a card that is gone is open only
\* if the card was closed before what it had started was done; a camera that is on belongs
\* to a card on the page, also if it was closed while the permission was asked for or the
\* preview started.
OnlyUnfinishedLeak ==
  /\ \A n \in Numbers \ Cards : link[n] = "open" => n \in early
  /\ \A n \in Numbers : camera[n] \in {"loading", "live"} => n \in Shown

\* When everything dispatched is rendered, the card that is selected exists, carries
\* the filters the panel stands for and has its number shown, whichever clicks, panel
\* answers and default source came in between.
PanelMatchesSelection ==
  Settled /\ selected # 0 =>
    /\ selected \in Cards /\ number = selected
    /\ grid[selected].filters = active
    /\ panel.epoch > 0 => panel.shown = active

\* The filters of a card change only while it is the selected one: selecting or closing
\* cards, a default source and a panel that is mounted anew hand no card the filters of
\* another.
OthersKeepFilters ==
  [][\A n \in Cards \cap DOMAIN grid' : grid'[n].filters # grid[n].filters => selected = n]_vars
=============================================================================

-------------------------------- MODULE Views ---------------------------------
(***************************************************************************)
(* Seven views of the page, and the control channel their calls go out on. *)
(* They share no state as they are modelled: the grid of cards, the filter *)
(* panel within itself, the tour, the upload in the drawer, the dialog of  *)
(* feature flags, the statistics of the cards and the bar.  VideoGrid has  *)
(* the panel as the grid sees it, as one of a few lists of filters;        *)
(* FilterPanel has what goes on inside, StatsPanel what is told of the     *)
(* cards.  None reads what another writes, so that a property of one holds *)
(* of all if it holds of the part by itself: a behaviour is one of a part, *)
(* the others staying in an initial state.                                 *)
(***************************************************************************)
EXTENDS VideoGrid, FilterPanel, AppTour, ImageUpload, FlagsDialog, StatsPanel, NavbarControls,
        ControlChannel

VARIABLE view  \* the one that moves

viewVars == <<view, vars, panelVars, tourVars, uploadVars, flagsVars, statsVars, navVars,
              channelVars>>

ViewsInit ==
  /\ view \in {"grid", "panel", "tour", "upload", "flags", "stats", "bar", "channel"}
  /\ Init /\ PanelInit /\ TourInit /\ UploadInit /\ FlagsInit /\ StatsInit /\ NavbarInit
  /\ ChannelInit
  /\ view # "panel" =>
       /\ source = (CHOOSE s \in Sources : TRUE)
       /\ accelerator = (CHOOSE a \in Accelerators : TRUE)
  /\ view # "tour" =>
       /\ stored = "this" /\ viewport = (CHOOSE v \in Viewports : TRUE)
       /\ fallback = (CHOOSE t \in Targets : TRUE) /\ target = Nowhere
  /\ view # "flags" => backend = [k \in Keys |-> CHOOSE v \in Settings : TRUE]

ViewsNext ==
  \/ view = "grid" /\ Next
     /\ UNCHANGED <<view, panelVars, tourVars, uploadVars, flagsVars, statsVars, navVars, channelVars>>
  \/ view = "panel" /\ PanelNext
     /\ UNCHANGED <<view, vars, tourVars, uploadVars, flagsVars, statsVars, navVars, channelVars>>
  \/ view = "tour" /\ TourNext
     /\ UNCHANGED <<view, vars, panelVars, uploadVars, flagsVars, statsVars, navVars, channelVars>>
  \/ view = "upload" /\ UploadNext
     /\ UNCHANGED <<view, vars, panelVars, tourVars, flagsVars, statsVars, navVars, channelVars>>
  \/ view = "flags" /\ FlagsNext
     /\ UNCHANGED <<view, vars, panelVars, tourVars, uploadVars, statsVars, navVars, channelVars>>
  \/ view = "stats" /\ StatsNext
     /\ UNCHANGED <<view, vars, panelVars, tourVars, uploadVars, flagsVars, navVars, channelVars>>
  \/ view = "bar" /\ NavbarNext
     /\ UNCHANGED <<view, vars, panelVars, tourVars, uploadVars, flagsVars, statsVars, channelVars>>
  \/ view = "channel" /\ ChannelNext
     /\ UNCHANGED <<view, vars, panelVars, tourVars, uploadVars, flagsVars, statsVars, navVars>>

ViewsSpec == ViewsInit /\ [][ViewsNext]_viewVars

-----------------------------------------------------------------------------
\* The filters of a card are the user's: neither the grid, which selects, closes and adds
\* cards, nor the panel, which waits for its definitions, changes those of a card that is
\* not being edited.
FiltersAreKept == OthersKeepFilters /\ FiltersSurviveSelection

\* What the page tells is so: of the backend's flags when it has loaded them, no two lists
\* at once, of the selected card and its connection, and of the version it is loading,
\* whichever answers, timers and clicks come in between.
PageIsCurrent ==
  RowsAreCurrent /\ RowIsOfTransport /\ SelectionIsOnPage /\ LoadingIsTrue /\ OneIsOpen
=============================================================================

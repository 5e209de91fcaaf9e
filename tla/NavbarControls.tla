---------------------------- MODULE NavbarControls ----------------------------
(***************************************************************************)
(* The version tooltip and the menu of tools in the bar of the page: each  *)
(* is closed by a click elsewhere, which it sees on the document, unless   *)
(* the element that was clicked keeps the click to itself.  The versions   *)
(* are loaded when the bar is mounted, which a development build does      *)
(* twice (StrictMode).                                                     *)
(***************************************************************************)
EXTENDS Integers

VARIABLES
  isToolsOpen, isVersionOpen,
  isVersionLoading,
  environment,  \* what the tooltip says of it: "Loading...", "told" or "Error"
  mount,        \* the runs of the effect so far, of which all but the last are cancelled
  loads         \* getSystemInfo under way, as the run that called it

navVars == <<isToolsOpen, isVersionOpen, isVersionLoading, environment, mount, loads>>

NavbarInit ==
  /\ isToolsOpen = FALSE /\ isVersionOpen = FALSE
  /\ isVersionLoading = TRUE /\ environment = "Loading..."
  /\ mount = 1 /\ loads = {1}

\* StrictMode: the effect is cleaned up and run again at once.
Remounted ==
  /\ mount = 1 /\ loads = {1} /\ mount' = 2 /\ loads' = {1, 2}
  /\ UNCHANGED <<isToolsOpen, isVersionOpen, isVersionLoading, environment>>

-----------------------------------------------------------------------------
\* loadSystemInfo of run i comes back.  One that was cancelled leaves everything as it is,
\* if it did not fail: the catch does not ask.
Loading(i) == isVersionLoading' = (isVersionLoading /\ i # mount)

SystemInfoAnswers(i) ==
  /\ loads' = loads \ {i} /\ Loading(i)
  /\ environment' = IF i = mount THEN "told" ELSE environment
  /\ UNCHANGED <<isToolsOpen, isVersionOpen, mount>>

SystemInfoFails(i) ==
  /\ loads' = loads \ {i} /\ Loading(i)
  /\ environment' = "Error"
  /\ UNCHANGED <<isToolsOpen, isVersionOpen, mount>>

-----------------------------------------------------------------------------
\* The listeners on the document, of a click into neither, into the tools or the tooltip.
ClickTools ==
  /\ isToolsOpen' = ~isToolsOpen /\ isVersionOpen' = FALSE
  /\ UNCHANGED <<isVersionLoading, environment, mount, loads>>

\* Fault: no listener for the tools.
ClickVersionOnly ==
  /\ isVersionOpen' = ~isVersionOpen
  /\ UNCHANGED <<isToolsOpen, isVersionLoading, environment, mount, loads>>

ClickVersion ==
  /\ isVersionOpen' = ~isVersionOpen /\ isToolsOpen' = FALSE
  /\ UNCHANGED <<isVersionLoading, environment, mount, loads>>

ClickElsewhere ==
  /\ isToolsOpen' = FALSE /\ isVersionOpen' = FALSE
  /\ UNCHANGED <<isVersionLoading, environment, mount, loads>>

\* A tool is chosen: the menu closes itself.
ChooseTool == isToolsOpen /\ ClickElsewhere

\* The close button of the tooltip keeps the click.
CloseVersion ==
  /\ isVersionOpen /\ isVersionOpen' = FALSE
  /\ UNCHANGED <<isToolsOpen, isVersionLoading, environment, mount, loads>>

NavbarNext ==
  \/ Remounted \/ \E i \in loads : SystemInfoAnswers(i) \/ SystemInfoFails(i)
  \/ ClickTools \/ ClickVersion \/ ClickElsewhere \/ ChooseTool \/ CloseVersion

-----------------------------------------------------------------------------
\* Of the two only one is open at a time, although neither knows of the other.
OneIsOpen == ~(isToolsOpen /\ isVersionOpen)

\* The tooltip says that it is loading while the answer it will show is due, and no longer.
LoadingIsTrue ==
  /\ isVersionLoading <=> mount \in loads
  /\ environment = "Loading..." => isVersionLoading
=============================================================================

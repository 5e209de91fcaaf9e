--------------------------- MODULE AcceleratorHealth ---------------------------
(***************************************************************************)
(* How the page notices that the accelerator is gone: the health monitor,  *)
(* the status dialog it opens and the button that brings the dialog back.  *)
(* The monitor asks every 30 s; once an answer is bad it asks every 2 s    *)
(* and opens the dialog after the third bad one.  A check has no time      *)
(* limit: checks overlap, and their continuations run in any order.        *)
(***************************************************************************)
EXTENDS Naturals

CONSTANT MaxChecks  \* bound: checks and armed timers of the monitor at once

ASSUME HealthAssumption == MaxChecks \in Nat \ {0}

VARIABLES
  up,         \* the accelerator can be reached
  phase,      \* isMonitoring: "idle", "running", "stopped"
  initial, polls, rapids,  \* checks in flight: the first, the interval's, rapid ones
  polling,    \* pollingInterval is armed
  timer,      \* the timer rapidCheckTimeout names is armed
  strays,     \* armed timers it names no more
  count,      \* rapidCheckCount
  last,       \* lastHealthStatus: "unknown", "healthy", "failed"
  dialog,     \* GrpcStatusModal: "closed", "open", "minimized"
  starting,   \* isStarting: the power-on call is under way
  asked,      \* checks of the status button in flight: isModalOpen when they started
  offline     \* the status button is shown

monitor == <<phase, initial, polls, rapids, polling, timer, strays, count, last>>
button == <<asked, offline>>
healthVars == <<up, monitor, dialog, starting, button>>

Rapid == 3  \* RAPID_CHECKS_COUNT
Running == phase = "running"
Busy == initial + polls + rapids + strays + (IF timer THEN 1 ELSE 0)

HealthInit ==
  /\ up \in BOOLEAN /\ phase = "idle"
  /\ initial = 0 /\ polls = 0 /\ rapids = 0
  /\ polling = FALSE /\ timer = FALSE /\ strays = 0 /\ count = 0
  /\ last = "unknown"
  /\ dialog = "closed" /\ starting = FALSE
  /\ asked = {} /\ offline = FALSE

-----------------------------------------------------------------------------
\* open and restore of the dialog, and its listener of accelerator-unhealthy.
OpenDialog == dialog' = "open"

\* The monitor.

\* The interval replaces what was armed; r rapid checks stay in flight.
StartHealthyPolling(r) ==
  /\ polling' = TRUE /\ timer' = FALSE /\ count' = 0
  /\ rapids' = r /\ UNCHANGED strays

\* The first rapid check is made at once, unless the monitor has been stopped.
StartRapidChecks ==
  /\ polling' = FALSE /\ timer' = FALSE /\ count' = 0
  /\ rapids' = IF Running THEN rapids + 1 ELSE rapids
  /\ UNCHANGED strays

StartMonitoring ==
  /\ phase = "idle" /\ phase' = "running"
  /\ initial' = 1 /\ last' = "unknown" /\ count' = 0
  /\ UNCHANGED <<up, polls, rapids, polling, timer, strays, dialog, starting, button>>

\* The page is left: nothing new is asked, what is in flight comes back.
StopMonitoring ==
  /\ Running /\ phase' = "stopped"
  /\ polling' = FALSE /\ timer' = FALSE
  /\ UNCHANGED <<up, initial, polls, rapids, strays, count, last, dialog, starting, button>>

InitialAnswers(healthy) ==
  /\ initial > 0 /\ initial' = initial - 1
  /\ IF healthy THEN last' = "healthy" /\ StartHealthyPolling(rapids)
     ELSE StartRapidChecks /\ UNCHANGED last
  /\ UNCHANGED <<up, phase, polls, dialog, starting, button>>

\* The interval fires: a stopped monitor answers its own check with a failure.
PollTick ==
  /\ polling /\ Busy < MaxChecks
  /\ IF Running THEN polls' = polls + 1 /\ UNCHANGED <<rapids, polling, timer, strays, count>>
     ELSE StartRapidChecks /\ UNCHANGED polls
  /\ UNCHANGED <<up, phase, initial, last, dialog, starting, button>>

PollAnswers(healthy) ==
  /\ polls > 0 /\ polls' = polls - 1
  /\ IF healthy THEN UNCHANGED <<rapids, polling, timer, strays, count>>
     ELSE StartRapidChecks
  /\ UNCHANGED <<up, phase, initial, last, dialog, starting, button>>

RapidTick(armed) ==
  /\ IF armed = "held" THEN timer /\ timer' = FALSE /\ UNCHANGED strays
     ELSE strays > 0 /\ strays' = strays - 1 /\ UNCHANGED timer
  /\ rapids' = IF Running THEN rapids + 1 ELSE rapids
  /\ UNCHANGED <<up, phase, initial, polls, polling, count, last, dialog, starting, button>>

RapidHealthy ==
  /\ rapids > 0
  /\ last' = "healthy"
  /\ StartHealthyPolling(rapids - 1)
  /\ UNCHANGED <<up, phase, initial, polls, dialog, starting, button>>

\* Fault: the failure is not counted.
RapidFailsUncounted ==
  /\ rapids > 0 /\ count + 1 < Rapid
  /\ rapids' = rapids - 1 /\ timer' = TRUE
  /\ strays' = IF timer THEN strays + 1 ELSE strays
  /\ UNCHANGED <<up, phase, initial, polls, polling, count, last, dialog, starting, button>>

\* One of less than three failures: another check in 2 s; the timer of another round
\* is forgotten, and stays armed.
RapidFails ==
  /\ rapids > 0 /\ count + 1 < Rapid
  /\ rapids' = rapids - 1 /\ count' = count + 1
  /\ timer' = TRUE /\ strays' = IF timer THEN strays + 1 ELSE strays
  /\ UNCHANGED <<up, phase, initial, polls, polling, last, dialog, starting, button>>

\* Fault: with the dialog open nothing is left to do.
RapidFailsOpenAndRests ==
  /\ rapids > 0 /\ count + 1 >= Rapid /\ dialog = "open"
  /\ rapids' = rapids - 1 /\ count' = 0
  /\ UNCHANGED <<up, phase, initial, polls, polling, timer, strays, last, dialog, starting, button>>

\* The third, with the dialog open: back to polling.
RapidFailsOpen ==
  /\ rapids > 0 /\ count + 1 >= Rapid /\ dialog = "open"
  /\ StartHealthyPolling(rapids - 1)
  /\ UNCHANGED <<up, phase, initial, polls, last, dialog, starting, button>>

\* The third: the dialog is opened, unless lastHealthStatus says that it was already.
RapidFailsThird ==
  /\ rapids > 0 /\ count + 1 >= Rapid /\ dialog # "open"
  /\ IF last # "failed" THEN OpenDialog ELSE UNCHANGED dialog
  /\ last' = "failed"
  /\ StartHealthyPolling(rapids - 1)
  /\ UNCHANGED <<up, phase, initial, polls, starting, button>>

-----------------------------------------------------------------------------
\* The dialog and the button.

CloseDialog ==
  /\ dialog = "open" /\ dialog' = "minimized"
  /\ UNCHANGED <<up, monitor, starting, button>>

PowerOn ==
  /\ dialog = "open" /\ ~starting /\ starting' = TRUE
  /\ UNCHANGED <<up, monitor, dialog, button>>

\* startJetsonNano answers or fails: its line is in the dialog.
PowerOnReturns ==
  /\ starting /\ starting' = FALSE
  /\ UNCHANGED <<up, monitor, dialog, button>>

\* Every 5 s: whether the dialog is open is read before the call.
ButtonAsks ==
  /\ asked' = asked \cup {dialog = "open"}
  /\ UNCHANGED <<up, monitor, dialog, starting, offline>>

\* Fault: a button that is hidden stays hidden.
ButtonHidesOnly(wasOpen, healthy) ==
  /\ wasOpen \in asked /\ asked' = asked \ {wasOpen}
  /\ offline' = (offline /\ ~healthy /\ ~wasOpen)
  /\ UNCHANGED <<up, monitor, dialog, starting>>

ButtonAnswers(wasOpen, healthy) ==
  /\ wasOpen \in asked /\ asked' = asked \ {wasOpen}
  /\ offline' = (~healthy /\ ~wasOpen)
  /\ UNCHANGED <<up, monitor, dialog, starting>>

ButtonClick ==
  /\ offline /\ OpenDialog
  /\ UNCHANGED <<up, monitor, starting, button>>

\* The accelerator comes and goes.
UpOrDown ==
  /\ up' = ~up
  /\ UNCHANGED <<monitor, dialog, starting, button>>

-----------------------------------------------------------------------------
\* A check can fail at any time; it goes well only if the accelerator is there.
Checked == \E healthy \in {FALSE, up} : InitialAnswers(healthy) \/ PollAnswers(healthy)
RapidChecked == (up /\ RapidHealthy) \/ RapidFails \/ RapidFailsOpen \/ RapidFailsThird
ButtonChecked(wasOpen) == \E healthy \in {FALSE, up} : ButtonAnswers(wasOpen, healthy)

HealthNext ==
  \/ StartMonitoring \/ StopMonitoring \/ Checked \/ RapidChecked \/ PollTick
  \/ \E armed \in {"held", "stray"} : RapidTick(armed)
  \/ CloseDialog \/ PowerOn \/ PowerOnReturns \/ ButtonAsks \/ ButtonClick
  \/ \E wasOpen \in BOOLEAN : ButtonChecked(wasOpen)
  \/ UpOrDown

\* Timers fire and calls come back, if only with an error.
HealthFairness ==
  /\ WF_healthVars(PollTick) /\ WF_healthVars(Checked) /\ WF_healthVars(RapidChecked)
  /\ \A armed \in {"held", "stray"} : WF_healthVars(RapidTick(armed))
  /\ WF_healthVars(ButtonAsks)
  /\ \A wasOpen \in BOOLEAN : WF_healthVars(ButtonChecked(wasOpen))

HealthSpec == HealthInit /\ [][HealthNext]_healthVars /\ HealthFairness

-----------------------------------------------------------------------------
\* A monitor that runs always has something that will ask again: the interval, a timer
\* or a check that comes back, whichever of the overlapping rounds disarmed what.
NeverBlind == Running => polling \/ Busy > 0

\* While the accelerator is away, a monitor that has not reported it opens the dialog,
\* however checks overlap and whatever the user does with it.
OutageNoticed ==
  Running /\ ~up /\ last # "failed" ~> up \/ dialog = "open" \/ ~Running

\* As long as it is away, a dialog that is not open can be had back: the button shows,
\* although an answer may be about a dialog that was open when it was asked for.
DialogReachable == ~up /\ dialog # "open" ~> up \/ dialog = "open" \/ offline
=============================================================================

-------------------------------- MODULE AppTour --------------------------------
(***************************************************************************)
(* The tour of the page: a tooltip that is put next to one element of the  *)
(* page after the other, on screens and in layouts that change meanwhile,  *)
(* and that is not shown again to who has dismissed it, until the next     *)
(* version.  Lengths are pixels; the viewport is at (0, 0).                *)
(***************************************************************************)
EXTENDS Integers

CONSTANTS
  Viewports,  \* sizes of the window
  Targets,    \* places an element of the page can have, in a coordinate system of the
              \* window: top, left, width, height
  LastStep    \* the last of the steps 0, 1, ...

ASSUME TourAssumption ==
  /\ LastStep \in Nat \ {0}
  /\ \A v \in Viewports : v.width \in Nat /\ v.height \in Nat
  /\ \A t \in Targets : {t.top, t.left} \subseteq Int /\ {t.width, t.height} \subseteq Nat

Nowhere == [found |-> FALSE]  \* the element of the step is not on the page

VARIABLES
  tour,      \* "due" while its timer runs, "active", "off"
  step,      \* stepIndex
  viewport,
  target,    \* where the element of the step is
  fallback,  \* where the element is that is pointed at instead
  ringed,    \* the focus ring has been given a size
  frame,     \* an animation frame is requested that tries again
  tooltip,   \* top, left
  stored     \* what localStorage says: dismissed at "this" version, at an "older" one or
             \* "never"

\* TOUR_STEPS, of which only the last is treated differently.
Steps == 0 .. LastStep

tourVars == <<tour, step, viewport, target, fallback, ringed, frame, tooltip, stored>>

Margin == 20
Width == 320   \* tooltipWidth
Height == 220  \* tooltipHeight

-----------------------------------------------------------------------------
\* calculateTooltipPosition, for an element at rect in a window of size v.

Within(value, min, max) ==
  LET low == IF value > min THEN value ELSE min IN IF low < max THEN low ELSE max

InX(v, x) == Within(x, Margin, v.width - Width - Margin)
InY(v, y) == Within(y, Margin, v.height - Height - Margin)
Centered(v, rect) == InX(v, rect.left + rect.width \div 2 - Width \div 2)
Middle(v, rect) == InY(v, rect.top + rect.height \div 2 - Height \div 2)

Above(v, rect) == [top |-> InY(v, rect.top - Height - Margin), left |-> Centered(v, rect)]
RightOf(v, rect) == [top |-> Middle(v, rect), left |-> rect.left + rect.width + Margin]
LeftOf(v, rect) == [top |-> Middle(v, rect), left |-> rect.left - Width - Margin]
Below(v, rect) == [top |-> rect.top + rect.height + Margin, left |-> Centered(v, rect)]

\* The toggle of the statistics: 20 by 20 in the lower right corner, wherever the panel
\* is.
AtToggle(v) ==
  [top |-> InY(v, v.height - 20 - Height - Margin), left |-> InX(v, v.width - 22 - Width \div 2)]

\* Fault: the margin is left out of account below.
PositionTight(v, rect, s) ==
  IF s = LastStep THEN AtToggle(v)
  ELSE IF 2 * rect.top > v.height THEN Above(v, rect)
  ELSE IF rect.left + rect.width + Margin + Width <= v.width THEN RightOf(v, rect)
  ELSE IF rect.left - Margin - Width >= 0 THEN LeftOf(v, rect)
  ELSE IF rect.top + rect.height + Height <= v.height THEN Below(v, rect)
  ELSE Above(v, rect)

Position(v, rect, s) ==
  IF s = LastStep THEN AtToggle(v)
  ELSE IF 2 * rect.top > v.height THEN Above(v, rect)
  ELSE IF rect.left + rect.width + Margin + Width <= v.width THEN RightOf(v, rect)
  ELSE IF rect.left - Margin - Width >= 0 THEN LeftOf(v, rect)
  ELSE IF rect.top + rect.height + Margin + Height <= v.height THEN Below(v, rect)
  ELSE Above(v, rect)

-----------------------------------------------------------------------------
TourInit ==
  /\ stored \in {"never", "older", "this"}
  /\ tour = IF stored = "this" THEN "off" ELSE "due"
  /\ step = 0 /\ viewport \in Viewports /\ target \in Targets \cup {Nowhere}
  /\ fallback \in Targets
  /\ ringed = FALSE /\ frame = FALSE /\ tooltip = [top |-> 0, left |-> 0]

\* updateLayout: without the element another one is pointed at, or once there is a focus
\* ring, an animation frame looks for it again; the tooltip stays where it is.
UpdateLayout(withScroll) ==
  IF target' = Nowhere /\ ~withScroll /\ ringed
  THEN frame' = TRUE /\ UNCHANGED <<ringed, tooltip>>
  ELSE /\ ringed' = TRUE /\ UNCHANGED frame
       /\ tooltip' = Position(viewport', IF target' = Nowhere THEN fallback' ELSE target', step')

\* The timer fires.  The element has been scrolled into view, as far as the page lets it.
TourStarts ==
  /\ tour = "due" /\ tour' = "active"
  /\ UNCHANGED <<step, viewport, target, fallback, stored>>
  /\ UpdateLayout(TRUE)

\* Next: the frame that was requested is cancelled.
NextStep ==
  /\ tour = "active" /\ step + 1 \in Steps /\ step' = step + 1
  /\ target' \in Targets \cup {Nowhere}
  /\ UNCHANGED <<tour, viewport, fallback, stored>>
  /\ ringed' = TRUE /\ frame' = FALSE
  /\ tooltip' = Position(viewport, IF target' = Nowhere THEN fallback ELSE target', step')

\* The window is resized, or something is scrolled.
Relayout ==
  /\ tour = "active"
  /\ viewport' \in Viewports /\ target' \in Targets \cup {Nowhere} /\ fallback' \in Targets
  /\ UNCHANGED <<tour, step, stored>>
  /\ UpdateLayout(FALSE)

\* The frame; the element may be on the page by now.
Frame ==
  /\ tour = "active" /\ frame
  /\ target' \in IF target = Nowhere THEN Targets \cup {Nowhere} ELSE {target}
  /\ UNCHANGED <<tour, step, viewport, fallback, stored>>
  /\ IF target' = Nowhere THEN UNCHANGED <<ringed, frame, tooltip>>
     ELSE ringed' = TRUE /\ frame' = FALSE /\ tooltip' = Position(viewport, target', step)

\* Skip, or Got it after the last step.  Storing it may fail, after the first item too.
Dismiss ==
  /\ tour = "active" /\ tour' = "off" /\ frame' = FALSE /\ ringed' = FALSE
  /\ stored' \in {"this", stored}
  /\ UNCHANGED <<step, viewport, target, fallback, tooltip>>

TourNext == TourStarts \/ NextStep \/ Relayout \/ Frame \/ Dismiss
TourSpec == TourInit /\ [][TourNext]_tourVars

-----------------------------------------------------------------------------
\* The element of the step is at least partly on a screen that has room for the tooltip.
OnScreen ==
  /\ viewport.width >= Width + 2 * Margin /\ viewport.height >= Height + 2 * Margin
  /\ target # Nowhere
  /\ target.left >= 0 /\ target.left <= viewport.width
  /\ target.top + target.height >= 0 /\ target.top <= viewport.height
  /\ target.left + target.width >= 0

\* The tooltip, and with it the buttons that end the tour, is on the screen, wherever the
\* element is and however the window is resized and the page scrolled.
TooltipInView ==
  tour = "active" /\ OnScreen =>
    /\ tooltip.left >= 0 /\ tooltip.left + Width <= viewport.width
    /\ tooltip.top >= 0 /\ tooltip.top + Height <= viewport.height
=============================================================================

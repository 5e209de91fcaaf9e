-------------------------------- MODULE MCViews --------------------------------
EXTENDS Views

\* The second accelerator lacks the filter with a parameter, the third is not there.
MCOffered ==
  [cuda |-> <<"blur", "gray">>, vulkan |-> <<"gray">>, opencl |-> << >>]

\* getActiveFilters filters and maps, whatever is enabled.
ASSUME ActiveFiltersAreThoseEnabled ==
  \A list \in BoundedSeq([id : {"blur", "gray"}, enabled : BOOLEAN, value : {Low}], 3) :
    LET on == SelectSeq(list, LAMBDA c : c.enabled) IN
    ActiveFilters(list) = [i \in DOMAIN on |-> [id |-> on[i].id, value |-> on[i].value]]

\* A desktop, the smallest window with room for the tooltip, and a narrow one without.
MCViewports ==
  {[width |-> 800, height |-> 600], [width |-> 360, height |-> 260], [width |-> 300, height |-> 640]}

Rect(t, l, w, h) == [top |-> t, left |-> l, width |-> w, height |-> h]

\* On the desktop one element for each side of the tooltip, one at the edge of the room
\* below, one that spans the lower half, and one out of view.
MCTargets ==
  {Rect(90, 20, 340, 40), Rect(100, 480, 300, 80), Rect(0, 40, 720, 60),
   Rect(160, 200, 400, 210), Rect(340, 0, 720, 200), Rect(-200, 0, 100, 100)}
=============================================================================

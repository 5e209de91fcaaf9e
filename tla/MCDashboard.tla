------------------------------ MODULE MCDashboard ------------------------------
(* Small instances of the parts of Dashboard. *)
EXTENDS Dashboard

Size(w, h) == [width |-> w, height |-> h]

\* What a webcam offers, in both orientations and down to the smallest size asked for.
MCModes == {Size(1280, 720), Size(640, 480), Size(320, 240), Size(240, 320), Size(160, 120)}

\* They are of the kind SizeSettles is about.
ASSUME SizesDwindle == Dwindling
=============================================================================

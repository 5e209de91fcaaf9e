------------------------ MODULE MCSignalingSessions ------------------------
(* Two calls on two session ids. *)
EXTENDS SignalingSessions
CONSTANTS x, y, o1, o2, k1, k2

MCIds   == {x, y}
MCObjs  == {o1, o2}
MCCalls == {k1, k2}
MCOps   == {"start", "ice", "poll", "close"}
=============================================================================

------------------------ MODULE MCAcceleratorControl ------------------------
(* Three streams of two devices: a device reconnects, and the other one    *)
(* competes for the slot.                                                  *)
EXTENDS AcceleratorControl, FiniteSets
CONSTANTS a1, a2, b1, devA, devB

MCConns    == {a1, a2, b1}
MCDevices  == {devA, devB}
MCDeviceOf == [c \in MCConns |-> IF c = b1 THEN devB ELSE devA]
MCPayload  == {"register", "signaling"}
MCResets   == {"broken"}

\* A stream is dialed while at most one other has been, or when all the others are over.
MCOver(c) == Returned(c) /\ reader[c] = "off"
MCMayDial(c) ==
  \/ Cardinality({d \in MCConns : handler[d] # "idle"}) <= 1
  \/ \A d \in MCConns \ {c} : MCOver(d)
MCNext ==
  Next /\ \A c \in MCConns : handler[c] = "idle" /\ handler'[c] # "idle" => MCMayDial(c)
MCSpec == Init /\ [][MCNext]_vars /\ Fairness
=============================================================================

-------------------------- MODULE MCSignalingRelay --------------------------
(* A session and the adapters opened on it. *)
EXTENDS SignalingRelay, TLC
CONSTANTS a1, devA, s1, s2

MCDevices  == {devA}
MCPayload  == {"register", "signaling"}
MCEndings  == {"broken"}

MCOne          == {a1}
MCOneDeviceOf  == [c \in MCOne |-> devA]
MCAdapters     == {s1, s2}
MCSymmetry     == Permutations(MCAdapters)
=============================================================================

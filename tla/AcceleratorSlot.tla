-------------------------- MODULE AcceleratorSlot --------------------------
(***************************************************************************)
(* What the registry promises its users, with every thread, stream and     *)
(* timer left out: the v1 platform has one slot, held by at most one       *)
(* control stream.  A stream that finds the slot empty takes it, a stream  *)
(* of the device that already holds it takes over, and a stream that left  *)
(* the slot never comes back to it.                                        *)
(***************************************************************************)
CONSTANTS Conns,     \* control streams ever opened
          NoConn,    \* the empty slot
          DeviceOf   \* the device each stream registers

VARIABLES holder,    \* the stream that holds the slot, or NoConn
          admitted   \* every stream that ever held it

slotVars == <<holder, admitted>>

SlotInit == holder = NoConn /\ admitted = {}

\* A stream is admitted to the empty slot.
Join(c) ==
  /\ holder = NoConn
  /\ c \notin admitted
  /\ holder' = c
  /\ admitted' = admitted \cup {c}

\* The device that holds the slot reconnects before its old stream is gone.
TakeOver(c) ==
  /\ holder # NoConn
  /\ c \notin admitted
  /\ DeviceOf[c] = DeviceOf[holder]
  /\ holder' = c
  /\ admitted' = admitted \cup {c}

\* The holder leaves and the slot is empty.
Leave ==
  /\ holder # NoConn
  /\ holder' = NoConn
  /\ UNCHANGED admitted

SlotNext == Leave \/ \E c \in Conns : Join(c) \/ TakeOver(c)

SlotSpec == SlotInit /\ [][SlotNext]_slotVars
=============================================================================

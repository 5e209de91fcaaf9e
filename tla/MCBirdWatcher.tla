---------------------------- MODULE MCBirdWatcher ----------------------------
(***************************************************************************)
(* BirdWatcher for TLC.  The intervals keep the order of the defaults (the *)
(* idle interval and the save interval are shorter than the window), the   *)
(* clock runs long enough for the window to empty and fill again.          *)
(***************************************************************************)
EXTENDS BirdWatcher
=============================================================================

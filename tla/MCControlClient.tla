--------------------------- MODULE MCControlClient ---------------------------
(* One client, one or two sessions, up to three cycles. *)
EXTENDS ControlClient
CONSTANTS v1, v2
MCOneSid  == {v1}
MCTwoSids == {v1, v2}
=============================================================================

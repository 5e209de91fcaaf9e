-------------------------- MODULE MCWebRTCService --------------------------
(* Small instances of WebRTCService. *)
EXTENDS WebRTCService

\* A close behind a candidate, and what else may come in one batch.
MCBatches == {<<>>, <<"candidate", "close">>, <<"other">>, <<"close", "candidate">>}
=============================================================================

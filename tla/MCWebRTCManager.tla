--------------------------- MODULE MCWebRTCManager ---------------------------
(* Two sessions ever created, in one of two scopes, chosen at the start: one id, *)
(* used again, with everything that can happen to a session; or two ids, and so   *)
(* two sessions in the table at once, with less that happens to each.             *)
EXTENDS WebRTCManager

CONSTANTS a, b, s1, s2, hub, dc, Scopes

VARIABLE scope

mcVars == <<scope, managerVars>>

\* One id: the other is never created.
OneId == control'.id # b

\* Two ids: no camera, no candidate, no offer rejected or timed out, no inline handler.
TwoIds ==
  /\ subscribed' = {} /\ control'.at # "candidate"
  /\ cleanup'.at # "relock" /\ control'.at # "relock"
  /\ ~OfferRejected /\ ~ \E how \in Closing : AnswerTimesOut(how)

MCInit == scope \in Scopes /\ ManagerInit

MCNext ==
  /\ ManagerNext /\ UNCHANGED scope
  /\ IF scope = "one" THEN OneId ELSE TwoIds

\* What a scope leaves out is the choice of a caller, of the browser or of the library,
\* never the only way on: the fairness is that of the specification.
MCSpec == MCInit /\ [][MCNext]_mcVars /\ ManagerFairness
=============================================================================

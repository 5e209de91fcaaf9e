--------------------------- MODULE BrowserSession ---------------------------
(***************************************************************************)
(* What the browser's WebRTC service promises to those who use it: the     *)
(* promise createSession returns, and the data channel that getDataChannel *)
(* hands out.  A session is created once; it is resolved with an open      *)
(* channel, and once the service has forgotten it, it stays forgotten.     *)
(***************************************************************************)
CONSTANT Ids  \* the session ids: every createSession draws a fresh one

VARIABLES
  promise,  \* per session, the promise of createSession
  ready,    \* per session, readyState of its data channel
  known     \* the sessions for which getDataChannel returns a channel

session == <<promise, ready, known>>

SessionTypeOK ==
  /\ promise \in [Ids -> {"none", "pending", "resolved", "rejected"}]
  /\ ready \in [Ids -> {"none", "connecting", "open", "closed"}]
  /\ known \subseteq Ids

SessionInit ==
  /\ promise = [s \in Ids |-> "none"]
  /\ ready = [s \in Ids |-> "none"]
  /\ known = {}

\* createSession up to its first await; the peer connection may be refused.
Begin(s) ==
  /\ promise[s] = "none"
  /\ \/ /\ promise' = [promise EXCEPT ![s] = "pending"]
        /\ ready' = [ready EXCEPT ![s] = "connecting"]
        /\ known' = known \cup {s}
     \/ promise' = [promise EXCEPT ![s] = "rejected"] /\ UNCHANGED <<ready, known>>

\* The channel opens: this is what createSession waited for.
Opens(s) ==
  /\ promise[s] = "pending" /\ s \in known /\ ready[s] = "connecting"
  /\ ready' = [ready EXCEPT ![s] = "open"]
  /\ promise' = [promise EXCEPT ![s] = "resolved"]
  /\ UNCHANGED known

\* The channel fails; a createSession that still waits gives up.
Breaks(s) ==
  /\ s \in known /\ ready[s] \in {"connecting", "open"}
  /\ ready' = [ready EXCEPT ![s] = "closed"]
  /\ IF promise[s] = "pending"
     THEN promise' = [promise EXCEPT ![s] = "rejected"] /\ known' = known \ {s}
     ELSE UNCHANGED <<promise, known>>

\* cleanupSession, for whatever reason.
Forget(s) ==
  /\ s \in known
  /\ known' = known \ {s}
  /\ ready' = [ready EXCEPT ![s] = "closed"]
  /\ \/ UNCHANGED promise
     \/ promise[s] = "pending" /\ promise' = [promise EXCEPT ![s] = "rejected"]

GivesUp(s) ==
  /\ promise[s] = "pending" /\ s \notin known
  /\ promise' = [promise EXCEPT ![s] = "rejected"]
  /\ UNCHANGED <<ready, known>>

SessionStep(s) == Begin(s) \/ Opens(s) \/ Breaks(s) \/ Forget(s) \/ GivesUp(s)

\* beforeunload forgets all sessions at once.
ForgetAll ==
  /\ known' = {}
  /\ ready' = [s \in Ids |-> IF s \in known THEN "closed" ELSE ready[s]]
  /\ UNCHANGED promise

SessionSpec ==
  SessionInit /\ [][ForgetAll \/ \E s \in Ids : SessionStep(s)]_session
=============================================================================

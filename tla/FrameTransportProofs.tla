------------------------ MODULE FrameTransportProofs ------------------------
(***************************************************************************)
(* No open channel is left behind, and no request names another session    *)
(* than the one whose channel carries it, until a disconnect overtakes an  *)
(* attempt to connect.                                                     *)
(***************************************************************************)
EXTENDS FrameTransport, TLAPS

Opened == {s \in Ids : attempt[s] \in {"waiting", "done", "failed"}}

\* A channel opens under its attempt only; a request that has a channel got it from the
\* session of that time, and is sent once.
Provenance ==
  /\ \A s \in Ids : ready[s] = "open" => s \in Opened
  /\ sessionId # None => sessionId \in Opened
  /\ \A c \in Calls : call[c] = "rastering" \/ c \in owed => on[c] \in Opened \cup {None}
  /\ \A c \in owed : call[c] \in {"pending", "sent", "resolved", "rejected"}

\* Until a disconnect comes in between, one attempt at a time is in progress, the one
\* that connectPromise names; it starts with no open session and ends with its own.
OneAttempt ==
  /\ Trying = {connectPromise} \ {None}
  /\ \A s \in Ids : attempt[s] = "waiting" => sessionId = s
  /\ sessionId # None /\ Open(sessionId) => connectPromise \in {None, sessionId}

\* An image that is being rasterized will be written under the session it was meant for.
RastersForIt ==
  \A c \in Calls :
    call[c] = "rastering" /\ Open(on[c]) => on[c] = sessionId \/ on[c] \in closing

\* What OpenIsOwned and NamesItsSession say of one session and of one request.
Owned(s) == Open(s) => s \in Trying \cup closing \cup {sessionId} \/ attempt[s] = "failed"
Named(c) == c \in owed /\ Open(on[c]) => label[c] = on[c] \/ on[c] \in closing

\* What holds of sessions and requests as long as no disconnect overtakes an attempt.
Orderly ==
  OneAttempt /\ RastersForIt /\ (\A s \in Ids : Owned(s)) /\ (\A c \in Calls : Named(c))

FrameInv == TransportTypeOK /\ Provenance /\ (overtaken \/ Orderly)

-----------------------------------------------------------------------------
\* The service's steps keep its types, and only Opens opens a channel.
LEMMA SessionSteps ==
  ASSUME SessionTypeOK, (\E s \in Ids : SessionStep(s)) \/ ForgetAll
  PROVE  SessionTypeOK'
<1>1. CASE ForgetAll
  BY <1>1 DEF ForgetAll, SessionTypeOK
<1>2. ASSUME NEW s \in Ids, SessionStep(s) PROVE SessionTypeOK'
  <2>1. CASE Begin(s)
    BY <2>1 DEF Begin, SessionTypeOK
  <2>2. CASE Opens(s)
    BY <2>2 DEF Opens, SessionTypeOK
  <2>3. CASE Breaks(s)
    BY <2>3 DEF Breaks, SessionTypeOK
  <2>4. CASE Forget(s)
    BY <2>4 DEF Forget, SessionTypeOK
  <2>5. CASE GivesUp(s)
    BY <2>5 DEF GivesUp, SessionTypeOK
  <2> QED BY <1>2, <2>1, <2>2, <2>3, <2>4, <2>5 DEF SessionStep
<1> QED BY <1>1, <1>2

LEMMA NothingOpens ==
  ASSUME SessionTypeOK, NEW t,
         \/ \E s \in Ids : Begin(s) \/ Breaks(s) \/ Forget(s) \/ GivesUp(s)
         \/ ForgetAll \/ UNCHANGED session
  PROVE  (Open(t)' => Open(t)) /\ (t \in Ids /\ ready'[t] = "open" => ready[t] = "open")
<1>1. CASE ForgetAll \/ UNCHANGED session
  BY <1>1 DEF ForgetAll, session, Open, SessionTypeOK
<1>2. ASSUME NEW s \in Ids, Begin(s) \/ Breaks(s) \/ Forget(s) \/ GivesUp(s)
      PROVE  (Open(t)' => Open(t)) /\ (t \in Ids /\ ready'[t] = "open" => ready[t] = "open")
  <2>1. CASE Begin(s)
    BY <2>1 DEF Begin, Open, SessionTypeOK
  <2>2. CASE Breaks(s)
    BY <2>2 DEF Breaks, Open, SessionTypeOK
  <2>3. CASE Forget(s)
    BY <2>3 DEF Forget, Open, SessionTypeOK
  <2>4. CASE GivesUp(s)
    BY <2>4 DEF GivesUp, Open, SessionTypeOK
  <2> QED BY <1>2, <2>1, <2>2, <2>3, <2>4
<1> QED BY <1>1, <1>2

\* The helpers of the requests, in terms of what they do to each of them.
LEMMA RejectedOnes ==
  ASSUME TransportTypeOK, NEW cs \in SUBSET Calls, Rejected(cs)
  PROVE  /\ call' \in [Calls -> {"idle", "connecting", "rastering", "pending", "sent",
                                 "resolved", "rejected"}]
         /\ on' \in [Calls -> Maybe] /\ label' = label /\ owed' = owed
         /\ \A c \in Calls : \/ call'[c] = call[c] /\ on'[c] = on[c]
                             \/ call'[c] = "rejected" /\ on'[c] = None
BY DEF Rejected, TransportTypeOK, Maybe

\* Requests that go on are bound to sessionId, which is open.
LEMMA ProceedingOnes ==
  ASSUME TransportTypeOK, NEW cs \in SUBSET Calls, Proceed(cs)
  PROVE  /\ call' \in [Calls -> {"idle", "connecting", "rastering", "pending", "sent",
                                 "resolved", "rejected"}]
         /\ on' \in [Calls -> Maybe] /\ label' \in [Calls -> Maybe] /\ owed' \subseteq Calls
         /\ \A c \in Calls :
              \/ /\ call'[c] = call[c] /\ on'[c] = on[c] /\ label'[c] = label[c]
                 /\ c \in owed' <=> c \in owed
              \/ /\ c \in cs /\ call'[c] = "rejected" /\ on'[c] = None
                 /\ c \in owed' <=> c \in owed
              \/ /\ c \in cs /\ IsConnected /\ on'[c] = sessionId
                 /\ \/ call'[c] = "pending" /\ label'[c] = sessionId
                    \/ call'[c] = "rastering" /\ (c \in owed' <=> c \in owed)
<1>1. CASE ~IsConnected
  <2>1. Rejected(cs)
    BY <1>1 DEF Proceed
  <2>2. label' = label /\ owed' = owed
    BY <2>1 DEF Rejected
  <2> QED BY <2>1, <2>2, RejectedOnes DEF Rejected, TransportTypeOK
<1>2. CASE IsConnected
  <2>1. PICK images \in SUBSET (cs \ Live) :
          /\ call' = [c \in Calls |-> IF c \in images THEN "pending"
                                      ELSE IF c \in cs THEN "rastering" ELSE call[c]]
          /\ on' = [c \in Calls |-> IF c \in cs THEN sessionId ELSE on[c]]
          /\ label' = [c \in Calls |-> IF c \in images THEN sessionId ELSE label[c]]
          /\ owed' = owed \cup images
    BY <1>2 DEF Proceed
  <2>2. sessionId \in Maybe
    BY DEF TransportTypeOK
  <2>3. /\ call' \in [Calls -> {"idle", "connecting", "rastering", "pending", "sent",
                                "resolved", "rejected"}]
        /\ on' \in [Calls -> Maybe] /\ label' \in [Calls -> Maybe] /\ owed' \subseteq Calls
    BY <2>1, <2>2 DEF TransportTypeOK
  <2> QED BY <1>2, <2>1, <2>3
<1> QED BY <1>1, <1>2

-----------------------------------------------------------------------------
\* Types and provenance, for the steps of a request.
LEMMA RequestBasics ==
  ASSUME TransportTypeOK, Provenance, NEW d \in Calls,
         Send(d) \/ Join(d) \/ Rasterized(d) \/ Answer(d) \/ TimesOut(d)
  PROVE  TransportTypeOK' /\ Provenance'
<1>0. UNCHANGED <<session, sessionId, connectPromise, attempt, channels, closing, overtaken>>
  BY DEF Send, Join, Rasterized, Answer, TimesOut, connection
<1>1. SessionTypeOK' /\ status' \in {"connected", "disconnected", "connecting", "error"}
  BY <1>0 DEF TransportTypeOK, SessionTypeOK, session, Send, Join, Rasterized, Answer, TimesOut,
              connection, HandleError
<1>2. /\ call' \in [Calls -> {"idle", "connecting", "rastering", "pending", "sent",
                              "resolved", "rejected"}]
      /\ on' \in [Calls -> Maybe] /\ label' \in [Calls -> Maybe] /\ owed' \subseteq Calls
      /\ \A c \in Calls :
           /\ call'[c] = "rastering" \/ c \in owed' =>
                \/ on'[c] = on[c] /\ (call[c] = "rastering" \/ c \in owed)
                \/ on'[c] = sessionId /\ IsConnected
                \/ on'[c] = None
           /\ c \in owed' =>
                \/ c \in owed /\ call'[c] = call[c]
                \/ call'[c] \in {"pending", "sent", "resolved", "rejected"}
  <2>1. CASE Send(d)
    <3>1. Proceed({d}) /\ call[d] = "idle" /\ d \notin owed
      BY <2>1 DEF Send, Provenance
    <3> QED BY <3>1, ProceedingOnes, {d} \in SUBSET Calls
  <2>2. CASE Join(d)
    BY <2>2 DEF Join, TransportTypeOK, Provenance
  <2>3. CASE Rasterized(d)
    <3>1. CASE Written(d)
      <4>1. sessionId \in Maybe
        BY DEF TransportTypeOK
      <4> QED BY <2>3, <3>1, <4>1 DEF Rasterized, Written, TransportTypeOK
    <3>2. CASE Rejected({d})
      BY <3>2, RejectedOnes, {d} \in SUBSET Calls DEF TransportTypeOK
    <3> QED BY <2>3, <3>1, <3>2 DEF Rasterized
  <2>4. CASE Answer(d)
    BY <2>4 DEF Answer, Pending, TransportTypeOK
  <2>5. CASE TimesOut(d)
    BY <2>5 DEF TimesOut, Pending, TransportTypeOK
  <2> QED BY <2>1, <2>2, <2>3, <2>4, <2>5
<1>3. TransportTypeOK'
  BY <1>0, <1>1, <1>2 DEF TransportTypeOK, channels
<1>4. Provenance'
  <2>1. Opened' = Opened /\ ready' = ready /\ sessionId' = sessionId
    BY <1>0 DEF Opened, session
  <2>2. IsConnected => sessionId \in Opened
    BY DEF IsConnected, Provenance
  <2>3. \A c \in Calls : call'[c] = "rastering" \/ c \in owed' => on'[c] \in Opened \cup {None}
    BY <1>2, <2>2 DEF Provenance
  <2>4. \A c \in owed' : call'[c] \in {"pending", "sent", "resolved", "rejected"}
    BY <1>2 DEF Provenance
  <2> QED BY <2>1, <2>3, <2>4 DEF Provenance
<1> QED BY <1>3, <1>4

\* An attempt begins, moves on or ends.
LEMMA AttemptBasics ==
  ASSUME TransportTypeOK, Provenance, NEW s \in Ids, Attempt(s)
  PROVE  TransportTypeOK' /\ Provenance'
<1>0. SessionTypeOK
  BY DEF TransportTypeOK
<1>1. ASSUME NEW cs \in SUBSET Calls, Connect(s, cs), \A c \in cs : call[c] = "idle"
      PROVE  TransportTypeOK' /\ Provenance'
  <2>1. SessionTypeOK'
    BY <1>0, <1>1, SessionSteps DEF Connect, SessionStep
  <2>2. TransportTypeOK'
    BY <1>1, <2>1 DEF Connect, TransportTypeOK, Maybe, channels
  <2>3. Opened \subseteq Opened'
    BY <1>1 DEF Connect, Opened, TransportTypeOK
  <2>4. \A t \in Ids : ready'[t] = "open" => t \in Opened'
    BY <1>0, <1>1, <2>3, NothingOpens DEF Connect, Provenance
  <2>5. \A c \in Calls : call'[c] = "rastering" \/ c \in owed' =>
          on'[c] = on[c] /\ (call[c] = "rastering" \/ c \in owed)
    BY <1>1 DEF Connect, TransportTypeOK, Provenance
  <2>6. \A c \in owed' : call'[c] = call[c] /\ c \in owed
    BY <1>1 DEF Connect, TransportTypeOK, Provenance
  <2> QED BY <1>1, <2>2, <2>3, <2>4, <2>5, <2>6 DEF Connect, Provenance
<1>2. CASE Created(s)
  <2>1. SessionTypeOK'
    BY <1>0, <1>2, SessionSteps DEF Created, SessionStep
  <2>2. TransportTypeOK'
    BY <1>2, <2>1 DEF Created, TransportTypeOK, Maybe, channels, requests
  <2>3. Opened' = Opened \cup {s}
    BY <1>2 DEF Created, Opened, TransportTypeOK
  <2>4. \A t \in Ids : ready'[t] = "open" => t \in Opened'
    BY <1>0, <1>2, <2>3 DEF Created, Opens, Provenance, SessionTypeOK
  <2> QED BY <1>2, <2>2, <2>3, <2>4 DEF Created, Provenance, requests
<1>3. ASSUME AttemptFails(s), attempt[s] \in {"creating", "waiting"}, SessionTypeOK',
             UNCHANGED <<sessionId, channels, closing, overtaken>>,
             \A t \in Ids : ready'[t] = "open" => ready[t] = "open"
      PROVE  TransportTypeOK' /\ Provenance'
  <2>1. Rejected(Joined(s)) /\ Joined(s) \in SUBSET Calls
    BY <1>3 DEF AttemptFails, Joined
  <2>2. status' \in {"connected", "disconnected", "connecting", "error"}
    BY <1>3 DEF AttemptFails, HandleError, TransportTypeOK
  <2>3. TransportTypeOK'
    BY <1>3, <2>1, <2>2, RejectedOnes DEF AttemptFails, TransportTypeOK, Maybe, channels
  <2>4. Opened' = Opened \cup {s}
    BY <1>3 DEF AttemptFails, Opened, TransportTypeOK
  <2>5. \A c \in Calls : \/ call'[c] = call[c] /\ on'[c] = on[c]
                         \/ call'[c] = "rejected" /\ on'[c] = None
    BY <2>1, RejectedOnes
  <2>6. owed' = owed /\ owed \subseteq Calls
    BY <2>1 DEF Rejected, TransportTypeOK
  <2> QED BY <1>3, <2>3, <2>4, <2>5, <2>6 DEF Provenance
<1>4. CASE NotCreated(s)
  <2>1. \/ UNCHANGED session \/ Breaks(s) \/ Forget(s) \/ GivesUp(s)
    BY <1>4 DEF NotCreated
  <2>2. SessionTypeOK'
    BY <1>0, <2>1, SessionSteps DEF SessionStep, session, SessionTypeOK
  <2>3. \A t \in Ids : ready'[t] = "open" => ready[t] = "open"
    BY <1>0, <2>1, NothingOpens
  <2> QED BY <1>3, <1>4, <2>2, <2>3 DEF NotCreated
<1>5. CASE NotReady(s)
  BY <1>0, <1>3, <1>5 DEF NotReady, session, SessionTypeOK
<1>6. CASE Ready(s)
  <2>1. Proceed(Joined(s)) /\ Joined(s) \in SUBSET Calls
    BY <1>6 DEF Ready, Joined
  <2>2. /\ call' \in [Calls -> {"idle", "connecting", "rastering", "pending", "sent",
                                "resolved", "rejected"}]
        /\ on' \in [Calls -> Maybe] /\ label' \in [Calls -> Maybe] /\ owed' \subseteq Calls
        /\ \A c \in Calls :
           /\ call'[c] = "rastering" \/ c \in owed' =>
                \/ on'[c] = on[c] /\ (call[c] = "rastering" \/ c \in owed)
                \/ on'[c] = sessionId /\ IsConnected
                \/ on'[c] = None
           /\ c \in owed' =>
                \/ c \in owed /\ call'[c] = call[c]
                \/ call'[c] \in {"pending", "sent", "resolved", "rejected"}
    <3>1. \A c \in Joined(s) : c \notin owed
      BY DEF Joined, Provenance
    <3> QED BY <2>1, <3>1, ProceedingOnes
  <2>3. TransportTypeOK'
    BY <1>0, <1>6, <2>2 DEF Ready, Attach, TransportTypeOK, Maybe, session, SessionTypeOK
  <2>4. Opened' = Opened
    BY <1>6 DEF Ready, Opened, TransportTypeOK
  <2>5. IsConnected => sessionId \in Opened
    BY DEF IsConnected, Provenance
  <2>6. ready' = ready /\ sessionId' = sessionId
    BY <1>6 DEF Ready, session
  <2>7. \A c \in Calls : call'[c] = "rastering" \/ c \in owed' => on'[c] \in Opened \cup {None}
    BY <2>2, <2>5 DEF Provenance
  <2>8. \A c \in owed' : call'[c] \in {"pending", "sent", "resolved", "rejected"}
    BY <2>2 DEF Provenance
  <2> QED BY <2>3, <2>4, <2>6, <2>7, <2>8 DEF Provenance
<1>7. CASE Connect(s, {})
  BY <1>1, <1>7, {} \in SUBSET Calls
<1>8. ASSUME NEW c \in Calls, call[c] = "idle", Connect(s, {c})
      PROVE  TransportTypeOK' /\ Provenance'
  BY <1>1, <1>8, {c} \in SUBSET Calls
<1> QED BY <1>2, <1>4, <1>5, <1>6, <1>7, <1>8 DEF Attempt

\* The ways a connection ends.
Ending == Disconnect \/ Unload \/ \E s \in Ids : Forgotten(s) \/ ChannelBreaks(s) \/ LateClose(s)

LEMMA EndingBasics ==
  ASSUME TransportTypeOK, Provenance, Ending
  PROVE  TransportTypeOK' /\ Provenance'
<1>0. SessionTypeOK /\ Pending \in SUBSET Calls
  BY DEF TransportTypeOK, Pending
<1>1. \/ UNCHANGED session \/ ForgetAll \/ \E s \in Ids : Breaks(s) \/ Forget(s)
  BY DEF Ending, Disconnect, Unload, Forgotten, ChannelBreaks, LateClose
<1>2. SessionTypeOK'
  BY <1>0, <1>1, SessionSteps DEF SessionStep, session, SessionTypeOK
<1>3. \A t \in Ids : ready'[t] = "open" => ready[t] = "open"
  BY <1>0, <1>1, NothingOpens
<1>4. Rejected(Pending) \/ UNCHANGED requests
  BY DEF Ending, Disconnect, Unload, Forgotten, ChannelBreaks, LateClose, Closes, FailPending
<1>5. /\ call' \in [Calls -> {"idle", "connecting", "rastering", "pending", "sent",
                              "resolved", "rejected"}]
      /\ on' \in [Calls -> Maybe] /\ label' \in [Calls -> Maybe] /\ owed' = owed
      /\ \A c \in Calls : \/ call'[c] = call[c] /\ on'[c] = on[c]
                          \/ call'[c] = "rejected" /\ on'[c] = None
  BY <1>0, <1>4, RejectedOnes DEF requests, TransportTypeOK
<1>6. /\ attempt' = attempt /\ sessionId' \in {sessionId, None}
      /\ connectPromise' \in {connectPromise, None}
      /\ status' \in {"connected", "disconnected", "connecting", "error"}
      /\ attached' = attached /\ closing' \subseteq closing \cup ({sessionId} \ {None})
      /\ overtaken' \in BOOLEAN
  BY DEF Ending, Disconnect, Unload, Forgotten, ChannelBreaks, LateClose, Closes, connection,
         channels, TransportTypeOK
<1>7. dying' \subseteq attached
  BY DEF Ending, Disconnect, Unload, Forgotten, ChannelBreaks, LateClose, channels, TransportTypeOK
<1>8. TransportTypeOK'
  BY <1>2, <1>5, <1>6, <1>7 DEF TransportTypeOK, Maybe
<1>9. Provenance'
  <2>1. Opened' = Opened /\ owed \subseteq Calls
    BY <1>6 DEF Opened, TransportTypeOK
  <2> QED BY <1>3, <1>5, <1>6, <2>1 DEF Provenance
<1> QED BY <1>8, <1>9

-----------------------------------------------------------------------------
\* The part about requests: where no channel opens and sessionId stays, or is closed when
\* it is dropped, a request that goes on is bound to sessionId.
LEMMA RequestsStayOrderly ==
  ASSUME TransportTypeOK, RastersForIt, \A c \in Calls : Named(c), owed' \subseteq Calls,
         \A t : Open(t)' => Open(t), closing \subseteq closing',
         sessionId = None \/ sessionId = sessionId' \/ sessionId \in closing',
         \A c \in Calls :
           /\ call'[c] = "rastering" =>
                \/ call[c] = "rastering" /\ on'[c] = on[c]
                \/ on'[c] = sessionId \/ on'[c] = None
           /\ c \in owed' =>
                \/ on'[c] = on[c] /\ label'[c] = label[c] /\ c \in owed
                \/ on'[c] = None \/ (on'[c] = sessionId /\ label'[c] = sessionId)
                \/ call[c] = "rastering" /\ on'[c] = on[c] /\ label'[c] = sessionId
  PROVE  RastersForIt' /\ \A c \in Calls : Named(c)'
<1>1. ~Open(None)
  BY CallAssumption DEF Open, TransportTypeOK, SessionTypeOK
<1>2. RastersForIt'
  <2> SUFFICES ASSUME NEW c \in Calls, call'[c] = "rastering", Open(on[c])'
               PROVE  on'[c] = sessionId' \/ on'[c] \in closing'
    BY DEF RastersForIt
  <2>1. Open(on'[c])
    BY DEF Open
  <2>2. CASE call[c] = "rastering" /\ on'[c] = on[c]
    BY <1>1, <2>1, <2>2 DEF RastersForIt
  <2>3. CASE on'[c] = sessionId \/ on'[c] = None
    BY <1>1, <2>1, <2>3
  <2> QED BY <2>2, <2>3
<1>3. ASSUME NEW c \in Calls, c \in owed', Open(on[c])' PROVE label'[c] = on'[c] \/ on'[c] \in closing'
  <2>0. Open(on'[c])
    BY <1>3 DEF Open
  <2>1. CASE on'[c] = on[c] /\ label'[c] = label[c] /\ c \in owed
    BY <2>0, <2>1 DEF Named
  <2>2. CASE on'[c] = None \/ (on'[c] = sessionId /\ label'[c] = sessionId)
    BY <1>1, <2>0, <2>2
  <2>3. CASE call[c] = "rastering" /\ on'[c] = on[c] /\ label'[c] = sessionId
    BY <2>0, <2>3 DEF RastersForIt
  <2> QED BY <1>3, <2>1, <2>2, <2>3
<1> QED BY <1>2, <1>3 DEF Named

LEMMA RequestOrder ==
  ASSUME TransportTypeOK, Provenance, Orderly, NEW d \in Calls,
         Send(d) \/ Join(d) \/ Rasterized(d) \/ Answer(d) \/ TimesOut(d)
  PROVE  Orderly'
<1>1. UNCHANGED <<session, sessionId, connectPromise, attempt, channels, closing, overtaken>>
  BY DEF Send, Join, Rasterized, Answer, TimesOut, connection
<1>2. \A t : Open(t)' <=> Open(t)
  BY <1>1 DEF Open, session
<1>3. OneAttempt' /\ \A s \in Ids : Owned(s)'
  <2>1. Trying' = Trying
    BY <1>1 DEF Trying
  <2> QED BY <1>1, <1>2, <2>1 DEF Orderly, OneAttempt, Owned
<1>4. /\ owed' \subseteq Calls
      /\ \A c \in Calls :
           /\ call'[c] = "rastering" =>
                \/ call[c] = "rastering" /\ on'[c] = on[c]
                \/ on'[c] = sessionId \/ on'[c] = None
           /\ c \in owed' =>
                \/ on'[c] = on[c] /\ label'[c] = label[c] /\ c \in owed
                \/ on'[c] = None \/ (on'[c] = sessionId /\ label'[c] = sessionId)
                \/ call[c] = "rastering" /\ on'[c] = on[c] /\ label'[c] = sessionId
  <2>1. CASE Send(d)
    <3>1. Proceed({d}) /\ d \notin owed
      BY <2>1 DEF Send, Provenance
    <3> QED BY <3>1, ProceedingOnes, {d} \in SUBSET Calls
  <2>2. CASE Join(d)
    BY <2>2 DEF Join, TransportTypeOK, Provenance
  <2>3. CASE Rasterized(d)
    <3>1. CASE Written(d)
      BY <2>3, <3>1 DEF Rasterized, Written, TransportTypeOK
    <3>2. CASE Rejected({d})
      BY <3>2, RejectedOnes, {d} \in SUBSET Calls DEF TransportTypeOK
    <3> QED BY <2>3, <3>1, <3>2 DEF Rasterized
  <2>4. CASE Answer(d)
    BY <2>4 DEF Answer, Pending, TransportTypeOK
  <2>5. CASE TimesOut(d)
    BY <2>5 DEF TimesOut, Pending, TransportTypeOK
  <2> QED BY <2>1, <2>2, <2>3, <2>4, <2>5
<1>5. RastersForIt' /\ \A c \in Calls : Named(c)'
  BY <1>1, <1>2, <1>4, RequestsStayOrderly DEF Orderly
<1> QED BY <1>3, <1>5 DEF Orderly

\* An attempt: it begins where no session is open, takes over sessionId, and is the only one.
LEMMA AttemptOrder ==
  ASSUME TransportTypeOK, Provenance, Orderly, TransportTypeOK', NEW s \in Ids, Attempt(s)
  PROVE  Orderly'
<1>0. SessionTypeOK /\ None \notin Ids
  BY CallAssumption DEF TransportTypeOK
<1>1. ASSUME NEW cs \in SUBSET Calls, Connect(s, cs), \A c \in cs : call[c] = "idle"
      PROVE  Orderly'
  <2>1. \A t : Open(t)' => Open(t)
    BY <1>0, <1>1, NothingOpens DEF Connect
  <2>2. Trying' = {s} /\ connectPromise' = s
    BY <1>1 DEF Connect, Orderly, OneAttempt, Trying, TransportTypeOK
  <2>3. OneAttempt'
    <3>1. \A t \in Ids : attempt'[t] = "waiting" => attempt[t] = "waiting"
      BY <1>1 DEF Connect, TransportTypeOK
    <3>2. ~(sessionId # None /\ Open(sessionId))
      BY <1>1 DEF Connect, IsConnected
    <3>3. ~(sessionId' # None /\ Open(sessionId)')
      BY <1>1, <2>1, <3>2 DEF Connect, Open
    <3> QED BY <1>0, <1>1, <2>2, <3>1, <3>3 DEF Connect, Orderly, OneAttempt
  <2>4. \A t \in Ids : Owned(t)'
    BY <1>1, <2>1, <2>2 DEF Connect, Orderly, Owned, OneAttempt, TransportTypeOK, Trying
  <2>5. RastersForIt' /\ \A c \in Calls : Named(c)'
    <3>1. \A c \in Calls :
            /\ call'[c] = "rastering" => call[c] = "rastering" /\ on'[c] = on[c]
            /\ c \in owed' => on'[c] = on[c] /\ label'[c] = label[c] /\ c \in owed
      BY <1>1 DEF Connect, TransportTypeOK, Provenance
    <3>2. owed' \subseteq Calls /\ closing' = closing /\ sessionId' = sessionId
      BY <1>1 DEF Connect, TransportTypeOK
    <3> QED BY <2>1, <3>1, <3>2, RequestsStayOrderly DEF Orderly
  <2> QED BY <2>3, <2>4, <2>5 DEF Orderly
<1>2. CASE Created(s)
  <2>1. /\ \A t \in Ids \ {s} : Open(t)' => Open(t)
        /\ attempt[s] = "creating" /\ s \in Trying /\ s \notin Opened
    BY <1>0, <1>2 DEF Created, Opens, Open, Trying, Opened, SessionTypeOK
  <2>2. connectPromise = s /\ connectPromise' = s /\ Trying' = {s} /\ sessionId' = s
    <3>1. connectPromise = s /\ Trying = {s}
      BY <1>0, <2>1 DEF Orderly, OneAttempt
    <3>2. Trying' = Trying
      BY <1>2 DEF Created, Trying, TransportTypeOK
    <3> QED BY <1>2, <3>1, <3>2 DEF Created
  <2>3. ~(sessionId # None /\ Open(sessionId))
    BY <1>0, <2>1, <2>2 DEF Orderly, OneAttempt, Open, Provenance
  <2>4. OneAttempt'
    BY <1>0, <1>2, <2>2 DEF Created, Orderly, OneAttempt, TransportTypeOK, Trying
  <2>5. \A t \in Ids : Owned(t)'
    <3> SUFFICES ASSUME NEW t \in Ids \ {s}, Open(t)'
                 PROVE  t \in closing' \/ attempt'[t] = "failed"
      BY <2>2 DEF Owned
    <3>1. Open(t) /\ t # sessionId /\ t \notin Trying
      BY <1>0, <2>1, <2>2, <2>3 DEF Orderly, OneAttempt
    <3>2. t \in closing \/ attempt[t] = "failed"
      BY <3>1 DEF Orderly, Owned
    <3> QED BY <1>2, <3>2 DEF Created, TransportTypeOK
  <2>6. UNCHANGED <<call, on, label, owed, closing>>
    BY <1>2 DEF Created, requests
  <2>7. ASSUME NEW c \in Calls, call[c] = "rastering" \/ c \in owed, Open(on[c])'
        PROVE  on[c] \in closing \/ (c \in owed /\ label[c] = on[c])
    <3>1. on[c] \in Ids \ {s}
      BY <1>0, <2>1, <2>6, <2>7 DEF Provenance, Opened, Open, TransportTypeOK, SessionTypeOK
    <3>2. Open(on[c]) /\ on[c] # sessionId
      BY <1>0, <2>1, <2>3, <2>6, <2>7, <3>1 DEF Open
    <3> QED BY <2>7, <3>2 DEF Orderly, RastersForIt, Named
  <2>8. RastersForIt' /\ \A c \in Calls : Named(c)'
    BY <2>6, <2>7 DEF RastersForIt, Named, Provenance
  <2> QED BY <2>4, <2>5, <2>8 DEF Orderly
<1>3. ASSUME AttemptFails(s), s \in Trying,
             \/ UNCHANGED session \/ \E t \in Ids : Breaks(t) \/ Forget(t) \/ GivesUp(t),
             UNCHANGED <<sessionId, channels, closing, overtaken>>
      PROVE  Orderly'
  <2>1. \A t : Open(t)' => Open(t)
    BY <1>0, <1>3, NothingOpens
  <2>2. connectPromise = s /\ connectPromise' = None /\ Trying = {s} /\ Trying' = {}
    <3>1. connectPromise = s /\ Trying = {s}
      BY <1>0, <1>3 DEF Orderly, OneAttempt
    <3>2. Trying' = Trying \ {s}
      BY <1>3 DEF AttemptFails, Trying, TransportTypeOK
    <3> QED BY <1>3, <3>1, <3>2 DEF AttemptFails
  <2>3. attempt' = [attempt EXCEPT ![s] = "failed"]
    BY <1>3 DEF AttemptFails
  <2>4. OneAttempt'
    BY <1>0, <1>3, <2>2, <2>3 DEF Orderly, OneAttempt, TransportTypeOK
  <2>5. \A t \in Ids : Owned(t)'
    BY <1>3, <2>1, <2>2, <2>3 DEF Orderly, Owned, TransportTypeOK
  <2>6. RastersForIt' /\ \A c \in Calls : Named(c)'
    <3>1. Rejected(Joined(s)) /\ Joined(s) \in SUBSET Calls
      BY <1>3 DEF AttemptFails, Joined
    <3>2. /\ label' = label /\ owed' = owed /\ owed \subseteq Calls
          /\ \A c \in Calls : \/ call'[c] = call[c] /\ on'[c] = on[c]
                              \/ call'[c] = "rejected" /\ on'[c] = None
      BY <3>1, RejectedOnes DEF TransportTypeOK
    <3> QED BY <1>3, <2>1, <3>2, RequestsStayOrderly DEF Orderly
  <2> QED BY <2>4, <2>5, <2>6 DEF Orderly
<1>4. CASE NotCreated(s)
  BY <1>3, <1>4 DEF NotCreated, Trying
<1>5. CASE NotReady(s)
  BY <1>3, <1>5 DEF NotReady, Trying
<1>6. CASE Ready(s)
  <2>1. s \in Trying /\ sessionId = s /\ sessionId' = s
    BY <1>6 DEF Ready, Trying, Orderly, OneAttempt
  <2>2. /\ Trying = {s} /\ Trying' = {} /\ connectPromise' = None /\ closing' = closing
        /\ attempt' = [attempt EXCEPT ![s] = "done"]
    <3>1. Trying = {s}
      BY <1>0, <2>1 DEF Orderly, OneAttempt
    <3>2. Trying' = Trying \ {s}
      BY <1>6 DEF Ready, Trying, TransportTypeOK
    <3> QED BY <1>6, <3>1, <3>2 DEF Ready
  <2>3. \A t : Open(t)' <=> Open(t)
    BY <1>6 DEF Ready, session, Open
  <2>4. OneAttempt'
    BY <1>0, <2>1, <2>2 DEF Orderly, OneAttempt, TransportTypeOK
  <2>5. \A t \in Ids : Owned(t)'
    BY <2>1, <2>2, <2>3 DEF Orderly, Owned, TransportTypeOK
  <2>6. RastersForIt' /\ \A c \in Calls : Named(c)'
    <3>1. Proceed(Joined(s)) /\ Joined(s) \in SUBSET Calls
      BY <1>6 DEF Ready, Joined
    <3>2. \A c \in Joined(s) : c \notin owed
      BY DEF Joined, Provenance
    <3>3. /\ owed' \subseteq Calls
          /\ \A c \in Calls :
               /\ call'[c] = "rastering" =>
                    \/ call[c] = "rastering" /\ on'[c] = on[c]
                    \/ on'[c] = sessionId \/ on'[c] = None
               /\ c \in owed' =>
                    \/ on'[c] = on[c] /\ label'[c] = label[c] /\ c \in owed
                    \/ on'[c] = None \/ (on'[c] = sessionId /\ label'[c] = sessionId)
      BY <3>1, <3>2, ProceedingOnes
    <3> QED BY <2>1, <2>2, <2>3, <3>3, RequestsStayOrderly DEF Orderly
  <2> QED BY <2>4, <2>5, <2>6 DEF Orderly
<1>7. CASE Connect(s, {})
  BY <1>1, <1>7, {} \in SUBSET Calls
<1>8. ASSUME NEW c \in Calls, call[c] = "idle", Connect(s, {c}) PROVE Orderly'
  BY <1>1, <1>8, {c} \in SUBSET Calls
<1> QED BY <1>2, <1>4, <1>5, <1>6, <1>7, <1>8 DEF Attempt

\* A disconnect hands the session over to the service, or overtakes an attempt.
LEMMA EndingOrder ==
  ASSUME TransportTypeOK, Orderly, TransportTypeOK', Ending, ~overtaken'
  PROVE  Orderly'
<1>0. SessionTypeOK /\ None \notin Ids /\ Pending \in SUBSET Calls
  BY CallAssumption DEF TransportTypeOK, Pending
<1>1. \/ UNCHANGED session \/ ForgetAll \/ \E s \in Ids : Breaks(s) \/ Forget(s)
  BY DEF Ending, Disconnect, Unload, Forgotten, ChannelBreaks, LateClose
<1>2. \A t : Open(t)' => Open(t)
  BY <1>0, <1>1, NothingOpens
<1>3. /\ attempt' = attempt /\ Trying' = Trying
      /\ \/ sessionId' = sessionId /\ connectPromise' = connectPromise /\ closing' = closing
         \/ /\ Trying = {} /\ sessionId' = None /\ connectPromise' = None
            /\ closing' = closing \cup ({sessionId} \ {None})
  BY DEF Ending, Disconnect, Unload, Forgotten, ChannelBreaks, LateClose, Closes, connection, Trying
<1>4. OneAttempt'
  <2>1. CASE sessionId' = sessionId /\ connectPromise' = connectPromise
    BY <1>2, <1>3, <2>1 DEF Orderly, OneAttempt, Open
  <2>2. CASE Trying = {} /\ sessionId' = None /\ connectPromise' = None
    BY <1>3, <2>2 DEF OneAttempt, Trying
  <2> QED BY <1>3, <2>1, <2>2
<1>5. \A t \in Ids : Owned(t)'
  BY <1>0, <1>2, <1>3 DEF Orderly, Owned
<1>6. RastersForIt' /\ \A c \in Calls : Named(c)'
  <2>1. Rejected(Pending) \/ UNCHANGED requests
    BY DEF Ending, Disconnect, Unload, Forgotten, ChannelBreaks, LateClose, Closes, FailPending
  <2>2. /\ label' = label /\ owed' = owed /\ owed \subseteq Calls
        /\ \A c \in Calls : \/ call'[c] = call[c] /\ on'[c] = on[c]
                            \/ call'[c] = "rejected" /\ on'[c] = None
    BY <1>0, <2>1, RejectedOnes DEF requests, TransportTypeOK
  <2> QED BY <1>2, <1>3, <2>2, RequestsStayOrderly DEF Orderly
<1> QED BY <1>4, <1>5, <1>6 DEF Orderly

-----------------------------------------------------------------------------
LEMMA FrameStep == FrameInv /\ [Next]_vars => FrameInv'
<1> SUFFICES ASSUME FrameInv, [Next]_vars PROVE FrameInv'
  OBVIOUS
<1>0. TransportTypeOK /\ Provenance /\ overtaken \in BOOLEAN
  BY DEF FrameInv, TransportTypeOK
<1>1. CASE UNCHANGED vars
  BY <1>1 DEF vars, session, connection, channels, requests, FrameInv, TransportTypeOK,
              SessionTypeOK, Provenance, Orderly, OneAttempt, RastersForIt, Owned, Named, Opened,
              Trying, Open
<1>2. ASSUME NEW c \in Calls,
             Send(c) \/ Join(c) \/ Rasterized(c) \/ Answer(c) \/ TimesOut(c)
      PROVE  FrameInv'
  <2>1. overtaken' = overtaken
    BY <1>2 DEF Send, Join, Rasterized, Answer, TimesOut
  <2> QED BY <1>0, <1>2, <2>1, RequestBasics, RequestOrder DEF FrameInv
<1>3. ASSUME NEW s \in Ids, Attempt(s) PROVE FrameInv'
  <2>1. overtaken' = overtaken
    BY <1>3 DEF Attempt, Connect, Created, NotCreated, Ready, NotReady
  <2> QED BY <1>0, <1>3, <2>1, AttemptBasics, AttemptOrder DEF FrameInv
<1>4. CASE Ending
  <2>1. overtaken => overtaken'
    BY <1>4 DEF Ending, Disconnect, Unload, Forgotten, ChannelBreaks, LateClose
  <2> QED BY <1>0, <1>4, <2>1, EndingBasics, EndingOrder DEF FrameInv
<1> QED BY <1>1, <1>2, <1>3, <1>4 DEF Next, Ending

\* What the transport knows of its sessions and requests, whatever the service does.
THEOREM TransportInvariant == Spec => []FrameInv
<1>1. Init => FrameInv
  <2> SUFFICES ASSUME Init PROVE FrameInv
    OBVIOUS
  <2>1. TransportTypeOK
    BY DEF Init, SessionInit, TransportTypeOK, SessionTypeOK, Maybe
  <2>2. Provenance
    BY DEF Init, SessionInit, Provenance
  <2>3. Orderly
    BY CallAssumption DEF Init, SessionInit, Orderly, OneAttempt, RastersForIt, Owned, Named,
                          Trying, Open
  <2> QED BY <2>1, <2>2, <2>3 DEF FrameInv
<1> QED BY <1>1, FrameStep, PTL DEF Spec

\* Unless a disconnect overtook an attempt to connect, no channel to the accelerator stays
\* open that nobody will close.
THEOREM OpenSessionsAreOwned == Spec => []OpenIsOwned
<1>1. FrameInv => OpenIsOwned
  BY DEF FrameInv, Orderly, Owned, OpenIsOwned
<1> QED BY <1>1, TransportInvariant, PTL

\* Unless a disconnect overtook an attempt to connect, a request that an open channel
\* carries names the session of that channel, or of none that will be used again.
THEOREM RequestsNameTheirSession == Spec => []NamesItsSession
<1>1. FrameInv => NamesItsSession
  BY DEF FrameInv, TransportTypeOK, Orderly, Named, NamesItsSession
<1> QED BY <1>1, TransportInvariant, PTL
=============================================================================

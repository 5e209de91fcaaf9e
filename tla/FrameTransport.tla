--------------------------- MODULE FrameTransport ---------------------------
(***************************************************************************)
(* WebRTCFrameTransportService, one card's way to the accelerator, above   *)
(* the promises of the WebRTC service (BrowserSession): sessions that are  *)
(* created on demand, requests that await an answer over the channel they  *)
(* found open, and disconnect, which overtakes whatever is in progress.    *)
(***************************************************************************)
EXTENDS BrowserSession

CONSTANTS
  Calls,  \* the requests of the card, each sent once
  Live,   \* those of sendFrame: nobody awaits the answer
  None    \* null

ASSUME CallAssumption == Live \subseteq Calls /\ None \notin Ids

VARIABLES
  sessionId,       \* the session that requests go to, or None
  connectPromise,  \* the attempt that callers of ensureConnected join, or None
  attempt,         \* per session, where the attempt that creates it awaits
  status,          \* connectionState
  attached,        \* channels whose handlers are this transport's
  dying,           \* attached channels closed by this page, close event to come
  closing,         \* sessions the transport has asked the service to close
  call,            \* per request, where it is
  on,              \* the attempt a request awaits, then the channel it captured
  label,           \* the sessionId written into the request that was sent
  owed,            \* requests sent whose answer may still come
  overtaken        \* a disconnect came while an attempt was in progress

connection == <<sessionId, connectPromise, attempt, status>>
channels == <<attached, dying>>
requests == <<call, on, label, owed>>
vars == <<session, connection, channels, closing, requests, overtaken>>

Maybe == Ids \cup {None}

TransportTypeOK ==
  /\ SessionTypeOK
  /\ sessionId \in Maybe /\ connectPromise \in Maybe
  /\ attempt \in [Ids -> {"none", "creating", "waiting", "done", "failed"}]
  /\ status \in {"connected", "disconnected", "connecting", "error"}
  /\ attached \subseteq Ids /\ dying \subseteq attached /\ closing \subseteq Ids
  /\ call \in [Calls -> {"idle", "connecting", "rastering", "pending", "sent",
                         "resolved", "rejected"}]
  /\ on \in [Calls -> Maybe] /\ label \in [Calls -> Maybe]
  /\ owed \subseteq Calls /\ overtaken \in BOOLEAN

Init ==
  /\ SessionInit
  /\ sessionId = None /\ connectPromise = None /\ status = "disconnected"
  /\ attempt = [s \in Ids |-> "none"]
  /\ attached = {} /\ dying = {} /\ closing = {}
  /\ call = [c \in Calls |-> "idle"]
  /\ on = [c \in Calls |-> None] /\ label = [c \in Calls |-> None]
  /\ owed = {} /\ overtaken = FALSE

Open(s) == s \in known /\ ready[s] = "open"
IsConnected == sessionId # None /\ Open(sessionId)
Trying == {s \in Ids : attempt[s] \in {"creating", "waiting"}}
Joined(s) == {c \in Calls : call[c] = "connecting" /\ on[c] = s}
Pending == {c \in Calls : call[c] = "pending"}

-----------------------------------------------------------------------------
\* Requests.

\* A request that is over without an answer; sendFrame reports it itself.
Rejected(cs) ==
  /\ call' = [c \in Calls |-> IF c \in cs THEN "rejected" ELSE call[c]]
  /\ on' = [c \in Calls |-> IF c \in cs THEN None ELSE on[c]]
  /\ UNCHANGED <<label, owed>>
HandleError(cs) == IF cs \cap Live # {} THEN "error" ELSE status

\* failPendingResponses.
FailPending == Rejected(Pending)

\* The channel takes the request, labelled with the sessionId of this moment, or
\* throws, as it does when it is not open.
Written(c) ==
  /\ call' = [call EXCEPT ![c] = IF c \in Live THEN "sent" ELSE "pending"]
  /\ label' = [label EXCEPT ![c] = sessionId]
  /\ owed' = owed \cup {c}
  /\ UNCHANGED on

\* What requests do when ensureConnected lets them go on: they look the channel up;
\* those of sendSingleImage are written at once, the others rasterize their image.
Proceed(cs) ==
  IF ~IsConnected THEN Rejected(cs)
  ELSE \E images \in SUBSET (cs \ Live) :
    /\ call' = [c \in Calls |-> IF c \in images THEN "pending"
                                ELSE IF c \in cs THEN "rastering" ELSE call[c]]
    /\ on' = [c \in Calls |-> IF c \in cs THEN sessionId ELSE on[c]]
    /\ label' = [c \in Calls |-> IF c \in images THEN sessionId ELSE label[c]]
    /\ owed' = owed \cup images

\* sendFrame, sendSingleFrame or sendSingleImage over a connection that is there.
Send(c) ==
  /\ call[c] = "idle" /\ IsConnected
  /\ Proceed({c})
  /\ UNCHANGED <<session, connection, channels, closing, overtaken>>

\* ... or behind an attempt that is.
Join(c) ==
  /\ call[c] = "idle" /\ ~IsConnected /\ connectPromise # None
  /\ call' = [call EXCEPT ![c] = "connecting"] /\ on' = [on EXCEPT ![c] = connectPromise]
  /\ UNCHANGED <<session, connection, channels, closing, label, owed, overtaken>>

\* The image is drawn, or cannot be loaded.
Rasterized(c) ==
  /\ call[c] = "rastering"
  /\ \/ Open(on[c]) /\ Written(c) /\ UNCHANGED status
     \/ Rejected({c}) /\ status' = HandleError({c})
  /\ UNCHANGED <<session, sessionId, connectPromise, attempt, channels, closing, overtaken>>

\* handleResponse: the server answers over the channel; code # 0 rejects.
Answer(c) ==
  /\ c \in owed /\ Open(on[c]) /\ owed' = owed \ {c}
  /\ IF on[c] \in attached
     THEN /\ status' = "connected"
          /\ \E outcome \in {"resolved", "rejected"} :
               call' = IF c \in Pending THEN [call EXCEPT ![c] = outcome] ELSE call
     ELSE UNCHANGED <<status, call>>
  /\ UNCHANGED <<session, sessionId, connectPromise, attempt, channels, closing, on, label, overtaken>>

\* The 10 s of registerPending.
TimesOut(c) ==
  /\ c \in Pending
  /\ call' = [call EXCEPT ![c] = "rejected"]
  /\ UNCHANGED <<session, connection, channels, closing, on, label, owed, overtaken>>

-----------------------------------------------------------------------------
\* Attempts to connect.

\* Fault: an attempt that is in progress is not joined.
ConnectAgain(s, cs) ==
  /\ ~IsConnected /\ attempt[s] = "none"
  /\ Begin(s)
  /\ call' = [c \in Calls |-> IF c \in cs THEN "connecting" ELSE call[c]]
  /\ on' = [c \in Calls |-> IF c \in cs THEN s ELSE on[c]]
  /\ attempt' = [attempt EXCEPT ![s] = "creating"]
  /\ connectPromise' = s /\ status' = "connecting"
  /\ UNCHANGED <<sessionId, channels, closing, label, owed, overtaken>>

\* ensureConnected without a connection or an attempt: createSession draws the id s.
\* cs is the request that wants it, or empty for connect().
Connect(s, cs) ==
  /\ ~IsConnected /\ connectPromise = None /\ attempt[s] = "none"
  /\ Begin(s)
  /\ call' = [c \in Calls |-> IF c \in cs THEN "connecting" ELSE call[c]]
  /\ on' = [c \in Calls |-> IF c \in cs THEN s ELSE on[c]]
  /\ attempt' = [attempt EXCEPT ![s] = "creating"]
  /\ connectPromise' = s /\ status' = "connecting"
  /\ UNCHANGED <<sessionId, channels, closing, label, owed, overtaken>>

\* createSession resolves with an open channel; the attempt waits for SCTP.
Created(s) ==
  /\ attempt[s] = "creating" /\ Opens(s)
  /\ attempt' = [attempt EXCEPT ![s] = "waiting"]
  /\ sessionId' = s
  /\ UNCHANGED <<connectPromise, status, channels, closing, requests, overtaken>>

\* An attempt is over, whoever's promise `finally' clears; those who joined it go on.
AttemptFails(s) ==
  /\ attempt' = [attempt EXCEPT ![s] = "failed"]
  /\ connectPromise' = None
  /\ Rejected(Joined(s)) /\ status' = HandleError(Joined(s))

\* createSession rejects.
NotCreated(s) ==
  /\ attempt[s] = "creating"
  /\ \/ promise[s] = "rejected" /\ UNCHANGED session
     \/ (Breaks(s) \/ Forget(s) \/ GivesUp(s)) /\ promise'[s] = "rejected"
  /\ AttemptFails(s)
  /\ UNCHANGED <<sessionId, channels, closing, overtaken>>

\* The handlers of the image channel; those of detections and statistics only hand on
\* what they receive.
Attach(s) == attached' = attached \cup {s}

\* waitForTransportReady: SCTP is connected, or was awaited for 10 s; it rejects when
\* the peer connection failed or, with the session forgotten, is closed.
Ready(s) ==
  /\ attempt[s] = "waiting" /\ s \in known
  /\ attempt' = [attempt EXCEPT ![s] = "done"]
  /\ Attach(s) /\ status' = "connected"
  /\ connectPromise' = None
  /\ Proceed(Joined(s))
  /\ UNCHANGED <<session, sessionId, dying, closing, overtaken>>

NotReady(s) ==
  /\ attempt[s] = "waiting"
  /\ AttemptFails(s)
  /\ UNCHANGED <<session, sessionId, channels, closing, overtaken>>

-----------------------------------------------------------------------------
\* Endings.

\* Fault: the session is forgotten without being closed.
DisconnectOnly ==
  /\ sessionId' = None /\ connectPromise' = None /\ status' = "disconnected"
  /\ FailPending
  /\ overtaken' = (overtaken \/ Trying # {})
  /\ UNCHANGED <<session, attempt, channels, closing>>

\* Fault: disconnect stops the timers of the requests and forgets them.
DisconnectSilently ==
  /\ sessionId' = None /\ connectPromise' = None /\ status' = "disconnected"
  /\ closing' = closing \cup ({sessionId} \ {None})
  /\ call' = [c \in Calls |-> IF c \in Pending THEN "sent" ELSE call[c]]
  /\ overtaken' = (overtaken \/ Trying # {})
  /\ UNCHANGED <<session, attempt, channels, on, label, owed>>

\* disconnect: requests that await an answer are rejected, the session is closed.
Disconnect ==
  /\ sessionId' = None /\ connectPromise' = None /\ status' = "disconnected"
  /\ closing' = closing \cup ({sessionId} \ {None})
  /\ FailPending
  /\ overtaken' = (overtaken \/ Trying # {})
  /\ UNCHANGED <<session, attempt, channels>>

\* The service forgets the session: closeSession, a reconnect, a signaling event.
Forgotten(s) ==
  /\ Forget(s) /\ promise' = promise
  /\ dying' = IF s \in attached /\ ready[s] = "open" THEN dying \cup {s} ELSE dying
  /\ UNCHANGED <<connection, attached, closing, requests, overtaken>>

\* beforeunload, after which the user may stay on the page.
Unload ==
  /\ known # {} /\ ForgetAll
  /\ dying' = dying \cup {s \in attached \cap known : ready[s] = "open"}
  /\ UNCHANGED <<connection, attached, closing, requests, overtaken>>

\* onclose of an attached channel, whichever session the transport uses by now.
Closes ==
  /\ status' = "disconnected"
  /\ FailPending
  /\ UNCHANGED <<sessionId, connectPromise, attempt>>

ChannelBreaks(s) ==
  /\ Breaks(s) /\ promise' = promise
  /\ IF s \in attached THEN Closes ELSE UNCHANGED <<connection, requests>>
  /\ UNCHANGED <<channels, closing, overtaken>>

LateClose(s) ==
  /\ s \in dying /\ dying' = dying \ {s}
  /\ Closes
  /\ UNCHANGED <<session, attached, closing, overtaken>>

-----------------------------------------------------------------------------
Attempt(s) ==
  Connect(s, {}) \/ (\E c \in Calls : call[c] = "idle" /\ Connect(s, {c}))
  \/ Created(s) \/ NotCreated(s) \/ Ready(s) \/ NotReady(s)

Next ==
  \/ \E c \in Calls : Send(c) \/ Join(c) \/ Rasterized(c) \/ Answer(c) \/ TimesOut(c)
  \/ \E s \in Ids : Attempt(s) \/ Forgotten(s) \/ ChannelBreaks(s) \/ LateClose(s)
  \/ Disconnect \/ Unload

Spec == Init /\ [][Next]_vars

\* createSession and the readiness wait settle, images load or fail, timers fire.
FairSpec ==
  /\ Spec
  /\ \A s \in Ids : WF_vars(Created(s) \/ NotCreated(s)) /\ WF_vars(Ready(s) \/ NotReady(s))
  /\ \A c \in Calls : WF_vars(Rasterized(c)) /\ WF_vars(TimesOut(c))

-----------------------------------------------------------------------------
\* Unless a disconnect overtook an attempt, an open session belongs to an attempt in
\* progress, is the one requests go to, is being closed, or its readiness failed: no
\* channel to the accelerator stays open that nobody will close.
OpenIsOwned ==
  overtaken \/ \A s \in Ids :
    Open(s) => s \in Trying \cup closing \cup {sessionId} \/ attempt[s] = "failed"

\* Unless a disconnect overtook an attempt, a request under way on an open channel
\* that is not being closed names the session of that channel, although its image was
\* rasterized in between.
NamesItsSession ==
  overtaken \/ \A c \in owed : Open(on[c]) => label[c] = on[c] \/ on[c] \in closing

\* Every request whose answer is awaited ends, with an answer or an error, whatever
\* becomes of the attempts, the sessions and the channels it met.
EveryCallSettles ==
  \A c \in Calls \ Live : call[c] # "idle" ~> call[c] \in {"resolved", "rejected"}

\* webrtc-frame-transport.ts:322: no request is written before the transport has found
\* the SCTP association connected, lest Chrome tears the channel down.
NoSendBeforeReady == \A c \in owed : attempt[on[c]] # "waiting"
=============================================================================

------------------------ MODULE StreamableHttpClient ------------------------
(***************************************************************************)
(* The Streamable HTTP backend of the client                               *)
(* (src/src/plugins/mcpclientbackend/streamablehttp) under QMcpClient: one *)
(* POST per message, the session id the server issued, and the standing    *)
(* GET stream that is reopened when it ends.                               *)
(*                                                                         *)
(* A step is one slot call in the client's event loop; slots of different  *)
(* replies run in any order.  The server is abstract: it issues sessions   *)
(* to handshakes, may forget a session at any time, answers 404 to a POST  *)
(* of a session it forgot, and owes one reply per request.                 *)
(***************************************************************************)
EXTENDS McpClient

CONSTANTS
  Versions,    \* protocol revisions a handshake can end with
  Modern,      \* the revisions without sessions: v2026_07_28
  MaxSessions  \* bound on the sessions the server issues

ASSUME HttpClientAssumption ==
  /\ Modern \subseteq Versions
  /\ None \notin Versions
  /\ MaxSessions \in Nat

VARIABLES
  started,       \* the clients whose endpoint is known
  post,          \* the POST of a call
  sessionId,     \* Private::sessionId
  negotiated,    \* Private::negotiatedProtocolVersion
  serverStream,  \* Private::serverStream and the session of its request
  rejected,      \* Private::serverStreamRejected
  timers,        \* pending single shot timers of openServerStream()
  issued,        \* how many sessions the server issued
  live           \* the sessions the server still knows

httpVars == <<started, post, sessionId, negotiated, serverStream, rejected, timers>>
serverVars == <<issued, live>>
vars == <<clientVars, httpVars, serverVars>>

-----------------------------------------------------------------------------

Sessions == 1 .. MaxSessions
MaybeSession == Sessions \cup {None}

\* A POST is open once its response headers were read.  session is the
\* Mcp-Session-Id it was sent with, issued the one of its response; dispatched
\* says whether the reply of the server was passed on.
PostState ==
  [status     : {"unsent", "dropped", "posted", "open", "done", "gone", "failed"},
   session    : MaybeSession,
   issued     : MaybeSession,
   dispatched : BOOLEAN]

NoPost == [status |-> "unsent", session |-> None, issued |-> None, dispatched |-> FALSE]

Stream == [status : {"none", "running", "finished"}, session : MaybeSession]

TypeOK ==
  /\ ClientTypeOK
  /\ started \subseteq Clients
  /\ post \in [Calls -> PostState]
  /\ sessionId \in [Clients -> MaybeSession]
  /\ negotiated \in [Clients -> Versions \cup {None}]
  /\ serverStream \in [Clients -> Stream]
  /\ rejected \in [Clients -> BOOLEAN]
  /\ timers \in [Clients -> Nat]
  /\ issued \in 0 .. MaxSessions
  /\ live \subseteq 1 .. issued

Init ==
  /\ ClientInit
  /\ started = {}
  /\ post = [c \in Calls |-> NoPost]
  /\ sessionId = [k \in Clients |-> None]
  /\ negotiated = [k \in Clients |-> None]
  /\ serverStream = [k \in Clients |-> [status |-> "none", session |-> None]]
  /\ rejected = [k \in Clients |-> FALSE]
  /\ timers = [k \in Clients |-> 0]
  /\ issued = 0
  /\ live = {}

-----------------------------------------------------------------------------
(***************************************************************************)
(* The functions the slots call                                            *)
(***************************************************************************)

UnderWay(c) == post[c].status \in {"posted", "open"} /\ ~post[c].dispatched

\* An application waits for its handshake before it starts another one.
Handshaking(k) ==
  \E c \in Calls : call[c].client = k /\ call[c].kind = "initialize" /\ UnderWay(c)

\* createRequest(): the headers of a POST; a backend that was not started has
\* no endpoint and drops the message.
Posted(k) ==
  [NoPost EXCEPT !.status = IF k \in started THEN "posted" ELSE "dropped",
                 !.session = IF k \in started THEN sessionId[k] ELSE None]

\* storeSessionId(): the session the responses to a handshake leave behind.
Stored(k, s) == IF s = None THEN sessionId[k] ELSE s

\* Mutant: the stream is opened without a look at the one there is.
MayOpenAnother(k, version) ==
  /\ k \in started
  /\ ~rejected[k]
  /\ version \in Versions \ Modern

MayOpen(k, version) ==
  /\ k \in started
  /\ ~rejected[k]
  /\ version \in Versions \ Modern
  /\ serverStream[k].status # "running"

\* openServerStream(), on the negotiated version and session id it reads.
OpenServerStream(k, version, session) ==
  serverStream' = IF MayOpen(k, version)
                  THEN [serverStream EXCEPT ![k] =
                          [status |-> "running", session |-> session]]
                  ELSE serverStream

\* dispatch(): QMcpClient runs the callback, and a handshake that succeeds ends
\* in setNegotiatedProtocolVersion().
Dispatch(c, outcome, session) ==
  /\ Receive(c, outcome)
  /\ IF Negotiates(c, outcome)
     THEN \E version \in Versions :
            /\ negotiated' = [negotiated EXCEPT ![call[c].client] = version]
            /\ OpenServerStream(call[c].client, version, session)
     ELSE UNCHANGED <<negotiated, serverStream>>

\* An interim result is one of the answers to a request, not to a handshake.
Outcomes(c) ==
  IF call[c].kind = "initialize" THEN {"result", "error"}
  ELSE {"result", "error", "interim"}

Known(c) == post[c].session # None => post[c].session \in live

-----------------------------------------------------------------------------
(***************************************************************************)
(* Steps                                                                   *)
(***************************************************************************)

Start(k) ==
  /\ k \notin started
  /\ started' = started \cup {k}
  /\ UNCHANGED <<clientVars, post, sessionId, negotiated, serverStream, rejected,
                 timers, serverVars>>

Request(k, kind) ==
  /\ kind = "initialize" => ~Handshaking(k)
  /\ Send(k, kind)
  /\ post' = [post EXCEPT ![sent + 1] = Posted(k)]
  /\ UNCHANGED <<started, sessionId, negotiated, serverStream, rejected, timers,
                 serverVars>>

\* Mutant: the session id is only stored when the POST has finished.
HeadersUnread(c) ==
  /\ post[c].status = "posted"
  /\ Known(c)
  /\ \/ /\ post' = [post EXCEPT ![c].status = "open"]
        /\ UNCHANGED serverVars
     \/ /\ call[c].kind = "initialize"
        /\ issued < MaxSessions
        /\ issued' = issued + 1
        /\ live' = live \cup {issued + 1}
        /\ post' = [post EXCEPT ![c].status = "open", ![c].issued = issued + 1]
  /\ UNCHANGED <<clientVars, started, sessionId, negotiated, serverStream, rejected,
                 timers>>

\* metaDataChanged of a response that is not an error: the session id of a
\* handshake is stored before its result is read.  The server issues a new
\* session, or none.
Headers(c) ==
  /\ post[c].status = "posted"
  /\ Known(c)
  /\ \/ /\ post' = [post EXCEPT ![c].status = "open"]
        /\ UNCHANGED <<sessionId, serverVars>>
     \/ /\ call[c].kind = "initialize"
        /\ issued < MaxSessions
        /\ issued' = issued + 1
        /\ live' = live \cup {issued + 1}
        /\ post' = [post EXCEPT ![c].status = "open", ![c].issued = issued + 1]
        /\ sessionId' = [sessionId EXCEPT
                           ![call[c].client] = Stored(call[c].client, issued + 1)]
  /\ UNCHANGED <<clientVars, started, negotiated, serverStream, rejected, timers>>

\* readyRead of an event stream, with the event that holds the reply.
Event(c) ==
  /\ post[c].status = "open"
  /\ call[c].kind # "message"
  /\ ~post[c].dispatched
  /\ post' = [post EXCEPT ![c].dispatched = TRUE]
  /\ \E outcome \in Outcomes(c) :
       Dispatch(c, outcome, sessionId[call[c].client])
  /\ UNCHANGED <<started, sessionId, rejected, timers, serverVars>>

\* finished: the handshake's session id is stored once more, and a body that is
\* not an event stream is dispatched.  An event stream that breaks off, and the
\* 202 to a message, leave nothing to dispatch.
Finished(c) ==
  LET k == call[c].client
      session == IF call[c].kind = "initialize"
                 THEN Stored(k, post[c].issued) ELSE sessionId[k]
  IN /\ post[c].status = "open"
     /\ sessionId' = [sessionId EXCEPT ![k] = session]
     /\ \/ /\ post' = [post EXCEPT ![c].status = "done"]
           /\ UNCHANGED <<clientVars, negotiated, serverStream>>
        \/ /\ call[c].kind # "message"
           /\ ~post[c].dispatched
           /\ post' = [post EXCEPT ![c].status = "done", ![c].dispatched = TRUE]
           /\ \E outcome \in Outcomes(c) : Dispatch(c, outcome, session)
     /\ UNCHANGED <<started, rejected, timers, serverVars>>

\* finished with HTTP 404: reportHttpError() forgets the session id.
SessionExpired(c) ==
  /\ post[c].status = "posted"
  /\ ~Known(c)
  /\ post' = [post EXCEPT ![c].status = "gone"]
  /\ sessionId' = [sessionId EXCEPT ![call[c].client] = None]
  /\ UNCHANGED <<clientVars, started, negotiated, serverStream, rejected, timers,
                 serverVars>>

\* finished without a status, or with another error: errorOccurred() is all.
Failed(c) ==
  /\ post[c].status = "posted"
  /\ post' = [post EXCEPT ![c].status = "failed"]
  /\ UNCHANGED <<clientVars, started, sessionId, negotiated, serverStream, rejected,
                 timers, serverVars>>

\* Mutant: no timer is started.
StreamFinishesForGood(k) ==
  /\ serverStream[k].status = "running"
  /\ serverStream' = [serverStream EXCEPT ![k].status = "finished"]
  /\ UNCHANGED <<clientVars, started, post, sessionId, negotiated, rejected, timers,
                 serverVars>>

\* finished of the GET stream: HTTP 405 rejects it for good, anything else
\* starts the reconnect timer.
StreamFinishes(k) ==
  /\ serverStream[k].status = "running"
  /\ serverStream' = [serverStream EXCEPT ![k].status = "finished"]
  /\ \/ /\ rejected' = [rejected EXCEPT ![k] = TRUE]
        /\ UNCHANGED timers
     \/ /\ timers' = [timers EXCEPT ![k] = @ + 1]
        /\ UNCHANGED rejected
  /\ UNCHANGED <<clientVars, started, post, sessionId, negotiated, serverVars>>

\* Mutant: the timer is not a single shot.
TimerKeepsFiring(k) ==
  /\ timers' = [timers EXCEPT ![k] = @ - 1]
  /\ OpenServerStream(k, negotiated[k], sessionId[k])
  /\ UNCHANGED <<clientVars, started, post, sessionId, negotiated, rejected, serverVars>>

\* The timer of ServerStreamReconnectIntervalMs.
TimerFires(k) ==
  /\ timers[k] > 0
  /\ timers' = [timers EXCEPT ![k] = @ - 1]
  /\ OpenServerStream(k, negotiated[k], sessionId[k])
  /\ UNCHANGED <<clientVars, started, post, sessionId, negotiated, rejected, serverVars>>

\* The server ends a session: its client deleted it, or the server restarted.
SessionEnds(s) ==
  /\ s \in live
  /\ live' = live \ {s}
  /\ UNCHANGED <<clientVars, httpVars, issued>>

Application == \E k \in Clients : Start(k) \/ \E kind \in Kinds : Request(k, kind)

Network ==
  \/ \E c \in Calls : \/ Headers(c) \/ Event(c) \/ Finished(c)
                      \/ SessionExpired(c) \/ Failed(c)
  \/ \E k \in Clients : StreamFinishes(k)
  \/ \E s \in Sessions : SessionEnds(s)

Next == Application \/ Network \/ \E k \in Clients : TimerFires(k)

Spec == Init /\ [][Next]_vars

\* The event loop fires a timer that has run out.
FairSpec == Spec /\ \A k \in Clients : WF_vars(TimerFires(k))

-----------------------------------------------------------------------------
(***************************************************************************)
(* Properties                                                              *)
(***************************************************************************)

\* A callback whose id no other call of its client has is kept exactly until
\* the reply to its request is received: send() does not displace it, and the
\* replies to other calls do not take it.
CallbackIsKeptForItsReply ==
  \A c \in 1 .. sent :
    /\ call[c].kind \in WithCallback
    /\ \A d \in Calls \ {c} : ~SameId(c, d)
    => (c \in callbacks[call[c].client] <=> ~post[c].dispatched)

\* Was the session of handshake c lost, or replaced, by another POST?
Overtaken(c) ==
  \E d \in Calls \ {c} :
    /\ call[d].client = call[c].client
    /\ \/ post[d].status = "gone"
       \/ post[d].status = "done" /\ IsInitialize(d)

OpensOnItsSession(c) ==
  LET k == call[c].client
  IN /\ ~post[c].dispatched /\ post'[c].dispatched
     /\ post[c].issued # None
     /\ serverStream'[k] # serverStream[k]
     => Overtaken(c) \/ serverStream'[k].session = post[c].issued

\* "The session id has to be known before the initialize result reaches the
\* client" (post()): the GET stream a handshake opens carries the session the
\* handshake got, unless another POST of the client may have taken it away: one
\* that ever ended with a 404, or ended another handshake.
SessionKnownWhenNegotiated == [][\A c \in Calls : OpensOnItsSession(c)]_vars

KeepsItsStream(k) ==
  serverStream[k].status = "running" =>
    \/ serverStream'[k] = serverStream[k]
    \/ serverStream'[k].status = "finished"

\* Neither a reconnect timer nor another handshake replaces a GET stream that
\* is still running: the events it carries would be lost.
RunningStreamIsKept == [][\A k \in Clients : KeepsItsStream(k)]_vars

\* A GET stream that ended is opened again, unless the server declined it or
\* the client went over to a revision without standing streams.
StreamIsReopened ==
  \A k \in Clients :
    serverStream[k].status = "finished" ~>
      \/ serverStream[k].status = "running"
      \/ rejected[k]
      \/ negotiated[k] \in Modern

=============================================================================

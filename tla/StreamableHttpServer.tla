------------------------- MODULE StreamableHttpServer -------------------------
(***************************************************************************)
(* HttpServer of the Streamable HTTP backend                               *)
(* (src/src/plugins/mcpserverbackend/streamablehttp): how the HTTP         *)
(* exchanges of many clients are mapped to sessions of the core and the    *)
(* core's messages back to exchanges and event streams.                    *)
(*                                                                         *)
(* The backend and the core share one event loop.  A step is one slot      *)
(* call (a request that was read completely), one message the core sends,  *)
(* one tick of the keep-alive timer, or one connection that went away.     *)
(*                                                                         *)
(* The core is abstract here: it owes one answer per forwarded request,    *)
(* sometimes a second one, and may send notifications and requests to any  *)
(* session it was ever told of.                                            *)
(***************************************************************************)
EXTENDS AbstractHttpServer

CONSTANTS
  SessionIds,  \* the QUuids a session can get, each of them once
  Stateless,   \* the session all clients of 2026-07-28 share
  MaxAnswers,  \* 2: the core answers a tools/call before initialize twice
  Errors       \* the statuses of refusals, among 400, 403, 404 and 405

ASSUME BackendAssumption ==
  /\ Stateless \in SessionIds
  /\ None \notin SessionIds
  /\ MaxAnswers \in Nat \ {0}
  /\ Errors \subseteq {400, 403, 404, 405}

VARIABLES
  d,               \* HttpServer::Private: sessions, streams, pending, keepAlive
  nextInternalId,  \* HttpServer::Private::nextInternalId
  minted,          \* the sessions newSession() was emitted for
  told,            \* the sessions a client was told in Mcp-Session-Id
  owed,            \* the answers the core has yet to send
  events           \* what was written to the event stream of an exchange

vars == <<httpVars, d, nextInternalId, minted, told, owed, events>>

-----------------------------------------------------------------------------

\* A request forwarded to the core; tells is the Mcp-Session-Id its answer
\* carries.
Pending ==
  [id : Nat, exchange : Exchanges, tells : SessionIds \cup {None}]

\* A session that is gone, or has no stream, has None in streamOf; sessionOf
\* maps the streams to their sessions and everything else to None.
Registry ==
  [sessions  : SUBSET SessionIds,
   streamOf  : [SessionIds -> Exchanges \cup {None}],
   sessionOf : [Exchanges -> SessionIds \cup {None}],
   dedicated : SUBSET Exchanges,
   pending   : SUBSET Pending,
   keepAlive : BOOLEAN]

Debt == [id : Nat, session : SessionIds, from : Exchanges, left : 1 .. MaxAnswers]

\* from is the exchange a response on the stream was meant for.
Event == [kind : {"message", "comment", "response"}, from : Exchanges \cup {None}]

TypeOK ==
  /\ HttpTypeOK
  /\ d \in Registry
  /\ nextInternalId \in Nat
  /\ minted \subseteq SessionIds
  /\ told \subseteq SessionIds
  /\ owed \subseteq Debt
  /\ events \in [Exchanges -> SUBSET Event]
  /\ \A q \in d.pending \cup owed : q.id < nextInternalId

\* start() creates the stateless session before any client connects.
Init ==
  /\ HttpInit
  /\ d = [sessions  |-> {Stateless},
          streamOf  |-> [s \in SessionIds |-> None],
          sessionOf |-> [e \in Exchanges |-> None],
          dedicated |-> {},
          pending   |-> {},
          keepAlive |-> FALSE]
  /\ nextInternalId = 0
  /\ minted = {Stateless}
  /\ told = {}
  /\ owed = {}
  /\ events = [e \in Exchanges |-> {}]

-----------------------------------------------------------------------------
(***************************************************************************)
(* HttpServer::Private, on its state R.                                    *)
(***************************************************************************)

Streams(R) == {e \in Exchanges : R.sessionOf[e] # None}

Dropped(R, e) == {p \in R.pending : p.exchange # e}

\* Seeded fault: the session keeps routing to the stream that is closed.
CloseStreamKeepsRoute(R, e) ==
  IF e \notin Streams(R) THEN R
  ELSE [R EXCEPT !.sessions = IF e \in R.dedicated THEN @ \ {R.sessionOf[e]} ELSE @,
                 !.sessionOf = [@ EXCEPT ![e] = None],
                 !.dedicated = @ \ {e},
                 !.pending = Dropped(R, e),
                 !.keepAlive = @ /\ Streams(R) \ {e} # {}]

CloseStream(R, e) ==
  IF e \notin Streams(R) THEN R
  ELSE LET s == R.sessionOf[e] IN
    [sessions  |-> IF e \in R.dedicated THEN R.sessions \ {s} ELSE R.sessions,
     streamOf  |-> IF R.streamOf[s] = e \/ e \in R.dedicated
                   THEN [R.streamOf EXCEPT ![s] = None] ELSE R.streamOf,
     sessionOf |-> [R.sessionOf EXCEPT ![e] = None],
     dedicated |-> R.dedicated \ {e},
     pending   |-> Dropped(R, e),
     keepAlive |-> R.keepAlive /\ Streams(R) \ {e} # {}]

\* The stream openStream() and DELETE close: the one session s had so far.
Replaced(R, s) == IF s \in R.sessions THEN {R.streamOf[s]} \ {None} ELSE {}

WithoutStream(R, s) ==
  IF Replaced(R, s) = {} THEN R ELSE CloseStream(R, R.streamOf[s])

\* Seeded fault: the keep-alive timer is not started with the first stream.
OpenStreamNoTimer(R, e, s, dedicated) ==
  LET C == WithoutStream(R, s) IN
  [C EXCEPT !.streamOf = IF s \in C.sessions THEN [@ EXCEPT ![s] = e] ELSE @,
            !.sessionOf = [@ EXCEPT ![e] = s],
            !.dedicated = IF dedicated THEN @ \cup {e} ELSE @]

OpenStream(R, e, s, dedicated) ==
  LET C == WithoutStream(R, s) IN
  [C EXCEPT !.streamOf = IF s \in C.sessions THEN [@ EXCEPT ![s] = e] ELSE @,
            !.sessionOf = [@ EXCEPT ![e] = s],
            !.dedicated = IF dedicated THEN @ \cup {e} ELSE @,
            !.keepAlive = TRUE]

\* QHash::insert() replaces an entry that has the same key.
Forwarded(R, entry) ==
  [R EXCEPT !.pending = {p \in @ : p.id # entry.id} \cup {entry}]

ConnectionClosed(R, e) ==
  IF e = None THEN R
  ELSE IF e \in Streams(R) THEN CloseStream(R, e)
  ELSE [R EXCEPT !.pending = Dropped(R, e)]

-----------------------------------------------------------------------------
(***************************************************************************)
(* Sessions of requests.                                                   *)
(***************************************************************************)

\* listen is subscriptions/listen of 2026-07-28 and later, modern any other
\* message of these revisions.  legacy is everything but initialize before
\* them and names a session in Mcp-Session-Id.
Kinds == {"listen", "modern", "initialize", "legacy"}

Creates(kind) == kind \in {"listen", "initialize"}

\* Seeded fault: a subscription runs on the session all clients share.
ResolvedShared(kind, s) ==
  /\ s \in IF kind = "initialize" THEN SessionIds \ minted
           ELSE IF kind \in {"listen", "modern"} THEN {Stateless}
           ELSE told \cap d.sessions
  /\ minted' = minted \cup {s}

\* The session the message of a client is for; one that names none, or a
\* session that is gone, is Refused.
Resolved(kind, s) ==
  /\ s \in IF Creates(kind) THEN SessionIds \ minted
           ELSE IF kind = "modern" THEN {Stateless}
           ELSE told \cap d.sessions
  /\ minted' = minted \cup {s}

With(R, s) == [R EXCEPT !.sessions = @ \cup {s}]

TellsOf(kind, s) == IF kind = "initialize" THEN s ELSE None

-----------------------------------------------------------------------------
(***************************************************************************)
(* The request slots postMcp(), getMcp() and deleteMcp().                  *)
(***************************************************************************)

\* A request that fails a check before its session is touched: a foreign
\* Origin (403), a body or headers that do not fit (400), a session that is
\* not named (400) or not there (404), a method the revision dropped (405).
Refused(k, e, status) ==
  /\ status \in Errors
  /\ AnsweredAtOnce(k, e, [status |-> status, to |-> None])
  /\ UNCHANGED <<d, nextInternalId, minted, told, owed, events>>

\* A notification or a response: its 202 is sent before the core sees it.
PostNotification(k, e, kind, s) ==
  /\ Resolved(kind, s)
  /\ AnsweredAtOnce(k, e, [status |-> 202, to |-> None])
  /\ d' = With(d, s)
  /\ told' = told \cup ({TellsOf(kind, s)} \ {None})
  /\ UNCHANGED <<nextInternalId, owed, events>>

\* Seeded fault: the counter is not advanced.
HandedToCoreUncounted(e, s) ==
  /\ UNCHANGED nextInternalId
  /\ \E n \in 1 .. MaxAnswers :
       owed' = owed \cup {[id |-> nextInternalId, session |-> s, from |-> e, left |-> n]}

\* The request of exchange e is handed to the core under an internal id.
HandedToCore(e, s) ==
  /\ nextInternalId' = nextInternalId + 1
  /\ \E n \in 1 .. MaxAnswers :
       owed' = owed \cup {[id |-> nextInternalId, session |-> s, from |-> e, left |-> n]}

PostRequest(k, e, kind, s) ==
  /\ kind # "listen"
  /\ Resolved(kind, s)
  /\ LeftOpen(k, e)
  /\ d' = Forwarded(With(d, s), [id |-> nextInternalId, exchange |-> e,
                                 tells |-> TellsOf(kind, s)])
  /\ HandedToCore(e, s)
  /\ UNCHANGED <<told, events>>

\* subscriptions/listen; a client of an older revision may post it as well.
\* The core handles it at once: it may acknowledge on the stream that is open
\* by then, and its answer, swallowed because the entry says stream, takes the
\* pending entry away again.
PostListen(k, e, kind, s) ==
  /\ kind \in {"listen", "legacy"}
  /\ Resolved(kind, s)
  /\ Upgraded(k, e, Replaced(With(d, s), s))
  /\ d' = OpenStream(With(d, s), e, s, kind = "listen")
  /\ nextInternalId' = nextInternalId + 1
  /\ \E written \in SUBSET {[kind |-> "message", from |-> None]} :
       events' = [events EXCEPT ![e] = @ \cup written]
  /\ UNCHANGED <<told, owed>>

GetStream(k, e, s) ==
  /\ Resolved("legacy", s)
  /\ Upgraded(k, e, Replaced(d, s))
  /\ d' = OpenStream(d, e, s, FALSE)
  /\ UNCHANGED <<nextInternalId, told, owed, events>>

\* The core is not told and keeps its side of the session.
DeleteSession(k, e, s) ==
  /\ Resolved("legacy", s)
  /\ AnsweredClosing(k, e, Replaced(d, s), [status |-> 200, to |-> None])
  /\ d' = [WithoutStream(d, s) EXCEPT !.sessions = @ \ {s}]
  /\ UNCHANGED <<nextInternalId, told, owed, events>>

-----------------------------------------------------------------------------
(***************************************************************************)
(* send()                                                                  *)
(***************************************************************************)

\* A message that answers no pending request goes to the stream of session s.
Routed(s, event) ==
  LET e == d.streamOf[s] IN
  events' = IF s \in d.sessions /\ e \in sse
            THEN [events EXCEPT ![e] = @ \cup {event}]
            ELSE events

Paid(debt) ==
  owed' = (owed \ {debt}) \cup
          (IF debt.left > 1 THEN {[debt EXCEPT !.left = @ - 1]} ELSE {})

\* Seeded fault: the answer to a request of a deleted session is thrown away.
CoreAnswersPendingOfSession(debt, p) ==
  /\ p.id = debt.id
  /\ d' = [d EXCEPT !.pending = {q \in @ : q.id # debt.id}]
  /\ IF debt.session \in d.sessions
     THEN Completed(p.exchange, [status |-> 200, to |-> debt.from])
     ELSE UNCHANGED httpVars
  /\ told' = told \cup ({p.tells} \ {None})
  /\ Paid(debt)
  /\ UNCHANGED <<nextInternalId, minted, events>>

\* Seeded fault: answers are expected in the order of the requests.
CoreAnswersPendingInOrder(debt, p) ==
  /\ \A q \in d.pending : p.id <= q.id
  /\ d' = [d EXCEPT !.pending = @ \ {p}]
  /\ Completed(p.exchange, [status |-> 200, to |-> debt.from])
  /\ told' = told \cup ({p.tells} \ {None})
  /\ Paid(debt)
  /\ UNCHANGED <<nextInternalId, minted, events>>

\* The core answers a request that is still pending.
CoreAnswersPending(debt, p) ==
  /\ p.id = debt.id
  /\ d' = [d EXCEPT !.pending = {q \in @ : q.id # debt.id}]
  /\ Completed(p.exchange, [status |-> 200, to |-> debt.from])
  /\ told' = told \cup ({p.tells} \ {None})
  /\ Paid(debt)
  /\ UNCHANGED <<nextInternalId, minted, events>>

\* The core answers a request that was cancelled, or answers one again.
CoreAnswersLate(debt) ==
  /\ \A p \in d.pending : p.id # debt.id
  /\ Routed(debt.session, [kind |-> "response", from |-> debt.from])
  /\ Paid(debt)
  /\ UNCHANGED <<httpVars, d, nextInternalId, minted, told>>

CoreAnswers(e) ==
  \E debt \in owed :
    /\ debt.from = e
    /\ CoreAnswersLate(debt) \/ \E p \in d.pending : CoreAnswersPending(debt, p)

\* A notification, or a request of the server; the core also sends to sessions
\* this backend has dropped.
CoreSends(s) ==
  /\ s \in minted
  /\ Routed(s, [kind |-> "message", from |-> None])
  /\ UNCHANGED <<httpVars, d, nextInternalId, minted, told, owed>>

-----------------------------------------------------------------------------

KeepAliveTick ==
  /\ d.keepAlive
  /\ events' = [e \in Exchanges |->
                  IF e \in Streams(d) \cap sse
                  THEN events[e] \cup {[kind |-> "comment", from |-> None]}
                  ELSE events[e]]
  /\ UNCHANGED <<httpVars, d, nextInternalId, minted, told, owed>>

\* The connection k is gone: closed by its client, or here a while ago.
Disconnect(k) ==
  \E e, f \in Exchanges \cup {None} :
    /\ Disconnected(k, e, f)
    /\ d' = ConnectionClosed(ConnectionClosed(d, e), f)
    /\ UNCHANGED <<nextInternalId, minted, told, owed, events>>

-----------------------------------------------------------------------------

Slots ==
  \E k \in Sockets, e \in Exchanges :
    \/ \E status \in Errors : Refused(k, e, status)
    \/ \E s \in SessionIds :
         \/ \E kind \in Kinds :
              \/ PostNotification(k, e, kind, s)
              \/ PostRequest(k, e, kind, s)
              \/ PostListen(k, e, kind, s)
         \/ GetStream(k, e, s)
         \/ DeleteSession(k, e, s)

Core ==
  \/ \E e \in Exchanges : CoreAnswers(e)
  \/ \E s \in SessionIds : CoreSends(s)

Next == Slots \/ Core \/ KeepAliveTick \/ \E k \in Sockets : Disconnect(k)

Spec == Init /\ [][Next]_vars

\* The core answers what it was asked, and a timer that runs fires.
Fairness ==
  /\ \A e \in Exchanges : WF_vars(CoreAnswers(e))
  /\ WF_vars(KeepAliveTick)

FairSpec == Spec /\ Fairness

-----------------------------------------------------------------------------
(***************************************************************************)
(* Properties.                                                             *)
(***************************************************************************)

\* The streams of HttpServer and the SSE connections of its base class are kept
\* in two tables, changed by different calls; after every slot and every
\* disconnect they name the same connections.
StreamsAreConnections == Streams(d) = sse

\* Sessions and streams refer to each other: a session's stream exists and is
\* its own, a stream's session exists and routes to it.  Replaced, closed and
\* deleted streams never receive what is meant for their session.
RoutesAgree ==
  /\ \A s \in SessionIds : d.streamOf[s] # None =>
       /\ s \in d.sessions
       /\ d.sessionOf[d.streamOf[s]] = s
  /\ \A e \in Streams(d) : d.streamOf[d.sessionOf[e]] = e

\* The keep-alive timer runs exactly while there is a stream to keep alive.
KeepAliveWhileStreaming == d.keepAlive <=> Streams(d) # {}

\* An exchange whose response is deferred is one the core was asked for and
\* that still waits, and the other way round: no client waits for an answer
\* nobody can deliver, no answer is kept for an exchange that is over.
DeferredIsPending ==
  deferred = {p.exchange : p \in d.pending}

\* Clients that pick the same JSON-RPC id still get their own answers: an
\* exchange is answered at most once, with the answer to the request made on
\* it, and one that became an event stream gets no response at all.
AnswerReachesItsCaller ==
  \A e \in Exchanges :
    /\ Len(replies[e]) <= 1
    /\ \A i \in DOMAIN replies[e] : replies[e][i].to \in {e, None}
    /\ e \in sse \cup deferred => replies[e] = <<>>

\* All clients of 2026-07-28 share one session.  It never has a stream and no
\* client can delete it, so none receives the notifications of another.
StatelessIsShared ==
  /\ Stateless \in d.sessions \ told
  /\ d.streamOf[Stateless] = None

\* connectionClosed() is "emitted when a deferred or SSE connection is closed by
\* the peer": afterwards no table refers to the connection any more.
ClosedConnectionsAreForgotten ==
  \A e \in deferred \cup sse : socket[socketOf[e]] # "closed"

\* A stream is taken out of use only with its connection, so the client of a
\* replaced or deleted stream sees it end.
StreamsEndVisibly ==
  [][\A e \in sse \ sse' : socket'[socketOf[e]] # "open"]_vars

Connected(e) == socketOf[e] # None /\ socket[socketOf[e]] = "open"

\* The two tables and the responses, slot by slot and whatever the core sends,
\* give every exchange one course: see HttpExchanges.
PhaseOf(e) ==
  CASE socketOf[e] = None -> "new"
    [] e \in deferred -> "waiting"
    [] e \in sse -> "streaming"
    [] replies[e] # <<>> -> "answered"
    [] OTHER -> "over"

Exchange == INSTANCE HttpExchanges WITH
  phase <- [e \in Exchanges |-> PhaseOf(e)],
  response <- [e \in Exchanges |-> [i \in DOMAIN replies[e] |-> replies[e][i].to]]

ExchangesRunTheirCourse == Exchange!Spec

\* Every request gets its answer if the core answers what it owes, unless its
\* connection goes away.
EveryRequestIsAnswered ==
  \A e \in Exchanges :
    e \in deferred ~> (replies[e] # <<>> \/ ~Connected(e))

\* A stream that stays open after it was opened, or replaced another one, gets
\* a comment: the keep-alive timer runs for it.
StreamsAreKeptAlive ==
  \A e \in Exchanges :
    e \in sse ~> (e \notin sse \/ [kind |-> "comment", from |-> None] \in events[e])

=============================================================================

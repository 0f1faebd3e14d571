-------------------------- MODULE AbstractHttpServer --------------------------
(***************************************************************************)
(* QMcpAbstractHttpServer (src/src/mcpserver): the connections of an HTTP  *)
(* server and the exchanges a request slot takes over.                     *)
(*                                                                         *)
(* An exchange is the QUuid deferResponse() gives one request.  It is      *)
(* deferred until the slot, or a later event, answers it or turns it into  *)
(* an SSE stream.  Every operator below is the net effect one or more      *)
(* calls have within one slot; the module of a subclass conjoins them with *)
(* the changes of its own state.                                           *)
(***************************************************************************)
EXTENDS Naturals, Sequences, FiniteSets

CONSTANTS
  Sockets,     \* the connections clients open
  Exchanges,   \* the ids deferResponse() can give out, each of them once
  Pipelining,  \* may a client send a request before the last one is answered?
  None

ASSUME HttpAssumption ==
  /\ None \notin Sockets \cup Exchanges
  /\ Pipelining \in BOOLEAN

VARIABLES
  socket,    \* closing: close() was called here, disconnected() is yet to come
  socketOf,  \* the connection an exchange was made on
  deferred,  \* keys of QMcpAbstractHttpServer::Private::deferred
  sse,       \* keys of QMcpAbstractHttpServer::Private::sessions
  replies    \* the HTTP responses written for an exchange

httpVars == <<socket, socketOf, deferred, sse, replies>>

\* to is the exchange whose JSON-RPC id the body carries.
Reply == [status : Nat, to : Exchanges \cup {None}]

HttpTypeOK ==
  /\ socket \in [Sockets -> {"open", "closing", "closed"}]
  /\ socketOf \in [Exchanges -> Sockets \cup {None}]
  /\ deferred \subseteq Exchanges
  /\ sse \subseteq Exchanges
  /\ replies \in [Exchanges -> Seq(Reply)]

HttpInit ==
  /\ socket = [k \in Sockets |-> "open"]
  /\ socketOf = [e \in Exchanges |-> None]
  /\ deferred = {}
  /\ sse = {}
  /\ replies = [e \in Exchanges |-> <<>>]

-----------------------------------------------------------------------------

\* The exchanges of socket k that one of the two tables still holds.
Held(k) == {e \in deferred \cup sse : socketOf[e] = k}

\* A request arrives on k and its slot defers the response as e.  A client that
\* pipelines sends one while others wait for their answers, but none sends a
\* request on a connection whose response is an event stream.
Begins(k, e) ==
  /\ socket[k] = "open"
  /\ Held(k) \subseteq IF Pipelining THEN deferred ELSE {}
  /\ socketOf[e] = None
  /\ socketOf' = [socketOf EXCEPT ![e] = k]

\* deferResponse(), completeResponse()
AnsweredAtOnce(k, e, reply) ==
  /\ Begins(k, e)
  /\ replies' = [replies EXCEPT ![e] = Append(@, reply)]
  /\ UNCHANGED <<socket, deferred, sse>>

\* deferResponse() alone
LeftOpen(k, e) ==
  /\ Begins(k, e)
  /\ deferred' = deferred \cup {e}
  /\ UNCHANGED <<socket, sse, replies>>

\* Seeded fault: the table is cleared and the connection left open.
ClosingNothing(closed) == UNCHANGED socket

\* closeSseConnection() of the streams in closed: the connection is closed,
\* and disconnected() follows in a step of its own.
Closing(closed) ==
  socket' = [k \in Sockets |->
               IF socket[k] = "open" /\ \E e \in closed \cap sse : socketOf[e] = k
               THEN "closing" ELSE socket[k]]

\* deferResponse(), upgradeToSse(), closeSseConnection() of the streams closed
Upgraded(k, e, closed) ==
  /\ Begins(k, e)
  /\ sse' = (sse \ closed) \cup {e}
  /\ Closing(closed)
  /\ UNCHANGED <<deferred, replies>>

\* deferResponse(), closeSseConnection(), completeResponse()
AnsweredClosing(k, e, closed, reply) ==
  /\ Begins(k, e)
  /\ sse' = sse \ closed
  /\ Closing(closed)
  /\ replies' = [replies EXCEPT ![e] = Append(@, reply)]
  /\ UNCHANGED deferred

\* completeResponse() of an exchange left open; a second call finds nothing.
Completed(e, reply) ==
  /\ IF e \in deferred
     THEN /\ deferred' = deferred \ {e}
          /\ replies' = [replies EXCEPT ![e] = Append(@, reply)]
     ELSE UNCHANGED <<deferred, replies>>
  /\ UNCHANGED <<socket, socketOf, sse>>

\* handleDisconnected(): QMap::key() names one deferred exchange of the
\* connection and one stream, None when there is no such entry; the subclass
\* is told of those two.
KeyOf(table, k, e) ==
  LET keys == {f \in table : socketOf[f] = k}
  IN IF keys = {} THEN e = None ELSE e \in keys

\* Seeded fault: only one table is looked at.
DisconnectedOnce(k, d, s) ==
  /\ socket[k] # "closed"
  /\ KeyOf(deferred, k, d)
  /\ s = None
  /\ socket' = [socket EXCEPT ![k] = "closed"]
  /\ deferred' = deferred \ {d}
  /\ UNCHANGED <<socketOf, replies, sse>>

Disconnected(k, d, s) ==
  /\ socket[k] # "closed"
  /\ KeyOf(deferred, k, d)
  /\ KeyOf(sse, k, s)
  /\ socket' = [socket EXCEPT ![k] = "closed"]
  /\ deferred' = deferred \ {d}
  /\ sse' = sse \ {s}
  /\ UNCHANGED <<socketOf, replies>>

=============================================================================

---------------------- MODULE StreamableHttpServerProofs ----------------------
(***************************************************************************)
(* Theorems about StreamableHttpServer, for every number of connections,   *)
(* exchanges and sessions.                                                 *)
(***************************************************************************)
EXTENDS StreamableHttpServer, TLAPS

-----------------------------------------------------------------------------
(***************************************************************************)
(* The base class: its two tables and the responses it writes.             *)
(***************************************************************************)

Tracked == deferred \cup sse

\* An exchange that was not begun is in no table and has no response.
FreshIsUntouched ==
  \A e \in Exchanges : socketOf[e] = None => e \notin Tracked /\ replies[e] = <<>>

\* Without pipelining a connection has one exchange at a time.
OnePerConnection ==
  \A e, f \in Tracked : socketOf[e] = socketOf[f] => e = f

HttpOK ==
  /\ HttpTypeOK
  /\ FreshIsUntouched
  /\ deferred \cap sse = {}
  /\ AnswerReachesItsCaller
  /\ ~Pipelining => OnePerConnection /\ ClosedConnectionsAreForgotten

\* A reply table that gains one exchange answers that exchange only.
LEMMA OnlyReply ==
  ASSUME NEW e, NEW reply, reply.to \in {e, None}
  PROVE  /\ Len(<<reply>>) <= 1
         /\ \A i \in DOMAIN <<reply>> : <<reply>>[i].to \in {e, None}
OBVIOUS

\* A request begins on an exchange no table knows.
LEMMA BeginsFresh ==
  ASSUME HttpOK, NEW k \in Sockets, NEW e \in Exchanges, Begins(k, e)
  PROVE  /\ e \notin Tracked /\ replies[e] = <<>>
         /\ socketOf' \in [Exchanges -> Sockets \cup {None}]
         /\ socketOf'[e] = k
         /\ \A f \in Exchanges \ {e} : socketOf'[f] = socketOf[f]
         /\ socketOf'[e] # None
         /\ socket[k] = "open"
         /\ ~Pipelining => \A f \in Tracked : socketOf[f] # k
BY HttpAssumption DEF HttpOK, HttpTypeOK, FreshIsUntouched, Begins, Held, Tracked

\* Answering a request at once keeps the base class consistent.
LEMMA AnsweredAtOnceOK ==
  ASSUME HttpOK, NEW k \in Sockets, NEW e \in Exchanges, NEW reply \in Reply,
         reply.to \in {e, None}, AnsweredAtOnce(k, e, reply)
  PROVE  HttpOK' /\ deferred' = deferred /\ sse' = sse /\ e \notin Tracked
<1> USE DEF HttpOK
<1>1. Begins(k, e) /\ UNCHANGED <<socket, deferred, sse>>
  BY DEF AnsweredAtOnce
<1>2. /\ e \notin Tracked /\ replies[e] = <<>>
      /\ socketOf' \in [Exchanges -> Sockets \cup {None}]
      /\ \A f \in Exchanges \ {e} : socketOf'[f] = socketOf[f]
      /\ socketOf'[e] # None
  BY <1>1, BeginsFresh
<1>3. /\ replies' \in [Exchanges -> Seq(Reply)]
      /\ replies'[e] = <<reply>>
      /\ \A f \in Exchanges \ {e} : replies'[f] = replies[f]
  BY <1>2 DEF AnsweredAtOnce, HttpTypeOK
<1>4. HttpTypeOK'
  BY <1>1, <1>2, <1>3 DEF HttpTypeOK
<1>5. FreshIsUntouched'
  BY <1>1, <1>2, <1>3 DEF FreshIsUntouched, Tracked
<1>6. AnswerReachesItsCaller'
  <2> SUFFICES ASSUME NEW f \in Exchanges
               PROVE  /\ Len(replies'[f]) <= 1
                      /\ \A i \in DOMAIN replies'[f] : replies'[f][i].to \in {f, None}
                      /\ f \in sse \cup deferred => replies'[f] = <<>>
    BY <1>1 DEF AnswerReachesItsCaller
  <2>1. CASE f = e
    <3>1. replies'[f] = <<reply>> /\ f \notin sse \cup deferred
      BY <1>2, <1>3, <2>1 DEF Tracked
    <3> QED BY <2>1, <3>1, OnlyReply
  <2>2. CASE f # e
    BY <1>3, <2>2 DEF AnswerReachesItsCaller
  <2> QED BY <2>1, <2>2
<1>7. (~Pipelining => OnePerConnection /\ ClosedConnectionsAreForgotten)'
  <2>1. Tracked' = Tracked /\ Tracked \subseteq Exchanges
    BY <1>1 DEF Tracked, HttpTypeOK
  <2>2. \A f \in Tracked : socketOf'[f] = socketOf[f]
    BY <1>2, <2>1
  <2>3. OnePerConnection => OnePerConnection'
    BY <2>1, <2>2 DEF OnePerConnection
  <2>4. ClosedConnectionsAreForgotten => ClosedConnectionsAreForgotten'
    BY <1>1, <2>1, <2>2 DEF ClosedConnectionsAreForgotten, Tracked
  <2> QED BY <2>3, <2>4
<1> QED BY <1>1, <1>2, <1>4, <1>5, <1>6, <1>7

\* Deferring a response keeps the base class consistent.
LEMMA LeftOpenOK ==
  ASSUME HttpOK, NEW k \in Sockets, NEW e \in Exchanges, LeftOpen(k, e)
  PROVE  HttpOK' /\ deferred' = deferred \cup {e} /\ sse' = sse /\ e \notin Tracked
<1> USE DEF HttpOK
<1>1. Begins(k, e) /\ deferred' = deferred \cup {e} /\ UNCHANGED <<socket, sse, replies>>
  BY DEF LeftOpen
<1>2. /\ e \notin Tracked /\ replies[e] = <<>>
      /\ socketOf' \in [Exchanges -> Sockets \cup {None}]
      /\ socketOf'[e] = k
      /\ \A f \in Exchanges \ {e} : socketOf'[f] = socketOf[f]
      /\ socketOf'[e] # None
      /\ socket[k] = "open"
      /\ ~Pipelining => \A f \in Tracked : socketOf[f] # k
  BY <1>1, BeginsFresh
<1>3. HttpTypeOK'
  BY <1>1, <1>2 DEF HttpTypeOK
<1>4. FreshIsUntouched' /\ (deferred \cap sse = {})'
  BY <1>1, <1>2 DEF FreshIsUntouched, Tracked
<1>5. AnswerReachesItsCaller'
  BY <1>1, <1>2 DEF AnswerReachesItsCaller
<1>6. (~Pipelining => OnePerConnection /\ ClosedConnectionsAreForgotten)'
  BY <1>1, <1>2 DEF OnePerConnection, ClosedConnectionsAreForgotten, Tracked, HttpTypeOK
<1> QED BY <1>1, <1>2, <1>3, <1>4, <1>5, <1>6

\* Closing streams marks their connections and forgets none.
LEMMA ClosingOK ==
  ASSUME HttpTypeOK, NEW closed, Closing(closed)
  PROVE  /\ socket' \in [Sockets -> {"open", "closing", "closed"}]
         /\ \A k \in Sockets : socket'[k] = "closed" => socket[k] = "closed"
         /\ \A e \in closed \cap sse :
              socketOf[e] \in Sockets => socket'[socketOf[e]] # "open"
BY DEF HttpTypeOK, Closing

\* Opening an event stream keeps the base class consistent.
LEMMA UpgradedOK ==
  ASSUME HttpOK, NEW k \in Sockets, NEW e \in Exchanges, NEW closed, Upgraded(k, e, closed)
  PROVE  /\ HttpOK' /\ deferred' = deferred /\ sse' = (sse \ closed) \cup {e}
         /\ e \notin Tracked
<1> USE DEF HttpOK
<1>1. Begins(k, e) /\ Closing(closed) /\ sse' = (sse \ closed) \cup {e}
      /\ UNCHANGED <<deferred, replies>>
  BY DEF Upgraded
<1>2. /\ e \notin Tracked /\ replies[e] = <<>>
      /\ socketOf' \in [Exchanges -> Sockets \cup {None}]
      /\ socketOf'[e] = k
      /\ \A f \in Exchanges \ {e} : socketOf'[f] = socketOf[f]
      /\ socketOf'[e] # None
      /\ socket[k] = "open"
      /\ ~Pipelining => \A f \in Tracked : socketOf[f] # k
  BY <1>1, BeginsFresh
<1>3. /\ socket' \in [Sockets -> {"open", "closing", "closed"}]
      /\ \A j \in Sockets : socket'[j] = "closed" => socket[j] = "closed"
  BY <1>1, ClosingOK
<1>4. HttpTypeOK'
  BY <1>1, <1>2, <1>3 DEF HttpTypeOK
<1>5. FreshIsUntouched' /\ (deferred \cap sse = {})'
  BY <1>1, <1>2 DEF FreshIsUntouched, Tracked
<1>6. AnswerReachesItsCaller'
  BY <1>1, <1>2 DEF AnswerReachesItsCaller
<1>7. (~Pipelining => OnePerConnection /\ ClosedConnectionsAreForgotten)'
  <2> SUFFICES ASSUME ~Pipelining
               PROVE  OnePerConnection' /\ ClosedConnectionsAreForgotten'
    OBVIOUS
  <2>1. OnePerConnection'
    BY <1>1, <1>2 DEF OnePerConnection, Tracked, HttpTypeOK
  <2>2. \A f \in Tracked : socketOf[f] \in Sockets
    BY DEF FreshIsUntouched, Tracked, HttpTypeOK
  <2>3. ClosedConnectionsAreForgotten'
    BY <1>1, <1>2, <1>3, <2>2 DEF ClosedConnectionsAreForgotten, Tracked, HttpTypeOK
  <2> QED BY <2>1, <2>3
<1> QED BY <1>1, <1>2, <1>4, <1>5, <1>6, <1>7

\* Answering a request and closing a stream does so too.
LEMMA AnsweredClosingOK ==
  ASSUME HttpOK, NEW k \in Sockets, NEW e \in Exchanges, NEW closed, NEW reply \in Reply,
         reply.to \in {e, None}, AnsweredClosing(k, e, closed, reply)
  PROVE  HttpOK' /\ deferred' = deferred /\ sse' = sse \ closed /\ e \notin Tracked
<1> USE DEF HttpOK
<1>1. Begins(k, e) /\ Closing(closed) /\ sse' = sse \ closed /\ UNCHANGED deferred
  BY DEF AnsweredClosing
<1>2. /\ e \notin Tracked /\ replies[e] = <<>>
      /\ socketOf' \in [Exchanges -> Sockets \cup {None}]
      /\ \A f \in Exchanges \ {e} : socketOf'[f] = socketOf[f]
      /\ socketOf'[e] # None
  BY <1>1, BeginsFresh
<1>3. /\ socket' \in [Sockets -> {"open", "closing", "closed"}]
      /\ \A j \in Sockets : socket'[j] = "closed" => socket[j] = "closed"
  BY <1>1, ClosingOK
<1>4. /\ replies' \in [Exchanges -> Seq(Reply)]
      /\ replies'[e] = <<reply>>
      /\ \A f \in Exchanges \ {e} : replies'[f] = replies[f]
  BY <1>2 DEF AnsweredClosing, HttpTypeOK
<1>5. HttpTypeOK'
  BY <1>1, <1>2, <1>3, <1>4 DEF HttpTypeOK
<1>6. FreshIsUntouched' /\ (deferred \cap sse = {})'
  BY <1>1, <1>2, <1>4 DEF FreshIsUntouched, Tracked
<1>7. AnswerReachesItsCaller'
  <2> SUFFICES ASSUME NEW f \in Exchanges
               PROVE  /\ Len(replies'[f]) <= 1
                      /\ \A i \in DOMAIN replies'[f] : replies'[f][i].to \in {f, None}
                      /\ f \in sse' \cup deferred => replies'[f] = <<>>
    BY <1>1 DEF AnswerReachesItsCaller
  <2>1. CASE f = e
    <3>1. replies'[f] = <<reply>> /\ f \notin sse' \cup deferred
      BY <1>1, <1>2, <1>4, <2>1 DEF Tracked
    <3> QED BY <2>1, <3>1, OnlyReply
  <2>2. CASE f # e
    BY <1>1, <1>4, <2>2 DEF AnswerReachesItsCaller
  <2> QED BY <2>1, <2>2
<1>8. (~Pipelining => OnePerConnection /\ ClosedConnectionsAreForgotten)'
  <2>1. Tracked' \subseteq Tracked /\ Tracked \subseteq Exchanges
    BY <1>1 DEF Tracked, HttpTypeOK
  <2>2. \A f \in Tracked : socketOf'[f] = socketOf[f] /\ socketOf[f] \in Sockets
    BY <1>2, <2>1 DEF FreshIsUntouched, HttpTypeOK
  <2>3. OnePerConnection => OnePerConnection'
    BY <2>1, <2>2 DEF OnePerConnection
  <2>4. ClosedConnectionsAreForgotten => ClosedConnectionsAreForgotten'
    BY <1>3, <2>1, <2>2 DEF ClosedConnectionsAreForgotten, Tracked
  <2> QED BY <2>3, <2>4
<1> QED BY <1>1, <1>2, <1>5, <1>6, <1>7, <1>8

\* Completing a deferred response keeps the base class consistent.
LEMMA CompletedOK ==
  ASSUME HttpOK, NEW e \in deferred, NEW reply \in Reply,
         reply.to \in {e, None}, Completed(e, reply)
  PROVE  HttpOK' /\ deferred' = deferred \ {e} /\ sse' = sse
<1> USE DEF HttpOK
<1>1. e \in Exchanges /\ replies[e] = <<>> /\ e \notin sse
  BY DEF HttpTypeOK, AnswerReachesItsCaller
<1>2. /\ deferred' = deferred \ {e} /\ UNCHANGED <<socket, socketOf, sse>>
      /\ replies' = [replies EXCEPT ![e] = Append(@, reply)]
  BY DEF Completed
<1>3. /\ replies' \in [Exchanges -> Seq(Reply)]
      /\ replies'[e] = <<reply>>
      /\ \A f \in Exchanges \ {e} : replies'[f] = replies[f]
  BY <1>1, <1>2 DEF HttpTypeOK
<1>4. HttpTypeOK'
  BY <1>2, <1>3 DEF HttpTypeOK
<1>5. FreshIsUntouched'
  BY <1>2, <1>3 DEF FreshIsUntouched, Tracked
<1>6. AnswerReachesItsCaller'
  <2> SUFFICES ASSUME NEW f \in Exchanges
               PROVE  /\ Len(replies'[f]) <= 1
                      /\ \A i \in DOMAIN replies'[f] : replies'[f][i].to \in {f, None}
                      /\ f \in sse \cup deferred' => replies'[f] = <<>>
    BY <1>2 DEF AnswerReachesItsCaller
  <2>1. CASE f = e
    <3>1. replies'[f] = <<reply>> /\ f \notin sse \cup deferred'
      BY <1>1, <1>2, <1>3, <2>1
    <3> QED BY <2>1, <3>1, OnlyReply
  <2>2. CASE f # e
    BY <1>2, <1>3, <2>2 DEF AnswerReachesItsCaller
  <2> QED BY <2>1, <2>2
<1>7. (~Pipelining => OnePerConnection /\ ClosedConnectionsAreForgotten)'
  BY <1>2 DEF OnePerConnection, ClosedConnectionsAreForgotten, Tracked
<1> QED BY <1>2, <1>4, <1>5, <1>6, <1>7

\* Forgetting a closed connection keeps the base class consistent.
LEMMA DisconnectedOK ==
  ASSUME HttpOK, NEW k \in Sockets, NEW e \in Exchanges \cup {None},
         NEW f \in Exchanges \cup {None}, Disconnected(k, e, f)
  PROVE  /\ HttpOK' /\ deferred' = deferred \ {e} /\ sse' = sse \ {f}
         /\ e # None => e \in deferred
         /\ f # None => f \in sse
         /\ \A g \in sse \ sse' : socket'[socketOf[g]] = "closed"
<1> USE DEF HttpOK
<1>1. /\ deferred' = deferred \ {e} /\ sse' = sse \ {f}
      /\ UNCHANGED <<socketOf, replies>>
      /\ socket' = [socket EXCEPT ![k] = "closed"]
      /\ KeyOf(deferred, k, e) /\ KeyOf(sse, k, f)
  BY DEF Disconnected
<1>2. /\ IF \E g \in deferred : socketOf[g] = k
         THEN e \in deferred /\ socketOf[e] = k ELSE e = None
      /\ IF \E g \in sse : socketOf[g] = k
         THEN f \in sse /\ socketOf[f] = k ELSE f = None
  BY <1>1 DEF KeyOf
<1>3. None \notin deferred \cup sse
  BY HttpAssumption DEF HttpTypeOK
<1>4. HttpTypeOK' /\ socket'[k] = "closed"
  BY <1>1 DEF HttpTypeOK
<1>5. FreshIsUntouched' /\ AnswerReachesItsCaller'
  BY <1>1 DEF FreshIsUntouched, AnswerReachesItsCaller, Tracked
<1>6. (~Pipelining => OnePerConnection /\ ClosedConnectionsAreForgotten)'
  <2> SUFFICES ASSUME ~Pipelining
               PROVE  OnePerConnection' /\ ClosedConnectionsAreForgotten'
    OBVIOUS
  <2>1. OnePerConnection'
    BY <1>1 DEF OnePerConnection, Tracked
  <2>2. \A g \in Tracked' : socketOf[g] # k
    BY <1>1, <1>2 DEF OnePerConnection, Tracked
  <2>3. \A g \in Tracked : socketOf[g] \in Sockets
    BY DEF FreshIsUntouched, Tracked, HttpTypeOK
  <2>4. ClosedConnectionsAreForgotten'
    BY <1>1, <2>2, <2>3 DEF ClosedConnectionsAreForgotten, Tracked, HttpTypeOK
  <2> QED BY <2>1, <2>4
<1>7. \A g \in sse \ sse' : socket'[socketOf[g]] = "closed"
  BY <1>1, <1>2, <1>3, <1>4
<1> QED BY <1>1, <1>2, <1>3, <1>4, <1>5, <1>6, <1>7

-----------------------------------------------------------------------------
(***************************************************************************)
(* HttpServer::Private: sessions, streams, pending requests.               *)
(***************************************************************************)

\* RoutesAgree, of any state R of the registry.
RoutesOK(R) ==
  /\ \A s \in SessionIds : R.streamOf[s] # None =>
       s \in R.sessions /\ R.sessionOf[R.streamOf[s]] = s
  /\ \A e \in Streams(R) : R.streamOf[R.sessionOf[e]] = e

PendingOK(R) ==
  /\ \A p, q \in R.pending : (p.exchange = q.exchange \/ p.id = q.id) => p = q
  /\ \A p \in R.pending : p.exchange \notin Streams(R)

RegistryOK(R) ==
  /\ R \in Registry
  /\ RoutesOK(R)
  /\ PendingOK(R)
  /\ R.keepAlive <=> Streams(R) # {}
  /\ R.dedicated \subseteq Streams(R)
  /\ Stateless \in R.sessions /\ R.streamOf[Stateless] = None

\* R and C agree on the streams both have.
SameStreams(R, C) ==
  /\ C.pending = R.pending
  /\ C.sessions \subseteq R.sessions
  /\ \A e \in Streams(C) : C.sessionOf[e] = R.sessionOf[e]

\* The streams of the sessions are connections.
LEMMA StreamsType ==
  ASSUME NEW R, RegistryOK(R)
  PROVE  /\ Streams(R) \subseteq Exchanges
         /\ \A e \in Streams(R) : R.sessionOf[e] \in R.sessions \ {Stateless}
         /\ \A s \in SessionIds : R.streamOf[s] # None => R.streamOf[s] \in Streams(R)
<1>1. Streams(R) \subseteq Exchanges
  BY DEF Streams
<1>2. /\ R.sessionOf \in [Exchanges -> SessionIds \cup {None}]
      /\ R.streamOf \in [SessionIds -> Exchanges \cup {None}]
  BY DEF RegistryOK, Registry
<1>3. \A e \in Streams(R) : R.sessionOf[e] \in R.sessions \ {Stateless}
  <2> SUFFICES ASSUME NEW e \in Streams(R) PROVE R.sessionOf[e] \in R.sessions \ {Stateless}
    OBVIOUS
  <2>1. e \in Exchanges /\ R.sessionOf[e] \in SessionIds /\ R.streamOf[R.sessionOf[e]] = e
    BY <1>1, <1>2 DEF Streams, RegistryOK, RoutesOK
  <2>2. R.streamOf[R.sessionOf[e]] # None
    BY <2>1, HttpAssumption
  <2> QED BY <2>1, <2>2 DEF RegistryOK, RoutesOK
<1>4. \A s \in SessionIds : R.streamOf[s] # None => R.streamOf[s] \in Streams(R)
  BY <1>2, BackendAssumption DEF Streams, RegistryOK, RoutesOK
<1> QED BY <1>1, <1>3, <1>4

\* Closing a stream keeps sessions and routes consistent.
LEMMA CloseStreamOK ==
  ASSUME NEW R, RegistryOK(R), NEW e \in Exchanges
  PROVE  /\ RegistryOK(CloseStream(R, e))
         /\ Streams(CloseStream(R, e)) = Streams(R) \ {e}
         /\ SameStreams(R, CloseStream(R, e))
         /\ CloseStream(R, e).dedicated = R.dedicated \ {e}
         /\ e \notin R.dedicated => CloseStream(R, e).sessions = R.sessions
         /\ \A s \in SessionIds : CloseStream(R, e).streamOf[s] =
              IF R.streamOf[s] = e THEN None ELSE R.streamOf[s]
<1> DEFINE C == CloseStream(R, e)
           s == R.sessionOf[e]
<1>1. CASE e \notin Streams(R)
  <2>1. C = R
    BY <1>1 DEF CloseStream
  <2>2. \A t \in SessionIds : R.streamOf[t] # e
    BY <1>1, HttpAssumption, StreamsType
  <2>3. Streams(R) \ {e} = Streams(R) /\ R.dedicated \ {e} = R.dedicated
    BY <1>1 DEF RegistryOK
  <2> QED BY <2>1, <2>2, <2>3 DEF SameStreams
<1>2. CASE e \in Streams(R)
  <2>1. /\ s \in R.sessions \ {Stateless} /\ s \in SessionIds
        /\ R.streamOf[s] = e /\ e # None
    BY <1>2, StreamsType, HttpAssumption DEF RegistryOK, Registry, RoutesOK
  <2>2. C = [sessions  |-> IF e \in R.dedicated THEN R.sessions \ {s} ELSE R.sessions,
             streamOf  |-> [R.streamOf EXCEPT ![s] = None],
             sessionOf |-> [R.sessionOf EXCEPT ![e] = None],
             dedicated |-> R.dedicated \ {e},
             pending   |-> Dropped(R, e),
             keepAlive |-> R.keepAlive /\ Streams(R) \ {e} # {}]
    BY <1>2, <2>1 DEF CloseStream
  <2>3. Dropped(R, e) = R.pending
    BY <1>2 DEF Dropped, RegistryOK, PendingOK
  <2>4. /\ C.sessions = IF e \in R.dedicated THEN R.sessions \ {s} ELSE R.sessions
        /\ C.streamOf = [R.streamOf EXCEPT ![s] = None]
        /\ C.sessionOf = [R.sessionOf EXCEPT ![e] = None]
        /\ C.dedicated = R.dedicated \ {e}
        /\ C.pending = R.pending
        /\ C.keepAlive = (R.keepAlive /\ Streams(R) \ {e} # {})
    BY <2>2, <2>3
  <2>5. C \in Registry
    <3>1. /\ R.sessions \in SUBSET SessionIds
          /\ R.streamOf \in [SessionIds -> Exchanges \cup {None}]
          /\ R.sessionOf \in [Exchanges -> SessionIds \cup {None}]
          /\ R.dedicated \in SUBSET Exchanges
          /\ R.pending \in SUBSET Pending
          /\ R.keepAlive \in BOOLEAN
      BY DEF RegistryOK, Registry
    <3>2. /\ C.sessions \in SUBSET SessionIds
          /\ C.streamOf \in [SessionIds -> Exchanges \cup {None}]
          /\ C.sessionOf \in [Exchanges -> SessionIds \cup {None}]
          /\ C.dedicated \in SUBSET Exchanges
          /\ C.pending \in SUBSET Pending
          /\ C.keepAlive \in BOOLEAN
      <4> HIDE DEF C, s
      <4> QED BY <2>1, <2>4, <3>1
    <3>3. C = [sessions |-> C.sessions, streamOf |-> C.streamOf, sessionOf |-> C.sessionOf,
               dedicated |-> C.dedicated, pending |-> C.pending, keepAlive |-> C.keepAlive]
      BY <2>2
    <3> HIDE DEF C
    <3> QED BY <3>2, <3>3 DEF Registry
  <2> HIDE DEF C
  <2>6. /\ R.sessionOf \in [Exchanges -> SessionIds \cup {None}]
        /\ R.streamOf \in [SessionIds -> Exchanges \cup {None}]
        /\ R.keepAlive \in BOOLEAN
    BY DEF RegistryOK, Registry
  <2>7. /\ C.sessionOf[e] = None
        /\ \A f \in Exchanges \ {e} : C.sessionOf[f] = R.sessionOf[f]
        /\ C.streamOf[s] = None
        /\ \A t \in SessionIds \ {s} : C.streamOf[t] = R.streamOf[t]
    BY <2>1, <2>4, <2>6
  <2>8. Streams(C) = Streams(R) \ {e}
    BY <2>7 DEF Streams
  <2>9. \A t \in SessionIds \ {s} : R.streamOf[t] # e
    BY <1>2, <2>1 DEF RegistryOK, RoutesOK
  <2>10. RoutesOK(C)
    <3>1. \A t \in SessionIds : C.streamOf[t] # None =>
            t \in C.sessions /\ C.sessionOf[C.streamOf[t]] = t
      <4> SUFFICES ASSUME NEW t \in SessionIds, C.streamOf[t] # None
                   PROVE  t \in C.sessions /\ C.sessionOf[C.streamOf[t]] = t
        OBVIOUS
      <4>1. t # s /\ C.streamOf[t] = R.streamOf[t] /\ R.streamOf[t] # e
        BY <2>7, <2>9
      <4>2. t \in R.sessions /\ R.sessionOf[R.streamOf[t]] = t /\ R.streamOf[t] \in Exchanges
        BY <4>1, <2>6 DEF RegistryOK, RoutesOK
      <4> QED BY <2>4, <2>7, <4>1, <4>2
    <3>2. \A f \in Streams(C) : C.streamOf[C.sessionOf[f]] = f
      <4> SUFFICES ASSUME NEW f \in Streams(C) PROVE C.streamOf[C.sessionOf[f]] = f
        OBVIOUS
      <4>1. f \in Streams(R) /\ f # e /\ f \in Exchanges
        BY <2>8 DEF Streams
      <4>2. R.streamOf[R.sessionOf[f]] = f /\ R.sessionOf[f] \in SessionIds
        BY <4>1, <2>6 DEF Streams, RegistryOK, RoutesOK
      <4>3. R.sessionOf[f] # s
        BY <2>1, <4>1, <4>2
      <4> QED BY <2>7, <4>1, <4>2, <4>3
    <3> QED BY <3>1, <3>2 DEF RoutesOK
  <2>11. PendingOK(C)
    BY <2>4, <2>8 DEF RegistryOK, PendingOK
  <2>12. C.keepAlive <=> Streams(C) # {}
    BY <2>4, <2>6, <2>8 DEF RegistryOK
  <2>13. C.dedicated \subseteq Streams(C)
    BY <2>4, <2>8 DEF RegistryOK
  <2>14. Stateless \in C.sessions /\ C.streamOf[Stateless] = None
    BY <2>1, <2>4, <2>7, BackendAssumption DEF RegistryOK
  <2>15. RegistryOK(C)
    BY <2>5, <2>10, <2>11, <2>12, <2>13, <2>14 DEF RegistryOK
  <2>16. SameStreams(R, C)
    BY <2>4, <2>7, <2>8 DEF SameStreams, Streams
  <2>17. \A t \in SessionIds : C.streamOf[t] = IF R.streamOf[t] = e THEN None ELSE R.streamOf[t]
    BY <2>1, <2>7, <2>9
  <2> QED BY <2>4, <2>8, <2>15, <2>16, <2>17 DEF C
<1> QED BY <1>1, <1>2

\* A session that lost its stream has no route.
LEMMA WithoutStreamOK ==
  ASSUME NEW R, RegistryOK(R), NEW s \in SessionIds, Replaced(R, s) \cap R.dedicated = {}
  PROVE  /\ RegistryOK(WithoutStream(R, s))
         /\ Streams(WithoutStream(R, s)) = Streams(R) \ Replaced(R, s)
         /\ SameStreams(R, WithoutStream(R, s))
         /\ WithoutStream(R, s).dedicated = R.dedicated
         /\ WithoutStream(R, s).sessions = R.sessions
         /\ WithoutStream(R, s).streamOf[s] = None
<1>1. R.streamOf[s] \in Exchanges \cup {None}
  BY DEF RegistryOK, Registry
<1>2. Replaced(R, s) = {R.streamOf[s]} \ {None}
  BY <1>1 DEF Replaced, RegistryOK, RoutesOK
<1>3. CASE R.streamOf[s] = None
  BY <1>2, <1>3 DEF WithoutStream, SameStreams
<1>4. CASE R.streamOf[s] # None
  <2> DEFINE e == R.streamOf[s]
  <2>1. e \in Exchanges /\ Replaced(R, s) = {e} /\ e \notin R.dedicated
    BY <1>1, <1>2, <1>4
  <2>2. WithoutStream(R, s) = CloseStream(R, e)
    BY <2>1 DEF WithoutStream
  <2>3. R.dedicated \ {e} = R.dedicated
    BY <2>1
  <2>4. R.streamOf[s] = e
    OBVIOUS
  <2> HIDE DEF e
  <2>5. /\ RegistryOK(CloseStream(R, e))
        /\ Streams(CloseStream(R, e)) = Streams(R) \ {e}
        /\ SameStreams(R, CloseStream(R, e))
        /\ CloseStream(R, e).dedicated = R.dedicated \ {e}
        /\ CloseStream(R, e).sessions = R.sessions
        /\ CloseStream(R, e).streamOf[s] = None
    BY <2>1, <2>4, CloseStreamOK
  <2> QED BY <2>1, <2>2, <2>3, <2>5
<1> QED BY <1>3, <1>4

\* The fields of a registry.
LEMMA Fields ==
  ASSUME NEW R \in Registry
  PROVE  /\ R.sessions \in SUBSET SessionIds
         /\ R.streamOf \in [SessionIds -> Exchanges \cup {None}]
         /\ R.sessionOf \in [Exchanges -> SessionIds \cup {None}]
         /\ R.dedicated \in SUBSET Exchanges
         /\ R.pending \in SUBSET Pending
         /\ R.keepAlive \in BOOLEAN
BY DEF Registry

\* Opening a stream keeps sessions and routes consistent.
LEMMA OpenStreamOK ==
  ASSUME NEW R, RegistryOK(R), NEW e \in Exchanges, NEW s \in R.sessions \ {Stateless},
         NEW dedicated \in BOOLEAN, Replaced(R, s) \cap R.dedicated = {},
         e \notin Streams(R), \A p \in R.pending : p.exchange # e
  PROVE  /\ RegistryOK(OpenStream(R, e, s, dedicated))
         /\ Streams(OpenStream(R, e, s, dedicated)) = (Streams(R) \ Replaced(R, s)) \cup {e}
         /\ OpenStream(R, e, s, dedicated).pending = R.pending
         /\ OpenStream(R, e, s, dedicated).sessions = R.sessions
         /\ OpenStream(R, e, s, dedicated).dedicated =
              R.dedicated \cup (IF dedicated THEN {e} ELSE {})
         /\ OpenStream(R, e, s, dedicated).sessionOf[e] = s
         /\ \A f \in Streams(R) \ Replaced(R, s) :
              OpenStream(R, e, s, dedicated).sessionOf[f] = R.sessionOf[f]
<1> DEFINE C == WithoutStream(R, s)
           O == OpenStream(R, e, s, dedicated)
<1>1. s \in SessionIds /\ s # None /\ e # None
  BY Fields, HttpAssumption, BackendAssumption DEF RegistryOK
<1>2. /\ RegistryOK(C)
      /\ Streams(C) = Streams(R) \ Replaced(R, s)
      /\ SameStreams(R, C)
      /\ C.dedicated = R.dedicated
      /\ C.sessions = R.sessions
      /\ C.streamOf[s] = None
  BY <1>1, WithoutStreamOK
<1>3. O = [C EXCEPT !.streamOf = IF s \in C.sessions THEN [@ EXCEPT ![s] = e] ELSE @,
                    !.sessionOf = [@ EXCEPT ![e] = s],
                    !.dedicated = IF dedicated THEN @ \cup {e} ELSE @,
                    !.keepAlive = TRUE]
  BY DEF OpenStream
<1> HIDE DEF C, O
<1>4. C \in Registry
  BY <1>2 DEF RegistryOK
<1>5. O = [sessions |-> C.sessions,
           streamOf |-> [C.streamOf EXCEPT ![s] = e],
           sessionOf |-> [C.sessionOf EXCEPT ![e] = s],
           dedicated |-> IF dedicated THEN C.dedicated \cup {e} ELSE C.dedicated,
           pending |-> C.pending,
           keepAlive |-> TRUE]
  BY <1>2, <1>3, <1>4 DEF Registry
<1>6. /\ O.sessions = R.sessions
      /\ O.streamOf = [C.streamOf EXCEPT ![s] = e]
      /\ O.sessionOf = [C.sessionOf EXCEPT ![e] = s]
      /\ O.dedicated = R.dedicated \cup (IF dedicated THEN {e} ELSE {})
      /\ O.pending = R.pending
      /\ O.keepAlive = TRUE
  BY <1>2, <1>5 DEF SameStreams
<1>7. O \in Registry
  <2>3. /\ C.streamOf \in [SessionIds -> Exchanges \cup {None}]
        /\ C.sessionOf \in [Exchanges -> SessionIds \cup {None}]
    BY <1>4, Fields
  <2>4. R.sessions \in SUBSET SessionIds /\ R.dedicated \in SUBSET Exchanges
        /\ R.pending \in SUBSET Pending
    BY Fields DEF RegistryOK
  <2>5. O.streamOf \in [SessionIds -> Exchanges \cup {None}]
    BY <1>6, <2>3
  <2>6. O.sessionOf \in [Exchanges -> SessionIds \cup {None}]
    BY <1>1, <1>6, <2>3
  <2>7. O.dedicated \in SUBSET Exchanges
    BY <1>6, <2>4
  <2>1. /\ O.sessions \in SUBSET SessionIds
        /\ O.streamOf \in [SessionIds -> Exchanges \cup {None}]
        /\ O.sessionOf \in [Exchanges -> SessionIds \cup {None}]
        /\ O.dedicated \in SUBSET Exchanges
        /\ O.pending \in SUBSET Pending
        /\ O.keepAlive \in BOOLEAN
    BY <1>6, <2>4, <2>5, <2>6, <2>7
  <2>2. O = [sessions |-> O.sessions, streamOf |-> O.streamOf, sessionOf |-> O.sessionOf,
             dedicated |-> O.dedicated, pending |-> O.pending, keepAlive |-> O.keepAlive]
    BY <1>5
  <2> QED BY <2>1, <2>2 DEF Registry
<1>8. /\ C.sessionOf \in [Exchanges -> SessionIds \cup {None}]
      /\ C.streamOf \in [SessionIds -> Exchanges \cup {None}]
  BY <1>4, Fields
<1>9. /\ O.sessionOf[e] = s
      /\ \A f \in Exchanges \ {e} : O.sessionOf[f] = C.sessionOf[f]
      /\ O.streamOf[s] = e
      /\ \A t \in SessionIds \ {s} : O.streamOf[t] = C.streamOf[t]
  BY <1>1, <1>6, <1>8
<1>10. Streams(O) = Streams(C) \cup {e}
  BY <1>1, <1>9 DEF Streams
<1>11. e \notin Streams(C)
  BY <1>2
<1>12. RoutesOK(O)
  <2>1. \A t \in SessionIds : O.streamOf[t] # None =>
          t \in O.sessions /\ O.sessionOf[O.streamOf[t]] = t
    <3> SUFFICES ASSUME NEW t \in SessionIds, O.streamOf[t] # None
                 PROVE  t \in O.sessions /\ O.sessionOf[O.streamOf[t]] = t
      OBVIOUS
    <3>1. CASE t = s
      BY <1>6, <1>9, <3>1
    <3>2. CASE t # s
      <4>1. O.streamOf[t] = C.streamOf[t]
        BY <1>9, <3>2
      <4>2. /\ C.streamOf[t] \in Streams(C) /\ C.streamOf[t] \in Exchanges
            /\ t \in C.sessions /\ C.sessionOf[C.streamOf[t]] = t
        BY <1>2, <1>8, <4>1, StreamsType DEF RegistryOK, RoutesOK
      <4> QED BY <1>2, <1>6, <1>9, <1>11, <4>1, <4>2
    <3> QED BY <3>1, <3>2
  <2>2. \A f \in Streams(O) : O.streamOf[O.sessionOf[f]] = f
    <3> SUFFICES ASSUME NEW f \in Streams(O) PROVE O.streamOf[O.sessionOf[f]] = f
      OBVIOUS
    <3>1. CASE f = e
      BY <1>9, <3>1
    <3>2. CASE f # e
      <4>1. f \in Streams(C) /\ f \in Exchanges /\ O.sessionOf[f] = C.sessionOf[f]
        BY <1>9, <1>10, <3>2 DEF Streams
      <4>2. C.sessionOf[f] \in SessionIds /\ C.streamOf[C.sessionOf[f]] = f
        BY <1>2, <1>8, <4>1 DEF RegistryOK, RoutesOK, Streams
      <4>3. C.sessionOf[f] # s
        BY <1>2, <4>1, <4>2, HttpAssumption
      <4> QED BY <1>9, <4>1, <4>2, <4>3
    <3> QED BY <3>1, <3>2
  <2> QED BY <2>1, <2>2 DEF RoutesOK
<1>13. PendingOK(O)
  BY <1>2, <1>6, <1>10 DEF RegistryOK, PendingOK, SameStreams
<1>14. /\ O.keepAlive <=> Streams(O) # {}
       /\ O.dedicated \subseteq Streams(O)
  BY <1>2, <1>6, <1>10 DEF RegistryOK
<1>15. Stateless \in O.sessions /\ O.streamOf[Stateless] = None
  BY <1>2, <1>6, <1>9, BackendAssumption DEF RegistryOK
<1>16. RegistryOK(O)
  BY <1>7, <1>12, <1>13, <1>14, <1>15 DEF RegistryOK
<1>17. \A f \in Streams(R) \ Replaced(R, s) : O.sessionOf[f] = R.sessionOf[f]
  BY <1>2, <1>9, <1>11 DEF SameStreams, Streams
<1> QED BY <1>2, <1>6, <1>9, <1>10, <1>16, <1>17 DEF O

\* A session that a request creates keeps the registry consistent.
LEMMA WithOK ==
  ASSUME NEW R, RegistryOK(R), NEW s \in SessionIds
  PROVE  /\ RegistryOK(With(R, s))
         /\ Streams(With(R, s)) = Streams(R)
         /\ With(R, s).sessions = R.sessions \cup {s}
         /\ With(R, s).streamOf = R.streamOf
         /\ With(R, s).sessionOf = R.sessionOf
         /\ With(R, s).dedicated = R.dedicated
         /\ With(R, s).pending = R.pending
<1> DEFINE W == With(R, s)
<1>1. R \in Registry
  BY DEF RegistryOK
<1>2. W = [sessions |-> R.sessions \cup {s}, streamOf |-> R.streamOf, sessionOf |-> R.sessionOf,
           dedicated |-> R.dedicated, pending |-> R.pending, keepAlive |-> R.keepAlive]
  BY <1>1 DEF With, Registry
<1>3. /\ W.sessions = R.sessions \cup {s} /\ W.streamOf = R.streamOf
      /\ W.sessionOf = R.sessionOf /\ W.dedicated = R.dedicated
      /\ W.pending = R.pending /\ W.keepAlive = R.keepAlive
  BY <1>2
<1>4. W \in Registry
  <2>1. /\ R.sessions \cup {s} \in SUBSET SessionIds
        /\ R.streamOf \in [SessionIds -> Exchanges \cup {None}]
        /\ R.sessionOf \in [Exchanges -> SessionIds \cup {None}]
        /\ R.dedicated \in SUBSET Exchanges
        /\ R.pending \in SUBSET Pending
        /\ R.keepAlive \in BOOLEAN
    BY <1>1, Fields
  <2> HIDE DEF W
  <2> QED BY <1>2, <2>1 DEF Registry
<1> HIDE DEF W
<1>5. Streams(W) = Streams(R)
  BY <1>3 DEF Streams
<1>6. RoutesOK(W) /\ PendingOK(W)
  BY <1>3, <1>5 DEF RegistryOK, RoutesOK, PendingOK
<1>7. RegistryOK(W)
  BY <1>3, <1>4, <1>5, <1>6 DEF RegistryOK
<1> QED BY <1>3, <1>5, <1>7 DEF W

\* The pending entries that stay when some are taken away.
LEMMA FewerPendingOK ==
  ASSUME NEW R, RegistryOK(R), NEW P \in SUBSET R.pending
  PROVE  /\ RegistryOK([R EXCEPT !.pending = P])
         /\ Streams([R EXCEPT !.pending = P]) = Streams(R)
<1> DEFINE F == [R EXCEPT !.pending = P]
<1>1. R \in Registry
  BY DEF RegistryOK
<1>2. F = [sessions |-> R.sessions, streamOf |-> R.streamOf, sessionOf |-> R.sessionOf,
           dedicated |-> R.dedicated, pending |-> P, keepAlive |-> R.keepAlive]
  BY <1>1 DEF Registry
<1>3. /\ F.sessions = R.sessions /\ F.streamOf = R.streamOf
      /\ F.sessionOf = R.sessionOf /\ F.dedicated = R.dedicated
      /\ F.pending = P /\ F.keepAlive = R.keepAlive
  BY <1>2
<1>4. F \in Registry
  <2>1. /\ R.sessions \in SUBSET SessionIds
        /\ R.streamOf \in [SessionIds -> Exchanges \cup {None}]
        /\ R.sessionOf \in [Exchanges -> SessionIds \cup {None}]
        /\ R.dedicated \in SUBSET Exchanges
        /\ P \in SUBSET Pending
        /\ R.keepAlive \in BOOLEAN
    BY <1>1, Fields
  <2> HIDE DEF F
  <2> QED BY <1>2, <2>1 DEF Registry
<1> HIDE DEF F
<1>5. Streams(F) = Streams(R)
  BY <1>3 DEF Streams
<1>6. RoutesOK(F) /\ PendingOK(F)
  BY <1>3, <1>5 DEF RegistryOK, RoutesOK, PendingOK
<1>7. RegistryOK(F)
  BY <1>3, <1>4, <1>5, <1>6 DEF RegistryOK
<1> QED BY <1>5, <1>7 DEF F

\* A request handed to the core under an id and for an exchange no other has.
LEMMA ForwardedOK ==
  ASSUME NEW R, RegistryOK(R), NEW entry \in Pending, entry.exchange \notin Streams(R),
         \A p \in R.pending : p.id # entry.id /\ p.exchange # entry.exchange
  PROVE  /\ RegistryOK(Forwarded(R, entry))
         /\ Streams(Forwarded(R, entry)) = Streams(R)
         /\ Forwarded(R, entry).pending = R.pending \cup {entry}
         /\ Forwarded(R, entry).sessions = R.sessions
         /\ Forwarded(R, entry).sessionOf = R.sessionOf
         /\ Forwarded(R, entry).dedicated = R.dedicated
<1> DEFINE F == Forwarded(R, entry)
<1>1. R \in Registry /\ {p \in R.pending : p.id # entry.id} = R.pending
  BY DEF RegistryOK
<1>2. F = [sessions |-> R.sessions, streamOf |-> R.streamOf, sessionOf |-> R.sessionOf,
           dedicated |-> R.dedicated, pending |-> R.pending \cup {entry},
           keepAlive |-> R.keepAlive]
  <2>1. F = [R EXCEPT !.pending = R.pending \cup {entry}]
    BY <1>1 DEF Forwarded
  <2> HIDE DEF F
  <2> QED BY <1>1, <2>1 DEF Registry
<1>3. /\ F.sessions = R.sessions /\ F.streamOf = R.streamOf
      /\ F.sessionOf = R.sessionOf /\ F.dedicated = R.dedicated
      /\ F.pending = R.pending \cup {entry} /\ F.keepAlive = R.keepAlive
  BY <1>2
<1>4. F \in Registry
  <2>1. /\ R.sessions \in SUBSET SessionIds
        /\ R.streamOf \in [SessionIds -> Exchanges \cup {None}]
        /\ R.sessionOf \in [Exchanges -> SessionIds \cup {None}]
        /\ R.dedicated \in SUBSET Exchanges
        /\ R.pending \cup {entry} \in SUBSET Pending
        /\ R.keepAlive \in BOOLEAN
    BY <1>1, Fields
  <2> HIDE DEF F
  <2> QED BY <1>2, <2>1 DEF Registry
<1> HIDE DEF F
<1>5. Streams(F) = Streams(R)
  BY <1>3 DEF Streams
<1>6. RoutesOK(F) /\ PendingOK(F)
  BY <1>3, <1>5 DEF RegistryOK, RoutesOK, PendingOK
<1>7. RegistryOK(F)
  BY <1>3, <1>4, <1>5, <1>6 DEF RegistryOK
<1> QED BY <1>3, <1>5, <1>7 DEF F

\* The connection of e is gone: its stream, or the request it waits for, is too.
LEMMA ConnectionClosedOK ==
  ASSUME NEW R, RegistryOK(R), NEW e \in Exchanges \cup {None}
  PROVE  /\ RegistryOK(ConnectionClosed(R, e))
         /\ Streams(ConnectionClosed(R, e)) = Streams(R) \ {e}
         /\ ConnectionClosed(R, e).pending = Dropped(R, e)
         /\ ConnectionClosed(R, e).sessions \subseteq R.sessions
         /\ ConnectionClosed(R, e).dedicated \subseteq R.dedicated
         /\ \A f \in Streams(R) \ {e} : ConnectionClosed(R, e).sessionOf[f] = R.sessionOf[f]
<1>1. R \in Registry /\ Streams(R) \subseteq Exchanges /\ R.pending \subseteq Pending
      /\ None \notin Exchanges
  BY Fields, HttpAssumption DEF RegistryOK, Streams
<1>2. CASE e = None
  <2>1. ConnectionClosed(R, e) = R /\ Streams(R) \ {e} = Streams(R)
    BY <1>1, <1>2 DEF ConnectionClosed
  <2>2. Dropped(R, e) = R.pending
    BY <1>1, <1>2 DEF Dropped, Pending
  <2> QED BY <2>1, <2>2
<1>3. CASE e # None /\ e \in Streams(R)
  <2>1. ConnectionClosed(R, e) = CloseStream(R, e) /\ e \in Exchanges
    BY <1>3 DEF ConnectionClosed
  <2>2. Dropped(R, e) = R.pending
    BY <1>3 DEF Dropped, RegistryOK, PendingOK
  <2>3. /\ RegistryOK(CloseStream(R, e))
        /\ Streams(CloseStream(R, e)) = Streams(R) \ {e}
        /\ SameStreams(R, CloseStream(R, e))
        /\ CloseStream(R, e).dedicated = R.dedicated \ {e}
    BY <2>1, CloseStreamOK
  <2> QED BY <2>1, <2>2, <2>3 DEF SameStreams
<1>4. CASE e # None /\ e \notin Streams(R)
  <2>1. ConnectionClosed(R, e) = [R EXCEPT !.pending = Dropped(R, e)]
    BY <1>4 DEF ConnectionClosed
  <2>2. /\ RegistryOK(ConnectionClosed(R, e))
        /\ Streams(ConnectionClosed(R, e)) = Streams(R)
    BY <2>1, FewerPendingOK DEF Dropped
  <2>3. /\ ConnectionClosed(R, e).pending = Dropped(R, e)
        /\ ConnectionClosed(R, e).sessions = R.sessions
        /\ ConnectionClosed(R, e).dedicated = R.dedicated
        /\ ConnectionClosed(R, e).sessionOf = R.sessionOf
    BY <1>1, <2>1 DEF Registry
  <2> QED BY <1>4, <2>2, <2>3
<1> QED BY <1>2, <1>3, <1>4

\* DELETE: the session goes with its stream.
LEMMA DeleteOK ==
  ASSUME NEW R, RegistryOK(R), NEW s \in R.sessions \ {Stateless},
         Replaced(R, s) \cap R.dedicated = {}
  PROVE  LET D == [WithoutStream(R, s) EXCEPT !.sessions = @ \ {s}] IN
         /\ RegistryOK(D)
         /\ Streams(D) = Streams(R) \ Replaced(R, s)
         /\ SameStreams(R, D)
         /\ D.dedicated = R.dedicated
<1> DEFINE W == WithoutStream(R, s)
           D == [W EXCEPT !.sessions = @ \ {s}]
<1>1. /\ RegistryOK(W)
      /\ Streams(W) = Streams(R) \ Replaced(R, s)
      /\ SameStreams(R, W)
      /\ W.dedicated = R.dedicated
      /\ W.sessions = R.sessions
      /\ W.streamOf[s] = None
  BY WithoutStreamOK, Fields DEF RegistryOK
<1> HIDE DEF W
<1>2. W \in Registry
  BY <1>1 DEF RegistryOK
<1>3. D = [sessions |-> W.sessions \ {s}, streamOf |-> W.streamOf, sessionOf |-> W.sessionOf,
           dedicated |-> W.dedicated, pending |-> W.pending, keepAlive |-> W.keepAlive]
  <2>1. D = [W EXCEPT !.sessions = W.sessions \ {s}]
    OBVIOUS
  <2> HIDE DEF D
  <2> QED BY <1>2, <2>1 DEF Registry
<1>4. /\ D.sessions = W.sessions \ {s} /\ D.streamOf = W.streamOf
      /\ D.sessionOf = W.sessionOf /\ D.dedicated = W.dedicated
      /\ D.pending = W.pending /\ D.keepAlive = W.keepAlive
  BY <1>3
<1>5. D \in Registry
  <2>1. /\ W.sessions \ {s} \in SUBSET SessionIds
        /\ W.streamOf \in [SessionIds -> Exchanges \cup {None}]
        /\ W.sessionOf \in [Exchanges -> SessionIds \cup {None}]
        /\ W.dedicated \in SUBSET Exchanges
        /\ W.pending \in SUBSET Pending
        /\ W.keepAlive \in BOOLEAN
    BY <1>2, Fields
  <2> HIDE DEF D
  <2> QED BY <1>3, <2>1 DEF Registry
<1> HIDE DEF D
<1>6. Streams(D) = Streams(W)
  BY <1>4 DEF Streams
<1>7. RoutesOK(D) /\ PendingOK(D)
  BY <1>1, <1>4, <1>6 DEF RegistryOK, RoutesOK, PendingOK
<1>8. RegistryOK(D)
  BY <1>1, <1>4, <1>5, <1>6, <1>7 DEF RegistryOK
<1>9. SameStreams(R, D)
  BY <1>1, <1>4, <1>6 DEF SameStreams
<1> QED BY <1>1, <1>4, <1>6, <1>8, <1>9 DEF D, W

-----------------------------------------------------------------------------
(***************************************************************************)
(* The inductive invariant.                                                *)
(***************************************************************************)

\* The sessions the clients of pending requests will be told of.
Promised == {p.tells : p \in d.pending} \ {None}

\* A client can name only sessions made for a client of an older revision, so
\* neither the shared session nor one made for a subscription.
SessionsOK ==
  /\ Stateless \in minted /\ minted \subseteq SessionIds
  /\ d.sessions \subseteq minted
  /\ told \cup Promised \subseteq minted \ {Stateless}
  /\ \A e \in d.dedicated : d.sessionOf[e] \notin told \cup Promised

\* An internal id stands for one exchange, whether the core still owes the
\* answer or the backend still waits for it.
IdsOK ==
  /\ nextInternalId \in Nat
  /\ owed \subseteq Debt
  /\ \A q \in d.pending \cup owed : q.id < nextInternalId
  /\ \A debt \in owed, p \in d.pending : debt.id = p.id => debt.from = p.exchange

IInv ==
  /\ HttpOK
  /\ RegistryOK(d)
  /\ StreamsAreConnections
  /\ DeferredIsPending
  /\ SessionsOK
  /\ IdsOK
  /\ events \in [Exchanges -> SUBSET Event]

\* What the parts of IInv say of the registry and the base class.
LEMMA Tables ==
  ASSUME IInv
  PROVE  /\ RegistryOK(d) /\ d \in Registry
         /\ Streams(d) = sse
         /\ \A p \in d.pending : p \in Pending /\ p.exchange \in deferred
         /\ \A e \in Exchanges : e \notin Tracked =>
              e \notin Streams(d) /\ \A p \in d.pending : p.exchange # e
         /\ None \notin Exchanges \cup SessionIds
<1>1. RegistryOK(d) /\ d \in Registry /\ Streams(d) = sse
  BY DEF IInv, StreamsAreConnections, RegistryOK
<1>2. \A p \in d.pending : p \in Pending /\ p.exchange \in deferred
  BY <1>1, Fields DEF IInv, DeferredIsPending
<1> QED BY <1>1, <1>2, HttpAssumption, BackendAssumption DEF Tracked

\* A slot that leaves the tables as they are.
LEMMA Unmoved ==
  ASSUME IInv, HttpOK', deferred' = deferred, sse' = sse, d' = d,
         SessionsOK', IdsOK', events' \in [Exchanges -> SUBSET Event]
  PROVE  IInv'
<1>1. RegistryOK(d')
  BY DEF IInv
<1>2. StreamsAreConnections' /\ DeferredIsPending'
  BY DEF IInv, StreamsAreConnections, DeferredIsPending
<1> QED BY <1>1, <1>2 DEF IInv

\* A refused request preserves the invariant.
LEMMA RefusedOK ==
  ASSUME IInv, NEW k \in Sockets, NEW e \in Exchanges, NEW status \in Errors,
         Refused(k, e, status)
  PROVE  IInv'
<1>1. [status |-> status, to |-> None] \in Reply
  BY BackendAssumption DEF Reply
<1>2. HttpOK' /\ deferred' = deferred /\ sse' = sse
  BY <1>1, AnsweredAtOnceOK DEF Refused, IInv
<1>3. UNCHANGED <<d, nextInternalId, minted, told, owed, events>>
  BY DEF Refused
<1>4. SessionsOK' /\ IdsOK'
  BY <1>3 DEF IInv, SessionsOK, IdsOK, Promised
<1> QED BY <1>2, <1>3, <1>4, Unmoved DEF IInv

\* The session a request resolves to is one the registry will know.
LEMMA ResolvedOK ==
  ASSUME IInv, NEW kind \in Kinds, NEW s \in SessionIds, Resolved(kind, s)
  PROVE  /\ minted' = minted \cup {s}
         /\ kind \in {"listen", "initialize"} => s \notin minted /\ s # Stateless
         /\ kind = "legacy" => s \in told \cap d.sessions /\ s # Stateless
         /\ kind = "modern" => s = Stateless
BY DEF IInv, SessionsOK, Resolved, Creates, Kinds

\* Sessions made, told of and promised for one message keep to the invariant.
LEMMA SessionsKept ==
  ASSUME IInv, NEW kind \in Kinds, NEW s \in SessionIds, Resolved(kind, s),
         d'.sessions \subseteq d.sessions \cup {s},
         told' \cup Promised' \subseteq
           told \cup Promised \cup ({TellsOf(kind, s)} \ {None}),
         \A f \in d'.dedicated :
           \/ f \in d.dedicated /\ d'.sessionOf[f] = d.sessionOf[f]
           \/ kind = "listen" /\ d'.sessionOf[f] = s
  PROVE  SessionsOK'
<1>1. /\ minted' = minted \cup {s}
      /\ kind \in {"listen", "initialize"} => s \notin minted /\ s # Stateless
      /\ kind = "legacy" => s \in told \cap d.sessions /\ s # Stateless
  BY ResolvedOK
<1>2. /\ Stateless \in minted /\ minted \subseteq SessionIds /\ d.sessions \subseteq minted
      /\ told \cup Promised \subseteq minted \ {Stateless}
      /\ \A f \in d.dedicated : d.sessionOf[f] \notin told \cup Promised
  BY DEF IInv, SessionsOK
<1>3. \A f \in d.dedicated : d.sessionOf[f] \in minted
  BY <1>2, Tables, StreamsType DEF RegistryOK
<1>4. told' \cup Promised' \subseteq minted' \ {Stateless}
  BY <1>1, <1>2 DEF TellsOf
<1>5. \A f \in d'.dedicated : d'.sessionOf[f] \notin told' \cup Promised'
  BY <1>1, <1>2, <1>3 DEF TellsOf
<1> QED BY <1>1, <1>2, <1>4, <1>5 DEF SessionsOK

\* A client cannot reach the stream of a subscription.
LEMMA ReplacedIsNoSubscription ==
  ASSUME IInv, NEW s \in SessionIds, s \notin minted \/ s \in told
  PROVE  Replaced(d, s) \cap d.dedicated = {}
<1>1. RegistryOK(d) /\ d.sessions \subseteq minted
      /\ \A f \in d.dedicated : d.sessionOf[f] \notin told
  BY DEF IInv, SessionsOK
<1> QED BY <1>1 DEF Replaced, RegistryOK, RoutesOK

\* A posted notification preserves the invariant.
LEMMA PostNotificationOK ==
  ASSUME IInv, NEW k \in Sockets, NEW e \in Exchanges, NEW kind \in Kinds,
         NEW s \in SessionIds, PostNotification(k, e, kind, s)
  PROVE  IInv'
<1>1. /\ Resolved(kind, s)
      /\ AnsweredAtOnce(k, e, [status |-> 202, to |-> None])
      /\ d' = With(d, s)
      /\ told' = told \cup ({TellsOf(kind, s)} \ {None})
      /\ UNCHANGED <<nextInternalId, owed, events>>
  BY DEF PostNotification
<1>2. [status |-> 202, to |-> None] \in Reply
  BY DEF Reply
<1>3. HttpOK' /\ deferred' = deferred /\ sse' = sse
  BY <1>1, <1>2, AnsweredAtOnceOK DEF IInv
<1>4. /\ RegistryOK(d') /\ Streams(d') = Streams(d)
      /\ d'.sessions = d.sessions \cup {s} /\ d'.sessionOf = d.sessionOf
      /\ d'.dedicated = d.dedicated /\ d'.pending = d.pending
  BY <1>1, Tables, WithOK
<1>5. SessionsOK'
  BY <1>1, <1>4, SessionsKept DEF Promised
<1>6. IdsOK'
  BY <1>1, <1>4 DEF IInv, IdsOK
<1> QED BY <1>1, <1>3, <1>4, <1>5, <1>6 DEF IInv, StreamsAreConnections, DeferredIsPending

\* A posted request preserves the invariant.
LEMMA PostRequestOK ==
  ASSUME IInv, NEW k \in Sockets, NEW e \in Exchanges, NEW kind \in Kinds,
         NEW s \in SessionIds, PostRequest(k, e, kind, s)
  PROVE  IInv'
<1> DEFINE entry == [id |-> nextInternalId, exchange |-> e, tells |-> TellsOf(kind, s)]
<1>1. /\ Resolved(kind, s) /\ LeftOpen(k, e)
      /\ d' = Forwarded(With(d, s), entry)
      /\ HandedToCore(e, s)
      /\ UNCHANGED <<told, events>>
  BY DEF PostRequest
<1>2. HttpOK' /\ deferred' = deferred \cup {e} /\ sse' = sse /\ e \notin Tracked
  BY <1>1, LeftOpenOK DEF IInv
<1>3. /\ RegistryOK(With(d, s)) /\ Streams(With(d, s)) = Streams(d)
      /\ With(d, s).sessions = d.sessions \cup {s} /\ With(d, s).sessionOf = d.sessionOf
      /\ With(d, s).dedicated = d.dedicated /\ With(d, s).pending = d.pending
  BY Tables, WithOK
<1>4. nextInternalId \in Nat /\ (\A q \in d.pending \cup owed : q.id < nextInternalId)
      /\ owed \subseteq Debt
  BY DEF IInv, IdsOK
<1>5. /\ entry \in Pending /\ entry.id = nextInternalId /\ entry.exchange = e
      /\ entry.tells = TellsOf(kind, s)
  BY <1>4 DEF Pending, TellsOf
<1>6. \A q \in d.pending : q.id \in Nat
  BY Tables DEF Pending
<1> HIDE DEF entry
<1>7. \A q \in d.pending : q.id # entry.id /\ q.exchange # entry.exchange
  BY <1>2, <1>4, <1>5, <1>6, Tables
<1>8. entry.exchange \notin Streams(d)
  BY <1>2, <1>5, Tables
<1>9. /\ RegistryOK(d') /\ Streams(d') = Streams(d)
      /\ d'.pending = d.pending \cup {entry} /\ d'.sessions = d.sessions \cup {s}
      /\ d'.sessionOf = d.sessionOf /\ d'.dedicated = d.dedicated
  BY <1>1, <1>3, <1>5, <1>7, <1>8, ForwardedOK
<1>10. SessionsOK'
  BY <1>1, <1>5, <1>9, SessionsKept DEF Promised
<1>11. IdsOK'
  <2>1. nextInternalId' = nextInternalId + 1
    BY <1>1 DEF HandedToCore
  <2>2. PICK n \in 1 .. MaxAnswers : owed' = owed \cup
          {[id |-> nextInternalId, session |-> s, from |-> e, left |-> n]}
    BY <1>1 DEF HandedToCore
  <2> DEFINE new == [id |-> nextInternalId, session |-> s, from |-> e, left |-> n]
  <2>3. new \in Debt /\ new.id = nextInternalId /\ new.from = e
    BY <1>4 DEF Debt
  <2>4. owed' = owed \cup {new}
    BY <2>2
  <2>5. \A q \in owed : q.id \in Nat
    BY <1>4 DEF Debt
  <2> HIDE DEF new
  <2>6. \A q \in d'.pending \cup owed' : q.id < nextInternalId'
    BY <1>4, <1>5, <1>6, <1>9, <2>1, <2>3, <2>4, <2>5
  <2>7. \A debt \in owed', q \in d'.pending : debt.id = q.id => debt.from = q.exchange
    BY <1>4, <1>5, <1>6, <1>9, <2>3, <2>4, <2>5 DEF IInv, IdsOK
  <2> QED BY <1>4, <2>1, <2>3, <2>4, <2>6, <2>7 DEF IdsOK
<1>12. deferred' = {q.exchange : q \in d'.pending}
  BY <1>2, <1>5, <1>9 DEF IInv, DeferredIsPending
<1> QED BY <1>1, <1>2, <1>9, <1>10, <1>11, <1>12
        DEF IInv, StreamsAreConnections, DeferredIsPending

\* A posted subscription preserves the invariant.
LEMMA PostListenOK ==
  ASSUME IInv, NEW k \in Sockets, NEW e \in Exchanges, NEW kind \in Kinds,
         NEW s \in SessionIds, PostListen(k, e, kind, s)
  PROVE  IInv'
<1> DEFINE W == With(d, s)
<1>1. /\ kind \in {"listen", "legacy"} /\ Resolved(kind, s)
      /\ Upgraded(k, e, Replaced(W, s))
      /\ d' = OpenStream(W, e, s, kind = "listen")
      /\ nextInternalId' = nextInternalId + 1
      /\ UNCHANGED <<told, owed>>
  BY DEF PostListen
<1>2. events' \in [Exchanges -> SUBSET Event]
  BY DEF IInv, PostListen, Event
<1>3. /\ RegistryOK(W) /\ Streams(W) = Streams(d)
      /\ W.sessions = d.sessions \cup {s} /\ W.streamOf = d.streamOf
      /\ W.sessionOf = d.sessionOf /\ W.dedicated = d.dedicated /\ W.pending = d.pending
  BY Tables, WithOK
<1>4. HttpOK' /\ deferred' = deferred /\ sse' = (sse \ Replaced(W, s)) \cup {e}
      /\ e \notin Tracked
  BY <1>1, UpgradedOK DEF IInv
<1>5. (s \notin minted \/ s \in told) /\ s # Stateless
  BY <1>1, ResolvedOK
<1>6. Replaced(W, s) = {d.streamOf[s]} \ {None}
  BY <1>3 DEF Replaced
<1>7. Replaced(W, s) = Replaced(d, s)
  BY <1>6, Tables DEF Replaced, RegistryOK, RoutesOK
<1> HIDE DEF W
<1>8. Replaced(W, s) \cap W.dedicated = {}
  BY <1>3, <1>5, <1>7, ReplacedIsNoSubscription
<1>9. e \notin Streams(W) /\ (\A p \in W.pending : p.exchange # e)
      /\ s \in W.sessions \ {Stateless}
  BY <1>3, <1>4, <1>5, Tables
<1>10. /\ RegistryOK(d')
       /\ Streams(d') = (Streams(d) \ Replaced(W, s)) \cup {e}
       /\ d'.pending = d.pending /\ d'.sessions = d.sessions \cup {s}
       /\ d'.dedicated = d.dedicated \cup (IF kind = "listen" THEN {e} ELSE {})
       /\ d'.sessionOf[e] = s
       /\ \A f \in Streams(d) \ Replaced(W, s) : d'.sessionOf[f] = d.sessionOf[f]
  <2> DEFINE b == kind = "listen"
             O == OpenStream(W, e, s, b)
  <2>1. b \in BOOLEAN /\ d' = O
    BY <1>1
  <2>2. IF b THEN kind = "listen" ELSE kind # "listen"
    OBVIOUS
  <2> HIDE DEF b
  <2>3. /\ RegistryOK(O)
        /\ Streams(O) = (Streams(W) \ Replaced(W, s)) \cup {e}
        /\ O.pending = W.pending /\ O.sessions = W.sessions
        /\ O.dedicated = W.dedicated \cup (IF b THEN {e} ELSE {})
        /\ O.sessionOf[e] = s
        /\ \A f \in Streams(W) \ Replaced(W, s) : O.sessionOf[f] = W.sessionOf[f]
    BY <1>3, <1>8, <1>9, <2>1, OpenStreamOK
  <2>4. (IF b THEN {e} ELSE {}) = (IF kind = "listen" THEN {e} ELSE {})
    BY <2>2
  <2> HIDE DEF O
  <2> QED BY <1>3, <2>1, <2>3, <2>4
<1>11. \A f \in d.dedicated : f \in Streams(d) \ Replaced(W, s)
  BY <1>3, <1>8, Tables DEF RegistryOK
<1>12. SessionsOK'
  <2>1. \A f \in d'.dedicated :
           \/ f \in d.dedicated /\ d'.sessionOf[f] = d.sessionOf[f]
           \/ kind = "listen" /\ d'.sessionOf[f] = s
    BY <1>10, <1>11
  <2>2. told' \cup Promised' = told \cup Promised
    BY <1>1, <1>10 DEF Promised
  <2> QED BY <1>1, <1>10, <2>1, <2>2, SessionsKept
<1>13. IdsOK'
  <2>1. \A q \in d.pending \cup owed : q.id \in Nat
    BY Tables DEF IInv, IdsOK, Pending, Debt
  <2> QED BY <1>1, <1>10, <2>1 DEF IInv, IdsOK
<1>14. Streams(d') = sse' /\ deferred' = {p.exchange : p \in d'.pending}
  BY <1>4, <1>10, Tables DEF IInv, DeferredIsPending
<1> QED BY <1>2, <1>4, <1>10, <1>12, <1>13, <1>14
        DEF IInv, StreamsAreConnections, DeferredIsPending

\* A GET that opens a stream preserves the invariant.
LEMMA GetStreamOK ==
  ASSUME IInv, NEW k \in Sockets, NEW e \in Exchanges, NEW s \in SessionIds,
         GetStream(k, e, s)
  PROVE  IInv'
<1>1. /\ Resolved("legacy", s) /\ Upgraded(k, e, Replaced(d, s))
      /\ d' = OpenStream(d, e, s, FALSE)
      /\ UNCHANGED <<nextInternalId, told, owed, events>>
  BY DEF GetStream
<1>2. "legacy" \in Kinds
  BY DEF Kinds
<1>3. s \in told /\ s \in d.sessions \ {Stateless}
  BY <1>1, <1>2, ResolvedOK
<1>4. HttpOK' /\ deferred' = deferred /\ sse' = (sse \ Replaced(d, s)) \cup {e}
      /\ e \notin Tracked
  BY <1>1, UpgradedOK DEF IInv
<1>5. Replaced(d, s) \cap d.dedicated = {}
  BY <1>3, ReplacedIsNoSubscription
<1>6. /\ RegistryOK(d')
      /\ Streams(d') = (Streams(d) \ Replaced(d, s)) \cup {e}
      /\ d'.pending = d.pending /\ d'.sessions = d.sessions
      /\ d'.dedicated = d.dedicated
      /\ \A f \in Streams(d) \ Replaced(d, s) : d'.sessionOf[f] = d.sessionOf[f]
  <2> DEFINE b == FALSE
             O == OpenStream(d, e, s, b)
  <2>4. b \in BOOLEAN /\ b = FALSE /\ d' = O
    BY <1>1
  <2> HIDE DEF b
  <2>1. e \notin Streams(d) /\ (\A p \in d.pending : p.exchange # e) /\ RegistryOK(d)
    BY <1>4, Tables
  <2>2. /\ RegistryOK(O)
        /\ Streams(O) = (Streams(d) \ Replaced(d, s)) \cup {e}
        /\ O.pending = d.pending /\ O.sessions = d.sessions
        /\ O.dedicated = d.dedicated \cup (IF b THEN {e} ELSE {})
        /\ \A f \in Streams(d) \ Replaced(d, s) : O.sessionOf[f] = d.sessionOf[f]
    BY <1>3, <1>5, <2>1, <2>4, OpenStreamOK
  <2> HIDE DEF O
  <2> QED BY <2>2, <2>4
<1>7. SessionsOK'
  <2>1. \A f \in d'.dedicated : f \in d.dedicated /\ d'.sessionOf[f] = d.sessionOf[f]
    BY <1>5, <1>6, Tables DEF RegistryOK
  <2>2. told' \cup Promised' = told \cup Promised
    BY <1>1, <1>6 DEF Promised
  <2> QED BY <1>1, <1>2, <1>6, <2>1, <2>2, SessionsKept
<1>8. IdsOK'
  BY <1>1, <1>6 DEF IInv, IdsOK
<1>9. Streams(d') = sse' /\ deferred' = {p.exchange : p \in d'.pending}
  BY <1>4, <1>6, Tables DEF IInv, DeferredIsPending
<1> QED BY <1>1, <1>4, <1>6, <1>7, <1>8, <1>9
        DEF IInv, StreamsAreConnections, DeferredIsPending

\* A DELETE of a session preserves the invariant.
LEMMA DeleteSessionOK ==
  ASSUME IInv, NEW k \in Sockets, NEW e \in Exchanges, NEW s \in SessionIds,
         DeleteSession(k, e, s)
  PROVE  IInv'
<1>1. /\ Resolved("legacy", s)
      /\ AnsweredClosing(k, e, Replaced(d, s), [status |-> 200, to |-> None])
      /\ d' = [WithoutStream(d, s) EXCEPT !.sessions = @ \ {s}]
      /\ UNCHANGED <<nextInternalId, told, owed, events>>
  BY DEF DeleteSession
<1>2. "legacy" \in Kinds /\ [status |-> 200, to |-> None] \in Reply
  BY DEF Kinds, Reply
<1>3. s \in told /\ s \in d.sessions \ {Stateless}
  BY <1>1, <1>2, ResolvedOK
<1>4. HttpOK' /\ deferred' = deferred /\ sse' = sse \ Replaced(d, s)
  BY <1>1, <1>2, AnsweredClosingOK DEF IInv
<1>5. Replaced(d, s) \cap d.dedicated = {}
  BY <1>3, ReplacedIsNoSubscription
<1>6. /\ RegistryOK(d') /\ Streams(d') = Streams(d) \ Replaced(d, s)
      /\ SameStreams(d, d') /\ d'.dedicated = d.dedicated
  BY <1>1, <1>3, <1>5, DeleteOK, Tables
<1>7. /\ d'.pending = d.pending /\ d'.sessions \subseteq d.sessions
      /\ \A f \in d'.dedicated : d'.sessionOf[f] = d.sessionOf[f]
  BY <1>6 DEF SameStreams, RegistryOK
<1>8. SessionsOK'
  <2>1. told' \cup Promised' = told \cup Promised
    BY <1>1, <1>7 DEF Promised
  <2> QED BY <1>1, <1>2, <1>6, <1>7, <2>1, SessionsKept
<1>9. IdsOK'
  BY <1>1, <1>7 DEF IInv, IdsOK
<1>10. Streams(d') = sse' /\ deferred' = {p.exchange : p \in d'.pending}
  BY <1>4, <1>6, <1>7, Tables DEF IInv, DeferredIsPending
<1> QED BY <1>1, <1>4, <1>6, <1>8, <1>9, <1>10
        DEF IInv, StreamsAreConnections, DeferredIsPending

\* What is written on the stream of a session keeps to the type of the events.
LEMMA RoutedOK ==
  ASSUME IInv, NEW s \in SessionIds, NEW event \in Event, Routed(s, event)
  PROVE  events' \in [Exchanges -> SUBSET Event]
<1>1. events \in [Exchanges -> SUBSET Event] /\ sse \subseteq Exchanges
  BY DEF IInv, HttpOK, HttpTypeOK
<1>2. CASE s \in d.sessions /\ d.streamOf[s] \in sse
  BY <1>1, <1>2 DEF Routed
<1>3. CASE ~(s \in d.sessions /\ d.streamOf[s] \in sse)
  BY <1>1, <1>3 DEF Routed
<1> QED BY <1>2, <1>3

\* An answer of the core leaves all but its debt alone.
LEMMA PaidOK ==
  ASSUME IInv, NEW debt \in owed, Paid(debt)
  PROVE  /\ owed' \subseteq Debt
         /\ \A q \in owed' : \E r \in owed : q.id = r.id /\ q.from = r.from
<1>1. owed \subseteq Debt /\ debt \in Debt
  BY DEF IInv, IdsOK
<1>2. CASE debt.left > 1
  <2> DEFINE rest == [debt EXCEPT !.left = debt.left - 1]
  <2>1. owed' = (owed \ {debt}) \cup {rest}
    BY <1>2 DEF Paid
  <2>2. rest \in Debt /\ rest.id = debt.id /\ rest.from = debt.from
    BY <1>1, <1>2, BackendAssumption DEF Debt
  <2> HIDE DEF rest
  <2> QED BY <1>1, <2>1, <2>2
<1>3. CASE ~(debt.left > 1)
  BY <1>1, <1>3 DEF Paid
<1> QED BY <1>2, <1>3

\* A late answer preserves the invariant.
LEMMA CoreAnswersLateOK ==
  ASSUME IInv, NEW debt \in owed, CoreAnswersLate(debt)
  PROVE  IInv'
<1>1. /\ Routed(debt.session, [kind |-> "response", from |-> debt.from])
      /\ Paid(debt)
      /\ UNCHANGED <<socket, socketOf, deferred, sse, replies,
                     d, nextInternalId, minted, told>>
  BY DEF CoreAnswersLate, httpVars
<1>2. debt \in Debt
  BY DEF IInv, IdsOK
<1>3. debt.session \in SessionIds /\ [kind |-> "response", from |-> debt.from] \in Event
  BY <1>2 DEF Debt, Event
<1>4. events' \in [Exchanges -> SUBSET Event]
  BY <1>1, <1>3, RoutedOK
<1>5. HttpOK'
  BY <1>1 DEF IInv, HttpOK, HttpTypeOK, FreshIsUntouched, AnswerReachesItsCaller, Tracked,
              OnePerConnection, ClosedConnectionsAreForgotten
<1>6. SessionsOK'
  BY <1>1 DEF IInv, SessionsOK, Promised
<1>7. IdsOK'
  BY <1>1, PaidOK DEF IInv, IdsOK
<1> QED BY <1>1, <1>4, <1>5, <1>6, <1>7, Unmoved

\* An answer to a pending request preserves the invariant.
LEMMA CoreAnswersPendingOK ==
  ASSUME IInv, NEW debt \in owed, NEW p \in d.pending, CoreAnswersPending(debt, p)
  PROVE  IInv'
<1> DEFINE P == {q \in d.pending : q.id # debt.id}
<1>1. /\ p.id = debt.id
      /\ d' = [d EXCEPT !.pending = P]
      /\ Completed(p.exchange, [status |-> 200, to |-> debt.from])
      /\ told' = told \cup ({p.tells} \ {None})
      /\ Paid(debt)
      /\ UNCHANGED <<nextInternalId, minted, events>>
  BY DEF CoreAnswersPending
<1>2. debt \in Debt /\ debt.from = p.exchange
  BY <1>1 DEF IInv, IdsOK
<1>3. p.exchange \in deferred /\ [status |-> 200, to |-> debt.from] \in Reply
  BY <1>2, Tables DEF Debt, Reply
<1>4. HttpOK' /\ deferred' = deferred \ {p.exchange} /\ sse' = sse
  BY <1>1, <1>2, <1>3, CompletedOK DEF IInv
<1>5. P = d.pending \ {p}
  BY <1>1, Tables DEF RegistryOK, PendingOK
<1> HIDE DEF P
<1>6. /\ d'.pending = P /\ d'.sessions = d.sessions /\ d'.dedicated = d.dedicated
      /\ d'.sessionOf = d.sessionOf
  BY <1>1, Tables DEF Registry
<1>7. RegistryOK(d') /\ Streams(d') = Streams(d)
  BY <1>1, <1>5, FewerPendingOK, Tables
<1>8. SessionsOK'
  <2>1. told' \cup Promised' = told \cup Promised
    BY <1>1, <1>5, <1>6 DEF Promised
  <2> QED BY <1>1, <1>6, <2>1 DEF IInv, SessionsOK
<1>9. IdsOK'
  BY <1>1, <1>5, <1>6, PaidOK DEF IInv, IdsOK
<1>10. deferred' = {q.exchange : q \in d'.pending}
  BY <1>4, <1>5, <1>6, Tables DEF IInv, DeferredIsPending, RegistryOK, PendingOK
<1> QED BY <1>1, <1>4, <1>7, <1>8, <1>9, <1>10
        DEF IInv, StreamsAreConnections, DeferredIsPending

\* A message of the core's own preserves the invariant.
LEMMA CoreSendsOK ==
  ASSUME IInv, NEW s \in SessionIds, CoreSends(s)
  PROVE  IInv'
<1>1. /\ Routed(s, [kind |-> "message", from |-> None])
      /\ UNCHANGED <<socket, socketOf, deferred, sse, replies,
                     d, nextInternalId, minted, told, owed>>
  BY DEF CoreSends, httpVars
<1>2. events' \in [Exchanges -> SUBSET Event]
  BY <1>1, RoutedOK DEF Event
<1>3. HttpOK'
  BY <1>1 DEF IInv, HttpOK, HttpTypeOK, FreshIsUntouched, AnswerReachesItsCaller, Tracked,
              OnePerConnection, ClosedConnectionsAreForgotten
<1>4. SessionsOK' /\ IdsOK'
  BY <1>1 DEF IInv, SessionsOK, IdsOK, Promised
<1> QED BY <1>1, <1>2, <1>3, <1>4, Unmoved

\* A tick of the timer preserves the invariant.
LEMMA KeepAliveTickOK ==
  ASSUME IInv, KeepAliveTick
  PROVE  IInv'
<1>1. UNCHANGED <<socket, socketOf, deferred, sse, replies,
                  d, nextInternalId, minted, told, owed>>
  BY DEF KeepAliveTick, httpVars
<1>2. events' \in [Exchanges -> SUBSET Event]
  BY DEF IInv, KeepAliveTick, Event
<1>3. HttpOK'
  BY <1>1 DEF IInv, HttpOK, HttpTypeOK, FreshIsUntouched, AnswerReachesItsCaller, Tracked,
              OnePerConnection, ClosedConnectionsAreForgotten
<1>4. SessionsOK' /\ IdsOK'
  BY <1>1 DEF IInv, SessionsOK, IdsOK, Promised
<1> QED BY <1>1, <1>2, <1>3, <1>4, Unmoved

\* A disconnect preserves the invariant.
LEMMA DisconnectOK ==
  ASSUME IInv, NEW k \in Sockets, Disconnect(k)
  PROVE  IInv'
<1>1. PICK e \in Exchanges \cup {None}, f \in Exchanges \cup {None} :
        /\ Disconnected(k, e, f)
        /\ d' = ConnectionClosed(ConnectionClosed(d, e), f)
        /\ UNCHANGED <<nextInternalId, minted, told, owed, events>>
  BY DEF Disconnect
<1>2. /\ HttpOK' /\ deferred' = deferred \ {e} /\ sse' = sse \ {f}
      /\ e # None => e \in deferred
      /\ f # None => f \in sse
  BY <1>1, DisconnectedOK DEF IInv
<1>3. deferred \cap sse = {} /\ None \notin sse
  BY HttpAssumption DEF IInv, HttpOK, HttpTypeOK
<1> DEFINE C == ConnectionClosed(d, e)
<1>4. /\ RegistryOK(C) /\ Streams(C) = Streams(d) \ {e}
      /\ C.pending = Dropped(d, e) /\ C.sessions \subseteq d.sessions
      /\ C.dedicated \subseteq d.dedicated
      /\ \A g \in Streams(d) \ {e} : C.sessionOf[g] = d.sessionOf[g]
  BY ConnectionClosedOK, Tables
<1> HIDE DEF C
<1>5. /\ RegistryOK(d') /\ Streams(d') = Streams(C) \ {f}
      /\ d'.pending = Dropped(C, f) /\ d'.sessions \subseteq C.sessions
      /\ d'.dedicated \subseteq C.dedicated
      /\ \A g \in Streams(C) \ {f} : d'.sessionOf[g] = C.sessionOf[g]
  BY <1>1, <1>4, ConnectionClosedOK DEF C
<1>6. Streams(d) \ {e} = Streams(d)
  BY <1>2, <1>3, Tables
<1>7. Dropped(C, f) = Dropped(d, e)
  <2>1. \A p \in d.pending : p.exchange # f
    BY <1>2, <1>3, Tables DEF Pending
  <2> QED BY <1>4, <2>1 DEF Dropped
<1>8. Streams(d') = sse'
  BY <1>2, <1>4, <1>5, <1>6, Tables
<1>9. deferred' = {p.exchange : p \in d'.pending}
  BY <1>2, <1>5, <1>7 DEF Dropped, IInv, DeferredIsPending
<1>10. SessionsOK'
  <2>1. told' = told /\ Promised' \subseteq Promised /\ minted' = minted
        /\ d'.sessions \subseteq d.sessions
    BY <1>1, <1>4, <1>5, <1>7 DEF Promised, Dropped
  <2>2. \A g \in d'.dedicated : g \in d.dedicated /\ d'.sessionOf[g] = d.sessionOf[g]
    BY <1>4, <1>5, <1>6 DEF RegistryOK
  <2> QED BY <2>1, <2>2 DEF IInv, SessionsOK
<1>11. IdsOK'
  BY <1>1, <1>5, <1>7 DEF Dropped, IInv, IdsOK
<1> QED BY <1>1, <1>2, <1>5, <1>8, <1>9, <1>10, <1>11
        DEF IInv, StreamsAreConnections, DeferredIsPending

-----------------------------------------------------------------------------
(***************************************************************************)
(* Theorems.                                                               *)
(***************************************************************************)

\* The invariant holds before the first connection.
LEMMA InitOK == Init => IInv
<1> SUFFICES ASSUME Init PROVE IInv
  OBVIOUS
<1>1. /\ deferred = {} /\ sse = {} /\ told = {} /\ owed = {} /\ minted = {Stateless}
      /\ socketOf = [e \in Exchanges |-> None]
      /\ replies = [e \in Exchanges |-> <<>>]
      /\ socket = [k \in Sockets |-> "open"]
      /\ nextInternalId = 0 /\ events = [e \in Exchanges |-> {}]
      /\ d = [sessions  |-> {Stateless},
              streamOf  |-> [s \in SessionIds |-> None],
              sessionOf |-> [e \in Exchanges |-> None],
              dedicated |-> {},
              pending   |-> {},
              keepAlive |-> FALSE]
  BY DEF Init, HttpInit
<1>2. HttpOK
  <2>1. HttpTypeOK
    BY <1>1 DEF HttpTypeOK
  <2>2. \A e \in Exchanges : replies[e] = <<>>
    BY <1>1
  <2>3. AnswerReachesItsCaller
    BY <2>2 DEF AnswerReachesItsCaller
  <2> QED BY <1>1, <2>1, <2>3
          DEF HttpOK, FreshIsUntouched, Tracked, OnePerConnection, ClosedConnectionsAreForgotten
<1>3. d \in Registry
  BY <1>1, BackendAssumption DEF Registry
<1>4. /\ d.sessions = {Stateless} /\ d.dedicated = {} /\ d.pending = {} /\ d.keepAlive = FALSE
      /\ \A s \in SessionIds : d.streamOf[s] = None
      /\ \A e \in Exchanges : d.sessionOf[e] = None
  BY <1>1
<1>5. Streams(d) = {}
  BY <1>4 DEF Streams
<1>6. RegistryOK(d)
  BY <1>3, <1>4, <1>5, BackendAssumption DEF RegistryOK, RoutesOK, PendingOK
<1>7. StreamsAreConnections /\ DeferredIsPending
  BY <1>1, <1>4, <1>5 DEF StreamsAreConnections, DeferredIsPending
<1>8. SessionsOK /\ IdsOK
  BY <1>1, <1>4, BackendAssumption DEF SessionsOK, IdsOK, Promised
<1> QED BY <1>1, <1>2, <1>6, <1>7, <1>8 DEF IInv

\* Every slot, message of the core, tick and disconnect keeps the invariant.
LEMMA StepOK == IInv /\ [Next]_vars => IInv'
<1> SUFFICES ASSUME IInv, [Next]_vars PROVE IInv'
  OBVIOUS
<1>1. CASE UNCHANGED vars
  <2>1. UNCHANGED <<socket, socketOf, deferred, sse, replies,
                    d, nextInternalId, minted, told, owed, events>>
    BY <1>1 DEF vars, httpVars
  <2>2. HttpOK'
    BY <2>1 DEF IInv, HttpOK, HttpTypeOK, FreshIsUntouched, AnswerReachesItsCaller, Tracked,
                OnePerConnection, ClosedConnectionsAreForgotten
  <2>3. SessionsOK' /\ IdsOK'
    BY <2>1 DEF IInv, SessionsOK, IdsOK, Promised
  <2> QED BY <2>1, <2>2, <2>3, Unmoved DEF IInv
<1>2. CASE Slots
  <2>1. PICK k \in Sockets, e \in Exchanges :
          \/ \E status \in Errors : Refused(k, e, status)
          \/ \E s \in SessionIds :
               \/ \E kind \in Kinds :
                    \/ PostNotification(k, e, kind, s)
                    \/ PostRequest(k, e, kind, s)
                    \/ PostListen(k, e, kind, s)
               \/ GetStream(k, e, s)
               \/ DeleteSession(k, e, s)
    BY <1>2 DEF Slots
  <2> QED BY <2>1, RefusedOK, PostNotificationOK, PostRequestOK, PostListenOK, GetStreamOK,
             DeleteSessionOK
<1>3. CASE Core
  <2>1. CASE \E e \in Exchanges : CoreAnswers(e)
    BY <2>1, CoreAnswersLateOK, CoreAnswersPendingOK DEF CoreAnswers
  <2>2. CASE \E s \in SessionIds : CoreSends(s)
    BY <2>2, CoreSendsOK
  <2> QED BY <1>3, <2>1, <2>2 DEF Core
<1>4. CASE KeepAliveTick
  BY <1>4, KeepAliveTickOK
<1>5. CASE \E k \in Sockets : Disconnect(k)
  BY <1>5, DisconnectOK
<1> QED BY <1>1, <1>2, <1>3, <1>4, <1>5 DEF Next

\* The tables of the backend, of its base class and of the core's outstanding
\* answers stay consistent in every execution.
THEOREM Invariance == Spec => []IInv
<1>1. Init => IInv
  BY InitOK
<1>2. IInv /\ [Next]_vars => IInv'
  BY StepOK
<1> QED BY <1>1, <1>2, PTL DEF Spec

\* Every variable keeps its type, and internal ids are never reused.
THEOREM TypeCorrect == Spec => []TypeOK
<1>1. IInv => TypeOK
  BY DEF IInv, TypeOK, HttpOK, RegistryOK, SessionsOK, IdsOK
<1> QED BY <1>1, Invariance, PTL

\* HttpServer and its base class name the same streams.
THEOREM StreamsMatch == Spec => []StreamsAreConnections
<1>1. IInv => StreamsAreConnections
  BY DEF IInv
<1> QED BY <1>1, Invariance, PTL

\* A stream that was replaced, closed or deleted is not routed to, and one that
\* is open is the stream of its session.
THEOREM RoutesMatch == Spec => []RoutesAgree
<1>1. IInv => RoutesAgree
  BY DEF IInv, RegistryOK, RoutesOK, RoutesAgree
<1> QED BY <1>1, Invariance, PTL

\* The keep-alive timer runs exactly while a stream is open.
THEOREM KeepAliveRuns == Spec => []KeepAliveWhileStreaming
<1>1. IInv => KeepAliveWhileStreaming
  BY DEF IInv, RegistryOK, KeepAliveWhileStreaming
<1> QED BY <1>1, Invariance, PTL

\* An HTTP response is left open exactly for the requests that are pending.
THEOREM DeferredMatches == Spec => []DeferredIsPending
<1>1. IInv => DeferredIsPending
  BY DEF IInv
<1> QED BY <1>1, Invariance, PTL

\* Whatever JSON-RPC ids clients choose, and however often the core answers, an
\* exchange gets at most one response and never that of another request.
THEOREM AnswersReachTheirCallers == Spec => []AnswerReachesItsCaller
<1>1. IInv => AnswerReachesItsCaller
  BY DEF IInv, HttpOK
<1> QED BY <1>1, Invariance, PTL

\* No client gets hold of the session all clients of 2026-07-28 share.
THEOREM SharedSessionStays == Spec => []StatelessIsShared
<1>1. IInv => StatelessIsShared
  BY DEF IInv, RegistryOK, SessionsOK, StatelessIsShared
<1> QED BY <1>1, Invariance, PTL

\* When no client pipelines, handleDisconnected() leaves nothing behind: the one
\* entry key() finds is the only one.
THEOREM ClosedAreForgotten ==
  ASSUME ~Pipelining
  PROVE  Spec => []ClosedConnectionsAreForgotten
<1>1. IInv => ClosedConnectionsAreForgotten
  BY DEF IInv, HttpOK
<1> QED BY <1>1, Invariance, PTL

\* Every step that takes a stream out of use closes its connection.
LEMMA StreamsEnd ==
  ASSUME IInv, [Next]_vars
  PROVE  [\A e \in sse \ sse' : socket'[socketOf[e]] # "open"]_vars
<1> DEFINE Ends == \A e \in sse \ sse' : socket'[socketOf[e]] # "open"
<1>1. HttpTypeOK /\ \A e \in sse : e \in Exchanges /\ socketOf[e] \in Sockets
  BY DEF IInv, HttpOK, HttpTypeOK, FreshIsUntouched, Tracked
<1>2. ASSUME NEW closed, Closing(closed), sse \ sse' \subseteq closed PROVE Ends
  BY <1>1, <1>2, ClosingOK
<1>3. (sse' = sse) => Ends
  OBVIOUS
<1>4. ASSUME NEW k \in Sockets, Disconnect(k) PROVE Ends
  <2>1. PICK e \in Exchanges \cup {None}, f \in Exchanges \cup {None} : Disconnected(k, e, f)
    BY <1>4 DEF Disconnect
  <2>2. \A g \in sse \ sse' : socket'[socketOf[g]] = "closed"
    BY <2>1, DisconnectedOK DEF IInv
  <2> QED BY <2>2
<1>5. ASSUME NEW k \in Sockets, NEW e \in Exchanges, NEW s \in SessionIds,
             GetStream(k, e, s) \/ DeleteSession(k, e, s)
      PROVE  Ends
  BY <1>2, <1>5 DEF GetStream, DeleteSession, Upgraded, AnsweredClosing
<1>6. ASSUME NEW k \in Sockets, NEW e \in Exchanges, NEW s \in SessionIds, NEW kind \in Kinds,
             PostListen(k, e, kind, s)
      PROVE  Ends
  BY <1>2, <1>6 DEF PostListen, Upgraded
<1>7. ASSUME NEW k \in Sockets, NEW e \in Exchanges, NEW s \in SessionIds, NEW kind \in Kinds,
             PostNotification(k, e, kind, s) \/ PostRequest(k, e, kind, s)
      PROVE  Ends
  BY <1>3, <1>7 DEF PostNotification, PostRequest, AnsweredAtOnce, LeftOpen
<1>8. ASSUME NEW k \in Sockets, NEW e \in Exchanges, NEW status, Refused(k, e, status)
      PROVE  Ends
  BY <1>3, <1>8 DEF Refused, AnsweredAtOnce
<1>9. ASSUME Core \/ KeepAliveTick PROVE Ends
  BY <1>3, <1>9 DEF Core, CoreAnswers, CoreAnswersLate, CoreAnswersPending, Completed, CoreSends,
                    KeepAliveTick, httpVars
<1> HIDE DEF Ends
<1>10. Next => Ends
  BY <1>4, <1>5, <1>6, <1>7, <1>8, <1>9 DEF Next, Slots
<1> QED BY <1>10 DEF Ends

\* The client of a stream that is replaced, deleted or closed sees it end.
THEOREM StreamsAreSeenToEnd == Spec => StreamsEndVisibly
<1>1. IInv /\ [Next]_vars => [\A e \in sse \ sse' : socket'[socketOf[e]] # "open"]_vars
  BY StreamsEnd
<1> QED BY <1>1, Invariance, PTL DEF Spec, StreamsEndVisibly
=============================================================================

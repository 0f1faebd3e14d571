----------------------- MODULE StreamableHttpRefinement -----------------------
(***************************************************************************)
(* The HTTP backend on its base class implements HttpExchanges, for every  *)
(* number of connections, exchanges and sessions: one lemma for each       *)
(* operator of the base class, which the slots are made of.                *)
(***************************************************************************)
EXTENDS StreamableHttpServerProofs

Callers(r) == [i \in DOMAIN r |-> r[i].to]

\* What a step may do to exchange e, in terms of the tables and responses.
\* The action formulas of HttpExchanges, on the mapped variables.
Course(e) ==
  \/ /\ PhaseOf(e) = "new" /\ PhaseOf(e)' \in {"waiting", "streaming"}
     /\ replies'[e] = replies[e]
  \/ /\ PhaseOf(e) = "new" /\ PhaseOf(e)' = "answered"
     /\ replies[e] = <<>> /\ \E reply : reply.to = None /\ replies'[e] = <<reply>>
  \/ /\ PhaseOf(e) = "waiting" /\ PhaseOf(e)' = "answered"
     /\ replies[e] = <<>> /\ \E reply : reply.to = e /\ replies'[e] = <<reply>>
  \/ /\ PhaseOf(e) \in {"waiting", "streaming"} /\ PhaseOf(e)' = "over"
     /\ replies'[e] = replies[e]
  \/ PhaseOf(e)' = PhaseOf(e) /\ replies'[e] = replies[e]

\* Of a sequence of no or one reply, the exchanges it answers.
LEMMA CallersOf ==
  ASSUME NEW reply
  PROVE  /\ Callers(<<>>) = <<>>
         /\ Callers(<<reply>>) = <<reply.to>>
         /\ Callers(<<reply>>) = Append(Callers(<<>>), reply.to)
<1>1. Callers(<<>>) = <<>>
  BY DEF Callers
<1>2. Callers(<<reply>>) = <<reply.to>>
  BY DEF Callers
<1>3. Append(<<>>, reply.to) = <<reply.to>>
  OBVIOUS
<1> QED BY <1>1, <1>2, <1>3

\* A course is a step of the abstract specification.
LEMMA CourseIsAbstract ==
  ASSUME NEW e \in Exchanges, Course(e)
  PROVE  Exchange!Begins(e) \/ Exchange!Refused(e) \/ Exchange!Answered(e)
           \/ Exchange!Ends(e) \/ Exchange!Stays(e)
<1> DEFINE phase == [f \in Exchanges |-> PhaseOf(f)]
           response == [f \in Exchanges |-> Callers(replies[f])]
<1>1. phase[e] = PhaseOf(e) /\ phase'[e] = PhaseOf(e)'
  OBVIOUS
<1>2. response[e] = Callers(replies[e]) /\ response'[e] = Callers(replies'[e])
  OBVIOUS
<1>3. response = [f \in Exchanges |-> [i \in DOMAIN replies[f] |-> replies[f][i].to]]
  BY DEF Callers
<1>4. response' = [f \in Exchanges |-> [i \in DOMAIN replies'[f] |-> replies'[f][i].to]]
  BY DEF Callers
<1> HIDE DEF phase, response
<1>5. (\E reply : replies[e] = <<>> /\ reply.to = None /\ replies'[e] = <<reply>>)
        => response'[e] = Append(response[e], None)
  BY <1>2, CallersOf
<1>6. (\E reply : replies[e] = <<>> /\ reply.to = e /\ replies'[e] = <<reply>>)
        => response'[e] = Append(response[e], e)
  BY <1>2, CallersOf
<1>7. replies'[e] = replies[e] => response'[e] = response[e]
  BY <1>2
<1>8. \/ phase[e] = "new" /\ phase'[e] \in {"waiting", "streaming"} /\ response'[e] = response[e]
      \/ phase[e] = "new" /\ phase'[e] = "answered" /\ response'[e] = Append(response[e], None)
      \/ phase[e] = "waiting" /\ phase'[e] = "answered" /\ response'[e] = Append(response[e], e)
      \/ /\ phase[e] \in {"waiting", "streaming"} /\ phase'[e] = "over"
         /\ response'[e] = response[e]
      \/ phase'[e] = phase[e] /\ response'[e] = response[e]
  BY <1>1, <1>5, <1>6, <1>7 DEF Course
<1> QED
  BY <1>3, <1>4, <1>8
     DEF phase, Exchange!Begins, Exchange!Refused, Exchange!Answered, Exchange!Ends, Exchange!Stays

-----------------------------------------------------------------------------
(***************************************************************************)
(* The operators of the base class.                                        *)
(***************************************************************************)

\* An exchange no operator touches stays where it is.
LEMMA Untouched ==
  ASSUME NEW f \in Exchanges, socketOf'[f] = None <=> socketOf[f] = None,
         f \in deferred' <=> f \in deferred, f \in sse' <=> f \in sse,
         replies'[f] = replies[f]
  PROVE  Course(f)
BY DEF Course, PhaseOf

\* What HttpOK says of one exchange.
LEMMA Tabled ==
  ASSUME HttpOK, NEW f \in Exchanges
  PROVE  /\ f \in deferred \cup sse => socketOf[f] # None /\ replies[f] = <<>>
         /\ ~(f \in deferred /\ f \in sse)
         /\ socketOf[f] = None => replies[f] = <<>>
         /\ f # None
BY HttpAssumption DEF HttpOK, FreshIsUntouched, AnswerReachesItsCaller, Tracked

\* What Begins does to one exchange.
LEMMA BeginsOne ==
  ASSUME HttpOK, NEW k \in Sockets, NEW e \in Exchanges, Begins(k, e)
  PROVE  /\ socketOf[e] = None /\ socketOf'[e] # None
         /\ e \notin deferred \cup sse /\ replies[e] = <<>>
         /\ \A f \in Exchanges \ {e} : socketOf'[f] = socketOf[f]
<1>1. socketOf[e] = None
  BY DEF Begins
<1> QED BY <1>1, BeginsFresh DEF Tracked

\* completeResponse() within the slot answers a new exchange.
LEMMA AnsweredAtOnceCourse ==
  ASSUME HttpOK, NEW k \in Sockets, NEW e \in Exchanges, NEW reply \in Reply,
         reply.to = None, AnsweredAtOnce(k, e, reply), NEW f \in Exchanges
  PROVE  Course(f)
<1>1. Begins(k, e) /\ UNCHANGED <<socket, deferred, sse>>
      /\ replies' = [replies EXCEPT ![e] = Append(@, reply)]
  BY DEF AnsweredAtOnce
<1>2. CASE f = e
  <2>0. replies[e] = <<>> /\ replies \in [Exchanges -> Seq(Reply)]
    BY <1>1, BeginsOne DEF HttpOK, HttpTypeOK
  <2>1. replies[e] = <<>> /\ replies'[e] = <<reply>>
    BY <1>1, <2>0
  <2>2. PhaseOf(e) = "new" /\ PhaseOf(e)' = "answered"
    BY <1>1, <2>1, BeginsOne DEF PhaseOf
  <2> QED BY <1>2, <2>1, <2>2 DEF Course
<1>3. CASE f # e
  BY <1>1, <1>3, BeginsOne, Untouched DEF HttpOK, HttpTypeOK
<1> QED BY <1>2, <1>3

\* deferResponse() alone makes an exchange wait.
LEMMA LeftOpenCourse ==
  ASSUME HttpOK, NEW k \in Sockets, NEW e \in Exchanges, LeftOpen(k, e), NEW f \in Exchanges
  PROVE  Course(f)
<1>1. Begins(k, e) /\ UNCHANGED <<socket, sse, replies>> /\ deferred' = deferred \cup {e}
  BY DEF LeftOpen
<1>2. CASE f = e
  <2>1. PhaseOf(e) = "new" /\ PhaseOf(e)' = "waiting"
    BY <1>1, BeginsOne DEF PhaseOf
  <2> QED BY <1>1, <1>2, <2>1 DEF Course
<1>3. CASE f # e
  BY <1>1, <1>3, BeginsOne, Untouched
<1> QED BY <1>2, <1>3

\* closeSseConnection() ends a stream and leaves every other exchange alone.
LEMMA ClosedCourse ==
  ASSUME HttpOK, NEW f \in Exchanges, NEW closed, socketOf'[f] = socketOf[f],
         deferred' = deferred, f \in sse' <=> f \in sse \ closed, replies'[f] = replies[f]
  PROVE  Course(f)
<1>1. CASE f \in sse \cap closed
  <2>1. PhaseOf(f) = "streaming" /\ PhaseOf(f)' = "over"
    BY <1>1, Tabled DEF PhaseOf
  <2> QED BY <2>1 DEF Course
<1>2. CASE f \notin sse \cap closed
  BY <1>2, Untouched
<1> QED BY <1>1, <1>2

\* upgradeToSse() makes a new exchange a stream and may end another one.
LEMMA UpgradedCourse ==
  ASSUME HttpOK, NEW k \in Sockets, NEW e \in Exchanges, NEW closed, Upgraded(k, e, closed),
         NEW f \in Exchanges
  PROVE  Course(f)
<1>1. Begins(k, e) /\ UNCHANGED <<deferred, replies>> /\ sse' = (sse \ closed) \cup {e}
  BY DEF Upgraded
<1>2. CASE f = e
  <2>1. PhaseOf(e) = "new" /\ PhaseOf(e)' = "streaming"
    BY <1>1, BeginsOne DEF PhaseOf
  <2> QED BY <1>1, <1>2, <2>1 DEF Course
<1>3. CASE f # e
  BY <1>1, <1>3, BeginsOne, ClosedCourse
<1> QED BY <1>2, <1>3

\* A DELETE is answered at once and ends the stream of its session.
LEMMA AnsweredClosingCourse ==
  ASSUME HttpOK, NEW k \in Sockets, NEW e \in Exchanges, NEW closed, NEW reply \in Reply,
         reply.to = None, AnsweredClosing(k, e, closed, reply), NEW f \in Exchanges
  PROVE  Course(f)
<1>1. Begins(k, e) /\ deferred' = deferred /\ sse' = sse \ closed
      /\ replies' = [replies EXCEPT ![e] = Append(@, reply)]
  BY DEF AnsweredClosing
<1>2. CASE f = e
  <2>0. replies[e] = <<>> /\ replies \in [Exchanges -> Seq(Reply)]
    BY <1>1, BeginsOne DEF HttpOK, HttpTypeOK
  <2>1. replies[e] = <<>> /\ replies'[e] = <<reply>>
    BY <1>1, <2>0
  <2>2. PhaseOf(e) = "new" /\ PhaseOf(e)' = "answered"
    BY <1>1, <2>1, BeginsOne DEF PhaseOf
  <2> QED BY <1>2, <2>1, <2>2 DEF Course
<1>3. CASE f # e
  BY <1>1, <1>3, BeginsOne, ClosedCourse DEF HttpOK, HttpTypeOK
<1> QED BY <1>2, <1>3

\* completeResponse() of an exchange left open gives it its answer.
LEMMA CompletedCourse ==
  ASSUME HttpOK, NEW e \in Exchanges, e \in deferred, NEW reply \in Reply, reply.to = e,
         Completed(e, reply), NEW f \in Exchanges
  PROVE  Course(f)
<1>1. /\ deferred' = deferred \ {e} /\ UNCHANGED <<socket, socketOf, sse>>
      /\ replies' = [replies EXCEPT ![e] = Append(@, reply)]
  BY DEF Completed
<1>2. CASE f = e
  <2>0. replies[e] = <<>> /\ replies \in [Exchanges -> Seq(Reply)]
    BY <1>1, Tabled DEF HttpOK, HttpTypeOK
  <2>1. replies[e] = <<>> /\ replies'[e] = <<reply>>
    BY <1>1, <2>0
  <2>2. PhaseOf(e) = "waiting" /\ PhaseOf(e)' = "answered"
    BY <1>1, <2>1, Tabled DEF PhaseOf
  <2> QED BY <1>2, <2>1, <2>2 DEF Course
<1>3. CASE f # e
  BY <1>1, <1>3, Untouched DEF HttpOK, HttpTypeOK
<1> QED BY <1>2, <1>3

\* A connection that is gone takes its exchanges with it.
LEMMA DisconnectedCourse ==
  ASSUME HttpOK, NEW k \in Sockets, NEW e \in Exchanges \cup {None},
         NEW g \in Exchanges \cup {None}, Disconnected(k, e, g), NEW f \in Exchanges
  PROVE  Course(f)
<1>1. /\ deferred' = deferred \ {e} /\ sse' = sse \ {g}
      /\ UNCHANGED <<socketOf, replies>>
  BY DEF Disconnected
<1>2. CASE f \in deferred /\ f = e
  <2>1. PhaseOf(f) = "waiting" /\ PhaseOf(f)' = "over"
    BY <1>1, <1>2, Tabled DEF PhaseOf
  <2> QED BY <1>1, <2>1 DEF Course
<1>3. CASE f \in sse /\ f = g
  <2>1. PhaseOf(f) = "streaming" /\ PhaseOf(f)' = "over"
    BY <1>1, <1>3, Tabled DEF PhaseOf
  <2> QED BY <1>1, <2>1 DEF Course
<1>4. CASE ~(f \in deferred /\ f = e) /\ ~(f \in sse /\ f = g)
  BY <1>1, <1>4, Untouched
<1> QED BY <1>2, <1>3, <1>4

-----------------------------------------------------------------------------
(***************************************************************************)
(* The steps of the backend.                                               *)
(***************************************************************************)

\* Every step of the backend gives every exchange its course.
LEMMA StepCourse ==
  ASSUME IInv, [Next]_vars, NEW f \in Exchanges
  PROVE  Course(f)
<1>1. HttpOK
  BY DEF IInv
<1>2. ASSUME UNCHANGED httpVars PROVE Course(f)
  BY <1>2, Untouched DEF httpVars
<1>3. ASSUME NEW k \in Sockets, NEW e \in Exchanges, NEW status \in Errors,
             Refused(k, e, status)
      PROVE  Course(f)
  <2> DEFINE reply == [status |-> status, to |-> None]
  <2>1. reply \in Reply /\ reply.to = None /\ AnsweredAtOnce(k, e, reply)
    BY <1>3, BackendAssumption DEF Refused, Reply
  <2> QED BY <1>1, <2>1, AnsweredAtOnceCourse
<1>4. ASSUME NEW k \in Sockets, NEW e \in Exchanges, NEW s \in SessionIds, NEW kind \in Kinds,
             PostNotification(k, e, kind, s)
      PROVE  Course(f)
  <2> DEFINE reply == [status |-> 202, to |-> None]
  <2>1. reply \in Reply /\ reply.to = None /\ AnsweredAtOnce(k, e, reply)
    BY <1>4 DEF PostNotification, Reply
  <2> QED BY <1>1, <2>1, AnsweredAtOnceCourse
<1>5. ASSUME NEW k \in Sockets, NEW e \in Exchanges, NEW s \in SessionIds, NEW kind \in Kinds,
             PostRequest(k, e, kind, s)
      PROVE  Course(f)
  BY <1>1, <1>5, LeftOpenCourse DEF PostRequest
<1>6. ASSUME NEW k \in Sockets, NEW e \in Exchanges, NEW s \in SessionIds, NEW kind \in Kinds,
             PostListen(k, e, kind, s) \/ GetStream(k, e, s)
      PROVE  Course(f)
  <2>1. PICK closed : Upgraded(k, e, closed)
    BY <1>6 DEF PostListen, GetStream
  <2> QED BY <1>1, <2>1, UpgradedCourse
<1>7. ASSUME NEW k \in Sockets, NEW e \in Exchanges, NEW s \in SessionIds,
             DeleteSession(k, e, s)
      PROVE  Course(f)
  <2> DEFINE reply == [status |-> 200, to |-> None]
  <2>1. /\ reply \in Reply /\ reply.to = None
       /\ AnsweredClosing(k, e, Replaced(d, s), reply)
    BY <1>7 DEF DeleteSession, Reply
  <2> QED BY <1>1, <2>1, AnsweredClosingCourse
<1>8. ASSUME NEW debt \in owed, NEW p \in d.pending, CoreAnswersPending(debt, p)
      PROVE  Course(f)
  <2> DEFINE reply == [status |-> 200, to |-> debt.from]
  <2>1. debt \in Debt /\ debt.from = p.exchange /\ Completed(p.exchange, reply)
    BY <1>8 DEF CoreAnswersPending, IInv, IdsOK
  <2>2. p.exchange \in Exchanges /\ p.exchange \in deferred /\ reply \in Reply /\ reply.to = p.exchange
    BY <2>1, Tables DEF Debt, Reply
  <2> HIDE DEF reply
  <2> QED BY <1>1, <2>1, <2>2, CompletedCourse
<1>9. CASE Slots
  BY <1>3, <1>4, <1>5, <1>6, <1>7, <1>9 DEF Slots, Kinds
<1>10. CASE Core
  BY <1>2, <1>8, <1>10 DEF Core, CoreAnswers, CoreAnswersLate, CoreSends
<1>11. CASE KeepAliveTick \/ UNCHANGED vars
  BY <1>2, <1>11 DEF KeepAliveTick, vars
<1>12. CASE \E k \in Sockets : Disconnect(k)
  <2>1. PICK k \in Sockets : Disconnect(k)
    BY <1>12
  <2>2. PICK e \in Exchanges \cup {None}, g \in Exchanges \cup {None} : Disconnected(k, e, g)
    BY <2>1 DEF Disconnect
  <2> QED BY <1>1, <2>2, DisconnectedCourse
<1> QED BY <1>9, <1>10, <1>11, <1>12 DEF Next

\* No exchange has begun at first.
LEMMA InitIsAbstract ==
  ASSUME Init
  PROVE  Exchange!Init
<1>1. \A e \in Exchanges : PhaseOf(e) = "new"
  BY DEF Init, HttpInit, PhaseOf
<1>2. \A e \in Exchanges : replies[e] = <<>>
  BY DEF Init, HttpInit
<1>3. [e \in Exchanges |-> PhaseOf(e)] = [e \in Exchanges |-> "new"]
  BY <1>1
<1>4. [e \in Exchanges |-> [i \in DOMAIN replies[e] |-> replies[e][i].to]]
        = [e \in Exchanges |-> <<>>]
  <2>1. \A e \in Exchanges : [i \in DOMAIN replies[e] |-> replies[e][i].to] = <<>>
    BY <1>2
  <2> QED BY <2>1
<1> QED BY <1>3, <1>4 DEF Exchange!Init

\* Whatever the clients and the core do, an exchange is answered once, with its
\* own answer, or becomes a stream, or ends: the backend implements HttpExchanges.
THEOREM ExchangesImplemented == Spec => ExchangesRunTheirCourse
<1>1. Init => Exchange!Init
  BY InitIsAbstract
<1>2. IInv /\ [Next]_vars => [Exchange!Next]_(Exchange!vars)
  BY StepCourse, CourseIsAbstract DEF Exchange!Next
<1> QED BY <1>1, <1>2, Invariance, PTL DEF Spec, Exchange!Spec, ExchangesRunTheirCourse
=============================================================================

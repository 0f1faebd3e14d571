--------------------------- MODULE McpServerProofs ---------------------------
(***************************************************************************)
(* Theorems about McpServer, for every set of sessions and requests and    *)
(* every choice of revisions and switches its assumptions allow.           *)
(***************************************************************************)
EXTENDS McpServer, WellFoundedInduction, FiniteSetTheorems, TLAPS

-----------------------------------------------------------------------------
(***************************************************************************)
(* What the operations of a session do to its state.                       *)
(***************************************************************************)

\* A non-empty set of naturals with an upper bound has a largest element.
LEMMA LargestExists ==
  ASSUME NEW S, S \subseteq Nat, S # {}, NEW b \in Nat, \A v \in S : v <= b
  PROVE  Max(S) \in S
<1> DEFINE Less == OpToRel(<, Nat)
           T == {b - v : v \in S}
<1>1. IsWellFoundedOn(Less, Nat)
  BY NatLessThanWellFounded
<1>2. T \subseteq Nat /\ T # {}
  <2>1. \A v \in S : v \in Nat /\ b - v \in Nat
    OBVIOUS
  <2>2. PICK v \in S : TRUE
    OBVIOUS
  <2> QED BY <2>1, <2>2
<1>3. PICK x \in T : \A y \in T : <<y, x>> \notin Less
  <2> HIDE DEF Less, T
  <2> QED BY <1>1, <1>2, WFMin
<1>4. \A y \in T : ~(y < x)
  BY <1>2, <1>3 DEF OpToRel
<1>5. PICK u \in S : x = b - u
  OBVIOUS
<1>6. \A v \in S : u >= v
  <2> TAKE v \in S
  <2>1. b - v \in T
    OBVIOUS
  <2>2. ~(b - v < x)
    BY <1>4, <2>1
  <2> QED BY <1>5, <2>2
<1> QED BY <1>6 DEF Max

\* initialize answers with a revision the server supports, whatever string the
\* client asked for.
LEMMA NegotiatedIsSupported ==
  ASSUME NEW w \in Wire
  PROVE  Negotiated(w) \in Supported
<1>1. Max(Supported) \in Supported
  BY LargestExists, VersionsAssumption
<1> QED BY <1>1 DEF Negotiated

\* Every version string stands for a known revision.
LEMMA FromWireIsVersion ==
  ASSUME NEW w \in Wire
  PROVE  FromWire(w) \in Versions
BY VersionsAssumption DEF FromWire, Wire

\* The state a session starts with has the type of one.
LEMMA NewSessionStateType == NewSessionState \in SessionState
BY VersionsAssumption DEF NewSessionState, SessionState, MaybeRequest

\* Reading the _meta of a message keeps the type of a session.
LEMMA AfterMetaType ==
  ASSUME NEW S \in SessionState, NEW m \in Metas
  PROVE  AfterMeta(S, m) \in SessionState
<1>1. CASE ~IsStateless(m)
  BY <1>1 DEF AfterMeta
<1>2. CASE IsStateless(m)
  <2>1. m.version \in Wire /\ m.tasks \in BOOLEAN
    BY <1>2 DEF IsStateless, Metas
  <2>2. FromWire(m.version) \in Versions
    BY <2>1, FromWireIsVersion
  <2> QED BY <1>2, <2>1, <2>2 DEF AfterMeta, SessionState
<1> QED BY <1>1, <1>2

\* Storing, requiring and taking input keeps the type of a session.
LEMMA InputTypes ==
  ASSUME NEW S \in SessionState, NEW r \in Requests
  PROVE  /\ ProvideInputs(S, r) \in SessionState
         /\ RequireInput(S, r) \in SessionState
         /\ Taken(S) \in SessionState
BY DEF ProvideInputs, RequireInput, Taken, SessionState, MaybeRequest

\* The answers the core makes itself have the type of one.
LEMMA AnswerTypes ==
  ASSUME NEW r \in Requests
  PROVE  /\ Result(r) \in Answer
         /\ Error(r) \in Answer
         /\ Placeholder(r) \in Answer
BY DEF Result, Error, Placeholder, Answer

\* So has the answer that replaces one of them.
LEMMA SubstitutedType ==
  ASSUME NEW S \in SessionState, NEW own \in Answer
  PROVE  Substituted(S, own) \in Answer
BY DEF Substituted, SessionState, MaybeRequest, Answer

\* Sending appends to the messages of one request and leaves the others alone.
LEMMA Sending ==
  ASSUME answers \in [Requests -> Seq(Answer)],
         NEW r \in Requests, NEW sequence \in Seq(Answer), Send(r, sequence)
  PROVE  /\ answers' \in [Requests -> Seq(Answer)]
         /\ answers'[r] = answers[r] \o sequence
         /\ \A q \in Requests \ {r} : answers'[q] = answers[q]
<1>1. answers[r] \o sequence \in Seq(Answer)
  OBVIOUS
<1> QED BY <1>1 DEF Send

\* Recording a dispatched request keeps the type of the records.
LEMMA DispatchedType ==
  ASSUME TypeOK, NEW r \in Requests, NEW s \in Sessions, NEW m \in Metas,
         NEW S \in SessionState, NEW status \in {"running", "failed", "done"},
         NEW asked \in BOOLEAN,
         Dispatched(r, s, m, S, status, asked)
  PROVE  request' \in [Requests -> RequestState]
<1>1. IsStateless(m) => m.tasks \in BOOLEAN
  BY DEF Metas, IsStateless
<1>2. (IsStateless(m) => m.tasks) \in BOOLEAN
  BY <1>1
<1> DEFINE R == [status |-> status, session |-> s,
                 version |-> IF status = "running" THEN S.version ELSE None,
                 ready |-> S.initialized, asked |-> asked,
                 optedIn |-> IsStateless(m) => m.tasks]
<1>3. R \in RequestState
  BY <1>2 DEF RequestState, SessionState
<1> QED BY <1>3 DEF Dispatched, TypeOK

-----------------------------------------------------------------------------
(***************************************************************************)
(* The inductive invariant.                                                *)
(***************************************************************************)

\* Only an initialized session has an override waiting to be taken.
SessionOK(S) == (S.required # None \/ S.override # None) => S.initialized

\* The answers that only a client of 2026-07-28 understands.
AnswerOK(a, S) == a.kind \in {"interim", "handle"} => S.initialized /\ IsModern(S)

SessionsOK == \A s \in Sessions : SessionOK(session[s])

UnsentIsUntouched ==
  \A r \in Requests : request[r].status = "unsent" =>
    /\ answers[r] = <<>>
    /\ ~request[r].ready
    /\ task[r].status = "none"

SentHasSession ==
  \A r \in Requests : request[r].status # "unsent" => request[r].session \in Sessions

RunningIsReady ==
  \A r \in Requests :
    /\ request[r].status = "running" => request[r].ready
    /\ (request[r].status = "running" \/ task[r].status # "none") =>
         session[request[r].session].initialized

AnswersOK ==
  \A r \in Requests : \A i \in DOMAIN answers[r] :
    AnswerOK(answers[r][i], session[request[r].session])

MarksAreInTime ==
  \A t \in Requests : task[t].cancel \/ task[t].thrown =>
    task[t].status \in {"working", "cancelled"}

IInv ==
  /\ TypeOK
  /\ SessionsOK
  /\ UnsentIsUntouched
  /\ SentHasSession
  /\ RunningIsReady
  /\ AnswersOK
  /\ MarksAreInTime
  /\ ReadyRequestAnsweredOnce
  /\ LateAnswerSpeaksSessionVersion
  /\ TaskNeedsOptIn

\* What every step does to the sessions and the tasks.
Progress ==
  /\ \A s \in Sessions : Keeps(session[s], session'[s])
  /\ \A t \in Requests : Settles(task[t], task'[t])

\* The invariant holds before the first message.
LEMMA InitIInv == Init => IInv
<1> SUFFICES ASSUME Init PROVE IInv
  OBVIOUS
<1>1. TypeOK
  <2>1. session \in [Sessions -> SessionState]
    BY NewSessionStateType DEF Init
  <2>2. request \in [Requests -> RequestState]
    BY DEF Init, RequestState
  <2>3. task \in [Requests -> TaskState]
    BY DEF Init, TaskState
  <2>4. answers \in [Requests -> Seq(Answer)]
    BY DEF Init
  <2> QED BY <2>1, <2>2, <2>3, <2>4 DEF TypeOK
<1>2. SessionsOK
  BY DEF Init, NewSessionState, SessionsOK, SessionOK
<1>3. UnsentIsUntouched /\ SentHasSession /\ RunningIsReady /\ AnswersOK /\ MarksAreInTime
  BY DEF Init, UnsentIsUntouched, SentHasSession, RunningIsReady, AnswersOK, MarksAreInTime
<1>4. ReadyRequestAnsweredOnce /\ LateAnswerSpeaksSessionVersion /\ TaskNeedsOptIn
  BY DEF Init, ReadyRequestAnsweredOnce, LateAnswerSpeaksSessionVersion, TaskNeedsOptIn
<1> QED BY <1>1, <1>2, <1>3, <1>4 DEF IInv

-----------------------------------------------------------------------------
(***************************************************************************)
(* Operations of a session keep its revision and its overrides in order.   *)
(***************************************************************************)

\* Reading _meta leaves the revision of an initialized session alone.
LEMMA AfterMetaKeeps ==
  ASSUME NEW S \in SessionState, NEW m \in Metas, SessionOK(S)
  PROVE  /\ Keeps(S, AfterMeta(S, m))
         /\ SessionOK(AfterMeta(S, m))
         /\ IsStateless(m) => AfterMeta(S, m).wantsTasks = m.tasks
BY DEF AfterMeta, Keeps, SessionOK, SessionState

\* Storing or requiring input leaves the lifecycle of a session alone.
LEMMA InputsKeep ==
  ASSUME NEW S \in SessionState, NEW r \in Requests, SessionOK(S)
  PROVE  /\ Keeps(S, ProvideInputs(S, r))
         /\ SessionOK(ProvideInputs(S, r))
         /\ ProvideInputs(S, r).wantsTasks = S.wantsTasks
         /\ ProvideInputs(S, r).initialized = S.initialized
         /\ Keeps(S, RequireInput(S, r))
         /\ S.initialized => SessionOK(RequireInput(S, r))
         /\ RequireInput(S, r).wantsTasks = S.wantsTasks
         /\ RequireInput(S, r).initialized = S.initialized
BY DEF ProvideInputs, RequireInput, Keeps, SessionOK, SessionState

\* So does taking an override.
LEMMA TakenKeeps ==
  ASSUME NEW S \in SessionState, SessionOK(S)
  PROVE  /\ Keeps(S, Taken(S))
         /\ SessionOK(Taken(S))
         /\ Taken(S).initialized = S.initialized
         /\ Taken(S).version = S.version
BY DEF Taken, Keeps, SessionOK, SessionState

\* An answer that fits a session still fits it when an override replaces it.
LEMMA SubstitutedOK ==
  ASSUME NEW S \in SessionState, NEW own \in Answer, SessionOK(S),
         own.kind \notin {"interim", "handle"}
  PROVE  AnswerOK(Substituted(S, own), Taken(S))
<1>1. Substituted(S, own) # own => IsModern(S) /\ S.initialized
  BY DEF Substituted, SessionOK
<1>2. IsModern(S) => IsModern(Taken(S))
  BY TakenKeeps DEF IsModern
<1> QED BY <1>1, <1>2, TakenKeeps DEF AnswerOK

\* Later states of a session form a chain.
LEMMA KeepsTransitive ==
  ASSUME NEW S, NEW T, NEW U, Keeps(S, T), Keeps(T, U)
  PROVE  Keeps(S, U)
BY DEF Keeps

-----------------------------------------------------------------------------
(***************************************************************************)
(* A step for one request: it is dispatched, or its tool runs on.          *)
(***************************************************************************)

\* The part of a step that concerns session s, which becomes X.
SessionStep(s, X) ==
  /\ session' = [session EXCEPT ![s] = X]
  /\ X \in SessionState
  /\ SessionOK(X)
  /\ Keeps(session[s], X)

\* The part that concerns request r of s and the messages sent for it.
RequestStep(s, r, X, sequence) ==
  /\ request' \in [Requests -> RequestState]
  /\ \A q \in Requests \ {r} : request'[q] = request[q]
  /\ request'[r].session = s
  /\ request'[r].status # "unsent"
  /\ request[r].status # "unsent" =>
       request'[r].session = request[r].session /\ request'[r].optedIn = request[r].optedIn
  /\ request'[r].status = "running" =>
       request'[r].ready /\ X.initialized /\ request'[r].version = X.version
  /\ answers' \in [Requests -> Seq(Answer)]
  /\ \A q \in Requests \ {r} : answers'[q] = answers[q]
  /\ answers'[r] = sequence
  /\ request'[r].ready =>
       Len(sequence) = IF request'[r].status \in {"running", "failed"} THEN 0 ELSE 1
  /\ \A i \in DOMAIN sequence : AnswerOK(sequence[i], X)

\* The part that concerns the tasks; only r may become one.
TaskStep(r) ==
  /\ task' \in [Requests -> TaskState]
  /\ \A t \in Requests :
       /\ Settles(task[t], task'[t])
       /\ task'[t].status # "none" =>
            \/ task[t].status # "none"
            \/ t = r /\ request'[r].optedIn /\ session'[request'[r].session].initialized
       /\ task'[t].cancel \/ task'[t].thrown => task'[t].status \in {"working", "cancelled"}

\* A step that changes one session keeps the lifecycle of all.
LEMMA SessionsKeep ==
  ASSUME TypeOK, NEW s \in Sessions, NEW X, SessionStep(s, X)
  PROVE  /\ session' \in [Sessions -> SessionState]
         /\ session'[s] = X
         /\ \A t \in Sessions : Keeps(session[t], session'[t])
         /\ SessionsOK => SessionsOK'
<1>1. session' \in [Sessions -> SessionState] /\ session'[s] = X
  BY DEF SessionStep, TypeOK
<1>2. \A t \in Sessions \ {s} : session'[t] = session[t]
  BY DEF SessionStep, TypeOK
<1>3. \A t \in Sessions : Keeps(session[t], session'[t])
  BY <1>1, <1>2 DEF SessionStep, Keeps
<1>4. SessionsOK => SessionsOK'
  BY <1>1, <1>2 DEF SessionStep, SessionsOK
<1> QED BY <1>1, <1>3, <1>4

\* An answer that fits a session fits every later state of it.
LEMMA AnswerOKKept ==
  ASSUME NEW a, NEW S, NEW T, AnswerOK(a, S), Keeps(S, T)
  PROVE  AnswerOK(a, T)
BY DEF AnswerOK, Keeps, IsModern

\* A message that changes one session, one request and at most its task
\* preserves the invariant: the frame all handlers share.
LEMMA Received ==
  ASSUME IInv, NEW s \in Sessions, NEW r \in Requests, NEW X, NEW sequence,
         SessionStep(s, X), RequestStep(s, r, X, sequence), TaskStep(r)
  PROVE  IInv' /\ Progress
<1> USE DEF IInv
<1>1. /\ session' \in [Sessions -> SessionState]
      /\ session'[s] = X
      /\ \A t \in Sessions : Keeps(session[t], session'[t])
      /\ SessionsOK'
  BY SessionsKeep
<1>2. TypeOK'
  BY <1>1 DEF TypeOK, RequestStep, TaskStep
<1>3. UnsentIsUntouched'
  <2> SUFFICES ASSUME NEW q \in Requests, request'[q].status = "unsent"
               PROVE  answers'[q] = <<>> /\ ~request'[q].ready /\ task'[q].status = "none"
    BY DEF UnsentIsUntouched
  <2>1. q # r
    BY DEF RequestStep
  <2>2. request'[q] = request[q] /\ answers'[q] = answers[q]
    BY <2>1 DEF RequestStep
  <2>3. task'[q].status = "none"
    BY <2>1, <2>2 DEF UnsentIsUntouched, TaskStep
  <2> QED BY <2>2, <2>3 DEF UnsentIsUntouched
<1>4. SentHasSession'
  BY DEF SentHasSession, RequestStep
<1>5. RunningIsReady'
  <2> SUFFICES ASSUME NEW q \in Requests,
                      request'[q].status = "running" \/ task'[q].status # "none"
               PROVE  /\ request'[q].status = "running" => request'[q].ready
                      /\ session'[request'[q].session].initialized
    BY DEF RunningIsReady
  <2>1. CASE task[q].status # "none"
    <3>1. request[q].status # "unsent"
      BY <2>1 DEF UnsentIsUntouched
    <3>2. request'[q].session = request[q].session /\ request[q].session \in Sessions
      BY <3>1 DEF RequestStep, SentHasSession
    <3>3. session'[request'[q].session].initialized
      BY <1>1, <2>1, <3>2 DEF RunningIsReady, Keeps
    <3> QED BY <3>3 DEF RequestStep, RunningIsReady
  <2>2. CASE q = r /\ task[q].status = "none"
    BY <2>2, <1>1 DEF RequestStep, TaskStep
  <2>3. CASE q # r /\ task[q].status = "none"
    <3>1. request'[q] = request[q] /\ request[q].status = "running"
      BY <2>3 DEF RequestStep, TaskStep
    <3>2. request[q].session \in Sessions
      BY <3>1 DEF SentHasSession
    <3> QED BY <1>1, <3>1, <3>2 DEF RunningIsReady, Keeps
  <2> QED BY <2>1, <2>2, <2>3
<1>6. AnswersOK'
  <2> SUFFICES ASSUME NEW q \in Requests, NEW i \in DOMAIN answers'[q]
               PROVE  AnswerOK(answers'[q][i], session'[request'[q].session])
    BY DEF AnswersOK
  <2>1. CASE q = r
    BY <2>1, <1>1 DEF RequestStep
  <2>2. CASE q # r
    <3>1. request'[q] = request[q] /\ answers'[q] = answers[q]
      BY <2>2 DEF RequestStep
    <3>2. answers[q] # <<>>
      BY <3>1
    <3>3. request[q].session \in Sessions
      BY <3>2 DEF UnsentIsUntouched, SentHasSession
    <3>4. AnswerOK(answers[q][i], session[request[q].session])
      BY <3>1 DEF AnswersOK
    <3> QED BY <1>1, <3>1, <3>3, <3>4, AnswerOKKept
  <2> QED BY <2>1, <2>2
<1>7. MarksAreInTime'
  BY DEF MarksAreInTime, TaskStep
<1>8. ReadyRequestAnsweredOnce'
  <2> SUFFICES ASSUME NEW q \in Requests, request'[q].ready
               PROVE  Len(answers'[q]) =
                        IF request'[q].status \in {"running", "failed"} THEN 0 ELSE 1
    BY DEF ReadyRequestAnsweredOnce
  <2>1. CASE q = r
    BY <2>1 DEF RequestStep
  <2>2. CASE q # r
    <3>1. request'[q] = request[q] /\ answers'[q] = answers[q]
      BY <2>2 DEF RequestStep
    <3> QED BY <3>1 DEF ReadyRequestAnsweredOnce
  <2> QED BY <2>1, <2>2
<1>9. LateAnswerSpeaksSessionVersion'
  <2> SUFFICES ASSUME NEW q \in Requests, request'[q].status = "running"
               PROVE  request'[q].version = session'[request'[q].session].version
    BY DEF LateAnswerSpeaksSessionVersion
  <2>1. CASE q = r
    BY <2>1, <1>1 DEF RequestStep
  <2>2. CASE q # r
    <3>1. request'[q] = request[q]
      BY <2>2 DEF RequestStep
    <3>2. request[q].session \in Sessions
      BY <3>1 DEF SentHasSession
    <3> QED BY <1>1, <3>1, <3>2 DEF RunningIsReady, LateAnswerSpeaksSessionVersion, Keeps
  <2> QED BY <2>1, <2>2
<1>10. TaskNeedsOptIn'
  <2> SUFFICES ASSUME NEW q \in Requests, task'[q].status # "none"
               PROVE  request'[q].optedIn
    BY DEF TaskNeedsOptIn
  <2>1. CASE q = r
    BY <2>1 DEF UnsentIsUntouched, RequestStep, TaskStep, TaskNeedsOptIn
  <2>2. CASE q # r
    BY <2>2 DEF TaskNeedsOptIn, RequestStep, TaskStep
  <2> QED BY <2>1, <2>2
<1>11. Progress
  BY <1>1 DEF Progress, TaskStep
<1> QED BY <1>1, <1>2, <1>3, <1>4, <1>5, <1>6, <1>7, <1>8, <1>9, <1>10, <1>11

-----------------------------------------------------------------------------
(***************************************************************************)
(* The parts of a step the actions share.                                  *)
(***************************************************************************)

\* A dispatched request was unsent and leaves the other records alone.
LEMMA Dispatching ==
  ASSUME TypeOK, NEW r \in Requests, NEW s \in Sessions, NEW m \in Metas,
         NEW S \in SessionState, NEW status \in {"running", "failed", "done"},
         NEW asked \in BOOLEAN,
         Dispatched(r, s, m, S, status, asked)
  PROVE  /\ request' \in [Requests -> RequestState]
         /\ \A q \in Requests \ {r} : request'[q] = request[q]
         /\ request'[r].session = s
         /\ request'[r].status = status
         /\ request'[r].ready = S.initialized
         /\ request'[r].version = IF status = "running" THEN S.version ELSE None
         /\ request'[r].asked = asked
         /\ request'[r].optedIn = (IsStateless(m) => m.tasks)
<1>1. request' \in [Requests -> RequestState]
  BY DispatchedType
<1> QED BY <1>1 DEF Dispatched, TypeOK

\* The state after the _meta of a message and the input of a request.
LEMMA Prepared ==
  ASSUME IInv, NEW s \in Sessions, NEW r \in Requests, NEW m \in Metas
  PROVE  /\ AfterMeta(session[s], m) \in SessionState
         /\ SessionOK(AfterMeta(session[s], m))
         /\ Keeps(session[s], AfterMeta(session[s], m))
         /\ ProvideInputs(AfterMeta(session[s], m), r) \in SessionState
         /\ SessionOK(ProvideInputs(AfterMeta(session[s], m), r))
         /\ Keeps(session[s], ProvideInputs(AfterMeta(session[s], m), r))
         /\ IsStateless(m) =>
              ProvideInputs(AfterMeta(session[s], m), r).wantsTasks = m.tasks
<1> DEFINE M == AfterMeta(session[s], m)
<1>1. session[s] \in SessionState /\ SessionOK(session[s])
  BY DEF IInv, TypeOK, SessionsOK
<1>2. M \in SessionState /\ SessionOK(M) /\ Keeps(session[s], M)
  BY <1>1, AfterMetaType, AfterMetaKeeps
<1>3. IsStateless(m) => M.wantsTasks = m.tasks
  BY <1>1, AfterMetaKeeps
<1> HIDE DEF M
<1>4. /\ ProvideInputs(M, r) \in SessionState
      /\ SessionOK(ProvideInputs(M, r))
      /\ Keeps(M, ProvideInputs(M, r))
      /\ ProvideInputs(M, r).wantsTasks = M.wantsTasks
  BY <1>2, InputTypes, InputsKeep
<1>5. Keeps(session[s], ProvideInputs(M, r))
  BY <1>2, <1>4, KeepsTransitive
<1> QED BY <1>2, <1>3, <1>4, <1>5 DEF M

\* A request that is answered in the step that dispatches it.
LEMMA AnsweredNow ==
  ASSUME IInv, NEW s \in Sessions, NEW r \in Requests, request[r].status = "unsent",
         NEW m \in Metas, NEW asked \in BOOLEAN,
         NEW S \in SessionState, Dispatched(r, s, m, S, "done", asked),
         NEW X, NEW a \in Answer, AnswerOK(a, X), Send(r, <<a>>)
  PROVE  RequestStep(s, r, X, <<a>>)
<1>1. answers[r] = <<>>
  BY DEF IInv, UnsentIsUntouched
<1>2. <<a>> \in Seq(Answer)
  OBVIOUS
<1>3. /\ answers' \in [Requests -> Seq(Answer)]
      /\ answers'[r] = answers[r] \o <<a>>
      /\ \A q \in Requests \ {r} : answers'[q] = answers[q]
  BY <1>2, Sending DEF IInv, TypeOK
<1>4. answers'[r] = <<a>>
  BY <1>1, <1>3
<1>5. Len(<<a>>) = 1 /\ \A i \in DOMAIN <<a>> : AnswerOK(<<a>>[i], X)
  OBVIOUS
<1>6. /\ request' \in [Requests -> RequestState]
      /\ \A q \in Requests \ {r} : request'[q] = request[q]
      /\ request'[r].session = s
      /\ request'[r].status = "done"
  BY Dispatching DEF IInv
<1> QED BY <1>3, <1>4, <1>5, <1>6 DEF RequestStep

\* A step that changes no task is a task step of every request.
LEMMA TasksUntouched ==
  ASSUME IInv, NEW r \in Requests, UNCHANGED task
  PROVE  TaskStep(r)
BY DEF TaskStep, IInv, TypeOK, MarksAreInTime, Settles, TaskState

\* The synchronous reply of the dispatcher.
LEMMA Replied ==
  ASSUME IInv, NEW s \in Sessions, NEW r \in Requests, request[r].status = "unsent",
         NEW m \in Metas, NEW asked \in BOOLEAN, NEW ok \in BOOLEAN,
         NEW S \in SessionState, SessionOK(S), Keeps(session[s], S),
         Dispatched(r, s, m, S, "done", asked), Reply(s, r, S, ok), TaskStep(r)
  PROVE  IInv' /\ Progress
<1> DEFINE a == IF ok THEN Substituted(S, Result(r)) ELSE Error(r)
<1>1. a \in Answer
  BY AnswerTypes, SubstitutedType
<1>2. AnswerOK(a, Taken(S))
  <2>1. CASE ok
    <3>1. Result(r) \in Answer /\ Result(r).kind = "result"
      BY AnswerTypes DEF Result
    <3> QED BY <2>1, <3>1, SubstitutedOK
  <2>2. CASE ~ok
    BY <2>2 DEF AnswerOK, Error
  <2> QED BY <2>1, <2>2
<1>3. SessionStep(s, Taken(S))
  <2>1. Taken(S) \in SessionState /\ SessionOK(Taken(S)) /\ Keeps(S, Taken(S))
    BY InputTypes, TakenKeeps
  <2> QED BY <2>1, KeepsTransitive DEF SessionStep, Reply
<1>4. Send(r, <<a>>)
  BY DEF Reply
<1> HIDE DEF a
<1>5. RequestStep(s, r, Taken(S), <<a>>)
  BY <1>1, <1>2, <1>4, AnsweredNow
<1> QED BY <1>3, <1>5, Received

-----------------------------------------------------------------------------
(***************************************************************************)
(* The lifecycle and the requests answered at once.                        *)
(***************************************************************************)

\* A step that changes a session only.
LEMMA SessionOnly ==
  ASSUME IInv, NEW s \in Sessions, NEW X, SessionStep(s, X),
         UNCHANGED <<request, task, answers>>
  PROVE  IInv' /\ Progress
<1> USE DEF IInv
<1>1. /\ session' \in [Sessions -> SessionState]
      /\ \A t \in Sessions : Keeps(session[t], session'[t])
      /\ SessionsOK'
  BY SessionsKeep
<1>2. TypeOK'
  BY <1>1 DEF TypeOK
<1>3. /\ UnsentIsUntouched' /\ SentHasSession' /\ MarksAreInTime'
      /\ ReadyRequestAnsweredOnce' /\ TaskNeedsOptIn'
  BY DEF UnsentIsUntouched, SentHasSession, MarksAreInTime,
         ReadyRequestAnsweredOnce, TaskNeedsOptIn
<1>4. RunningIsReady' /\ LateAnswerSpeaksSessionVersion'
  BY <1>1 DEF RunningIsReady, LateAnswerSpeaksSessionVersion, SentHasSession,
              UnsentIsUntouched, Keeps
<1>5. AnswersOK'
  <2> SUFFICES ASSUME NEW q \in Requests, NEW i \in DOMAIN answers[q]
               PROVE  AnswerOK(answers[q][i], session'[request[q].session])
    BY DEF AnswersOK
  <2>1. request[q].session \in Sessions
    BY DEF UnsentIsUntouched, SentHasSession
  <2> QED BY <1>1, <2>1, AnswerOKKept DEF AnswersOK
<1>6. Progress
  BY <1>1 DEF Progress, Settles, MarksAreInTime, TypeOK
<1> QED BY <1>1, <1>2, <1>3, <1>4, <1>5, <1>6

\* The backend reports a session.
LEMMA NewSessionStep ==
  ASSUME IInv, NEW s \in Sessions, NewSession(s)
  PROVE  IInv' /\ Progress
<1> DEFINE X == [session[s] EXCEPT !.known = TRUE]
<1>1. SessionStep(s, X)
  BY DEF IInv, TypeOK, SessionsOK, SessionState, SessionOK, Keeps, NewSession, SessionStep
<1> QED BY <1>1, SessionOnly DEF NewSession

\* notifications/initialized preserves the invariant.
LEMMA InitializedStep ==
  ASSUME IInv, NEW s \in Sessions, NEW m \in Metas, Initialized(s, m)
  PROVE  IInv' /\ Progress
<1> DEFINE M == AfterMeta(session[s], m)
           X == [M EXCEPT !.initialized = TRUE]
<1>1. session[s] \in SessionState /\ SessionOK(session[s])
  BY DEF IInv, TypeOK, SessionsOK
<1>2. M \in SessionState /\ SessionOK(M) /\ Keeps(session[s], M)
  BY <1>1, AfterMetaType, AfterMetaKeeps
<1>3. session' = [session EXCEPT ![s] = X] /\ UNCHANGED <<request, task, answers>>
  BY DEF Initialized
<1> HIDE DEF M
<1>4. X \in SessionState /\ SessionOK(X) /\ Keeps(session[s], X)
  BY <1>2 DEF SessionState, SessionOK, Keeps
<1> QED BY <1>3, <1>4, SessionOnly DEF SessionStep

\* initialize preserves the invariant.
LEMMA InitializeStep ==
  ASSUME IInv, NEW s \in Sessions, NEW r \in Requests, NEW m \in Metas,
         NEW w \in Wire, Initialize(s, r, m, w)
  PROVE  IInv' /\ Progress
<1> DEFINE S == ProvideInputs(AfterMeta(session[s], m), r)
           T == IF S.initialized THEN S ELSE [S EXCEPT !.version = Negotiated(w)]
<1>1. S \in SessionState /\ SessionOK(S) /\ Keeps(session[s], S)
  BY Prepared
<1>2. /\ MaySend(s, r)
      /\ Reply(s, r, T, ~S.initialized)
      /\ Dispatched(r, s, m, T, "done", FALSE)
      /\ UNCHANGED task
  BY DEF Initialize
<1>3. Negotiated(w) \in Versions
  BY NegotiatedIsSupported, VersionsAssumption
<1> HIDE DEF S
<1>4. T \in SessionState /\ SessionOK(T) /\ Keeps(session[s], T)
  BY <1>1, <1>3 DEF SessionState, SessionOK, Keeps
<1>5. request[r].status = "unsent"
  BY <1>2 DEF MaySend
<1>6. (~S.initialized) \in BOOLEAN
  OBVIOUS
<1> HIDE DEF T
<1> QED BY <1>2, <1>4, <1>5, <1>6, Replied, TasksUntouched

\* A request that no handler sees preserves the invariant.
LEMMA RejectedStep ==
  ASSUME IInv, NEW s \in Sessions, NEW r \in Requests, NEW m \in Metas,
         NEW method \in Methods \cup {"unknown"}, Rejected(s, r, m, method)
  PROVE  IInv' /\ Progress
<1> DEFINE S == AfterMeta(session[s], m)
<1>1. S \in SessionState /\ SessionOK(S) /\ Keeps(session[s], S)
  BY Prepared
<1>2. /\ MaySend(s, r)
      /\ session' = [session EXCEPT ![s] = S]
      /\ Send(r, <<Error(r)>>)
      /\ Dispatched(r, s, m, S, "done", FALSE)
      /\ UNCHANGED task
  BY DEF Rejected
<1>3. request[r].status = "unsent"
  BY <1>2 DEF MaySend
<1>4. Error(r) \in Answer /\ AnswerOK(Error(r), S)
  BY <1>1, AnswerTypes DEF Error, AnswerOK
<1> HIDE DEF S
<1>6. RequestStep(s, r, S, <<Error(r)>>)
  BY <1>1, <1>2, <1>3, <1>4, AnsweredNow
<1>7. SessionStep(s, S)
  BY <1>1, <1>2 DEF SessionStep
<1> QED BY <1>2, <1>3, <1>6, <1>7, Received, TasksUntouched

\* A request answered synchronously preserves the invariant.
LEMMA HandledStep ==
  ASSUME IInv, NEW s \in Sessions, NEW r \in Requests, NEW m \in Metas,
         NEW method \in Methods, NEW asks \in BOOLEAN, Handled(s, r, m, method, asks)
  PROVE  IInv' /\ Progress
<1> DEFINE S == ProvideInputs(AfterMeta(session[s], m), r)
           ok == method \in NeedsReady => S.initialized
           T == IF ok /\ asks THEN RequireInput(S, r) ELSE S
<1>1. S \in SessionState /\ SessionOK(S) /\ Keeps(session[s], S)
  BY Prepared
<1>2. /\ MaySend(s, r)
      /\ asks => method = "list"
      /\ Reply(s, r, T, ok)
      /\ Dispatched(r, s, m, T, "done", T.required = r)
      /\ UNCHANGED task
  BY DEF Handled
<1>3. request[r].status = "unsent"
  BY <1>2 DEF MaySend
<1> HIDE DEF S
<1>4. ok /\ asks => S.initialized
  BY <1>2 DEF NeedsReady
<1>5. /\ RequireInput(S, r) \in SessionState
      /\ Keeps(S, RequireInput(S, r))
      /\ S.initialized => SessionOK(RequireInput(S, r))
  BY <1>1, InputTypes, InputsKeep
<1>6. T \in SessionState /\ SessionOK(T) /\ Keeps(session[s], T)
  BY <1>1, <1>4, <1>5, KeepsTransitive
<1>7. ok \in BOOLEAN /\ (T.required = r) \in BOOLEAN
  OBVIOUS
<1> HIDE DEF T, ok
<1> QED BY <1>2, <1>3, <1>6, <1>7, Replied, TasksUntouched

-----------------------------------------------------------------------------
(***************************************************************************)
(* tools/call and the tasks.                                               *)
(***************************************************************************)

\* The doubly answered tools/call preserves the invariant.
LEMMA CallToolTooEarlyStep ==
  ASSUME IInv, NEW s \in Sessions, NEW r \in Requests, NEW m \in Metas,
         CallToolTooEarly(s, r, m)
  PROVE  IInv' /\ Progress
<1> DEFINE S == ProvideInputs(AfterMeta(session[s], m), r)
           a == Substituted(S, Placeholder(r))
           sequence == <<a, Error(r)>>
<1>1. S \in SessionState /\ SessionOK(S) /\ Keeps(session[s], S)
  BY Prepared
<1>2. /\ MaySend(s, r)
      /\ ~S.initialized
      /\ session' = [session EXCEPT ![s] = Taken(S)]
      /\ Send(r, sequence)
      /\ Dispatched(r, s, m, S, "done", FALSE)
      /\ UNCHANGED task
  BY DEF CallToolTooEarly
<1>3. request[r].status = "unsent" /\ answers[r] = <<>>
  BY <1>2 DEF MaySend, IInv, UnsentIsUntouched
<1> HIDE DEF S
<1>4. SessionStep(s, Taken(S))
  <2>1. Taken(S) \in SessionState /\ SessionOK(Taken(S)) /\ Keeps(S, Taken(S))
    BY <1>1, InputTypes, TakenKeeps
  <2> QED BY <1>1, <1>2, <2>1, KeepsTransitive DEF SessionStep
<1>5. a \in Answer /\ AnswerOK(a, Taken(S))
  <2>1. Placeholder(r) \in Answer /\ Placeholder(r).kind = "empty"
    BY <1>1, AnswerTypes DEF Placeholder
  <2> QED BY <1>1, <2>1, SubstitutedType, SubstitutedOK
<1>6. Error(r) \in Answer /\ AnswerOK(Error(r), Taken(S))
  BY <1>1, AnswerTypes DEF Error, AnswerOK
<1> HIDE DEF a
<1>7. sequence \in Seq(Answer) /\ \A i \in DOMAIN sequence : AnswerOK(sequence[i], Taken(S))
  BY <1>5, <1>6
<1>8. /\ answers' \in [Requests -> Seq(Answer)]
      /\ answers'[r] = answers[r] \o sequence
      /\ \A q \in Requests \ {r} : answers'[q] = answers[q]
  BY <1>2, <1>7, Sending DEF IInv, TypeOK
<1>9. answers'[r] = sequence
  BY <1>3, <1>7, <1>8
<1>10. /\ request' \in [Requests -> RequestState]
       /\ \A q \in Requests \ {r} : request'[q] = request[q]
       /\ request'[r].session = s
       /\ request'[r].status = "done"
       /\ request'[r].ready = S.initialized
  BY <1>1, <1>2, Dispatching DEF IInv
<1> HIDE DEF sequence
<1>11. RequestStep(s, r, Taken(S), sequence)
  BY <1>2, <1>3, <1>7, <1>8, <1>9, <1>10 DEF RequestStep
<1> QED BY <1>2, <1>4, <1>11, Received, TasksUntouched

\* The session that a tool has been called on fits the invariant.
LEMMA CalledType ==
  ASSUME IInv, NEW s \in Sessions, NEW r \in Requests, NEW m \in Metas,
         NEW asks \in BOOLEAN, Called(s, r, m, asks).initialized
  PROVE  /\ Called(s, r, m, asks) \in SessionState
         /\ SessionOK(Called(s, r, m, asks))
         /\ Keeps(session[s], Called(s, r, m, asks))
         /\ IsStateless(m) => Called(s, r, m, asks).wantsTasks = m.tasks
<1> DEFINE S == ProvideInputs(AfterMeta(session[s], m), r)
<1>1. /\ S \in SessionState /\ SessionOK(S) /\ Keeps(session[s], S)
      /\ IsStateless(m) => S.wantsTasks = m.tasks
  BY Prepared
<1>2. Called(s, r, m, asks) = IF asks THEN RequireInput(S, r) ELSE S
  BY DEF Called
<1> HIDE DEF S
<1>3. /\ RequireInput(S, r) \in SessionState
      /\ Keeps(S, RequireInput(S, r))
      /\ S.initialized => SessionOK(RequireInput(S, r))
      /\ RequireInput(S, r).wantsTasks = S.wantsTasks
      /\ RequireInput(S, r).initialized = S.initialized
  BY <1>1, InputTypes, InputsKeep
<1> QED BY <1>1, <1>2, <1>3, KeepsTransitive

\* A tools/call that finishes at once preserves the invariant.
LEMMA CallToolFinishedStep ==
  ASSUME IInv, NEW s \in Sessions, NEW r \in Requests, NEW m \in Metas,
         NEW asks \in BOOLEAN, CallToolFinished(s, r, m, asks)
  PROVE  IInv' /\ Progress
<1> DEFINE T == Called(s, r, m, asks)
           a == Substituted(T, Result(r))
<1>1. /\ MaySend(s, r)
      /\ T.initialized
      /\ session' = [session EXCEPT ![s] = Taken(T)]
      /\ Send(r, <<a>>)
      /\ Dispatched(r, s, m, T, "done", T.required = r)
      /\ UNCHANGED task
  BY DEF CallToolFinished
<1>2. T \in SessionState /\ SessionOK(T) /\ Keeps(session[s], T)
  BY <1>1, CalledType
<1> HIDE DEF T
<1>3. request[r].status = "unsent" /\ (T.required = r) \in BOOLEAN
  BY <1>1 DEF MaySend
<1>4. SessionStep(s, Taken(T))
  <2>1. Taken(T) \in SessionState /\ SessionOK(Taken(T)) /\ Keeps(T, Taken(T))
    BY <1>2, InputTypes, TakenKeeps
  <2> QED BY <1>1, <1>2, <2>1, KeepsTransitive DEF SessionStep
<1>5. a \in Answer /\ AnswerOK(a, Taken(T))
  <2>1. Result(r) \in Answer /\ Result(r).kind = "result"
    BY <1>2, AnswerTypes DEF Result
  <2> QED BY <1>2, <2>1, SubstitutedType, SubstitutedOK
<1> HIDE DEF a
<1>6. RequestStep(s, r, Taken(T), <<a>>)
  BY <1>1, <1>2, <1>3, <1>5, AnsweredNow
<1> QED BY <1>1, <1>4, <1>6, Received, TasksUntouched

\* A tools/call that leaves its answer to a continuation preserves the
\* invariant, whether that continuation will run or not.
LEMMA CallToolDeferredStep ==
  ASSUME IInv, NEW s \in Sessions, NEW r \in Requests, NEW m \in Metas,
         NEW asks \in BOOLEAN, NEW status \in {"running", "failed"}, MaySend(s, r),
         Called(s, r, m, asks).initialized,
         session' = [session EXCEPT ![s] = Called(s, r, m, asks)],
         Dispatched(r, s, m, Called(s, r, m, asks), status, Called(s, r, m, asks).required = r),
         UNCHANGED <<task, answers>>
  PROVE  IInv' /\ Progress
<1> DEFINE T == Called(s, r, m, asks)
           asked == T.required = r
<1>1. T \in SessionState /\ SessionOK(T) /\ Keeps(session[s], T)
  BY CalledType
<1>2. request[r].status = "unsent" /\ answers[r] = <<>> /\ asked \in BOOLEAN
  BY DEF MaySend, IInv, UnsentIsUntouched
<1>3. /\ T.initialized /\ session' = [session EXCEPT ![s] = T]
      /\ Dispatched(r, s, m, T, status, asked)
  OBVIOUS
<1> HIDE DEF T, asked
<1>4. status \in {"running", "failed", "done"} /\ TypeOK
  BY DEF IInv
<1>5. /\ request' \in [Requests -> RequestState]
      /\ \A q \in Requests \ {r} : request'[q] = request[q]
      /\ request'[r].session = s
      /\ request'[r].status = status
      /\ request'[r].ready = T.initialized
      /\ status = "running" => request'[r].version = T.version
  <2>1. request' \in [Requests -> RequestState]
    BY <1>1, <1>2, <1>3, <1>4, DispatchedType
  <2> QED BY <1>3, <1>4, <2>1 DEF Dispatched, TypeOK
<1>6. RequestStep(s, r, T, <<>>)
  BY <1>2, <1>3, <1>5 DEF RequestStep, IInv, TypeOK
<1>7. SessionStep(s, T)
  BY <1>1, <1>3 DEF SessionStep
<1> QED BY <1>6, <1>7, Received, TasksUntouched

\* A tools/call that runs on preserves the invariant.
LEMMA CallToolRunningStep ==
  ASSUME IInv, NEW s \in Sessions, NEW r \in Requests, NEW m \in Metas,
         NEW asks \in BOOLEAN, CallToolRunning(s, r, m, asks)
  PROVE  IInv' /\ Progress
BY CallToolDeferredStep DEF CallToolRunning

\* So does one whose tool failed before it returned.
LEMMA CallToolFailsStep ==
  ASSUME IInv, NEW s \in Sessions, NEW r \in Requests, NEW m \in Metas,
         NEW asks \in BOOLEAN, CallToolFails(s, r, m, asks)
  PROVE  IInv' /\ Progress
BY CallToolDeferredStep DEF CallToolFails

\* A tools/call that becomes a task preserves the invariant.
LEMMA CallToolAsTaskStep ==
  ASSUME IInv, NEW s \in Sessions, NEW r \in Requests, NEW m \in Metas,
         NEW asks \in BOOLEAN, CallToolAsTask(s, r, m, asks)
  PROVE  IInv' /\ Progress
<1> DEFINE T == Called(s, r, m, asks)
           U == [T EXCEPT !.override = r]
           a == Substituted(U, Placeholder(r))
<1>1. /\ MaySend(s, r)
      /\ T.initialized
      /\ HandsOutTask(T)
      /\ session' = [session EXCEPT ![s] = Taken(U)]
      /\ task' = [task EXCEPT ![r].status = "working"]
      /\ Send(r, <<a>>)
      /\ Dispatched(r, s, m, U, "done", T.required = r)
  BY DEF CallToolAsTask
<1>2. /\ T \in SessionState /\ SessionOK(T) /\ Keeps(session[s], T)
      /\ IsStateless(m) => T.wantsTasks = m.tasks
  BY <1>1, CalledType
<1> HIDE DEF T
<1>3. /\ request[r].status = "unsent" /\ task[r].status = "none"
      /\ (T.required = r) \in BOOLEAN
  BY <1>1 DEF MaySend, IInv, UnsentIsUntouched
<1>4. U \in SessionState /\ SessionOK(U) /\ Keeps(session[s], U) /\ U.initialized
  BY <1>1, <1>2 DEF SessionState, SessionOK, Keeps, MaybeRequest
<1> HIDE DEF U
<1>5. SessionStep(s, Taken(U)) /\ Taken(U).initialized
  <2>1. /\ Taken(U) \in SessionState /\ SessionOK(Taken(U)) /\ Keeps(U, Taken(U))
        /\ Taken(U).initialized = U.initialized
    BY <1>4, InputTypes, TakenKeeps
  <2> QED BY <1>1, <1>4, <2>1, KeepsTransitive DEF SessionStep
<1>6. a \in Answer /\ AnswerOK(a, Taken(U))
  <2>1. Placeholder(r) \in Answer /\ Placeholder(r).kind = "empty"
    BY <1>4, AnswerTypes DEF Placeholder
  <2> QED BY <1>4, <2>1, SubstitutedType, SubstitutedOK
<1> HIDE DEF a
<1>7. RequestStep(s, r, Taken(U), <<a>>)
  BY <1>1, <1>3, <1>4, <1>6, AnsweredNow
<1>8. request'[r].optedIn /\ request'[r].session = s
  <2>1. TypeOK /\ "done" \in {"running", "failed", "done"} /\ FALSE \in BOOLEAN
    BY DEF IInv
  <2>2. /\ request'[r].optedIn = (IsStateless(m) => m.tasks)
        /\ request'[r].session = s
    BY <1>1, <1>3, <1>4, <2>1, Dispatching
  <2>3. IsStateless(m) => m.tasks = T.wantsTasks /\ T.wantsTasks
    BY <1>1, <1>2 DEF HandsOutTask
  <2> QED BY <2>2, <2>3
<1>9. session'[s].initialized
  BY <1>5 DEF SessionStep, IInv, TypeOK
<1>10. TaskStep(r)
  <2>1. task' \in [Requests -> TaskState]
    BY <1>1 DEF IInv, TypeOK, TaskState
  <2>2. \A t \in Requests \ {r} : task'[t] = task[t]
    BY <1>1 DEF IInv, TypeOK
  <2>3. task'[r].status = "working" /\ task'[r].cancel = task[r].cancel
    BY <1>1 DEF IInv, TypeOK, TaskState
  <2>4. ~task[r].cancel /\ ~task[r].thrown
    BY <1>3 DEF IInv, MarksAreInTime
  <2> QED BY <1>3, <1>8, <1>9, <2>1, <2>2, <2>3, <2>4 DEF TaskStep, Settles, IInv, MarksAreInTime
<1> QED BY <1>5, <1>7, <1>10, Received

\* A request about a task preserves the invariant.
LEMMA TaskRequestStep ==
  ASSUME IInv, NEW s \in Sessions, NEW r \in Requests, NEW m \in Metas,
         NEW t \in Requests, NEW cancels \in BOOLEAN, TaskRequest(s, r, m, t, cancels)
  PROVE  IInv' /\ Progress
<1> DEFINE S == ProvideInputs(AfterMeta(session[s], m), r)
<1>1. S \in SessionState /\ SessionOK(S) /\ Keeps(session[s], S)
  BY Prepared
<1>2. /\ MaySend(s, r)
      /\ IF TaskExists(t)
         THEN Reply(s, r, S, TRUE)
         ELSE session' = [session EXCEPT ![s] = S] /\ Send(r, <<Error(r)>>)
      /\ task' = IF cancels /\ TaskExists(t) /\ AtWork(t)
                 THEN [task EXCEPT ![t].cancel = TRUE] ELSE task
      /\ Dispatched(r, s, m, S, "done", FALSE)
  BY DEF TaskRequest
<1> HIDE DEF S
<1>3. request[r].status = "unsent"
  BY <1>2 DEF MaySend
<1>4. TaskStep(r)
  <2>1. CASE task' = task
    BY <2>1, TasksUntouched
  <2>2. CASE task[t].status = "working" /\ task' = [task EXCEPT ![t].cancel = TRUE]
    <3>1. task' \in [Requests -> TaskState]
      BY <2>2 DEF IInv, TypeOK, TaskState
    <3>2. \A q \in Requests \ {t} : task'[q] = task[q]
      BY <2>2 DEF IInv, TypeOK
    <3>3. task'[t].status = "working" /\ task'[t].cancel
      BY <2>2 DEF IInv, TypeOK, TaskState
    <3> QED BY <2>2, <3>1, <3>2, <3>3 DEF TaskStep, Settles, IInv, MarksAreInTime
  <2> QED BY <1>2, <2>1, <2>2 DEF AtWork
<1>5. CASE TaskExists(t)
  BY <1>1, <1>2, <1>3, <1>4, <1>5, Replied
<1>6. CASE ~TaskExists(t)
  <2>1. Error(r) \in Answer /\ AnswerOK(Error(r), S)
    BY <1>1, AnswerTypes DEF Error, AnswerOK
  <2>2. RequestStep(s, r, S, <<Error(r)>>)
    BY <1>1, <1>2, <1>3, <1>6, <2>1, AnsweredNow
  <2>3. SessionStep(s, S)
    BY <1>1, <1>2, <1>6 DEF SessionStep
  <2> QED BY <1>4, <2>2, <2>3, Received
<1> QED BY <1>5, <1>6

-----------------------------------------------------------------------------
(***************************************************************************)
(* Futures.                                                                *)
(***************************************************************************)

\* A late requireInput() preserves the invariant.
LEMMA ToolRequiresInputStep ==
  ASSUME IInv, NEW r \in Requests, ToolRequiresInput(r)
  PROVE  IInv' /\ Progress
<1> DEFINE s == request[r].session
           X == RequireInput(session[s], r)
<1>1. /\ request[r].status = "running" \/ task[r].status = "working"
      /\ session' = [session EXCEPT ![s] = X]
      /\ request' = [request EXCEPT ![r].asked = TRUE]
      /\ UNCHANGED <<task, answers>>
  BY DEF ToolRequiresInput, AtWork
<1>2. request[r].status # "unsent" /\ s \in Sessions /\ session[s].initialized
  BY <1>1 DEF IInv, UnsentIsUntouched, SentHasSession, RunningIsReady
<1>3. session[s] \in SessionState /\ SessionOK(session[s])
  BY <1>2 DEF IInv, TypeOK, SessionsOK
<1>4. X \in SessionState /\ SessionOK(X) /\ Keeps(session[s], X) /\ X.initialized
  BY <1>2, <1>3, InputTypes, InputsKeep
<1> HIDE DEF X
<1>5. SessionStep(s, X)
  BY <1>1, <1>4 DEF SessionStep
<1>6. /\ request' \in [Requests -> RequestState]
      /\ \A q \in Requests \ {r} : request'[q] = request[q]
  BY <1>1 DEF IInv, TypeOK, RequestState
<1>7. /\ request'[r].session = s
      /\ request'[r].status = request[r].status
      /\ request'[r].version = request[r].version
      /\ request'[r].ready = request[r].ready
      /\ request'[r].optedIn = request[r].optedIn
  BY <1>1 DEF IInv, TypeOK, RequestState
<1>8. X.version = session[s].version
  BY <1>2, <1>4 DEF Keeps
<1>9. \A i \in DOMAIN answers[r] : AnswerOK(answers[r][i], X)
  BY <1>4, AnswerOKKept DEF IInv, AnswersOK
<1>10. RequestStep(s, r, X, answers[r])
  BY <1>1, <1>2, <1>4, <1>6, <1>7, <1>8, <1>9
     DEF RequestStep, IInv, TypeOK, RunningIsReady, ReadyRequestAnsweredOnce,
         LateAnswerSpeaksSessionVersion
<1> QED BY <1>1, <1>2, <1>5, <1>10, Received, TasksUntouched

\* The continuation of a tools/call preserves the invariant.
LEMMA ToolFinishesStep ==
  ASSUME IInv, NEW r \in Requests, ToolFinishes(r)
  PROVE  IInv' /\ Progress
<1> DEFINE s == request[r].session
           S == session[s]
           a == Substituted(S, Result(r))
<1>1. /\ request[r].status = "running"
      /\ session' = [session EXCEPT ![s] = Taken(S)]
      /\ Send(r, <<a>>)
      /\ request' = [request EXCEPT ![r].status = "done"]
      /\ UNCHANGED task
  BY DEF ToolFinishes, IInv, TypeOK
<1>2. s \in Sessions /\ request[r].ready
  BY <1>1 DEF IInv, SentHasSession, RunningIsReady
<1>3. S \in SessionState /\ SessionOK(S)
  BY <1>2 DEF IInv, TypeOK, SessionsOK
<1> HIDE DEF S
<1>4. SessionStep(s, Taken(S))
  <2>1. Taken(S) \in SessionState /\ SessionOK(Taken(S)) /\ Keeps(S, Taken(S))
    BY <1>3, InputTypes, TakenKeeps
  <2> QED BY <1>1, <2>1 DEF SessionStep, S
<1>5. a \in Answer /\ AnswerOK(a, Taken(S))
  <2>1. Result(r) \in Answer /\ Result(r).kind = "result"
    BY <1>3, AnswerTypes DEF Result
  <2> QED BY <1>3, <2>1, SubstitutedType, SubstitutedOK
<1> HIDE DEF a
<1>6. answers[r] = <<>>
  BY <1>1, <1>2 DEF IInv, TypeOK, ReadyRequestAnsweredOnce
<1>7. /\ answers' \in [Requests -> Seq(Answer)]
      /\ answers'[r] = answers[r] \o <<a>>
      /\ \A q \in Requests \ {r} : answers'[q] = answers[q]
  <2>1. <<a>> \in Seq(Answer)
    BY <1>5
  <2> QED BY <1>1, <2>1, Sending DEF IInv, TypeOK
<1>8. answers'[r] = <<a>> /\ Len(<<a>>) = 1
  BY <1>5, <1>6, <1>7
<1>9. /\ request' \in [Requests -> RequestState]
      /\ \A q \in Requests \ {r} : request'[q] = request[q]
      /\ request'[r].session = s
      /\ request'[r].status = "done"
      /\ request'[r].optedIn = request[r].optedIn
  BY <1>1 DEF IInv, TypeOK, RequestState
<1>10. \A i \in DOMAIN <<a>> : AnswerOK(<<a>>[i], Taken(S))
  BY <1>5
<1>11. RequestStep(s, r, Taken(S), <<a>>)
  BY <1>7, <1>8, <1>9, <1>10 DEF RequestStep
<1> QED BY <1>1, <1>2, <1>4, <1>11, Received, TasksUntouched

\* The end of the tool behind a task, in whatever way, preserves the invariant.
LEMMA TaskEndsStep ==
  ASSUME IInv, NEW t \in Requests, TaskFinishes(t) \/ TaskIsDropped(t) \/ TaskThrows(t)
  PROVE  IInv' /\ Progress
<1> USE DEF IInv
<1>1. /\ task[t].status = "working" /\ ~task[t].thrown
      /\ UNCHANGED <<session, request, answers>>
  BY DEF TaskFinishes, TaskIsDropped, TaskThrows, AtWork
<1>2. task[t] \in TaskState
  BY DEF TypeOK
<1>3. /\ task' \in [Requests -> TaskState]
      /\ \A q \in Requests \ {t} : task'[q] = task[q]
      /\ task'[t].status \in {"working", "cancelled", "completed"}
      /\ task[t].cancel => task'[t].status = "cancelled"
      /\ task'[t].cancel = task[t].cancel
      /\ task'[t].thrown => task'[t].status # "completed"
  <2>1. CASE TaskFinishes(t)
    BY <1>1, <1>2, <2>1 DEF TaskFinishes, TypeOK, TaskState
  <2>2. CASE TaskIsDropped(t)
    BY <1>2, <2>2 DEF TaskIsDropped, TypeOK, TaskState
  <2>3. CASE TaskThrows(t)
    BY <1>1, <1>2, <2>3 DEF TaskThrows, TypeOK, TaskState
  <2> QED BY <2>1, <2>2, <2>3
<1>4. TypeOK'
  BY <1>1, <1>3 DEF TypeOK
<1>5. UnsentIsUntouched' /\ RunningIsReady' /\ TaskNeedsOptIn' /\ MarksAreInTime'
  BY <1>1, <1>3 DEF UnsentIsUntouched, RunningIsReady, TaskNeedsOptIn, MarksAreInTime
<1>6. /\ SessionsOK' /\ SentHasSession' /\ AnswersOK'
      /\ ReadyRequestAnsweredOnce' /\ LateAnswerSpeaksSessionVersion'
  BY <1>1 DEF SessionsOK, SentHasSession, AnswersOK,
              ReadyRequestAnsweredOnce, LateAnswerSpeaksSessionVersion
<1>7. Progress
  <2>1. \A s \in Sessions : Keeps(session[s], session'[s])
    BY <1>1 DEF Keeps
  <2>2. Settles(task[t], task'[t])
    <3>1. task[t].cancel \in BOOLEAN
      BY <1>2 DEF TaskState
    <3> QED BY <1>1, <1>3, <3>1 DEF Settles
  <2>3. \A q \in Requests \ {t} : Settles(task[q], task'[q])
    BY <1>3 DEF Settles, MarksAreInTime
  <2> QED BY <2>1, <2>2, <2>3 DEF Progress
<1> QED BY <1>4, <1>5, <1>6, <1>7

\* A tool that fails leaves its request unanswered and preserves the invariant.
LEMMA ToolFailsStep ==
  ASSUME IInv, NEW r \in Requests, ToolFails(r)
  PROVE  IInv' /\ Progress
<1> USE DEF IInv
<1>1. /\ request[r].status = "running"
      /\ UNCHANGED <<session, task, answers>>
  BY DEF ToolFails
<1>2. /\ request' \in [Requests -> RequestState]
      /\ \A q \in Requests \ {r} : request'[q] = request[q]
      /\ request'[r].status = "failed"
      /\ request'[r].session = request[r].session
      /\ request'[r].ready = request[r].ready
      /\ request'[r].optedIn = request[r].optedIn
  BY DEF ToolFails, TypeOK, RequestState
<1>3. TypeOK' /\ SessionsOK' /\ MarksAreInTime'
  BY <1>1, <1>2 DEF TypeOK, SessionsOK, MarksAreInTime
<1>4. UnsentIsUntouched' /\ SentHasSession' /\ RunningIsReady'
  BY <1>1, <1>2 DEF UnsentIsUntouched, SentHasSession, RunningIsReady
<1>5. AnswersOK' /\ TaskNeedsOptIn'
  BY <1>1, <1>2 DEF AnswersOK, TaskNeedsOptIn
<1>6. ReadyRequestAnsweredOnce' /\ LateAnswerSpeaksSessionVersion'
  BY <1>1, <1>2 DEF ReadyRequestAnsweredOnce, LateAnswerSpeaksSessionVersion
<1>7. Progress
  BY <1>1 DEF Progress, Keeps, Settles, MarksAreInTime
<1> QED BY <1>3, <1>4, <1>5, <1>6, <1>7

-----------------------------------------------------------------------------
(***************************************************************************)
(* Overrides: from the tool that asks for input, or the task that is made, *)
(* over the session that holds them, to the answer that carries them.      *)
(***************************************************************************)

OverrideKinds == {"interim", "handle"}

\* What a session in state S holds to replace an answer with.
Slot(kind, S) == IF kind = "interim" THEN S.required ELSE S.override

\* q has asked for input, or has become a task.
Made(kind, q) == IF kind = "interim" THEN request[q].asked ELSE task[q].status # "none"

\* What a session holds was made by one of its requests and not sent before.
HeldIsNew ==
  \A s \in Sessions, kind \in OverrideKinds : \A q \in Requests :
    q = Slot(kind, session[s]) =>
      /\ Made(kind, q)
      /\ request[q].session = s
      /\ \A r \in Requests : Delivered(kind, q, r) = {}

DeliveredIsMade ==
  \A kind \in OverrideKinds : \A q, r \in Requests :
    Delivered(kind, q, r) # {} => Made(kind, q)

DeliveredToOne ==
  \A kind \in OverrideKinds : \A q, r, other \in Requests :
    Delivered(kind, q, r) # {} /\ Delivered(kind, q, other) # {} => r = other

UnsentAsksNothing == \A r \in Requests : request[r].status = "unsent" => ~request[r].asked

OInv == HeldIsNew /\ DeliveredIsMade /\ DeliveredToOne /\ UnsentAsksNothing

\* takePendingResultOverride() on state M sends the override q made.
TakesOut(kind, q, M) ==
  /\ IsModern(M)
  /\ q = Slot(kind, M)
  /\ kind = "handle" => M.required = None

\* A request was sent once it asked for input or became a task.
LEMMA MadeIsSent ==
  ASSUME IInv, OInv, NEW q \in Requests, NEW kind \in OverrideKinds, Made(kind, q)
  PROVE  request[q].status # "unsent"
BY DEF IInv, UnsentIsUntouched, OInv, UnsentAsksNothing, Made

\* What is taken out of a session is no longer there.
LEMMA TakenSlots ==
  ASSUME NEW M \in SessionState, NEW kind \in OverrideKinds
  PROVE  /\ Slot(kind, Taken(M)) \in {None, Slot(kind, M)}
         /\ \A q \in Requests : TakesOut(kind, q, M) => Slot(kind, Taken(M)) # q
<1>1. \A q \in Requests : q # None
  BY SentinelsAssumption
<1> QED BY <1>1 DEF Taken, Slot, TakesOut, SessionState, OverrideKinds

\* The answer that is sent instead of own says what is taken out.
LEMMA SubstitutedTakes ==
  ASSUME NEW M \in SessionState, NEW own \in Answer, own.kind \notin OverrideKinds
  PROVE  /\ LET a == Substituted(M, own) IN
            a.kind \in OverrideKinds => TakesOut(a.kind, a.of, M)
         /\ IsModern(M) /\ M.required # None =>
              Substituted(M, own) = [kind |-> "interim", of |-> M.required]
BY DEF Substituted, TakesOut, Slot, OverrideKinds, Answer

\* What a step does to the overrides: session s holds what it held, or what r
\* just made, then sends some of it for r, or not.
OverrideStep(s, r, M, X) ==
  /\ session' = [session EXCEPT ![s] = X]
  /\ X = M \/ X = Taken(M)
  /\ \A kind \in OverrideKinds :
       \/ Slot(kind, M) \in {None, Slot(kind, session[s])}
       \/ Slot(kind, M) = r /\ r \in Requests /\ ~Made(kind, r)
  /\ \A kind \in OverrideKinds, q \in Requests :
       Made(kind, q) \/ (q = r /\ Slot(kind, M) = r) => Made(kind, q)'
  /\ \A q \in Requests :
       request[q].status # "unsent" => request'[q].session = request[q].session
  /\ r \in Requests => request'[r].session = s
  /\ UnsentAsksNothing'
  /\ \A kind \in OverrideKinds : \A q, x \in Requests :
       Delivered(kind, q, x)' # {} =>
         \/ Delivered(kind, q, x) # {}
         \/ x = r /\ X = Taken(M) /\ TakesOut(kind, q, M)

\* Such a step sends nothing twice.
LEMMA OverridesOK ==
  ASSUME IInv, OInv, NEW s \in Sessions, NEW r, NEW M \in SessionState, NEW X,
         OverrideStep(s, r, M, X)
  PROVE  OInv'
<1>1. /\ session'[s] = X
      /\ \A t \in Sessions \ {s} : session'[t] = session[t]
  BY DEF OverrideStep, IInv, TypeOK
<1>2. ASSUME NEW kind \in OverrideKinds, NEW q \in Requests, q = Slot(kind, M)
      PROVE  /\ Made(kind, q)' /\ request'[q].session = s
             /\ \A x \in Requests : Delivered(kind, q, x) = {}
             /\ \A t \in Sessions \ {s} : q # Slot(kind, session[t])
  <2>1. q # None
    BY SentinelsAssumption
  <2>2. CASE Slot(kind, M) = Slot(kind, session[s])
    <3>1. /\ Made(kind, q) /\ request[q].session = s
          /\ \A x \in Requests : Delivered(kind, q, x) = {}
      BY <1>2, <2>2 DEF OInv, HeldIsNew
    <3>2. \A t \in Sessions \ {s} : q # Slot(kind, session[t])
      BY <3>1 DEF OInv, HeldIsNew
    <3> QED BY <3>1, <3>2, MadeIsSent DEF OverrideStep
  <2>3. CASE Slot(kind, M) = r /\ r \in Requests /\ ~Made(kind, r)
    <3>1. Made(kind, q)' /\ request'[q].session = s
      BY <1>2, <2>3 DEF OverrideStep
    <3>2. \A x \in Requests : Delivered(kind, q, x) = {}
      BY <1>2, <2>3 DEF OInv, DeliveredIsMade
    <3>3. \A t \in Sessions \ {s} : q # Slot(kind, session[t])
      BY <1>2, <2>3 DEF OInv, HeldIsNew
    <3> QED BY <3>1, <3>2, <3>3
  <2> QED BY <1>2, <2>1, <2>2, <2>3 DEF OverrideStep
<1>3. ASSUME NEW kind \in OverrideKinds, NEW q \in Requests
      PROVE  q = Slot(kind, X) => q = Slot(kind, M) /\ ~(X = Taken(M) /\ TakesOut(kind, q, M))
  <2>1. q # None
    BY SentinelsAssumption
  <2> QED BY <2>1, TakenSlots DEF OverrideStep
<1>4. HeldIsNew'
  <2> SUFFICES ASSUME NEW t \in Sessions, NEW kind \in OverrideKinds, NEW q \in Requests,
                      q = Slot(kind, session'[t])
               PROVE  /\ Made(kind, q)' /\ request'[q].session = t
                      /\ \A x \in Requests : Delivered(kind, q, x)' = {}
    BY DEF HeldIsNew, Slot
  <2>1. CASE t = s
    BY <1>1, <1>2, <1>3, <2>1 DEF OverrideStep
  <2>2. CASE t # s
    <3>1. /\ q = Slot(kind, session[t])
          /\ Made(kind, q) /\ request[q].session = t
          /\ \A x \in Requests : Delivered(kind, q, x) = {}
      BY <1>1, <2>2 DEF OInv, HeldIsNew
    <3>2. q # Slot(kind, M)
      BY <1>2, <2>2, <3>1
    <3> QED BY <3>1, <3>2, MadeIsSent DEF OverrideStep, TakesOut
  <2> QED BY <2>1, <2>2
<1>5. DeliveredIsMade'
  <2> SUFFICES ASSUME NEW kind \in OverrideKinds, NEW q \in Requests, NEW x \in Requests,
                      Delivered(kind, q, x)' # {}
               PROVE  Made(kind, q)'
    BY DEF DeliveredIsMade
  <2>1. CASE Delivered(kind, q, x) # {}
    BY <2>1 DEF OverrideStep, OInv, DeliveredIsMade
  <2>2. CASE TakesOut(kind, q, M)
    BY <1>2, <2>2 DEF TakesOut
  <2> QED BY <2>1, <2>2 DEF OverrideStep
<1>6. DeliveredToOne'
  <2> SUFFICES ASSUME NEW kind \in OverrideKinds, NEW q \in Requests, NEW x \in Requests,
                      NEW y \in Requests, Delivered(kind, q, x)' # {}, Delivered(kind, q, y)' # {}
               PROVE  x = y
    BY DEF DeliveredToOne
  <2>1. CASE TakesOut(kind, q, M)
    <3>1. Delivered(kind, q, x) = {} /\ Delivered(kind, q, y) = {}
      BY <1>2, <2>1 DEF TakesOut
    <3> QED BY <3>1 DEF OverrideStep
  <2>2. CASE ~TakesOut(kind, q, M)
    BY <2>2 DEF OverrideStep, OInv, DeliveredToOne
  <2> QED BY <2>1, <2>2
<1>7. UnsentAsksNothing'
  BY DEF OverrideStep
<1> QED BY <1>4, <1>5, <1>6, <1>7 DEF OInv

\* What was sent for a request shows which overrides it carries.
LEMMA DeliveredBy ==
  ASSUME NEW r \in Requests, NEW sequence, answers'[r] = sequence,
         \A x \in Requests \ {r} : answers'[x] = answers[x]
  PROVE  /\ \A kind, q : Delivered(kind, q, r)' # {} <=>
              \E i \in DOMAIN sequence : sequence[i].kind = kind /\ sequence[i].of = q
         /\ \A x \in Requests \ {r} : \A kind, q : Delivered(kind, q, x)' = Delivered(kind, q, x)
BY DEF Delivered

-----------------------------------------------------------------------------
(***************************************************************************)
(* Clients that wait for their answers, while the tasks extension is off.  *)
(***************************************************************************)

NoTasks == \A r \in Requests : task[r].status = "none"

RequiredIsModern == \A s \in Sessions : session[s].required # None => IsModern(session[s])

Runs(r, s) == request[r].status = "running" /\ request[r].session = s

OneRuns ==
  \A s \in Sessions \ Overlapping : \A q, r \in Requests : Runs(q, s) /\ Runs(r, s) => q = r

\* A session requires the input its running request asked for.  What a failed
\* request asked for may be left, until the next request is handled.
RequiredOfRunning ==
  \A s \in Sessions \ Overlapping : \A r \in Requests :
    /\ Runs(r, s) /\ request[r].asked => session[s].required = r
    /\ session[s].required = r =>
         request[r].asked /\ (Runs(r, s) \/ \A q \in Requests : ~Runs(q, s))

WInv == NoTasks /\ RequiredIsModern /\ OneRuns /\ RequiredOfRunning /\ InterimMatchesRequest

\* No session holds anything of a request that was not sent.
LEMMA UnsentHoldsNothing ==
  ASSUME IInv, OInv, NEW r \in Requests, request[r].status = "unsent"
  PROVE  /\ \A t \in Sessions : session[t].required # r /\ session[t].override # r
         /\ \A kind \in OverrideKinds : ~Made(kind, r)
<1>1. \A kind \in OverrideKinds : ~Made(kind, r)
  BY MadeIsSent
<1>2. ASSUME NEW t \in Sessions PROVE session[t].required # r /\ session[t].override # r
  <2>1. r # Slot("interim", session[t])
    BY <1>1 DEF OInv, HeldIsNew, OverrideKinds
  <2>2. r # Slot("handle", session[t])
    BY <1>1 DEF OInv, HeldIsNew, OverrideKinds
  <2> QED BY <2>1, <2>2 DEF Slot
<1> QED BY <1>1, <1>2

\* On a session in state M no input is required but that of r.
Cleared(r, M) == IsModern(M) => M.required \in {None, r}

\* A request is dispatched: M is the session once its handler has returned, X
\* what becomes of it, and sequence what is sent.
DispatchStep(s, r, M, X, sequence) ==
  /\ MaySend(s, r)
  /\ M \in SessionState /\ Keeps(session[s], M)
  /\ session' = [session EXCEPT ![s] = X]
  /\ X = M \/ X = Taken(M)
  /\ M.required \in {None, session[s].required} \/ (M.required = r /\ IsModern(M))
  /\ M.override \in {None, session[s].override} \/ M.override = r
  /\ \A q \in Requests \ {r} : request'[q] = request[q]
  /\ request'[r].session = s
  /\ request'[r].status \in {"running", "failed", "done"}
  /\ request'[r].asked <=> M.required = r
  /\ Cleared(r, M) \/ (X = M /\ request'[r].status = "done")
  /\ \A q \in Requests :
       /\ task[q].status # "none" \/ (q = r /\ M.override = r) => task'[q].status # "none"
       /\ task'[q].status # "none" => task[q].status # "none" \/ TasksExtension
  /\ answers'[r] = sequence
  /\ \A q \in Requests \ {r} : answers'[q] = answers[q]
  /\ \A i \in DOMAIN sequence : sequence[i].kind \in OverrideKinds =>
       X = Taken(M) /\ TakesOut(sequence[i].kind, sequence[i].of, M)
  /\ IF request'[r].status # "done" THEN X = M /\ sequence = <<>>
     ELSE M.required = r =>
            /\ X = Taken(M)
            /\ \E i \in DOMAIN sequence : sequence[i].kind = "interim" /\ sequence[i].of = r

LEMMA DispatchOverrides ==
  ASSUME IInv, OInv, NEW s \in Sessions, NEW r \in Requests, NEW M, NEW X, NEW sequence,
         DispatchStep(s, r, M, X, sequence)
  PROVE  OInv'
<1>1. request[r].status = "unsent"
  BY DEF DispatchStep, MaySend
<1>2. \A kind \in OverrideKinds : ~Made(kind, r)
  BY <1>1, UnsentHoldsNothing
<1>3. ASSUME NEW kind \in OverrideKinds
      PROVE  \/ Slot(kind, M) \in {None, Slot(kind, session[s])}
             \/ Slot(kind, M) = r /\ r \in Requests /\ ~Made(kind, r)
  BY <1>2 DEF DispatchStep, Slot
<1>4. ASSUME NEW kind \in OverrideKinds, NEW q \in Requests,
             Made(kind, q) \/ (q = r /\ Slot(kind, M) = r)
      PROVE  Made(kind, q)'
  <2>1. CASE q = r
    BY <1>2, <1>4, <2>1 DEF DispatchStep, Slot, Made
  <2>2. CASE q # r
    BY <1>4, <2>2 DEF DispatchStep, Made
  <2> QED BY <2>1, <2>2
<1>5. UnsentAsksNothing'
  BY DEF UnsentAsksNothing, OInv, DispatchStep
<1>6. ASSUME NEW kind \in OverrideKinds, NEW q \in Requests, NEW x \in Requests,
             Delivered(kind, q, x)' # {}
      PROVE  \/ Delivered(kind, q, x) # {}
             \/ x = r /\ X = Taken(M) /\ TakesOut(kind, q, M)
  <2>1. /\ answers'[r] = sequence
        /\ \A y \in Requests \ {r} : answers'[y] = answers[y]
    BY DEF DispatchStep
  <2>2. CASE x = r
    <3>1. PICK i \in DOMAIN sequence : sequence[i].kind = kind /\ sequence[i].of = q
      BY <1>6, <2>1, <2>2, DeliveredBy
    <3> QED BY <2>2, <3>1 DEF DispatchStep
  <2>3. CASE x # r
    BY <1>6, <2>1, <2>3, DeliveredBy
  <2> QED BY <2>2, <2>3
<1>7. OverrideStep(s, r, M, X)
  BY <1>1, <1>3, <1>4, <1>5, <1>6 DEF OverrideStep, DispatchStep
<1>8. M \in SessionState
  BY DEF DispatchStep
<1> QED BY <1>7, <1>8, OverridesOK

LEMMA DispatchWaits ==
  ASSUME ~TasksExtension, IInv, OInv, WInv, NEW s \in Sessions, NEW r \in Requests,
         NEW M, NEW X, NEW sequence, DispatchStep(s, r, M, X, sequence)
  PROVE  WInv'
<1>1. /\ request[r].status = "unsent" /\ M \in SessionState
      /\ s \in Overlapping \/ \A q \in Requests : ~Runs(q, s)
  BY DEF DispatchStep, MaySend, Runs
<1>2. /\ session'[s] = X
      /\ \A t \in Sessions \ {s} : session'[t] = session[t]
  BY DEF DispatchStep, IInv, TypeOK
<1>3. \A t \in Sessions : session[t] \in SessionState /\ session[t].required # r
  BY <1>1, UnsentHoldsNothing DEF IInv, TypeOK
<1>4. NoTasks'
  BY DEF NoTasks, WInv, DispatchStep
<1>5. X.required \in {None, M.required} /\ X.version = M.version
      /\ (TakesOut("interim", r, M) /\ X = Taken(M) => X.required = None)
  <2>1. /\ Slot("interim", Taken(M)) \in {None, Slot("interim", M)}
        /\ TakesOut("interim", r, M) => Slot("interim", Taken(M)) # r
        /\ Taken(M).version = M.version
    BY <1>1, TakenSlots DEF OverrideKinds, Taken, SessionState
  <2> QED BY <2>1 DEF DispatchStep, Slot, TakesOut
<1>6. RequiredIsModern'
  <2> SUFFICES ASSUME NEW t \in Sessions, session'[t].required # None PROVE IsModern(session'[t])
    BY DEF RequiredIsModern, IsModern
  <2>1. CASE t # s
    BY <1>2, <2>1 DEF WInv, RequiredIsModern
  <2>2. CASE t = s
    <3>1. M.required # None /\ X.version = M.version
      BY <1>2, <1>5, <2>2
    <3>2. CASE IsModern(M)
      BY <1>2, <2>2, <3>1, <3>2 DEF IsModern
    <3>3. CASE M.required = session[s].required
      <4>1. IsModern(session[s]) /\ session[s].initialized
        BY <3>1, <3>3 DEF WInv, RequiredIsModern, IInv, SessionsOK, SessionOK
      <4>2. M.version = session[s].version
        BY <4>1 DEF DispatchStep, Keeps
      <4> QED BY <1>2, <2>2, <3>1, <4>1, <4>2 DEF IsModern
    <3> QED BY <3>1, <3>2, <3>3 DEF DispatchStep
  <2> QED BY <2>1, <2>2
<1>7. \A q \in Requests \ {r} : request'[q] = request[q] /\ answers'[q] = answers[q]
  BY DEF DispatchStep
<1>8. \A q \in Requests \ {r} : \A t : Runs(q, t)' <=> Runs(q, t)
  BY <1>7 DEF Runs
<1>9. \A t : Runs(r, t)' <=> t = s /\ request'[r].status = "running"
  BY DEF Runs, DispatchStep
<1>10. OneRuns'
  <2> SUFFICES ASSUME NEW t \in Sessions \ Overlapping, NEW p \in Requests, NEW q \in Requests,
                      Runs(p, t)', Runs(q, t)'
               PROVE  p = q
    BY DEF OneRuns
  <2>1. CASE p # r /\ q # r
    BY <1>8, <2>1 DEF WInv, OneRuns
  <2>2. CASE p = r \/ q = r
    BY <1>1, <1>8, <1>9, <2>2
  <2> QED BY <2>1, <2>2
<1>11. ASSUME s \notin Overlapping, NEW q \in Requests \ {r}, M.required = q
       PROVE  X = M /\ request'[r].status = "done" /\ request[q].asked
  <2>1. q # None
    BY SentinelsAssumption
  <2>2. session[s].required = q
    BY <1>11, <2>1 DEF DispatchStep
  <2>3. IsModern(session[s]) /\ session[s].initialized
    BY <2>1, <2>2 DEF WInv, RequiredIsModern, IInv, SessionsOK, SessionOK
  <2>4. IsModern(M)
    BY <2>3 DEF DispatchStep, Keeps, IsModern
  <2>5. ~Cleared(r, M)
    BY <1>11, <2>1, <2>4 DEF Cleared
  <2>6. request[q].asked
    BY <1>11, <2>2 DEF WInv, RequiredOfRunning
  <2> QED BY <2>5, <2>6 DEF DispatchStep
<1>12. RequiredOfRunning'
  <2> SUFFICES ASSUME NEW t \in Sessions \ Overlapping, NEW q \in Requests
               PROVE  /\ Runs(q, t)' /\ request'[q].asked => session'[t].required = q
                      /\ session'[t].required = q =>
                           /\ request'[q].asked
                           /\ Runs(q, t)' \/ \A p \in Requests : ~Runs(p, t)'
    BY DEF RequiredOfRunning
  <2>1. CASE t # s
    <3>1. session'[t] = session[t] /\ ~Runs(r, t)' /\ session[t].required # r
      BY <1>2, <1>3, <1>9, <2>1
    <3>2. ~Runs(r, t)
      BY <1>1 DEF Runs
    <3> QED BY <1>7, <1>8, <3>1, <3>2 DEF WInv, RequiredOfRunning
  <2>2. CASE t = s /\ q # r
    <3>1. \A p \in Requests \ {r} : ~Runs(p, t)'
      BY <1>1, <1>8, <2>2
    <3>2. ASSUME session'[t].required = q
          PROVE  request'[q].asked /\ ~Runs(r, t)'
      <4>1. q # None
        BY SentinelsAssumption
      <4>2. M.required = q
        BY <1>2, <1>5, <2>2, <3>2, <4>1
      <4> QED BY <1>7, <1>9, <1>11, <2>2, <4>2
    <3> QED BY <2>2, <3>1, <3>2
  <2>3. CASE t = s /\ q = r
    <3>1. r # None
      BY SentinelsAssumption
    <3>2. session'[t].required = r => request'[r].asked
      BY <1>2, <1>5, <2>3, <3>1 DEF DispatchStep
    <3>3. Runs(r, t)' /\ request'[r].asked => session'[t].required = r
      BY <1>2, <1>9, <2>3 DEF DispatchStep
    <3>4. Runs(r, t)' \/ \A p \in Requests : ~Runs(p, t)'
      BY <1>1, <1>8, <2>3
    <3> QED BY <2>3, <3>2, <3>3, <3>4
  <2> QED BY <2>1, <2>2, <2>3
<1>13. InterimMatchesRequest'
  <2> SUFFICES ASSUME NEW p \in Requests, Waited(p)'
               PROVE  /\ request'[p].asked <=> Delivered("interim", p, p)' # {}
                      /\ \A q \in Requests \ {p} : Delivered("interim", q, p)' = {}
    BY DEF InterimMatchesRequest
  <2>1. /\ answers'[r] = sequence
        /\ \A y \in Requests \ {r} : answers'[y] = answers[y]
    BY DEF DispatchStep
  <2>2. CASE p # r
    <3>1. Waited(p) /\ request'[p].asked = request[p].asked
      BY <1>7, <2>2 DEF Waited
    <3>2. \A q : Delivered("interim", q, p)' = Delivered("interim", q, p)
      BY <2>1, <2>2, DeliveredBy
    <3> QED BY <3>1, <3>2 DEF WInv, InterimMatchesRequest
  <2>3. CASE p = r
    <3>1. s \notin Overlapping /\ request'[r].status = "done"
      BY <2>3 DEF Waited, DispatchStep
    <3>2. \A q \in Requests : Delivered("interim", q, r)' # {} <=>
            \E i \in DOMAIN sequence : sequence[i].kind = "interim" /\ sequence[i].of = q
      BY <2>1, DeliveredBy
    <3>3. \A q \in Requests : Delivered("interim", q, r)' # {} =>
            M.required = q /\ X.required = None
      <4> SUFFICES ASSUME NEW q \in Requests, Delivered("interim", q, r)' # {}
                   PROVE  M.required = q /\ X.required = None
        OBVIOUS
      <4>1. X = Taken(M) /\ TakesOut("interim", q, M)
        BY <3>2 DEF DispatchStep, OverrideKinds
      <4>2. q # None
        BY SentinelsAssumption
      <4> QED BY <1>1, <4>1, <4>2 DEF TakesOut, Slot, Taken, SessionState
    <3>4. M.required = r => Delivered("interim", r, r)' # {}
      BY <3>1, <3>2 DEF DispatchStep
    <3>5. request'[r].asked <=> M.required = r
      BY DEF DispatchStep
    <3>6. \A q \in Requests \ {r} : ~(M.required = q /\ X.required = None)
      <4> SUFFICES ASSUME NEW q \in Requests \ {r}, M.required = q, X.required = None
                   PROVE  FALSE
        OBVIOUS
      <4>1. X = M
        BY <1>11, <3>1
      <4> QED BY <4>1, SentinelsAssumption
    <3> QED BY <2>3, <3>3, <3>4, <3>5, <3>6
  <2> QED BY <2>2, <2>3
<1> QED BY <1>4, <1>6, <1>10, <1>12, <1>13 DEF WInv

\* What the session holds once the handler of r has returned.
Prepares(s, r, M) ==
  /\ M \in SessionState /\ Keeps(session[s], M)
  /\ M.required \in {None, session[s].required} \/ (M.required = r /\ IsModern(M))
  /\ M.override \in {None, session[s].override} \/ M.override = r

\* Tasks stay, and r becomes one if the session holds its handle.
TasksGrow(r, M) ==
  \A q \in Requests :
    /\ task[q].status # "none" \/ (q = r /\ M.override = r) => task'[q].status # "none"
    /\ task'[q].status # "none" => task[q].status # "none" \/ TasksExtension

\* A step keeps both: what is delivered once, and what waiting clients get.
KeepsOverrides == OInv' /\ (~TasksExtension /\ WInv => WInv')

\* A request is answered with a in the step that dispatches it.
LEMMA AnsweredOverrides ==
  ASSUME IInv, OInv, NEW s \in Sessions, NEW r \in Requests, MaySend(s, r),
         NEW M, Prepares(s, r, M), TasksGrow(r, M),
         NEW X, session' = [session EXCEPT ![s] = X], X = M \/ X = Taken(M),
         Cleared(r, M) \/ X = M,
         NEW m \in Metas, NEW S \in SessionState, NEW asked \in BOOLEAN,
         Dispatched(r, s, m, S, "done", asked), asked <=> M.required = r,
         NEW a \in Answer, Send(r, <<a>>),
         a.kind \in OverrideKinds => X = Taken(M) /\ TakesOut(a.kind, a.of, M),
         M.required = r => X = Taken(M) /\ a.kind = "interim" /\ a.of = r
  PROVE  KeepsOverrides
<1>1. answers[r] = <<>>
  BY DEF MaySend, IInv, UnsentIsUntouched
<1>2. <<a>> \in Seq(Answer)
  OBVIOUS
<1>3. /\ answers'[r] = <<a>>
      /\ \A q \in Requests \ {r} : answers'[q] = answers[q]
  <2>1. /\ answers'[r] = answers[r] \o <<a>>
        /\ \A q \in Requests \ {r} : answers'[q] = answers[q]
    BY <1>2, Sending DEF IInv, TypeOK
  <2> QED BY <1>1, <1>2, <2>1
<1>4. /\ \A q \in Requests \ {r} : request'[q] = request[q]
      /\ request'[r].session = s
      /\ request'[r].status = "done"
      /\ request'[r].asked = asked
  BY Dispatching DEF IInv
<1>5. DOMAIN <<a>> = {1} /\ <<a>>[1] = a
  OBVIOUS
<1>6. DispatchStep(s, r, M, X, <<a>>)
  BY <1>3, <1>4, <1>5 DEF DispatchStep, Prepares, TasksGrow
<1> QED BY <1>6, DispatchOverrides, DispatchWaits DEF KeepsOverrides

\* The answer of a handler that succeeded is what the session holds, if it
\* holds anything.
LEMMA SubstitutedOverrides ==
  ASSUME IInv, OInv, NEW s \in Sessions, NEW r \in Requests, MaySend(s, r),
         NEW M, Prepares(s, r, M), Cleared(r, M), TasksGrow(r, M),
         session' = [session EXCEPT ![s] = Taken(M)],
         NEW m \in Metas, NEW S \in SessionState, NEW asked \in BOOLEAN,
         Dispatched(r, s, m, S, "done", asked), asked <=> M.required = r,
         NEW own \in Answer, own.kind \notin OverrideKinds,
         Send(r, <<Substituted(M, own)>>)
  PROVE  KeepsOverrides
<1> DEFINE a == Substituted(M, own)
<1>1. M \in SessionState
  BY DEF Prepares
<1>2. a \in Answer /\ (a.kind \in OverrideKinds => TakesOut(a.kind, a.of, M))
  BY <1>1, SubstitutedType, SubstitutedTakes
<1>3. M.required = r => a.kind = "interim" /\ a.of = r
  <2> SUFFICES ASSUME M.required = r PROVE a.kind = "interim" /\ a.of = r
    OBVIOUS
  <2>1. r # None /\ session[s].required # r
    BY UnsentHoldsNothing, SentinelsAssumption DEF MaySend
  <2>2. IsModern(M) /\ M.required # None
    BY <2>1 DEF Prepares
  <2>3. a = [kind |-> "interim", of |-> r]
    BY <1>1, <2>2, SubstitutedTakes
  <2> QED BY <2>3
<1>4. Send(r, <<a>>)
  OBVIOUS
<1> HIDE DEF a
<1> QED BY <1>2, <1>3, <1>4, AnsweredOverrides

\* The answer of a handler that failed is the error.
LEMMA ErrorOverrides ==
  ASSUME IInv, OInv, NEW s \in Sessions, NEW r \in Requests, MaySend(s, r),
         NEW M, Prepares(s, r, M), M.required # r, TasksGrow(r, M),
         NEW X, session' = [session EXCEPT ![s] = X], X = M \/ X = Taken(M),
         Cleared(r, M) \/ X = M,
         NEW m \in Metas, NEW S \in SessionState, Dispatched(r, s, m, S, "done", FALSE),
         Send(r, <<Error(r)>>)
  PROVE  KeepsOverrides
<1>1. Error(r) \in Answer /\ Error(r).kind \notin OverrideKinds
  BY AnswerTypes DEF Error, OverrideKinds
<1>2. FALSE \in BOOLEAN /\ (FALSE <=> M.required = r)
  OBVIOUS
<1> QED BY <1>1, <1>2, AnsweredOverrides

\* Reading _meta and storing inputs leaves at most what the session held.
LEMMA PreparedHolds ==
  ASSUME IInv, OInv, NEW s \in Sessions, NEW r \in Requests, request[r].status = "unsent",
         NEW m \in Metas, NEW S,
         S \in {AfterMeta(session[s], m), ProvideInputs(AfterMeta(session[s], m), r)}
  PROVE  /\ Prepares(s, r, S)
         /\ S.required # r /\ S.override # r
         /\ S.override = session[s].override
         /\ S = ProvideInputs(AfterMeta(session[s], m), r) => Cleared(r, S)
         /\ UNCHANGED task => TasksGrow(r, S)
<1>1. S \in SessionState /\ Keeps(session[s], S)
  BY Prepared
<1>2. session[s] \in SessionState
  BY DEF IInv, TypeOK
<1>3. /\ S.required \in {None, session[s].required}
      /\ S.override = session[s].override
  BY <1>2 DEF ProvideInputs, AfterMeta, SessionState
<1>4. r # None /\ session[s].required # r /\ session[s].override # r
  BY UnsentHoldsNothing, SentinelsAssumption
<1>5. ProvideInputs(AfterMeta(session[s], m), r) = S => Cleared(r, S)
  <2>1. AfterMeta(session[s], m) \in SessionState
    BY <1>2, AfterMetaType
  <2> QED BY <2>1 DEF Cleared, ProvideInputs, IsModern, SessionState
<1> QED BY <1>1, <1>3, <1>4, <1>5 DEF Prepares, TasksGrow

\* A tool may require input of a modern session.
LEMMA RequiresHolds ==
  ASSUME NEW s, NEW r \in Requests, NEW S, Prepares(s, r, S),
         Cleared(r, S), S.required # r, S.override # r, UNCHANGED task
  PROVE  /\ Prepares(s, r, RequireInput(S, r))
         /\ Cleared(r, RequireInput(S, r))
         /\ RequireInput(S, r).override = S.override
         /\ TasksGrow(r, RequireInput(S, r))
<1>1. S \in SessionState
  BY DEF Prepares
<1>2. /\ RequireInput(S, r) \in SessionState
      /\ RequireInput(S, r).override = S.override
      /\ RequireInput(S, r).initialized = S.initialized
      /\ RequireInput(S, r).version = S.version
      /\ RequireInput(S, r).required = S.required
           \/ (RequireInput(S, r).required = r /\ IsModern(RequireInput(S, r)))
  BY <1>1 DEF RequireInput, SessionState, MaybeRequest, IsModern
<1>3. Keeps(session[s], RequireInput(S, r))
  BY <1>2 DEF Prepares, Keeps
<1>4. Cleared(r, RequireInput(S, r))
  BY <1>2 DEF Cleared, IsModern
<1> QED BY <1>2, <1>3, <1>4 DEF Prepares, TasksGrow

LEMMA InitializeOverrides ==
  ASSUME IInv, OInv, NEW s \in Sessions, NEW r \in Requests, NEW m \in Metas,
         NEW w \in Wire, Initialize(s, r, m, w)
  PROVE  KeepsOverrides
<1> DEFINE S == ProvideInputs(AfterMeta(session[s], m), r)
           T == IF S.initialized THEN S ELSE [S EXCEPT !.version = Negotiated(w)]
<1>1. /\ MaySend(s, r) /\ request[r].status = "unsent"
      /\ session' = [session EXCEPT ![s] = Taken(T)]
      /\ Send(r, <<IF ~S.initialized THEN Substituted(T, Result(r)) ELSE Error(r)>>)
      /\ Dispatched(r, s, m, T, "done", FALSE)
      /\ UNCHANGED task
  BY DEF Initialize, Reply, MaySend
<1>2. /\ Prepares(s, r, S) /\ S.required # r /\ S.override # r
      /\ S.override = session[s].override
      /\ Cleared(r, S) /\ SessionOK(S)
  BY <1>1, PreparedHolds, Prepared
<1>3. Negotiated(w) \in Versions
  BY NegotiatedIsSupported, VersionsAssumption
<1> HIDE DEF S
<1>4. /\ Prepares(s, r, T) /\ T.required # r /\ T.override # r /\ Cleared(r, T)
  BY <1>2, <1>3 DEF Prepares, SessionState, Keeps, Cleared, SessionOK
<1>5. T \in SessionState
  BY <1>4 DEF Prepares
<1>6. TasksGrow(r, T)
  BY <1>1, <1>4 DEF TasksGrow
<1>7. FALSE \in BOOLEAN /\ (FALSE <=> T.required = r)
  BY <1>4
<1> HIDE DEF T
<1>8. CASE S.initialized
  BY <1>1, <1>4, <1>5, <1>6, <1>8, ErrorOverrides
<1>9. CASE ~S.initialized
  <2>1. Result(r) \in Answer /\ Result(r).kind \notin OverrideKinds
    BY AnswerTypes DEF Result, OverrideKinds
  <2> QED BY <1>1, <1>4, <1>5, <1>6, <1>7, <1>9, <2>1, SubstitutedOverrides
<1> QED BY <1>8, <1>9

LEMMA RejectedOverrides ==
  ASSUME IInv, OInv, NEW s \in Sessions, NEW r \in Requests, NEW m \in Metas,
         NEW method \in Methods \cup {"unknown"}, Rejected(s, r, m, method)
  PROVE  KeepsOverrides
<1> DEFINE S == AfterMeta(session[s], m)
<1>1. /\ MaySend(s, r) /\ request[r].status = "unsent"
      /\ session' = [session EXCEPT ![s] = S]
      /\ Send(r, <<Error(r)>>)
      /\ Dispatched(r, s, m, S, "done", FALSE)
      /\ UNCHANGED task
  BY DEF Rejected, MaySend
<1>2. Prepares(s, r, S) /\ S.required # r /\ TasksGrow(r, S)
  BY <1>1, PreparedHolds
<1>3. S \in SessionState
  BY <1>2 DEF Prepares
<1> HIDE DEF S
<1> QED BY <1>1, <1>2, <1>3, ErrorOverrides

LEMMA HandledOverrides ==
  ASSUME IInv, OInv, NEW s \in Sessions, NEW r \in Requests, NEW m \in Metas,
         NEW method \in Methods, NEW asks \in BOOLEAN, Handled(s, r, m, method, asks)
  PROVE  KeepsOverrides
<1> DEFINE S == ProvideInputs(AfterMeta(session[s], m), r)
           ok == method \in NeedsReady => S.initialized
           T == IF ok /\ asks THEN RequireInput(S, r) ELSE S
<1>1. /\ MaySend(s, r) /\ request[r].status = "unsent"
      /\ session' = [session EXCEPT ![s] = Taken(T)]
      /\ Send(r, <<IF ok THEN Substituted(T, Result(r)) ELSE Error(r)>>)
      /\ Dispatched(r, s, m, T, "done", T.required = r)
      /\ UNCHANGED task
  BY DEF Handled, Reply, MaySend
<1>2. /\ Prepares(s, r, S) /\ S.required # r /\ S.override # r /\ TasksGrow(r, S)
      /\ Cleared(r, S)
  BY <1>1, PreparedHolds
<1> HIDE DEF S
<1>3. Prepares(s, r, T) /\ Cleared(r, T) /\ TasksGrow(r, T) /\ (~ok => T = S)
  BY <1>1, <1>2, RequiresHolds
<1>4. T \in SessionState /\ (T.required = r) \in BOOLEAN
  BY <1>3 DEF Prepares
<1> HIDE DEF T, ok
<1>5. CASE ok
  <2>1. Result(r) \in Answer /\ Result(r).kind \notin OverrideKinds
    BY AnswerTypes DEF Result, OverrideKinds
  <2> QED BY <1>1, <1>3, <1>4, <1>5, <2>1, SubstitutedOverrides
<1>6. CASE ~ok
  <2>1. Dispatched(r, s, m, T, "done", FALSE)
    <3>1. (T.required = r) = FALSE
      BY <1>2, <1>3, <1>6
    <3> QED BY <1>1, <3>1
  <2> QED BY <1>1, <1>2, <1>3, <1>4, <1>6, <2>1, ErrorOverrides
<1> QED BY <1>5, <1>6

LEMMA CallToolTooEarlyOverrides ==
  ASSUME IInv, OInv, NEW s \in Sessions, NEW r \in Requests, NEW m \in Metas,
         CallToolTooEarly(s, r, m)
  PROVE  KeepsOverrides
<1> DEFINE S == ProvideInputs(AfterMeta(session[s], m), r)
           a == Substituted(S, Placeholder(r))
           sequence == <<a, Error(r)>>
<1>1. /\ MaySend(s, r) /\ request[r].status = "unsent"
      /\ session' = [session EXCEPT ![s] = Taken(S)]
      /\ Send(r, sequence)
      /\ Dispatched(r, s, m, S, "done", FALSE)
      /\ UNCHANGED task
  BY DEF CallToolTooEarly, MaySend
<1>2. Prepares(s, r, S) /\ Cleared(r, S) /\ S.required # r /\ TasksGrow(r, S)
  BY <1>1, PreparedHolds
<1>3. S \in SessionState
  BY <1>2 DEF Prepares
<1> HIDE DEF S
<1>4. a \in Answer /\ (a.kind \in OverrideKinds => TakesOut(a.kind, a.of, S))
  <2>1. Placeholder(r) \in Answer /\ Placeholder(r).kind \notin OverrideKinds
    BY AnswerTypes DEF Placeholder, OverrideKinds
  <2> QED BY <1>3, <2>1, SubstitutedType, SubstitutedTakes
<1>5. Error(r) \in Answer /\ Error(r).kind \notin OverrideKinds
  BY AnswerTypes DEF Error, OverrideKinds
<1> HIDE DEF a
<1>6. /\ sequence \in Seq(Answer)
      /\ \A i \in DOMAIN sequence : sequence[i].kind \in OverrideKinds =>
           TakesOut(sequence[i].kind, sequence[i].of, S)
  BY <1>4, <1>5
<1>7. /\ answers'[r] = sequence
      /\ \A q \in Requests \ {r} : answers'[q] = answers[q]
  <2>1. /\ answers'[r] = answers[r] \o sequence /\ answers[r] = <<>>
        /\ \A q \in Requests \ {r} : answers'[q] = answers[q]
    BY <1>1, <1>6, Sending DEF IInv, TypeOK, UnsentIsUntouched
  <2> QED BY <1>6, <2>1
<1>8. /\ \A q \in Requests \ {r} : request'[q] = request[q]
      /\ request'[r].session = s
      /\ request'[r].status = "done"
      /\ request'[r].asked = FALSE
  BY <1>1, <1>3, Dispatching DEF IInv
<1> HIDE DEF sequence
<1>9. DispatchStep(s, r, S, Taken(S), sequence)
  BY <1>1, <1>2, <1>6, <1>7, <1>8 DEF DispatchStep, Prepares, TasksGrow
<1> QED BY <1>9, DispatchOverrides, DispatchWaits DEF KeepsOverrides

\* What a session holds once a tool has been called on it.
LEMMA CalledHolds ==
  ASSUME IInv, OInv, NEW s \in Sessions, NEW r \in Requests, request[r].status = "unsent",
         NEW m \in Metas, NEW asks \in BOOLEAN
  PROVE  /\ Prepares(s, r, Called(s, r, m, asks))
         /\ Cleared(r, Called(s, r, m, asks))
         /\ Called(s, r, m, asks) \in SessionState
         /\ Called(s, r, m, asks).override # r
<1> DEFINE S == ProvideInputs(AfterMeta(session[s], m), r)
<1>1. /\ Prepares(s, r, S) /\ S.required # r /\ S.override # r /\ Cleared(r, S)
  BY PreparedHolds
<1>2. Called(s, r, m, asks) = IF asks THEN RequireInput(S, r) ELSE S
  BY DEF Called
<1> HIDE DEF S
<1>3. S \in SessionState
  BY <1>1 DEF Prepares
<1>4. /\ RequireInput(S, r) \in SessionState
      /\ RequireInput(S, r).override = S.override
      /\ RequireInput(S, r).initialized = S.initialized
      /\ RequireInput(S, r).version = S.version
      /\ RequireInput(S, r).required = S.required
           \/ (RequireInput(S, r).required = r /\ IsModern(RequireInput(S, r)))
  BY <1>3 DEF RequireInput, SessionState, MaybeRequest, IsModern
<1>5. Prepares(s, r, RequireInput(S, r))
  BY <1>1, <1>4 DEF Prepares, Keeps
<1>6. Cleared(r, RequireInput(S, r))
  BY <1>1, <1>4 DEF Cleared, IsModern
<1> QED BY <1>1, <1>2, <1>3, <1>4, <1>5, <1>6

LEMMA CallToolFinishedOverrides ==
  ASSUME IInv, OInv, NEW s \in Sessions, NEW r \in Requests, NEW m \in Metas,
         NEW asks \in BOOLEAN, CallToolFinished(s, r, m, asks)
  PROVE  KeepsOverrides
<1> DEFINE T == Called(s, r, m, asks)
<1>1. /\ MaySend(s, r) /\ request[r].status = "unsent"
      /\ session' = [session EXCEPT ![s] = Taken(T)]
      /\ Send(r, <<Substituted(T, Result(r))>>)
      /\ Dispatched(r, s, m, T, "done", T.required = r)
      /\ UNCHANGED task
  BY DEF CallToolFinished, MaySend
<1>2. Prepares(s, r, T) /\ Cleared(r, T) /\ T \in SessionState /\ T.override # r
  BY <1>1, CalledHolds
<1> HIDE DEF T
<1>3. TasksGrow(r, T) /\ (T.required = r) \in BOOLEAN
  BY <1>1, <1>2 DEF TasksGrow
<1>4. Result(r) \in Answer /\ Result(r).kind \notin OverrideKinds
  BY AnswerTypes DEF Result, OverrideKinds
<1> QED BY <1>1, <1>2, <1>3, <1>4, SubstitutedOverrides

LEMMA CallToolDeferredOverrides ==
  ASSUME IInv, OInv, NEW s \in Sessions, NEW r \in Requests, NEW m \in Metas,
         NEW asks \in BOOLEAN, NEW status \in {"running", "failed"}, MaySend(s, r),
         session' = [session EXCEPT ![s] = Called(s, r, m, asks)],
         Dispatched(r, s, m, Called(s, r, m, asks), status, Called(s, r, m, asks).required = r),
         UNCHANGED <<task, answers>>
  PROVE  KeepsOverrides
<1> DEFINE T == Called(s, r, m, asks)
<1>1. /\ MaySend(s, r) /\ request[r].status = "unsent"
      /\ session' = [session EXCEPT ![s] = T]
      /\ Dispatched(r, s, m, T, status, T.required = r)
      /\ UNCHANGED <<task, answers>>
  BY DEF MaySend
<1>2. Prepares(s, r, T) /\ Cleared(r, T) /\ T \in SessionState /\ T.override # r
  BY <1>1, CalledHolds
<1> HIDE DEF T
<1>3. TasksGrow(r, T) /\ (T.required = r) \in BOOLEAN
  BY <1>1, <1>2 DEF TasksGrow
<1>4. answers'[r] = <<>>
  BY <1>1 DEF IInv, UnsentIsUntouched
<1>5. /\ \A q \in Requests \ {r} : request'[q] = request[q]
      /\ request'[r].session = s
      /\ request'[r].status = status
      /\ request'[r].asked = (T.required = r)
  <2>1. Dispatched(r, s, m, T, status, T.required = r)
    BY DEF T
  <2> QED BY <2>1 DEF Dispatched, IInv, TypeOK
<1>6. request'[r].asked <=> T.required = r
  BY <1>5
<1>7. DOMAIN <<>> = {} /\ \A q \in Requests \ {r} : answers'[q] = answers[q]
  BY <1>1
<1>8. DispatchStep(s, r, T, T, <<>>)
  BY <1>1, <1>2, <1>3, <1>4, <1>5, <1>6, <1>7 DEF DispatchStep, Prepares, TasksGrow
<1> QED BY <1>8, DispatchOverrides, DispatchWaits DEF KeepsOverrides

LEMMA CallToolRunningOverrides ==
  ASSUME IInv, OInv, NEW s \in Sessions, NEW r \in Requests, NEW m \in Metas,
         NEW asks \in BOOLEAN, CallToolRunning(s, r, m, asks)
  PROVE  KeepsOverrides
BY CallToolDeferredOverrides DEF CallToolRunning

LEMMA CallToolFailsOverrides ==
  ASSUME IInv, OInv, NEW s \in Sessions, NEW r \in Requests, NEW m \in Metas,
         NEW asks \in BOOLEAN, CallToolFails(s, r, m, asks)
  PROVE  KeepsOverrides
BY CallToolDeferredOverrides DEF CallToolFails

LEMMA CallToolAsTaskOverrides ==
  ASSUME IInv, OInv, NEW s \in Sessions, NEW r \in Requests, NEW m \in Metas,
         NEW asks \in BOOLEAN, CallToolAsTask(s, r, m, asks)
  PROVE  KeepsOverrides
<1> DEFINE T == Called(s, r, m, asks)
           U == [T EXCEPT !.override = r]
<1>1. /\ MaySend(s, r) /\ request[r].status = "unsent"
      /\ HandsOutTask(T)
      /\ session' = [session EXCEPT ![s] = Taken(U)]
      /\ task' = [task EXCEPT ![r].status = "working"]
      /\ Send(r, <<Substituted(U, Placeholder(r))>>)
      /\ Dispatched(r, s, m, U, "done", T.required = r)
  BY DEF CallToolAsTask, MaySend
<1>2. Prepares(s, r, T) /\ Cleared(r, T) /\ T \in SessionState
  BY <1>1, CalledHolds
<1> HIDE DEF T
<1>3. /\ U \in SessionState /\ U.required = T.required /\ U.override = r
      /\ U.initialized = T.initialized /\ U.version = T.version
  BY <1>2 DEF SessionState, MaybeRequest
<1> HIDE DEF U
<1>4. Prepares(s, r, U) /\ Cleared(r, U)
  BY <1>2, <1>3 DEF Prepares, Keeps, IsModern, Cleared
<1>5. TasksGrow(r, U)
  BY <1>1 DEF TasksGrow, HandsOutTask, IInv, TypeOK, TaskState
<1>6. (T.required = r) \in BOOLEAN /\ ((T.required = r) <=> U.required = r)
  BY <1>3
<1>7. Placeholder(r) \in Answer /\ Placeholder(r).kind \notin OverrideKinds
  BY AnswerTypes DEF Placeholder, OverrideKinds
<1> QED BY <1>1, <1>3, <1>4, <1>5, <1>6, <1>7, SubstitutedOverrides

LEMMA TaskRequestOverrides ==
  ASSUME IInv, OInv, NEW s \in Sessions, NEW r \in Requests, NEW m \in Metas,
         NEW t \in Requests, NEW cancels \in BOOLEAN, TaskRequest(s, r, m, t, cancels)
  PROVE  KeepsOverrides
<1> DEFINE S == ProvideInputs(AfterMeta(session[s], m), r)
<1>1. /\ MaySend(s, r) /\ request[r].status = "unsent"
      /\ IF TaskExists(t)
         THEN /\ session' = [session EXCEPT ![s] = Taken(S)]
              /\ Send(r, <<Substituted(S, Result(r))>>)
         ELSE session' = [session EXCEPT ![s] = S] /\ Send(r, <<Error(r)>>)
      /\ task' = IF cancels /\ TaskExists(t) /\ AtWork(t)
                 THEN [task EXCEPT ![t].cancel = TRUE] ELSE task
      /\ Dispatched(r, s, m, S, "done", FALSE)
  BY DEF TaskRequest, MaySend, Reply
<1>2. Prepares(s, r, S) /\ Cleared(r, S) /\ S.required # r /\ S.override # r
  BY <1>1, PreparedHolds
<1>3. S \in SessionState
  BY <1>2 DEF Prepares
<1> HIDE DEF S
<1>4. TasksGrow(r, S)
  <2>1. \A q \in Requests : task'[q].status = task[q].status
    BY <1>1 DEF IInv, TypeOK, TaskState
  <2> QED BY <1>2, <2>1 DEF TasksGrow
<1>5. CASE TaskExists(t)
  <2>1. Result(r) \in Answer /\ Result(r).kind \notin OverrideKinds
    BY AnswerTypes DEF Result, OverrideKinds
  <2>2. FALSE \in BOOLEAN /\ (FALSE <=> S.required = r)
    BY <1>2
  <2> QED BY <1>1, <1>2, <1>3, <1>4, <1>5, <2>1, <2>2, SubstitutedOverrides
<1>6. CASE ~TaskExists(t)
  BY <1>1, <1>2, <1>3, <1>4, <1>6, ErrorOverrides
<1> QED BY <1>5, <1>6

\* A step that changes a session and nothing it holds.
LEMMA SessionOnlyOverrides ==
  ASSUME IInv, OInv, NEW s \in Sessions, NEW X \in SessionState, Keeps(session[s], X),
         session' = [session EXCEPT ![s] = X],
         X.required = session[s].required, X.override = session[s].override,
         UNCHANGED <<request, task, answers>>
  PROVE  KeepsOverrides
<1>1. \A kind, q, x : Delivered(kind, q, x)' = Delivered(kind, q, x)
  BY DEF Delivered
<1>2. None \notin Requests
  BY SentinelsAssumption
<1>3. OverrideStep(s, None, X, X)
  BY <1>1, <1>2 DEF OverrideStep, Slot, Made, OInv, UnsentAsksNothing
<1>4. OInv'
  BY <1>3, OverridesOK
<1>5. ASSUME ~TasksExtension, WInv PROVE WInv'
  <2>1. /\ session'[s] = X
        /\ \A t \in Sessions \ {s} : session'[t] = session[t]
    BY DEF IInv, TypeOK
  <2>2. \A t \in Sessions : session'[t].required = session[t].required
    BY <2>1
  <2>3. NoTasks' /\ OneRuns' /\ RequiredOfRunning'
    BY <1>5, <2>2 DEF WInv, NoTasks, OneRuns, RequiredOfRunning, Runs
  <2>4. RequiredIsModern'
    <3> SUFFICES ASSUME NEW t \in Sessions, session'[t].required # None
                 PROVE  IsModern(session'[t])
      BY DEF RequiredIsModern, IsModern
    <3>1. IsModern(session[t]) /\ session[t].initialized
      BY <1>5, <2>2 DEF WInv, RequiredIsModern, IInv, SessionsOK, SessionOK
    <3> QED BY <2>1, <3>1 DEF Keeps, IsModern
  <2>5. InterimMatchesRequest'
    BY <1>1, <1>5 DEF WInv, InterimMatchesRequest, Waited
  <2> QED BY <2>3, <2>4, <2>5 DEF WInv
<1> QED BY <1>4, <1>5 DEF KeepsOverrides

LEMMA LifecycleOverrides ==
  ASSUME IInv, OInv, NEW s \in Sessions,
         NewSession(s) \/ \E m \in Metas : Initialized(s, m)
  PROVE  KeepsOverrides
<1>1. session[s] \in SessionState /\ SessionOK(session[s])
  BY DEF IInv, TypeOK, SessionsOK
<1>2. CASE NewSession(s)
  <2> DEFINE X == [session[s] EXCEPT !.known = TRUE]
  <2>1. session' = [session EXCEPT ![s] = X] /\ UNCHANGED <<request, task, answers>>
    BY <1>2 DEF NewSession, IInv, TypeOK
  <2>2. /\ X \in SessionState /\ Keeps(session[s], X)
        /\ X.required = session[s].required /\ X.override = session[s].override
    BY <1>1 DEF SessionState, Keeps
  <2> HIDE DEF X
  <2> QED BY <2>1, <2>2, SessionOnlyOverrides
<1>3. ASSUME NEW m \in Metas, Initialized(s, m) PROVE KeepsOverrides
  <2> DEFINE M == AfterMeta(session[s], m)
             X == [M EXCEPT !.initialized = TRUE]
  <2>1. session' = [session EXCEPT ![s] = X] /\ UNCHANGED <<request, task, answers>>
    BY <1>3 DEF Initialized
  <2>2. /\ M \in SessionState /\ Keeps(session[s], M)
        /\ M.required = session[s].required /\ M.override = session[s].override
    <3>1. M.required = session[s].required /\ M.override = session[s].override
      BY <1>1 DEF AfterMeta, SessionState
    <3> QED BY <1>1, <3>1, AfterMetaType, AfterMetaKeeps
  <2> HIDE DEF M
  <2>3. /\ X \in SessionState /\ Keeps(session[s], X)
        /\ X.required = session[s].required /\ X.override = session[s].override
    BY <2>2 DEF SessionState, Keeps
  <2> HIDE DEF X
  <2> QED BY <2>1, <2>3, SessionOnlyOverrides
<1> QED BY <1>2, <1>3

LEMMA ToolRequiresInputOverrides ==
  ASSUME IInv, OInv, NEW r \in Requests, ToolRequiresInput(r)
  PROVE  KeepsOverrides
<1> DEFINE s == request[r].session
           X == RequireInput(session[s], r)
<1>1. /\ request[r].status = "running" \/ task[r].status = "working"
      /\ ~request[r].asked /\ IsModern(session[s])
      /\ session' = [session EXCEPT ![s] = X]
      /\ request' = [request EXCEPT ![r].asked = TRUE]
      /\ UNCHANGED <<task, answers>>
  BY DEF ToolRequiresInput, AtWork
<1>2. request[r].status # "unsent" /\ s \in Sessions
  BY <1>1 DEF IInv, UnsentIsUntouched, SentHasSession
<1>3. session[s] \in SessionState
  BY <1>2 DEF IInv, TypeOK
<1>4. /\ X \in SessionState /\ X.required = r /\ X.override = session[s].override
      /\ X.version = session[s].version
  BY <1>1, <1>3, InputTypes DEF RequireInput, SessionState
<1> HIDE DEF X
<1>5. /\ request' \in [Requests -> RequestState]
      /\ \A q \in Requests \ {r} : request'[q] = request[q]
      /\ request'[r].asked
      /\ request'[r].session = s /\ request'[r].status = request[r].status
  BY <1>1 DEF IInv, TypeOK, RequestState
<1>6. \A kind, q, x : Delivered(kind, q, x)' = Delivered(kind, q, x)
  BY <1>1 DEF Delivered
<1>7. OInv'
  <2>1. \A kind \in OverrideKinds :
          \/ Slot(kind, X) \in {None, Slot(kind, session[s])}
          \/ Slot(kind, X) = r /\ r \in Requests /\ ~Made(kind, r)
    BY <1>1, <1>4 DEF Slot, Made
  <2>2. ASSUME NEW kind \in OverrideKinds, NEW q \in Requests,
               Made(kind, q) \/ (q = r /\ Slot(kind, X) = r)
        PROVE  Made(kind, q)'
    <3>1. CASE kind = "interim"
      BY <1>5, <2>2, <3>1 DEF Made
    <3>2. CASE kind # "interim"
      <4>1. q = r /\ session[s].override = r => Made(kind, q)
        BY <1>2, <2>2, <3>2 DEF OInv, HeldIsNew, Slot
      <4> QED BY <1>1, <1>4, <2>2, <3>2, <4>1 DEF Made, Slot
    <3> QED BY <3>1, <3>2
  <2>3. UnsentAsksNothing'
    BY <1>2, <1>5 DEF OInv, UnsentAsksNothing
  <2>4. OverrideStep(s, r, X, X)
    BY <1>1, <1>2, <1>5, <1>6, <2>1, <2>2, <2>3 DEF OverrideStep
  <2> HIDE DEF s
  <2> QED BY <1>2, <1>4, <2>4, OverridesOK
<1>8. ASSUME ~TasksExtension, WInv PROVE WInv'
  <2>1. request[r].status = "running" /\ task'= task
    BY <1>1, <1>8 DEF WInv, NoTasks
  <2>2. /\ session'[s] = X
        /\ \A t \in Sessions \ {s} : session'[t] = session[t]
    BY <1>1, <1>2 DEF IInv, TypeOK
  <2>3. \A q \in Requests : \A t : Runs(q, t)' <=> Runs(q, t)
    BY <1>5 DEF Runs
  <2>4. Runs(r, s)
    BY <2>1 DEF Runs
  <2> HIDE DEF s
  <2>5. NoTasks' /\ OneRuns'
    BY <1>8, <2>1, <2>3 DEF WInv, NoTasks, OneRuns
  <2>6. RequiredIsModern'
    BY <1>1, <1>4, <1>8, <2>2 DEF WInv, RequiredIsModern, IsModern
  <2>7. RequiredOfRunning'
    <3> SUFFICES ASSUME NEW t \in Sessions \ Overlapping, NEW q \in Requests
                 PROVE  /\ Runs(q, t)' /\ request'[q].asked => session'[t].required = q
                        /\ session'[t].required = q =>
                             /\ request'[q].asked
                             /\ Runs(q, t)' \/ \A p \in Requests : ~Runs(p, t)'
      BY DEF RequiredOfRunning
    <3>1. CASE t = s
      BY <1>4, <1>5, <1>8, <2>2, <2>3, <2>4, <3>1 DEF WInv, OneRuns
    <3>2. CASE t # s
      <4>1. session'[t] = session[t]
        BY <2>2, <3>2
      <4>2. q = r => ~Runs(q, t)
        BY <2>4, <3>2 DEF Runs
      <4> QED BY <1>5, <1>8, <2>3, <4>1, <4>2 DEF WInv, RequiredOfRunning
    <3> QED BY <3>1, <3>2
  <2>8. InterimMatchesRequest'
    BY <1>5, <1>6, <1>8, <2>1 DEF WInv, InterimMatchesRequest, Waited
  <2> QED BY <2>5, <2>6, <2>7, <2>8 DEF WInv
<1> QED BY <1>7, <1>8 DEF KeepsOverrides

LEMMA ToolFinishesOverrides ==
  ASSUME IInv, OInv, NEW r \in Requests, ToolFinishes(r)
  PROVE  KeepsOverrides
<1> DEFINE s == request[r].session
           S == session[s]
           a == Substituted(S, Result(r))
<1>1. /\ request[r].status = "running"
      /\ session' = [session EXCEPT ![s] = Taken(S)]
      /\ Send(r, <<a>>)
      /\ request' = [request EXCEPT ![r].status = "done"]
      /\ UNCHANGED task
  BY DEF ToolFinishes, IInv, TypeOK
<1>2. s \in Sessions /\ request[r].ready
  BY <1>1 DEF IInv, SentHasSession, RunningIsReady
<1>3. S \in SessionState
  BY <1>2 DEF IInv, TypeOK
<1>4. /\ \A q \in Requests \ {r} : request'[q] = request[q]
      /\ request'[r].session = s /\ request'[r].status = "done"
      /\ request'[r].asked = request[r].asked
  BY <1>1 DEF IInv, TypeOK, RequestState
<1>5. /\ a \in Answer /\ (a.kind \in OverrideKinds => TakesOut(a.kind, a.of, S))
      /\ IsModern(S) /\ S.required # None => a.kind = "interim" /\ a.of = S.required
  <2>1. Result(r) \in Answer /\ Result(r).kind \notin OverrideKinds
    BY AnswerTypes DEF Result, OverrideKinds
  <2>2. IsModern(S) /\ S.required # None => a = [kind |-> "interim", of |-> S.required]
    BY <1>3, <2>1, SubstitutedTakes
  <2>3. a \in Answer
    BY <1>3, <2>1, SubstitutedType
  <2>4. a.kind \in OverrideKinds => TakesOut(a.kind, a.of, S)
    BY <1>3, <2>1, SubstitutedTakes
  <2> QED BY <2>2, <2>3, <2>4
<1> HIDE DEF a
<1>6. /\ answers'[r] = <<a>>
      /\ \A q \in Requests \ {r} : answers'[q] = answers[q]
  <2>1. answers[r] = <<>>
    BY <1>1, <1>2 DEF IInv, TypeOK, ReadyRequestAnsweredOnce
  <2>2. /\ answers'[r] = answers[r] \o <<a>>
        /\ \A q \in Requests \ {r} : answers'[q] = answers[q]
    <3>1. <<a>> \in Seq(Answer)
      BY <1>5
    <3> QED BY <1>1, <3>1, Sending DEF IInv, TypeOK
  <2> QED BY <1>5, <2>1, <2>2
<1>7. \A kind, q : Delivered(kind, q, r)' # {} <=> a.kind = kind /\ a.of = q
  <2>1. DOMAIN <<a>> = {1} /\ <<a>>[1] = a
    OBVIOUS
  <2>2. \A kind, q : Delivered(kind, q, r)' # {} <=>
          \E i \in DOMAIN <<a>> : <<a>>[i].kind = kind /\ <<a>>[i].of = q
    BY <1>6, DeliveredBy
  <2> QED BY <2>1, <2>2
<1>8. \A x \in Requests \ {r} : \A kind, q : Delivered(kind, q, x)' = Delivered(kind, q, x)
  BY <1>6, DeliveredBy
<1>9. OInv'
  <2>1. \A kind \in OverrideKinds, q \in Requests :
          Made(kind, q) \/ (q = r /\ Slot(kind, S) = r) => Made(kind, q)'
    <3> SUFFICES ASSUME NEW kind \in OverrideKinds, NEW q \in Requests,
                        Made(kind, q) \/ (q = r /\ Slot(kind, S) = r)
                 PROVE  Made(kind, q)'
      OBVIOUS
    <3>1. Made(kind, q)
      BY <1>2 DEF OInv, HeldIsNew
    <3> QED BY <1>1, <1>4, <3>1 DEF Made
  <2>2. UnsentAsksNothing'
    BY <1>4 DEF OInv, UnsentAsksNothing
  <2>3. ASSUME NEW kind \in OverrideKinds, NEW q \in Requests, NEW x \in Requests,
               Delivered(kind, q, x)' # {}
        PROVE  Delivered(kind, q, x) # {} \/ (x = r /\ TakesOut(kind, q, S))
    BY <1>5, <1>7, <1>8, <2>3
  <2>4. OverrideStep(s, r, S, Taken(S))
    BY <1>1, <1>4, <2>1, <2>2, <2>3 DEF OverrideStep
  <2> HIDE DEF s, S
  <2> QED BY <1>2, <1>3, <2>4, OverridesOK
<1>10. ASSUME ~TasksExtension, WInv PROVE WInv'
  <2>1. /\ session'[s] = Taken(S)
        /\ \A t \in Sessions \ {s} : session'[t] = session[t]
    BY <1>1, <1>2 DEF IInv, TypeOK
  <2>2. S.required # None => IsModern(S)
    BY <1>2, <1>10 DEF WInv, RequiredIsModern
  <2>3. Taken(S).required = None
    BY <1>3, <2>2 DEF Taken, SessionState
  <2>4. r # None /\ \A q \in Requests : q # None
    BY SentinelsAssumption
  <2>5. NoTasks'
    BY <1>1, <1>10 DEF WInv, NoTasks
  <2>6. Runs(r, s) /\ ~Runs(r, s)'
    BY <1>1, <1>4 DEF Runs
  <2>7. /\ \A q \in Requests \ {r} : \A t : Runs(q, t)' <=> Runs(q, t)
        /\ \A t : ~Runs(r, t)'
    BY <1>4 DEF Runs
  <2>8. s \notin Overlapping => (S.required = r <=> request[r].asked) /\ S.required \in {None, r}
    <3> SUFFICES ASSUME s \notin Overlapping
                 PROVE  (S.required = r <=> request[r].asked) /\ S.required \in {None, r}
      OBVIOUS
    <3>1. S.required = r <=> request[r].asked
      BY <1>2, <1>10, <2>6 DEF WInv, RequiredOfRunning
    <3>2. S.required \in Requests \cup {None}
      BY <1>3 DEF SessionState, MaybeRequest
    <3>3. \A q \in Requests : S.required = q => Runs(q, s)
      BY <1>2, <1>10, <2>6 DEF WInv, RequiredOfRunning
    <3>4. \A q \in Requests : Runs(q, s) => q = r
      BY <1>2, <1>10, <2>6 DEF WInv, OneRuns
    <3> QED BY <3>1, <3>2, <3>3, <3>4
  <2>9. RequiredIsModern'
    <3> SUFFICES ASSUME NEW t \in Sessions, session'[t].required # None
                 PROVE  IsModern(session'[t])
      BY DEF RequiredIsModern, IsModern
    <3>1. t # s
      BY <2>1, <2>3
    <3> QED BY <1>10, <2>1, <3>1 DEF WInv, RequiredIsModern
  <2> HIDE DEF s, S
  <2>10. OneRuns'
    <3> SUFFICES ASSUME NEW t \in Sessions \ Overlapping, NEW p \in Requests, NEW q \in Requests,
                        Runs(p, t)', Runs(q, t)'
                 PROVE  p = q
      BY DEF OneRuns
    <3>1. p # r /\ q # r
      BY <2>7
    <3> QED BY <1>10, <2>7, <3>1 DEF WInv, OneRuns
  <2>11. RequiredOfRunning'
    <3> SUFFICES ASSUME NEW t \in Sessions \ Overlapping, NEW q \in Requests
                 PROVE  /\ Runs(q, t)' /\ request'[q].asked => session'[t].required = q
                        /\ session'[t].required = q =>
                             /\ request'[q].asked
                             /\ Runs(q, t)' \/ \A p \in Requests : ~Runs(p, t)'
      BY DEF RequiredOfRunning
    <3>1. CASE t = s
      <4>1. session'[t].required # q
        BY <2>1, <2>3, <2>4, <3>1
      <4>2. q # r => ~Runs(q, t)
        BY <1>10, <2>6, <3>1 DEF WInv, OneRuns
      <4> QED BY <2>7, <4>1, <4>2
    <3>2. CASE t # s
      <4>1. session'[t] = session[t]
        BY <2>1, <3>2
      <4>2. ~Runs(r, t) /\ ~Runs(r, t)'
        BY <2>6, <2>7, <3>2 DEF Runs
      <4>3. request'[q].asked = request[q].asked /\ (Runs(q, t)' <=> Runs(q, t))
        BY <1>4, <2>7, <4>2
      <4>4. \A p \in Requests : Runs(p, t)' <=> Runs(p, t)
        BY <2>7, <4>2
      <4> QED BY <1>10, <4>1, <4>3, <4>4 DEF WInv, RequiredOfRunning
    <3> QED BY <3>1, <3>2
  <2>12. InterimMatchesRequest'
    <3> SUFFICES ASSUME NEW p \in Requests, Waited(p)'
                 PROVE  /\ request'[p].asked <=> Delivered("interim", p, p)' # {}
                        /\ \A q \in Requests \ {p} : Delivered("interim", q, p)' = {}
      BY DEF InterimMatchesRequest
    <3>1. CASE p # r
      <4>1. Waited(p) /\ request'[p].asked = request[p].asked
        BY <1>4, <3>1 DEF Waited
      <4> QED BY <1>8, <1>10, <3>1, <4>1 DEF WInv, InterimMatchesRequest
    <3>2. CASE p = r
      <4>1. s \notin Overlapping
        BY <1>4, <3>2 DEF Waited
      <4>2. a.kind = "interim" <=> S.required = r
        <5>1. CASE S.required = r
          BY <1>5, <2>2, <2>4, <5>1
        <5>2. CASE S.required # r
          <6>1. S.required = None
            BY <2>8, <4>1, <5>2
          <6>2. a.kind = "interim" => a.of = None
            BY <1>5, <6>1 DEF TakesOut, Slot, OverrideKinds
          <6>3. a.of \in Requests
            BY <1>5 DEF Answer
          <6> QED BY <2>4, <5>2, <6>2, <6>3
        <5> QED BY <5>1, <5>2
      <4>3. a.kind = "interim" => a.of = r
        BY <1>5, <2>2, <2>4, <4>2
      <4>4. /\ request'[r].asked <=> S.required = r
        BY <1>4, <2>8, <4>1
      <4> QED BY <1>7, <3>2, <4>2, <4>3, <4>4
    <3> QED BY <3>1, <3>2
  <2> QED BY <2>5, <2>9, <2>10, <2>11, <2>12 DEF WInv
<1> QED BY <1>9, <1>10 DEF KeepsOverrides

\* The end of a task changes nothing that is held or sent.
LEMMA TaskEndsOverrides ==
  ASSUME IInv, OInv, NEW t \in Requests,
         TaskFinishes(t) \/ TaskIsDropped(t) \/ TaskThrows(t)
  PROVE  KeepsOverrides
<1>1. /\ task[t].status = "working"
      /\ UNCHANGED <<session, request, answers>>
      /\ \A q \in Requests : task'[q].status # "none" <=> task[q].status # "none"
  <2>1. task[t].status = "working" /\ task[t] \in TaskState
    BY DEF TaskFinishes, TaskIsDropped, TaskThrows, AtWork, IInv, TypeOK
  <2>2. CASE TaskFinishes(t)
    BY <2>1, <2>2 DEF TaskFinishes, IInv, TypeOK, TaskState
  <2>3. CASE TaskIsDropped(t)
    BY <2>1, <2>3 DEF TaskIsDropped, IInv, TypeOK, TaskState
  <2>4. CASE TaskThrows(t)
    BY <2>1, <2>4 DEF TaskThrows, IInv, TypeOK, TaskState
  <2> QED BY <2>1, <2>2, <2>3, <2>4
<1>2. \A kind, q, x : Delivered(kind, q, x)' = Delivered(kind, q, x)
  BY <1>1 DEF Delivered
<1>3. \A kind \in OverrideKinds, q \in Requests : Made(kind, q)' <=> Made(kind, q)
  BY <1>1 DEF Made
<1>4. HeldIsNew' /\ UnsentAsksNothing'
  BY <1>1, <1>2, <1>3 DEF OInv, HeldIsNew, UnsentAsksNothing, Slot
<1>5. DeliveredIsMade' /\ DeliveredToOne'
  BY <1>1, <1>2, <1>3 DEF OInv, DeliveredIsMade, DeliveredToOne
<1>6. ~WInv
  BY <1>1 DEF WInv, NoTasks
<1> QED BY <1>4, <1>5, <1>6 DEF OInv, KeepsOverrides

\* A tool that fails leaves behind what it asked for, and sends nothing.
LEMMA ToolFailsOverrides ==
  ASSUME IInv, OInv, NEW r \in Requests, ToolFails(r)
  PROVE  KeepsOverrides
<1>1. /\ request[r].status = "running"
      /\ UNCHANGED <<session, task, answers>>
  BY DEF ToolFails
<1>2. /\ \A q \in Requests \ {r} : request'[q] = request[q]
      /\ request'[r].status = "failed"
      /\ request'[r].session = request[r].session
      /\ request'[r].asked = request[r].asked
  BY DEF ToolFails, IInv, TypeOK, RequestState
<1>3. \A q \in Requests : request'[q].asked = request[q].asked
                         /\ request'[q].session = request[q].session
  BY <1>2
<1>4. \A kind, q, x : Delivered(kind, q, x)' = Delivered(kind, q, x)
  BY <1>1 DEF Delivered
<1>5. \A kind \in OverrideKinds, q \in Requests : Made(kind, q)' <=> Made(kind, q)
  BY <1>1, <1>3 DEF Made
<1>6. UnsentAsksNothing'
  BY <1>1, <1>2 DEF OInv, UnsentAsksNothing
<1>7. OInv'
  BY <1>1, <1>3, <1>4, <1>5, <1>6
     DEF OInv, HeldIsNew, DeliveredIsMade, DeliveredToOne, Slot
<1>8. ASSUME WInv PROVE WInv'
  <2>1. \A q \in Requests, t \in Sessions : Runs(q, t)' => Runs(q, t)
    BY <1>2 DEF Runs
  <2>2. \A q \in Requests \ {r} : \A t \in Sessions : Runs(q, t)' <=> Runs(q, t)
    BY <1>2 DEF Runs
  <2>3. NoTasks' /\ RequiredIsModern'
    BY <1>1, <1>8 DEF WInv, NoTasks, RequiredIsModern, IsModern
  <2>4. OneRuns'
    BY <1>8, <2>1 DEF WInv, OneRuns
  <2>5. RequiredOfRunning'
    <3> SUFFICES ASSUME NEW t \in Sessions \ Overlapping, NEW q \in Requests
                 PROVE  /\ Runs(q, t)' /\ request'[q].asked => session'[t].required = q
                        /\ session'[t].required = q =>
                             /\ request'[q].asked
                             /\ Runs(q, t)' \/ \A p \in Requests : ~Runs(p, t)'
      BY DEF RequiredOfRunning
    <3>1. session'[t] = session[t] /\ request'[q].asked = request[q].asked
      BY <1>1, <1>3
    <3>2. Runs(q, t)' /\ request'[q].asked => session'[t].required = q
      BY <1>8, <2>1, <3>1 DEF WInv, RequiredOfRunning
    <3>3. ASSUME session'[t].required = q
          PROVE  request'[q].asked /\ (Runs(q, t)' \/ \A p \in Requests : ~Runs(p, t)')
      <4>1. request[q].asked /\ (Runs(q, t) \/ \A p \in Requests : ~Runs(p, t))
        BY <1>8, <3>1, <3>3 DEF WInv, RequiredOfRunning
      <4>2. CASE Runs(q, t) /\ q = r
        <5>1. \A p \in Requests \ {r} : ~Runs(p, t)
          BY <1>8, <4>2 DEF WInv, OneRuns
        <5>2. ~Runs(r, t)'
          BY <1>2 DEF Runs
        <5> QED BY <2>1, <3>1, <4>1, <5>1, <5>2
      <4>3. CASE ~(Runs(q, t) /\ q = r)
        BY <2>1, <2>2, <3>1, <4>1, <4>3
      <4> QED BY <4>2, <4>3
    <3> QED BY <3>2, <3>3
  <2>6. InterimMatchesRequest'
    <3> SUFFICES ASSUME NEW p \in Requests, Waited(p)'
                 PROVE  /\ request'[p].asked <=> Delivered("interim", p, p)' # {}
                        /\ \A q \in Requests \ {p} : Delivered("interim", q, p)' = {}
      BY DEF InterimMatchesRequest
    <3>1. p # r /\ Waited(p)
      BY <1>2 DEF Waited
    <3> QED BY <1>3, <1>4, <1>8, <3>1 DEF WInv, InterimMatchesRequest
  <2> QED BY <2>3, <2>4, <2>5, <2>6 DEF WInv
<1> QED BY <1>7, <1>8 DEF KeepsOverrides

\* Every step keeps what sessions hold and what was delivered in order.
LEMMA StepOverrides == IInv /\ OInv /\ [Next]_vars => KeepsOverrides
<1> SUFFICES ASSUME IInv, OInv, [Next]_vars PROVE KeepsOverrides
  OBVIOUS
<1>1. CASE Lifecycle
  BY <1>1, LifecycleOverrides, InitializeOverrides DEF Lifecycle
<1>2. CASE Answered
  BY <1>2, RejectedOverrides, HandledOverrides, TaskRequestOverrides DEF Answered
<1>3. CASE Tools
  BY <1>3, CallToolTooEarlyOverrides, CallToolFinishedOverrides, CallToolFailsOverrides,
     CallToolRunningOverrides, CallToolAsTaskOverrides DEF Tools
<1>4. CASE Futures
  BY <1>4, ToolRequiresInputOverrides, ToolFinishesOverrides, ToolFailsOverrides, TaskEndsOverrides DEF Futures
<1>5. CASE UNCHANGED vars
  <2>1. UNCHANGED <<session, request, task, answers>>
    BY <1>5 DEF vars
  <2>2. OInv'
    BY <2>1 DEF OInv, HeldIsNew, DeliveredIsMade, DeliveredToOne, UnsentAsksNothing, Slot, Made,
                Delivered
  <2>3. WInv => WInv'
    BY <2>1 DEF WInv, NoTasks, RequiredIsModern, OneRuns, RequiredOfRunning, InterimMatchesRequest,
                Runs, Waited, Delivered, IsModern
  <2> QED BY <2>2, <2>3 DEF KeepsOverrides
<1> QED BY <1>1, <1>2, <1>3, <1>4, <1>5 DEF Next

\* Nothing is held or sent at first.
LEMMA InitOverrides == Init => OInv /\ WInv
<1> SUFFICES ASSUME Init PROVE OInv /\ WInv
  OBVIOUS
<1>1. /\ \A s \in Sessions : session[s].required = None /\ session[s].override = None
      /\ \A r \in Requests : /\ request[r].status = "unsent" /\ ~request[r].asked
                            /\ task[r].status = "none"
  BY DEF Init, NewSessionState
<1>2. \A kind, q : \A r \in Requests : Delivered(kind, q, r) = {}
  BY DEF Init, Delivered
<1>3. \A q \in Requests : q # None
  BY SentinelsAssumption
<1>4. OInv
  BY <1>1, <1>2, <1>3 DEF OInv, HeldIsNew, DeliveredIsMade, DeliveredToOne, UnsentAsksNothing, Slot
<1>5. WInv
  BY <1>1, <1>2, <1>3 DEF WInv, NoTasks, RequiredIsModern, OneRuns, RequiredOfRunning, Runs,
                         InterimMatchesRequest, Waited
<1> QED BY <1>4, <1>5

-----------------------------------------------------------------------------
(***************************************************************************)
(* The theorems.                                                           *)
(***************************************************************************)

\* Every step preserves the invariant and makes progress only.
LEMMA StepIInv == IInv /\ Next => IInv' /\ Progress
<1> SUFFICES ASSUME IInv, Next PROVE IInv' /\ Progress
  OBVIOUS
<1>1. CASE Lifecycle
  BY <1>1, NewSessionStep, InitializedStep, InitializeStep DEF Lifecycle
<1>2. CASE Answered
  BY <1>2, RejectedStep, HandledStep, TaskRequestStep DEF Answered
<1>3. CASE Tools
  BY <1>3, CallToolTooEarlyStep, CallToolFinishedStep, CallToolFailsStep,
     CallToolRunningStep, CallToolAsTaskStep DEF Tools
<1>4. CASE Futures
  BY <1>4, ToolRequiresInputStep, ToolFinishesStep, ToolFailsStep, TaskEndsStep DEF Futures
<1> QED BY <1>1, <1>2, <1>3, <1>4 DEF Next

\* So does a step that changes nothing.
LEMMA StutterIInv == IInv /\ UNCHANGED vars => IInv' /\ Progress
<1> SUFFICES ASSUME IInv, UNCHANGED vars PROVE IInv' /\ Progress
  OBVIOUS
<1>1. UNCHANGED <<session, request, task, answers>>
  BY DEF vars
<1>2. IInv'
  BY <1>1 DEF IInv, TypeOK, SessionsOK, UnsentIsUntouched, SentHasSession,
              RunningIsReady, AnswersOK, MarksAreInTime, ReadyRequestAnsweredOnce,
              LateAnswerSpeaksSessionVersion, TaskNeedsOptIn
<1>3. Progress
  BY <1>1 DEF Progress, Keeps, Settles, IInv, MarksAreInTime
<1> QED BY <1>2, <1>3

\* The invariant of every behaviour of the core's request handling: each part
\* of it is kept by every message, tool and task step of qmcpserver.cpp.
THEOREM Invariance == Spec => []IInv
<1>1. IInv /\ [Next]_vars => IInv'
  BY StepIInv, StutterIInv
<1> QED BY <1>1, InitIInv, PTL DEF Spec

\* Type correctness: among others, whatever version string a client sends, the
\* revision a session stores is one the server knows.
THEOREM TypeCorrect == Spec => []TypeOK
<1>1. IInv => TypeOK
  BY DEF IInv
<1> QED BY <1>1, Invariance, PTL

\* The synchronous half of the dispatcher and the continuation of a tool never
\* both answer a request of an initialized session, and none is forgotten by
\* the half that was to answer it.
THEOREM AnsweredOnce == Spec => []ReadyRequestAnsweredOnce
<1>1. IInv => ReadyRequestAnsweredOnce
  BY DEF IInv
<1> QED BY <1>1, Invariance, PTL

\* Neither an interim result nor a task handle is sent on a session that speaks
\* a revision before 2026-07-28.
THEOREM OverridesAreModern == Spec => []OverridesOnlyWhenModern
<1>1. IInv => OverridesOnlyWhenModern
  <2> SUFFICES ASSUME IInv, NEW r \in Requests, NEW i \in DOMAIN answers[r],
                      answers[r][i].kind \in {"interim", "handle"}
               PROVE  IsModern(session[request[r].session])
    BY DEF OverridesOnlyWhenModern
  <2> QED BY DEF IInv, AnswersOK, AnswerOK
<1> QED BY <1>1, Invariance, PTL

\* The continuation of a tools/call answers in the revision of its session,
\* although it captured that revision when the call was dispatched.
THEOREM LateAnswersFit == Spec => []LateAnswerSpeaksSessionVersion
<1>1. IInv => LateAnswerSpeaksSessionVersion
  BY DEF IInv
<1> QED BY <1>1, Invariance, PTL

\* No client gets a task it did not ask for in the very request.
THEOREM TasksAreOptIn == Spec => []TaskNeedsOptIn
<1>1. IInv => TaskNeedsOptIn
  BY DEF IInv
<1> QED BY <1>1, Invariance, PTL

\* No message changes the revision of an initialized session.
THEOREM VersionFrozen == Spec => VersionIsFrozen
<1>1. IInv /\ [Next]_vars => \A s \in Sessions : Keeps(session[s], session'[s])
  BY StepIInv, StutterIInv DEF Progress
<1> QED BY <1>1, Invariance, PTL DEF Spec, VersionIsFrozen

\* Terminal tasks are final, and a cancelled task never completes.
THEOREM CancellationIsFinal == Spec => CancelledStaysCancelled
<1>1. IInv /\ [Next]_vars => \A t \in Requests : Settles(task[t], task'[t])
  BY StepIInv, StutterIInv DEF Progress
<1> QED BY <1>1, Invariance, PTL DEF Spec, CancelledStaysCancelled

\* However requests of a session overlap, what a tool required or a task made
\* is sent at most once: it leaves the session with the answer it replaces.
THEOREM OverridesAreSentOnce == Spec => []OverrideDeliveredOnce
<1>1. IInv /\ OInv /\ [Next]_vars => OInv'
  BY StepOverrides DEF KeepsOverrides
<1>2. OInv => OverrideDeliveredOnce
  <2> SUFFICES ASSUME OInv, NEW q \in Requests, NEW kind \in {"interim", "handle"}
               PROVE  Cardinality({r \in Requests : Delivered(kind, q, r) # {}}) <= 1
    BY DEF OverrideDeliveredOnce
  <2> DEFINE R == {r \in Requests : Delivered(kind, q, r) # {}}
  <2>1. \A r, other \in R : r = other
    BY DEF OInv, DeliveredToOne, OverrideKinds
  <2>2. CASE R = {}
    BY <2>2, FS_EmptySet
  <2>3. CASE R # {}
    <3>1. PICK r \in R : TRUE
      BY <2>3
    <3>2. R = {r}
      BY <2>1, <3>1
    <3>3. Cardinality({r}) = 1
      BY FS_Singleton
    <3>4. Cardinality(R) <= 1
      BY <3>2, <3>3
    <3> QED BY <3>4
  <2> QED BY <2>2, <2>3
<1> QED BY <1>1, <1>2, InitOverrides, Invariance, PTL DEF Spec

\* With the tasks extension off, a client that waits for its answers gets an
\* interim result for exactly the requests whose handler asked for input,
\* whatever the clients of other sessions do.
THEOREM InterimsReachTheirCallers == ~TasksExtension /\ Spec => []InterimMatchesRequest
<1> SUFFICES ASSUME ~TasksExtension PROVE Spec => []InterimMatchesRequest
  OBVIOUS
<1>1. IInv /\ OInv /\ WInv /\ [Next]_vars => OInv' /\ WInv'
  BY StepOverrides DEF KeepsOverrides
<1>2. WInv => InterimMatchesRequest
  BY DEF WInv
<1> QED BY <1>1, <1>2, InitOverrides, Invariance, PTL DEF Spec
=============================================================================

------------------------------ MODULE McpServer ------------------------------
(***************************************************************************)
(* The request side of QMcpServer (src/src/mcpserver): how the core        *)
(* dispatches a JSON-RPC message of a session, how a session becomes       *)
(* initialized, and how the answer of a request is replaced on its way     *)
(* out: by an input_required interim result (multi round-trip requests)    *)
(* or by the handle of a task (the tasks extension).                       *)
(*                                                                         *)
(* The core runs on one event loop.  A step of this module is one callback *)
(* of that loop: a message the backend received, or the future of a tool   *)
(* that finished.  Requests are handled in one step, except tools/call,    *)
(* whose tool may hand out a future and finish in a later step; between    *)
(* the two any number of other callbacks run.                              *)
(***************************************************************************)
EXTENDS Naturals, Sequences, FiniteSets, FiniteSetsExt

CONSTANTS
  Sessions,        \* the session ids a backend reports
  Requests,        \* JSON-RPC request ids, one per request message
  Versions,        \* protocol revisions, ordered as QtMcp::ProtocolVersion
  Modern,          \* v2026_07_28, which is also ProtocolVersion::Latest
  Supported,       \* QMcpServer::supportedProtocolVersions()
  TasksExtension,  \* QMcpServer::isTasksExtensionEnabled()
  Overlapping,     \* sessions whose client sends while another request runs
  Unknown,         \* a version string that names no revision
  None

ASSUME VersionsAssumption ==
  /\ Versions \subseteq Nat
  /\ Modern \in Versions
  /\ \A v \in Versions : v <= Modern
  /\ Supported \subseteq Versions
  /\ Supported # {}
  /\ IsFiniteSet(Supported)

ASSUME SwitchesAssumption ==
  /\ TasksExtension \in BOOLEAN
  /\ Overlapping \subseteq Sessions

ASSUME SentinelsAssumption ==
  /\ None \notin Requests \cup Sessions \cup Versions
  /\ Unknown \notin Versions \cup {None}

VARIABLES
  session,  \* QMcpServerSession: the state the dispatcher reads and writes
  request,  \* what became of every request message
  task,     \* QMcpServer::Private::tasks; a task is named by its tools/call
  answers   \* the messages sent with the id of a request, in order

vars == <<session, request, task, answers>>

-----------------------------------------------------------------------------

MaybeRequest == Requests \cup {None}

\* The version strings a message may carry.
Wire == Versions \cup {Unknown}

\* What the client puts into params._meta: nothing, or the protocol version
\* together with the extensions it declares.
Metas == {[version |-> None, tasks |-> FALSE]}
           \cup [version : Wire, tasks : BOOLEAN]

\* required and inputs name the request the stored input belongs to.
SessionState ==
  [known       : BOOLEAN,
   initialized : BOOLEAN,
   version     : Versions,
   wantsTasks  : BOOLEAN,
   inputs      : MaybeRequest,
   required    : MaybeRequest,
   override    : MaybeRequest]

\* A running request is a tools/call whose future has not finished, a failed one
\* a tools/call whose future ended without a result; version is the one the
\* continuation captured.  ready: the session was initialized when
\* the request was dispatched.  asked: the tool called requireInput() and the
\* session accepted it.  optedIn: a request that carried _meta declared the
\* tasks extension in it, or it carried none.
RequestState ==
  [status  : {"unsent", "running", "failed", "done"},
   session : Sessions \cup {None},
   version : Versions \cup {None},
   ready   : BOOLEAN,
   asked   : BOOLEAN,
   optedIn : BOOLEAN]

\* thrown: the tool of the task ended with an exception.
TaskState ==
  [status : {"none", "working", "completed", "cancelled"},
   cancel : BOOLEAN,
   thrown : BOOLEAN]

\* of is the request the content was made for.
Answer ==
  [kind : {"result", "empty", "error", "interim", "handle"},
   of   : Requests]

TypeOK ==
  /\ session \in [Sessions -> SessionState]
  /\ request \in [Requests -> RequestState]
  /\ task \in [Requests -> TaskState]
  /\ answers \in [Requests -> Seq(Answer)]

-----------------------------------------------------------------------------

NewSessionState ==
  [known |-> FALSE, initialized |-> FALSE, version |-> Modern,
   wantsTasks |-> FALSE, inputs |-> None, required |-> None, override |-> None]

Init ==
  /\ session = [s \in Sessions |-> NewSessionState]
  /\ request = [r \in Requests |->
                  [status |-> "unsent", session |-> None, version |-> None,
                   ready |-> FALSE, asked |-> FALSE, optedIn |-> FALSE]]
  /\ task = [r \in Requests |-> [status |-> "none", cancel |-> FALSE, thrown |-> FALSE]]
  /\ answers = [r \in Requests |-> <<>>]

-----------------------------------------------------------------------------
(***************************************************************************)
(* Operations of a session, on the state S of one.                         *)
(***************************************************************************)

IsModern(S) == S.version >= Modern

\* stringToProtocolVersion(): an unknown string means the latest revision.
FromWire(w) == IF w \in Versions THEN w ELSE Modern

\* Seeded fault: the version the client asked for is echoed unchecked.
NegotiatedEcho(w) == w

\* The version initialize answers with.
Negotiated(w) == IF FromWire(w) \in Supported THEN FromWire(w) ELSE Max(Supported)

\* The stateless lifecycle: a _meta that names a supported version of 2026-07-28
\* or later initializes the session and re-declares the capabilities.
IsStateless(m) ==
  /\ m.version # None
  /\ FromWire(m.version) >= Modern
  /\ FromWire(m.version) \in Supported

\* Seeded fault: a stateless request revises the version of any session.
AfterMetaRevises(S, m) ==
  IF ~IsStateless(m) THEN S
  ELSE [S EXCEPT !.version = FromWire(m.version),
                 !.initialized = TRUE,
                 !.wantsTasks = m.tasks]

\* Seeded fault: capabilities once declared are never re-declared.
AfterMetaRemembers(S, m) ==
  IF ~IsStateless(m) THEN S
  ELSE [S EXCEPT !.version = IF S.initialized THEN @ ELSE FromWire(m.version),
                 !.initialized = TRUE,
                 !.wantsTasks = @ \/ m.tasks]

AfterMeta(S, m) ==
  IF ~IsStateless(m) THEN S
  ELSE [S EXCEPT !.version = IF S.initialized THEN @ ELSE FromWire(m.version),
                 !.initialized = TRUE,
                 !.wantsTasks = m.tasks]

ProvideInputs(S, r) ==
  IF IsModern(S) THEN [S EXCEPT !.inputs = r, !.required = None] ELSE S

RequireInput(S, r) ==
  IF IsModern(S) THEN [S EXCEPT !.required = r] ELSE S

\* takePendingResultOverride(): the answer that replaces own, and the session
\* once that answer has been taken.
Substituted(S, own) ==
  IF ~IsModern(S) THEN own
  ELSE IF S.required # None THEN [kind |-> "interim", of |-> S.required]
  ELSE IF S.override # None THEN [kind |-> "handle", of |-> S.override]
  ELSE own

\* Seeded fault: the input a tool requires is read, but not taken.
TakenPeeked(S) ==
  IF IsModern(S) /\ S.required = None THEN [S EXCEPT !.override = None] ELSE S

Taken(S) ==
  IF ~IsModern(S) THEN S
  ELSE IF S.required # None THEN [S EXCEPT !.required = None]
  ELSE [S EXCEPT !.override = None]

-----------------------------------------------------------------------------
(***************************************************************************)
(* Sending.                                                                *)
(***************************************************************************)

Result(r) == [kind |-> "result", of |-> r]
Error(r) == [kind |-> "error", of |-> r]

\* The result of the finished future that stands in for a tool's.
Placeholder(r) == [kind |-> "empty", of |-> r]

Send(r, sequence) == answers' = [answers EXCEPT ![r] = @ \o sequence]

\* A client that waits for its answers sends nothing while a request of the
\* session is still running; one that failed it gives up, as by a timeout.
MaySend(s, r) ==
  /\ session[s].known
  /\ request[r].status = "unsent"
  /\ s \in Overlapping \/ \A q \in Requests :
                            ~(request[q].session = s /\ request[q].status = "running")

Dispatched(r, s, m, S, status, asked) ==
  request' = [request EXCEPT ![r] =
    [status |-> status, session |-> s,
     version |-> IF status = "running" THEN S.version ELSE None,
     ready |-> S.initialized, asked |-> asked,
     optedIn |-> IsStateless(m) => m.tasks]]

\* The synchronous half of the dispatcher: the handler returned an object, so
\* a pending override is taken before an error of the handler is looked at.
Reply(s, r, S, ok) ==
  /\ session' = [session EXCEPT ![s] = Taken(S)]
  /\ Send(r, <<IF ok THEN Substituted(S, Result(r)) ELSE Error(r)>>)

-----------------------------------------------------------------------------
(***************************************************************************)
(* Messages of the lifecycle.                                              *)
(***************************************************************************)

NewSession(s) ==
  /\ ~session[s].known
  /\ session' = [session EXCEPT ![s].known = TRUE]
  /\ UNCHANGED <<request, task, answers>>

\* initialize is only answered while the session is not initialized.  It stores
\* the negotiated version, which the substitution of its own answer then uses.
Initialize(s, r, m, wanted) ==
  LET S == ProvideInputs(AfterMeta(session[s], m), r)
      T == IF S.initialized THEN S ELSE [S EXCEPT !.version = Negotiated(wanted)]
  IN
  /\ MaySend(s, r)
  /\ Reply(s, r, T, ~S.initialized)
  /\ Dispatched(r, s, m, T, "done", FALSE)
  /\ UNCHANGED task

\* notifications/initialized; it does not wait for an initialize request.
Initialized(s, m) ==
  /\ session[s].known
  /\ session' = [session EXCEPT ![s] = [AfterMeta(@, m) EXCEPT !.initialized = TRUE]]
  /\ UNCHANGED <<request, task, answers>>

-----------------------------------------------------------------------------
(***************************************************************************)
(* Requests that are answered in the step that receives them.              *)
(***************************************************************************)

\* ping stands for itself and subscribe for resources/(un)subscribe; both were
\* removed in 2026-07-28.  discover is answered on every session, list stands
\* for the handlers that need an initialized session, unknown for a method
\* without a handler (logging/setLevel is one before 2026-07-28).
RemovedMethods == {"ping", "subscribe"}
NeedsReady == {"list", "subscribe"}
Methods == {"ping", "subscribe", "discover", "list"}

\* A request no handler sees: the method was removed, or none is registered.
Rejected(s, r, m, method) ==
  LET S == AfterMeta(session[s], m) IN
  /\ MaySend(s, r)
  /\ method = "unknown" \/ (IsModern(S) /\ method \in RemovedMethods)
  /\ session' = [session EXCEPT ![s] = S]
  /\ Send(r, <<Error(r)>>)
  /\ Dispatched(r, s, m, S, "done", FALSE)
  /\ UNCHANGED task

\* asks: the handler calls requireInput(), as an application's handler may.
Handled(s, r, m, method, asks) ==
  LET M == AfterMeta(session[s], m)
      S == ProvideInputs(M, r)
      ok == method \in NeedsReady => S.initialized
      T == IF ok /\ asks THEN RequireInput(S, r) ELSE S
  IN
  /\ MaySend(s, r)
  /\ ~(IsModern(M) /\ method \in RemovedMethods)
  /\ asks => method = "list"
  /\ Reply(s, r, T, ok)
  /\ Dispatched(r, s, m, T, "done", T.required = r)
  /\ UNCHANGED task

-----------------------------------------------------------------------------
(***************************************************************************)
(* tools/call.                                                             *)
(***************************************************************************)

\* On a session that is not initialized the handler sets an error and returns
\* a finished future: the continuation of that future answers, then the
\* dispatcher answers again with the error.
CallToolTooEarly(s, r, m) ==
  LET S == ProvideInputs(AfterMeta(session[s], m), r) IN
  /\ MaySend(s, r)
  /\ ~S.initialized
  /\ session' = [session EXCEPT ![s] = Taken(S)]
  /\ Send(r, <<Substituted(S, Placeholder(r)), Error(r)>>)
  /\ Dispatched(r, s, m, S, "done", FALSE)
  /\ UNCHANGED task

\* The session once the synchronous part of the tool has run.
Called(s, r, m, asks) ==
  LET S == ProvideInputs(AfterMeta(session[s], m), r)
  IN IF asks THEN RequireInput(S, r) ELSE S

\* The tool finished before it returned: the continuation runs at once.
CallToolFinished(s, r, m, asks) ==
  LET T == Called(s, r, m, asks) IN
  /\ MaySend(s, r)
  /\ T.initialized
  /\ session' = [session EXCEPT ![s] = Taken(T)]
  /\ Send(r, <<Substituted(T, Result(r))>>)
  /\ Dispatched(r, s, m, T, "done", T.required = r)
  /\ UNCHANGED task

\* The future the tool returned is over and holds no result: the tool method was
\* not invoked, or dropped its promise before it returned.  The continuation
\* does not run, the dispatcher leaves the answer to it, and nothing is sent.
CallToolFails(s, r, m, asks) ==
  LET T == Called(s, r, m, asks) IN
  /\ MaySend(s, r)
  /\ T.initialized
  /\ session' = [session EXCEPT ![s] = T]
  /\ Dispatched(r, s, m, T, "failed", T.required = r)
  /\ UNCHANGED <<task, answers>>

HandsOutTask(S) == TasksExtension /\ S.wantsTasks

\* Seeded fault: the dispatcher answers although a continuation will.
CallToolRunningAnswered(s, r, m, asks) ==
  LET T == Called(s, r, m, asks) IN
  /\ MaySend(s, r)
  /\ T.initialized
  /\ ~HandsOutTask(T)
  /\ Reply(s, r, T, TRUE)
  /\ Dispatched(r, s, m, T, "running", T.required = r)
  /\ UNCHANGED task

\* The tool is still at work: its continuation will answer.
CallToolRunning(s, r, m, asks) ==
  LET T == Called(s, r, m, asks) IN
  /\ MaySend(s, r)
  /\ T.initialized
  /\ ~HandsOutTask(T)
  /\ session' = [session EXCEPT ![s] = T]
  /\ Dispatched(r, s, m, T, "running", T.required = r)
  /\ UNCHANGED <<task, answers>>

\* The tool is still at work and both sides speak the tasks extension: the
\* handle of a task overrides the placeholder that is answered at once.
CallToolAsTask(s, r, m, asks) ==
  LET T == Called(s, r, m, asks)
      U == [T EXCEPT !.override = r]
  IN
  /\ MaySend(s, r)
  /\ T.initialized
  /\ HandsOutTask(T)
  /\ session' = [session EXCEPT ![s] = Taken(U)]
  /\ task' = [task EXCEPT ![r].status = "working"]
  /\ Send(r, <<Substituted(U, Placeholder(r))>>)
  /\ Dispatched(r, s, m, U, "done", T.required = r)

\* The future of a task's tool is unfinished.
AtWork(t) == task[t].status = "working" /\ ~task[t].thrown

\* A tool whose future is unfinished calls requireInput() on its session; one
\* call per request is enough to tell callers apart.
ToolRequiresInput(r) ==
  LET s == request[r].session IN
  /\ request[r].status = "running" \/ AtWork(r)
  /\ ~request[r].asked
  /\ IsModern(session[s])
  /\ session' = [session EXCEPT ![s] = RequireInput(@, r)]
  /\ request' = [request EXCEPT ![r].asked = TRUE]
  /\ UNCHANGED <<task, answers>>

\* Seeded fault: a continuation that finds an override sends nothing.
ToolFinishesSilently(r) ==
  LET s == request[r].session IN
  /\ request[r].status = "running"
  /\ session' = [session EXCEPT ![s] = Taken(@)]
  /\ IF Substituted(session[s], Result(r)) = Result(r)
     THEN Send(r, <<Result(r)>>)
     ELSE UNCHANGED answers
  /\ request' = [request EXCEPT ![r].status = "done"]
  /\ UNCHANGED task

\* Seeded fault: the continuation sends the tool's own result.
ToolFinishesPlainly(r) ==
  /\ request[r].status = "running"
  /\ Send(r, <<Result(r)>>)
  /\ request' = [request EXCEPT ![r].status = "done"]
  /\ UNCHANGED <<session, task>>

\* The future of a running tools/call finishes and its continuation answers.
ToolFinishes(r) ==
  LET s == request[r].session IN
  /\ request[r].status = "running"
  /\ session' = [session EXCEPT ![s] = Taken(@)]
  /\ Send(r, <<Substituted(session[s], Result(r))>>)
  /\ request' = [request EXCEPT ![r].status = "done"]
  /\ UNCHANGED task

\* The future of a running tools/call ends without a result: its promise was
\* dropped or holds an exception.  The continuation is then() alone, without
\* onCanceled() or onFailed(), so it does not run and the request stays
\* unanswered.
ToolFails(r) ==
  /\ request[r].status = "running"
  /\ request' = [request EXCEPT ![r].status = "failed"]
  /\ UNCHANGED <<session, task, answers>>

-----------------------------------------------------------------------------
(***************************************************************************)
(* The tasks extension.                                                    *)
(***************************************************************************)

\* Seeded fault: the result of a cancelled task is recorded as well.
TaskFinishesAnyway(t) ==
  /\ AtWork(t)
  /\ task' = [task EXCEPT ![t].status = "completed"]
  /\ UNCHANGED <<session, request, answers>>

\* The tool of a task finishes.  Its result is recorded, unless the future the
\* task holds was cancelled meanwhile: then onCanceled() runs instead.
TaskFinishes(t) ==
  /\ AtWork(t)
  /\ task' = [task EXCEPT ![t].status =
                IF task[t].cancel THEN "cancelled" ELSE "completed"]
  /\ UNCHANGED <<session, request, answers>>

\* The tool of a task drops its promise: onCanceled() runs.
TaskIsDropped(t) ==
  /\ AtWork(t)
  /\ task' = [task EXCEPT ![t].status = "cancelled"]
  /\ UNCHANGED <<session, request, answers>>

\* The tool of a task throws.  A cancelled future takes no exception, and
\* onCanceled() runs; otherwise the exception passes both continuations by, and
\* the task stays what it was: working, whatever tasks/cancel asks later.
TaskThrows(t) ==
  /\ AtWork(t)
  /\ task' = [task EXCEPT ![t].status = IF task[t].cancel THEN "cancelled" ELSE @,
                          ![t].thrown = TRUE]
  /\ UNCHANGED <<session, request, answers>>

TaskExists(t) == TasksExtension /\ task[t].status # "none"

\* tasks/get and tasks/update (whose input_required case no code reaches)
\* answer; tasks/cancel also cancels the future of a task at work.  An unknown
\* task is an error for which no object, so no override either, is looked at.
TaskRequest(s, r, m, t, cancels) ==
  LET S == ProvideInputs(AfterMeta(session[s], m), r) IN
  /\ MaySend(s, r)
  /\ IF TaskExists(t)
     THEN Reply(s, r, S, TRUE)
     ELSE /\ session' = [session EXCEPT ![s] = S]
          /\ Send(r, <<Error(r)>>)
  /\ task' = IF cancels /\ TaskExists(t) /\ AtWork(t)
             THEN [task EXCEPT ![t].cancel = TRUE]
             ELSE task
  /\ Dispatched(r, s, m, S, "done", FALSE)

-----------------------------------------------------------------------------

Lifecycle ==
  \E s \in Sessions :
    \/ NewSession(s)
    \/ \E m \in Metas : Initialized(s, m)
    \/ \E m \in Metas, r \in Requests, w \in Wire : Initialize(s, r, m, w)

Answered ==
  \E s \in Sessions, r \in Requests, m \in Metas :
    \/ \E method \in Methods \cup {"unknown"} : Rejected(s, r, m, method)
    \/ \E method \in Methods, asks \in BOOLEAN : Handled(s, r, m, method, asks)
    \/ \E t \in Requests, cancels \in BOOLEAN : TaskRequest(s, r, m, t, cancels)

Tools ==
  \E s \in Sessions, r \in Requests, m \in Metas :
    \/ CallToolTooEarly(s, r, m)
    \/ \E asks \in BOOLEAN :
         \/ CallToolFinished(s, r, m, asks)
         \/ CallToolFails(s, r, m, asks)
         \/ CallToolRunning(s, r, m, asks)
         \/ CallToolAsTask(s, r, m, asks)

Futures ==
  \E r \in Requests :
    \/ ToolRequiresInput(r)
    \/ ToolFinishes(r)
    \/ ToolFails(r)
    \/ TaskFinishes(r)
    \/ TaskIsDropped(r)
    \/ TaskThrows(r)

Next == Lifecycle \/ Answered \/ Tools \/ Futures

Spec == Init /\ [][Next]_vars

\* A tool that handed out a future ends it in some way, with a result or without,
\* and the event loop runs the continuations that end calls for.
Fairness ==
  \A r \in Requests :
    /\ WF_vars(ToolFinishes(r) \/ ToolFails(r))
    /\ WF_vars(TaskFinishes(r) \/ TaskIsDropped(r) \/ TaskThrows(r))

FairSpec == Spec /\ Fairness

-----------------------------------------------------------------------------
(***************************************************************************)
(* Properties.                                                             *)
(***************************************************************************)

\* The answers of request r that carry the interim result or the handle q made.
Delivered(kind, q, r) == {i \in DOMAIN answers[r] :
                            answers[r][i].kind = kind /\ answers[r][i].of = q}

\* T is a later state of a session that was S.
Keeps(S, T) == S.initialized => T.initialized /\ T.version = S.version

\* Once a session is initialized no message of any client - a second
\* initialize, a stateless request of another revision - changes the revision
\* it speaks or takes its initialization back.
VersionIsFrozen ==
  [][\A s \in Sessions : Keeps(session[s], session'[s])]_vars

\* The version a continuation captured when its tools/call was dispatched is
\* still the version of the session when it runs, so the late answer is
\* formatted the way the peer agreed to.
LateAnswerSpeaksSessionVersion ==
  \A r \in Requests : request[r].status = "running" =>
    request[r].version = session[request[r].session].version

\* A request that an initialized session dispatched is answered at most once,
\* not before its tool finished, and not at all only when its tool failed: the
\* synchronous substitution and the continuation never both fire.
ReadyRequestAnsweredOnce ==
  \A r \in Requests : request[r].ready =>
    Len(answers[r]) = IF request[r].status \in {"running", "failed"} THEN 0 ELSE 1

\* An interim result or a task handle is never sent on a session that speaks a
\* revision before 2026-07-28, whose client could neither retry nor poll.
OverridesOnlyWhenModern ==
  \A r \in Requests : \A i \in DOMAIN answers[r] :
    answers[r][i].kind \in {"interim", "handle"} => IsModern(session[request[r].session])

\* One call of requireInput() produces at most one interim result, and one task
\* hands out its handle at most once, whichever requests they are sent for.
OverrideDeliveredOnce ==
  \A q \in Requests, kind \in {"interim", "handle"} :
    Cardinality({r \in Requests : Delivered(kind, q, r) # {}}) <= 1

\* A tools/call becomes a task only for a client that declared the extension in
\* that very request: what an earlier request of the session declared, on the
\* stateless session that of another client, does not count.
TaskNeedsOptIn ==
  \A r \in Requests : task[r].status # "none" => request[r].optedIn

\* u is a later state of a task that was t.
Settles(t, u) ==
  /\ t.status \in {"completed", "cancelled"} => u = t
  /\ t.cancel => u.cancel /\ u.status # "completed"
  /\ t.thrown => u.status = t.status

\* A terminal task never changes again, and a task whose cancellation was
\* acknowledged while it was at work never completes: its late result is
\* dropped.  A tool that threw never changes its task again.
CancelledStaysCancelled ==
  [][\A t \in Requests : Settles(task[t], task'[t])]_vars

\* A tools/call whose tool ran on is answered in the end, whatever else the
\* session is asked meanwhile, unless its tool fails: the one end of a tool for
\* which the code answers nothing.
EveryToolCallIsAnswered ==
  \A r \in Requests :
    request[r].status = "running" ~> answers[r] # <<>> \/ request[r].status = "failed"

Waited(r) == request[r].status = "done" /\ request[r].session \notin Overlapping

\* A client that has at most one running request per session gets an interim
\* result for exactly the requests whose handler asked for input.
InterimMatchesRequest ==
  \A r \in Requests : Waited(r) =>
    /\ request[r].asked <=> Delivered("interim", r, r) # {}
    /\ \A q \in Requests \ {r} : Delivered("interim", q, r) = {}

-----------------------------------------------------------------------------
(***************************************************************************)
(* What the repository says of the program and the code does not do.       *)
(***************************************************************************)

\* takePendingResultOverride() replaces the result of "the current request": an
\* interim result answers the request whose handler called requireInput(), and
\* the handle of a task the tools/call the task was created for.
OverrideReachesItsCaller ==
  \A q, r \in Requests, kind \in {"interim", "handle"} :
    Delivered(kind, q, r) # {} => q = r
=============================================================================

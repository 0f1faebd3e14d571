# Formal models of QtMcp

QtMcp implements the Model Context Protocol (MCP) for Qt: a server library, a
client library, the message types they share, and plug-ins that carry messages
over stdio, legacy SSE and Streamable HTTP. This directory models the parts of
it that keep state between messages, checks them with TLC and proves the
central invariants with TLAPS. `PROJECT.json` names every run, the source lines
behind every definition, the seeded faults that show that a property bites, and
the hazards the properties are aimed at.

    tlc -workers 2 -config McpServer.cfg MCMcpServer.tla
    tlapm McpServerProofs.tla

## 1. The system

| Component | State | Operations | Talks to |
|---|---|---|---|
| Core, `QMcpServer` (`src/mcpserver/qmcpserver.{h,cpp}`) | sessions, handlers, callbacks of its own requests, task registry | one callback per message of a session; continuations of tool futures | backend (signals `newSessionStarted`, `received`; slot `send`), sessions |
| Session, `QMcpServerSession` | revision, initialized flag, declared capabilities, input responses, required input, result override, subscriptions, lists of tools, prompts, resources, roots | setters used by the core; `requireInput()` and list edits by tools and the application; `callToolAsync()` | core (signals of changed lists) |
| Tasks extension (in the core) | one entry per task: status, future, result | created by `tools/call`, read and cancelled by `tasks/*`, ended by the tool | tool futures |
| HTTP base, `QMcpAbstractHttpServer` | sockets, deferred responses, event streams | parse, defer, complete, upgrade to a stream, close, disconnect | `QTcpSocket` below, a backend above (`connectionClosed`) |
| Streamable HTTP server backend | sessions and their stream, streams and their session, pending requests by internal id, the shared stateless session, keep-alive timer | POST, GET and DELETE of `/mcp`; `send` from the core; timer tick; disconnect | HTTP base, core |
| Client core, `QMcpClient` | revision, callbacks by request id, two id counters, handlers | `request`, `notify`; one callback per message received | client backend |
| Client Streamable HTTP backend | session id, negotiated revision, GET stream, reconnect timer, header annotations of tools | `post`, reply events, GET stream events | `QNetworkAccessManager` |
| Legacy SSE backends (`plugins/*/sse`) | server: sessions and their streams; client: the stream, the endpoint it posts to, and a static buffer, one for all clients of a process | GET `/sse`, POST `/messages`, events, start and start again | HTTP base, `QNetworkAccessManager` |
| Stdio backends | a line buffer, static in the client | a line is a message | standard input, `QProcess` |
| Protocol revisions (`qtmcpnamespace.h`) | none | order of the revisions, the strings that name them | everything |
| Message types, `mcpcommon` | their properties; of a union, the variant that counts | conversion to and from JSON by reflection over properties, per revision | everything |

### What is hard about it

Everything runs on one event loop, so nothing is torn, but everything that
takes time is cut into several callbacks with arbitrary other callbacks in
between:

* **Futures.** A `tools/call` whose tool returns an unfinished future is
  answered by a continuation. Between dispatch and continuation the session
  takes other messages, and the continuation reads session state then. A future
  may also be cancelled or hold an exception, and then no continuation runs.
* **One slot per session.** Input responses, required input and the task handle
  that overrides a result are fields of the session although each belongs to one
  request. On the stateless session even different clients share them.
* **Two lifecycles.** A session is initialized by the handshake or by the first
  request that carries a modern `_meta`; both kinds of messages may reach the
  same session in any order.
* **Connections come and go.** A response is held open until the core answers;
  meanwhile the client may close the connection, open a second event stream for
  its session, delete the session, or reuse ids. What the server sends by itself
  is dropped while the session has no event stream.
* **Two tables of everything.** The HTTP base knows sockets by exchange, the
  backend knows sessions by exchange and exchanges by session; closing happens
  in one of them first and reaches the other by a signal.
* **Text arrives in chunks.** Five readers cut messages out of a byte stream,
  each with its own buffer; two of the buffers are static: they outlive the
  stream and are shared by all clients of a process.
* **Two sides believe in different revisions** while one is negotiated, and
  messages are written by one and read by the other.
* **Retries and reconnects** on the client: posted requests fail or are
  answered out of order, the GET stream is reopened by a timer, a session
  expires while requests are under way.

The full list, with lines, is under `hazards` in `PROJECT.json`.

### What correctness means, component by component

* Core: a request is answered once, unless its tool fails; an override reaches the request it was made
  for; the revision of a session is decided once; a task is only made for a
  client that asked for tasks and never leaves a terminal status.
* HTTP base: an exchange gets at most one response, and no table refers to a
  socket that is gone.
* Streamable HTTP backend: sessions, streams, routes and pending requests refer
  to each other and to nothing else; an answer goes to the exchange of its own
  request whatever ids clients choose; the stateless session belongs to nobody;
  streams are kept alive.
* Client core: a callback runs at most once, with the reply to its own request,
  and waits for it as long as it takes.
* Client backend: one GET stream at a time, on the established session,
  reopened when it ends.
* Requests of the server: a callback runs once, with the answer to its own
  request, and unless a request is lost with the stream it runs in the end and
  the server ends up with the roots of the client.
* Lists and notifications: a client that would be told of changes never keeps an
  old list, whichever way edits, timers, subscriptions and requests interleave;
  pages make up the list.
* Framing: however text is cut, messages are heard whole, once and in order.
* Legacy SSE: an answer goes to the process of the client that asked, and to that
  client if it is alone there, on the stream of its session.
* Message types: what one peer writes at its revision the other reads at its own,
  and what both know arrives as it was set.

## 2. The modules

| # | Module | Models | Proofs |
|---|---|---|---|
| 1 | `McpServer` | core dispatcher, session lifecycle and slots, tasks | `McpServerProofs` |
| 2 | `AbstractHttpServer` | HTTP server base, as operations | with 3 |
| 3 | `StreamableHttpServer` | the Streamable HTTP backend composed with 2 and with a core that answers as 1 does | `StreamableHttpServerProofs` |
| 4 | `HttpExchanges` | abstract: what an HTTP server owes each exchange; implemented by 3 | `StreamableHttpRefinement` |
| 5 | `McpClient` | client core | with 6 |
| 6 | `StreamableHttpClient` | the client backend composed with 5, against an abstract server | `StreamableHttpClientProofs` |
| 7 | `ServerRequests` | requests the server sends, composed with the clients that answer them | `ServerRequestsProofs` |
| 8 | `Catalog` | lists, paging, timers, subscriptions and notifications, composed with a client that reads lists | `CatalogProofs` |
| 9 | `MessageStream` | abstract: what a transport promises of a stream of messages; implemented by 10 | |
| 10 | `Framing` | the five readers of the transports | |
| 11 | `LegacySse` | both ends of the HTTP+SSE transport | `LegacySseProofs` |
| 12 | `Gadget`, `MessageTypes`, `MessageUnions` | reading and writing by reflection; every class and union of `mcpcommon` | with 13 |
| 13 | `MessageExchange` | an object on its way from one peer to the other | `MessageExchangeProofs` |

The `MC` modules and the `.cfg` files are the instances TLC checks. The order is
the one in which they were written: the core first, then what carries its
messages, then what it sends by itself, then the text below and the data inside
the messages. What is left is listed in the last section.

## 3. `McpServer`: the core

A step is one callback of the event loop. Requests answered in the step that
receives them are `Initialize`, `Rejected` (removed or unknown method),
`Handled` (`ping`, `server/discover`, the list requests and an application's
synchronous handler), `TaskRequest`; `tools/call` is one of `CallToolTooEarly`
(session not initialized), `CallToolFinished` (the future is finished when the
handler returns), `CallToolFails` (it is over then, and without a result),
`CallToolRunning` and `CallToolAsTask`. The last two are followed by the end of
the tool: `ToolFinishes` or `TaskFinishes` with a result, `ToolFails`,
`TaskIsDropped` or `TaskThrows` without one. A tool at work may call `requireInput()`
(`ToolRequiresInput`). `NewSession` and `Initialized` complete the lifecycle.

| Variable | Code |
|---|---|
| `session[s]` | `QMcpServerSession::Private`: `initialized`, `version`, `wantsTasks` (the tasks extension in `clientCapabilities`), `inputs`, `required`, `override`; the last three name the request whose data they hold |
| `request[r]` | the captures of the continuation (`session`, `version`) and what the properties need to know about the past (`ready`, `asked`, `optedIn`) |
| `task[r]` | `TaskEntry` of the task that the `tools/call` r became; `cancel` is the canceled state of its future, `thrown` says that its tool threw |
| `answers[r]` | messages sent with the id of r, in order |

Points of the code that are easy to miss and that the model keeps:

* The dispatcher takes an override before it looks at the error of the handler
  (`qmcpserver.cpp:253-260`), so an error swallows an override.
* A handler that returns a finished future has its continuation run at once,
  before the dispatcher sees its error: `CallToolTooEarly` sends two messages.
* `takePendingResultOverride()` prefers required input and then leaves a task
  handle where it is.
* `QFuture::cancel()` marks the task's future; the status becomes `cancelled`
  only when the tool ends and `onCanceled()` runs.
* The continuation of a `tools/call` is a `then()` alone (`qmcpserver.h:264`, and
  `qmcpserversession.cpp:993` before it). When the tool throws or drops its
  promise it does not run, and the request is never answered: its status is
  `failed`. A task has an `onCanceled()` besides (`qmcpserver.cpp:575`): a dropped
  promise makes it `cancelled`, an exception leaves it `working` for good, unless
  the future was marked as cancelled before.
* `tasks/get` of an unknown task returns no object, so it takes no override.
* An unknown version string reads as the latest revision.

`QMcpServer` could finish futures on another thread, because the continuation has
no context object; the model assumes tools that finish them on the event loop.

### Runs

| Run | Bounds | Shows |
|---|---|---|
| `core` | 1 session, 3 requests, tasks on, overlapping (103667 states) | the safety and action properties below |
| `core_live` | 2 sessions, one of them of a client that waits for its answers, 2 requests, tasks off, fair futures (29658 states) | `EveryToolCallIsAnswered`, of every call whose tool does not fail; `InterimMatchesRequest`: with one running request per session the shared slots are sound |

Three requests are what the interesting interleavings take: one whose tool runs
on, one that intervenes, and one that picks up what the second left behind. The
revisions are one that is known but not supported, one supported before
2026-07-28, and 2026-07-28 itself; every comparison in the code is with one of
these classes. Requests are finite, so the state space is finite without
further bounds; a run ends when all requests were sent and every tool ended,
which is why these runs do not check deadlock. Requests are symmetric where no
liveness is checked.

* `ReadyRequestAnsweredOnce`: the synchronous substitution and the continuation
  never both answer, and neither does when the tool runs on or has failed. A call
  before initialization, which is answered twice, is left out.
* `OverrideDeliveredOnce`: a required input or a handle is delivered once.
* `TaskNeedsOptIn`: capabilities are those of the request, not of the session.
* `VersionIsFrozen`: the revision a continuation captured stays the one of its
  session.
* `CancelledStaysCancelled`: a late result never revives a cancelled task, and a
  tool that threw never changes its task again.
* `EveryToolCallIsAnswered`: a `tools/call` whose tool runs on is answered in the
  end, or its tool failed. The comment at the end of the dispatch, "Return empty
  value since we'll send response later" (`qmcpserver.h:276`), says more than the
  code does: a client of a tool that failed waits for ever.

Two more are proved and in no run: `OverridesOnlyWhenModern` (a client of an
older revision never sees a result it could not interpret, even when a modern
`_meta` reached its session) and `LateAnswerSpeaksSessionVersion`.

Fairness is weak fairness of the ends of a tool, with a result or without: a tool
that returned a future ends it in some way, and the event loop runs the
continuation of a future that has a result. Nothing is assumed of clients, nor
that tools succeed.

### Where the code and its documentation disagree

`core_override_caller`: with two requests under way on one session, an interim
result or a task handle can answer the wrong one. The slots are per session;
`qmcpserver.h:477` promises "the current request".

## 4. `AbstractHttpServer` and `StreamableHttpServer`: the transport

`AbstractHttpServer` is the base class: `socket` (open, closing or closed),
`socketOf` (the connection of an exchange), `deferred`, `sse`, `replies`. Its
operators are operations, not a specification of their own: `Begins` (a request
is completely read), `AnsweredAtOnce`, `LeftOpen`, `Upgraded`, `Completed`,
`Closing`, `Disconnected`. `StreamableHttpServer` extends it with the backend's
private data `d` (`sessions`, `streamOf`, `sessionOf`, `dedicated`, `pending`,
`keepAlive`), the counter of internal ids, and what clients were told. Each
action is a whole handler: `Refused`, `PostNotification`, `PostRequest`,
`PostListen`, `GetStream`, `DeleteSession`, `CoreAnswers`, `CoreSends`,
`KeepAliveTick`, `Disconnect`.

The core is its environment: it owes answers for what it was handed (`owed`), at
most `MaxAnswers` for each, since a `tools/call` before initialization is answered
twice, and it may send anything to any session at any time.

Abstractions: the bytes of a request (`parseHttpRequest()`, headers, Origin,
JSON) are abstracted to the outcome of the checks, `Refused` standing for every
early error; a closed stream is closing until its disconnect is handled, as
`disconnectFromHost()` leaves it; without `Pipelining` a client sends a request
only on a connection that is not waiting, and no client sends one on a connection
whose response is an event stream.

### Runs

| Run | Bounds | Shows |
|---|---|---|
| `http` | 2 connections, 3 exchanges, 1 session and the shared one, 2 answers, no pipelining, fair (178534 states) | everything below |

Two connections and three exchanges let a stream be replaced from another
connection, a session be deleted under its stream, and a request be pending while
a stream of its session opens and closes. One session beside the shared one
suffices for TLC, since the proofs cover any number of them. Two answers are
what the core can send. Exchanges are finite, so the counter of internal ids is
as well; a run ends when they are used up, so deadlock is not checked.

* `RoutesAgree`: the backend's tables of streams and sessions are inverse to
  each other.
* `StatelessIsShared`: no client learns, deletes or streams on the shared
  session.
* `ClosedConnectionsAreForgotten`: no table refers to a closed connection.
* `StreamsEndVisibly`: a stream leaves use only with its connection, so its
  client notices.
* `ExchangesRunTheirCourse`: the backend on its base class implements
  `HttpExchanges`. The mapping sends an exchange to `new`, `waiting` (deferred),
  `streaming`, `answered` or `over`, and its responses to the exchanges whose
  answers they are: each exchange is answered at most once, with the answer to
  its own request or with none that belongs to a request, whatever ids clients
  choose.
* `EveryRequestIsAnswered`: a deferred exchange is answered in the end, or its
  connection is lost.
* `StreamsAreKeptAlive`: a stream that stays open gets a comment after it was
  opened; that the timer goes on as long as there is a stream is `KeepAliveRuns`.

Fairness: the core answers what it owes (weak fairness of `CoreAnswers`), and the timer ticks while
it is active (weak fairness of `KeepAliveTick`). The first is an assumption about
the tools: the core keeps it for synchronous handlers and, by
`EveryToolCallIsAnswered`, for tools whose future gets a result; a `tools/call`
whose tool fails is never answered, and its HTTP response stays open until the
client gives up.

## 5. `McpClient` and `StreamableHttpClient`: the client

`McpClient` is `QMcpClient::send()` and the half of its `received()` lambda that
deals with replies; the clients are the `QMcpClient` objects of one process.

| Variable | Code |
|---|---|
| `nextInitializeId`, `nextId` | the two `static int id` of `send()`, one per branch |
| `call[c]` | what the application sent: its kind (`initialize`, `request`, a `silent` request without a callback, a `message` without a null id), its client, and the id it was given |
| `callbacks[k]` | `Private::callbacks`, as the set of calls whose callback it holds; `Waiting(k, id)` is the lookup |
| `completed[c]` | the calls whose replies the callback of c was run with, in order |

`StreamableHttpClient` extends it with the backend: `post[c]` is the POST of a
call, `sessionId`, `negotiated`, `serverStream`, `rejected` and `timers` are the
members of `Private` and its pending single shot timers, per client. Each slot is
an action: `Start`, `Request` (`send()` and `post()`), `Headers`
(`metaDataChanged`), `Event` (`readyRead` of an event stream), `Finished`,
`SessionExpired` and `Failed` (the three ways `finished` goes on),
`StreamFinishes`, `TimerFires`. A reply that completes a handshake negotiates
and opens the GET stream within the same action, as the nested calls do.

The server is abstract: it issues sessions to handshakes, ends one at any time
(`SessionEnds`), answers 404 exactly to POSTs of sessions it does not know, and
owes one reply per request, in the headers' order or any other. Payloads are
abstracted to result, error or interim result; a result of a handshake names a
revision. One thing is assumed of applications: they do not start a handshake
while another one of the same client is under way.

### Runs

| Run | Bounds | Shows |
|---|---|---|
| `client` | 1 client, 3 calls of any kind, 2 sessions, 2 revisions (with and without standing streams), fair timers | all properties below |

Three calls are a handshake, a call whose end interferes, and a second handshake
or a call that is interfered with; two sessions are an old and a new one. The
number of calls and of sessions bounds everything but the GET stream, which may
end and be reopened for ever. The proofs below lift all safety properties to any
number of clients, calls and sessions, so one client suffices here. Deadlock is
not checked, because a client that made its calls may be done.

* `CallbackRunsOnce`, `CallbackIsKeptForItsReply`: a callback whose id is its own
  is stored exactly until its reply comes.
* `RepliesAreConfusedByHandshakesOnly`: how far the confusion of ids of section 12 can go.
* `SessionKnownWhenNegotiated`: the GET stream a handshake opens carries the
  session of the handshake, which is why the code stores the id before it reads
  the result, unless another POST of the client ever ended with a 404 or ended
  another handshake, the only two ways the id can be lost.
* `RunningStreamIsKept`, `StreamIsReopened`: reconnect timers and handshakes may
  overlap without replacing a running stream, and a stream that ended is
  reopened unless the server declined it (HTTP 405) or the revision has none.

Fairness: the event loop fires a timer that has run out (weak fairness of
`TimerFires`). Nothing is assumed of the network or the server, so nothing is
said about callbacks running in the end: an HTTP error is only reported through
`errorOccurred()`, and the callback stays in the table.

Met while translating: a revision string that nobody knows counts as the latest
revision, so the branch of `initCallback` for an unsupported one
(`qmcpclient.cpp:208`) is never taken, and the model has no such case.

## 6. `ServerRequests`: what the server asks

`roots/list` after a `notifications/roots/list_changed`, and what
`createMessage()` and `elicit()` send. Both ends are there: `QMcpServer::send()`
with its counter and its table of callbacks, the reply branch of its
`received()`, and a client that answers, changes its roots, repeats an answer or
makes one up. Between them is the event stream of the session, which may be
missing: a request sent before the client's GET, or between two streams while the
reconnect timer runs, is dropped by the backend (`httpserver.cpp:558-567`), and
what a client has not read of a stream that ends is gone with it. Nobody sends it
again, and its callback stays in the table. A stream that is replaced ends and is
opened in two steps here. The POSTs of the client arrive, in any order: one that
fails is the same to the server as a client that does not answer.

| Variable | Code |
|---|---|
| `requests`, `callbacks` | the static counter of `send()`, which all sessions share: the id of the nth request is n; `Private::callbacks`, by session and id |
| `version`, `initialized`, `roots` | `QMcpServerSession::Private`; roots are numbered by their changes, and 0 is the empty list |
| `runs[id]` | the replies the callback of a request ran with, and the session it came from |
| `stream[s]` | the session has an event stream (`openStream()`, `closeStream()` of the backend; over stdio and on sessions in the constant `Steady` it has one all along) |
| `toClient[s]`, `toServer[s]` | the event stream, which keeps its order; POSTs, which do not |
| `lost` | the requests that were dropped, or written to a stream that ended before the client read them |
| `held[s]` | the roots the client has |
| `untold[s]` | the server had no chance: it ignored the last change, its question about it was lost, it was answered with an error, or got answers in another order |

`Receive` is the lambda of `received`: a notification that the roots changed
(ignored on the latest revision and before `notifications/initialized`), the end
of the handshake, or a reply, which runs the callback of its id. An error runs it
too, with an empty result.

| Run | Bounds | Shows |
|---|---|---|
| `requests` | 2 sessions, 2 requests, the roots of one session change twice, 1 stray answer, elicitation, revision 2025-06-18, and 2026-07-28 on that session, whose stream opens and ends at any time while the other's stays (747018 states) | the properties below |
| `requests_reply` | the same, both streams open and end, one of the clients a `QMcpClient`, 1 request | the finding below |

Two sessions and two requests are what a shared counter and answers that overtake
each other take; two changes let one be announced while the other is asked about.
The two revisions are on either side of every comparison in this part of the
code. One stream that comes and goes loses what it carries in every order; the
proofs cover any number of them. Requests, changes and strays are finite, so a run ends; deadlock is not
checked.

* `CallbackRunsWithItsAnswer`: at most once, with an answer to its own request
  that came from the session it was sent to.
* `RootsSettle`: once nothing is under way, the server knows the roots of the
  client, except where `untold` says why it could not. The exceptions are real:
  a question that is dropped leaves the old roots until the next change, nothing
  orders two answers, and an error leaves an empty list of roots.
* `RequestsAreAnswered`: a request whose client puts the id into its answers is
  completed, or was lost. The callback of a lost one waits for ever: the code has
  no timeout and does not look at the stream before it stores a callback.

Fairness: both event loops turn (weak fairness of `Answer` and `Receive`).

`requests_reply`: `QMcpClient` sends what a request handler returns as it is,
without an id and without the envelope of a response, so the callback on the
server never runs (`qmcpclient.cpp:90`), also of a request that is not lost.

## 7. `Catalog`: the lists and their changes

Tools are registered at the server for every session, resources and prompts are
edited per session. `notifyChanged()` starts a timer per list, only on an
initialized session; when it fires the notification goes to every session before
2026-07-28, and to those whose `subscriptions/listen` names the list since.

| Variable | Code |
|---|---|
| `toolSets`, `actions`, `known` | `QMcpServer::Private`; the constant `Self` is the server itself, when it is a subclass with tools of its own, which every session starts with (`qmcpserver.cpp:109`) |
| `entries[s]` | the lists of `QMcpServerSession::Private`; the arbitrary order of the `QHash` of tool sets is a choice in `NewSession` |
| `armed[s]` | the lists whose timer runs |
| `filter[s]`, `subscribed[s]` | the filter of the latest `subscriptions/listen`; `resources/subscribe` |
| `stream[s]`, `toClient[s]` | the event stream of the backend; without one a notification is dropped |
| `read[s]`, `covered[s]`, `walk[s]` | the client: what it read, the lists it read while it would be told of changes, and prompts read page by page |

Each call that edits is an action, and so are the timer, the list requests, both
kinds of subscription and what the client does with a notification.
`replaceResource()` announces the resource and not the list, so a client that
reads the list is no longer covered by it; the model says so in `ReplaceResource`.

| Run | Bounds | Shows |
|---|---|---|
| `catalog` | 1 session, 1 tool set, 1 action, the tools of the server itself, 2 items, pages of 1, 2 edits, 2 subscriptions (578195 states) | the properties below |

Two edits and two subscriptions let a list change before and after it was read,
while its timer runs, and under a filter that is replaced; two items and pages of
one make two pages. Sessions do not share anything but the registrations, which
`CoveredStaysCurrent` covers for any number of them.

* `CoveredListsAreCurrent`: a client that read a list while it would be told of
  changes has the current one, or a timer runs, or a notification is on its way.
* `ToolsFollowRegistrations`: every session offers the server's own tools and the
  registered ones, whether
  it started before or after; clients of the stateless lifecycle depend on it.
* `PagesMakeTheList`: following the cursors of a list that does not change gives
  every entry once and in order. (A list that shrinks between two pages starts
  again at its beginning: `steady` excludes it.)
* `ChangesReachTheClient`: a covered client learns of a change in the end.

Fairness: a timer of 0 ms fires (weak fairness of `TimerFires`), and the client
handles what it is told (weak fairness of `Refresh`).

## 8. `MessageStream` and `Framing`: text in chunks

`Framing` has five readers: `SseParser` (the event streams of the Streamable HTTP
client), the legacy client, both stdio backends, and `parseHttpRequest()` of the
HTTP base. One of them is chosen in `Init`. Text is a sequence of tokens (line
ends, and the parts of lines a parser looks for), `wire` is what was written and
not yet read, `data` is the buffer. `ReadyRead` takes any number of tokens and does what
the reader does with them: cut at the separator, join the lines of data, read a
request line, headers and a body. Line ends are CRLF or LF except in HTTP.

`MessageStream` is what the layers above rely on: the messages of a stream are
heard whole, once and in order, and a stream that ends loses the rest. The
buffers of `QMcpClientSse` and `QMcpClientStdio` are static and outlive the
stream, so for these two it promises less: the first message of the next stream
may be lost, and one that was cut off may be heard late. This is about one reader
object; that all clients of a process share these buffers is modelled in
`LegacySse`, and for stdio not at all (section 13). The mapping calls pending
what is on the wire and in the buffer behind the remains of earlier streams.

| Run | Bounds | Shows |
|---|---|---|
| `framing` | five readers, 2 messages, 2 fillers (comments or empty lines), 2 streams, header blocks in one piece (22998 states) | `Delivered` (refinement of `MessageStream`), `AllIsHeard` |
| `framing_headers` | `parseHttpRequest()`, 2 messages, 1 stream, header blocks in pieces | the finding below |

Two messages let the end of one and the beginning of the next arrive together, and
fillers come before, between and behind them; two streams let the remains of one
meet the other. Chunks have every size, down to one token. Requests are not
pipelined here: a chunk has nothing of the next request, because clients wait for
the answer.

Fairness: the event loop hands on what has arrived, weak fairness of `ReadyRead`
(`FairSpec`). The larger run uses `Spec`, which says the same with the condition
`Readable` spelled out, because TLC evaluates `ENABLED` of this action slowly.

`framing_headers`: a header block that arrives in two pieces is taken for complete
at the end of a line (`qmcpabstracthttpserver.cpp:121`), and the body is never
heard; cut in the middle of a line, the loop over the headers starts again at the
request line for ever. The passing run assumes that a block arrives in one piece,
which local clients make likely and TCP does not promise.

## 9. `LegacySse`: both ends of HTTP+SSE

`sessions` and `streams` are the tables of the server backend and of the base
class: a session outlives its stream. `eventStream` and `message` are the client:
the stream it has, and the endpoint it posts to, which stays what it was until the
next stream announces another. `Start`, `Breaks`, `Send`, `ReadsPart` and
`ReadyRead` are the client's slots, `GetSse`, `PostMessages`, `Disconnected` and
`CoreAnswers` the server's; `PostFails` is a POST that is lost.

The buffer the client reads into is a static variable of the slot
(`qmcpclientsse.cpp:50`), one for all clients of a process. `process[c]` is where a
client runs, one of the `Layouts`; `data[p]` is the set of events the buffer of
process p holds bytes of, `latest[p]` the one whose bytes came last, and
`begun[c]` says that the next event of c has been read in part. An event arrives
whole (`ReadyRead`), or first in part (`ReadsPart`), which leaves bytes in the
buffer; they stay there when the stream ends. When the end of an event arrives,
the slot takes the whole buffer for one event, and the client whose slot runs gets
it: its own if the buffer held nothing else, otherwise (`Glued`) any of the events
whose bytes are there, an endpoint that names no session (`Garbled`), or nothing.

| Run | Bounds | Shows |
|---|---|---|
| `legacy` | 2 clients, in one process or in two, 3 sessions, 2 requests, 2 starts of one client and 1 of the other (366126 states) | `AnswersGoToTheAsker`, `RequestsAreAnswered` |

Three starts let one client reconnect while the other keeps its stream; a
request can then be posted on the old session and answered after the new stream
is open. Such an answer is dropped, and no property says otherwise. Two clients are
enough for bytes of one to meet the other's, in either order and behind what a
stream that ended left.

* `AnswersGoToTheAsker`: an answer is heard only in the process of the client that
  asked, and no two clients have the same stream. Inside a process the claim would
  be false: a client that completes the event of a neighbour hears its answer.
* `RequestsAreAnswered`: what was posted on the session of the stream that is open
  is answered on it, for a client that is alone in its process. A neighbour in the
  process may take the answer, or its bytes may spoil it.

Starts are bounded, so a run ends; deadlock is not checked.

Fairness: POSTs arrive or fail, the core answers, and the network hands on what
was written.

## 10. `Gadget`, `MessageTypes`, `MessageUnions`, `MessageExchange`: the messages

`Gadget` is `QMcpGadget::toJsonObject()` and `fromJsonObject()`: a class is the set
of its properties with what the reflection looks at (required, constant, the
revision it exists since, its key in JSON, whether a missing one is assumed). A
value of a property is `default` or `changed`, or one of the few strings the code
compares. `MessageTypes` translates every class of `mcpcommon`,
`MessageUnions` every union with the way it tells its variants apart, and
`MessageExchange` sends one object: `Fill` or `SetVariant`, `Send` at any revision,
`Receive` at any other, since the two sides differ while a revision is negotiated.

| Run | Bounds | Shows |
|---|---|---|
| `types` | all classes, the unions `src/` reads, up to 3 changed properties, 1 setter | the properties below |

Properties interact through three of them at most (a mode, what it hides, and a
required one), and the proofs below hold for any number.

* `MessagesAreRead`: whatever is written at one revision is read at every other,
  except an elicitation in url mode, which older readers refuse.
* `ArrivesAsSet`: what both revisions know arrives as it was set, everything else
  with the value the reader assumes.
* `VariantIsRecovered`: a union is read as the variant that was sent, where the
  revision has the variant and its media type says what it is.

## 11. What is proved

TLAPS proves the following for any number of sessions, requests, connections,
exchanges, clients, calls, tools, classes and unions, from the named assumptions of
the modules (`Modern` is the latest revision, some revision is supported,
sentinels are distinct, at least one answer per request, bounds are numbers,
classes are well formed, the variants of a union can be told apart) and, where a
theorem says so, from a constant that its run gives the same value.

`McpServerProofs`: an inductive invariant `IInv` that strengthens the checked
ones by what they need of each other. An unsent request has no answers and no
task; a running one belongs to a session that was ready, is initialized, and
speaks the revision its continuation captured, one that failed has no answer; stored overrides only exist on
initialized modern sessions (which is why `OverridesOnlyWhenModern` survives a
session that changes its revision before it is initialized); a cancelled future
belongs to a task at work or cancelled. Every handler is first shown to be a
*message step*: it changes one session to a later state, one request, and at
most its task; one lemma (`Received`) then proves that every message step
preserves `IInv`, so each handler only has to show its own part. The theorems
are `TypeCorrect`, `AnsweredOnce`, `OverridesAreModern`, `LateAnswersFit`,
`TasksAreOptIn`, `VersionFrozen`, `CancellationIsFinal`.

Two more invariants stand on `IInv`. `OInv` follows what a tool left in its
session: what a slot holds was made and has not been sent, what was sent was made,
and to one request at most. Hence `OverridesAreSentOnce`, with tasks and any
overlap. `WInv` is about sessions
whose client waits for its answer: one request runs, and the session requires
input exactly if that request asked for it. Hence `InterimsReachTheirCallers`, under
the hypothesis `~TasksExtension`: a task may ask for input after its call was
answered with the handle, so with tasks the claim is false, which is why the run
`core_live` turns them off too.

`StreamableHttpServerProofs`: the invariant has the shape of the code. `HttpOK`
speaks of the base class alone, and each of its operations preserves it;
`RegistryOK` speaks of the backend's private data, and each of its helpers
preserves it; `SameStreams` ties the two, `PendingOK` ties pending requests to
deferred exchanges, `SessionsOK` and `IdsOK` say who was told of which session
and which internal ids are still owed an answer. An action of the composition is
an operation below together with an operation above. The theorems are
`TypeCorrect`, `StreamsMatch`, `RoutesMatch`, `KeepAliveRuns` (the timer runs
exactly while it is needed), `DeferredMatches`, `AnswersReachTheirCallers`,
`SharedSessionStays`, `StreamsAreSeenToEnd`, and, without pipelining,
`ClosedAreForgotten`.

`StreamableHttpRefinement`: the step of one exchange is a `Course`, which is a
step of `HttpExchanges` or leaves it alone (`CourseIsAbstract`); one lemma per
operator of the base class shows that it is a course of the exchanges it touches,
and each action of the backend is a combination of them. `ExchangesImplemented` is
the refinement that the run `http` checks.

`StreamableHttpClientProofs`: `ClientOK` speaks of `McpClient` alone and is
preserved by `Send` and `Receive`: ids come from the counter of their kind, so
calls of one kind never share one; a stored callback has not run; therefore a
reply that runs a callback of another call has met one of the other kind. The
backend adds that POSTs belong to calls, that one handshake is under way per
client, and `SessionOfHandshake`: between its headers and its result the session
of a handshake is the current one, unless another POST of the client ended with
a 404 or ended an older handshake. The theorems are `TypeCorrect`,
`CallbacksRunOnce`, `RepliesAreRarelyConfused`, `CallbacksAreKept`,
`SessionsAreKnown`, `StreamsAreKept`.

`ServerRequestsProofs`: an answer under way may be of any request, but a callback
is stored under the session its request was sent to and taken when it runs, so
`IInv` adds that a stored callback has not run (`CallbacksWait`).
Theorems `TypeCorrect`, `CallbacksRunOnce`. `RootsInv` adds where the knowledge of
the roots is: the server has it, or is about to be told of a change, or will get it
with the answer to its latest request, and no reply comes before its request; one
lemma says which steps leave that alone (`StaysLearnt`), the actions show the rest.
What a step of the stream loses is `lost`, and if it was a question about roots the
session is `untold` (`StreamRoots`). Theorem `RootsSettleAlways`.

`CatalogProofs`: `CoveredIsPromised` says that a covered list is one whose
changes the client would be told of; it makes `CoveredListsAreCurrent`
inductive, and what an edit does to a list does not matter, only which lists it
changes. Theorem `CoveredStaysCurrent`. What an edit does matters to the other
three. `RegistrationsInv` says what each list holds, and that only finitely many
tool sets and actions are registered at a time: `NewSession` puts them, behind the
server's own tools, in some order, which needs no more (`OrderedSet`). `Without`, the loop that removes a tool
set, is a recursive function; `WithoutOK` says what it leaves, for lists of any
length, from the fact that numbers count up (`CountsUp`, by a least counterexample,
since the library's induction is out of reach). `SessionsInv` says what a session
that is unknown, not initialized or without a stream cannot have, and `WalksInv`
that the pages of a steady walk are the list up to the cursor, which lies inside it
or is over. Theorems `ListsInvariance`, `TypeCorrect`, `ToolsFollow`,
`PagesAreTheList`.

`LegacySseProofs`: `Owned` says that a session is only ever used by the clients of
one process, in their streams, endpoints, posts and answers and in the bytes of the
buffer they share, and `SaidOK` that what the buffer holds was said to one of them;
`StreamsDiffer`
that every stream has a session of its own. From these follows `AnswersStayHome`, however
the clients are spread over processes and whoever completes whose events.

`MessageExchangeProofs`: `IInv` has a part for each stage of an object: what the
setters left, what was written of it, what was read of that. Lemmas about
`ToJson` and `ReadValue` of a well-formed class say which keys are written and
what a missing one reads as; from them follow `Read` and `Arrives` for every such
class, and TLC confirms that all of `MessageTypes` are well formed.

For unions `MessageExchange` assumes that the variants can be told apart
(`UnionsAssumption`): for each way `src/` looks for the variant, what a variant
always writes and what keys it may have (`TellsApart`). TLC evaluates the
assumption on all unions of the run. `PropertiesTell`, `ContentTells` and
`SchemaTells` prove for the three families of readers that exactly the variant that
was written matches, so `VariantsAreRecovered` holds whatever else a class has,
whatever the values and between any two revisions, if both tell the variant from the
others. The invariant had to say that a value is one of its property's values, in
every variant a union ever held: what a reader compares is the text of `type`,
`items` or `mimeType`.

The invariants were checked by TLC on the instances above before they were
proved.

Only model-checked: the liveness properties (`EveryToolCallIsAnswered`,
`EveryRequestIsAnswered`, `StreamsAreKeptAlive`, `StreamIsReopened`, both
`RequestsAreAnswered`, `ChangesReachTheClient`, `AllIsHeard`), since fairness is
beyond the prover, and `Delivered`, whose operators cut text with sorted sets,
filtered and flattened sequences of any length: what they compute takes induction
over data. Every other property of a passing run is a theorem.

## 12. Met while translating

Behaviour that surprised and that no run states as a property; the models have it
where they cover the code.

* `tools/call` before `initialize` is answered twice (`qmcpserver.cpp:541`).
* A `ping` before `initialize` is refused, because a session starts at the latest
  revision, which removed it, although `qmcpserver.cpp:476` says it can be accepted.
* A `tools/call` whose tool throws, drops its promise or is not invoked is never
  answered (`qmcpserver.h:264`), and a task whose tool throws stays `working`.
* A request of the server on a session without an event stream is dropped with a
  warning (`httpserver.cpp:566`), and its callback stays in the table.
* All `QMcpClientSse` of a process read into one buffer (`qmcpclientsse.cpp:50`), so
  an event that arrives in two pieces may end up with another client.
* The next request replaces the input responses that a running tool may still
  read (`qmcpserver.cpp:244`).
* The continuation that answers `tools/call` adds no server information, although
  `qmcpserver.cpp:276` says every result carries it.
* A tool set or action registered twice and unregistered once is still offered if
  it is an action.
* The response of a cancelled request is sent on the event stream of its session,
  under an id no client knows (`httpserver.cpp:560`).
* Of several requests pipelined on a connection only one is forgotten when it
  closes (`qmcpabstracthttpserver.cpp:78`), which is why
  `ClosedConnectionsAreForgotten` assumes none.
* A request for a path without a slot is answered 404 and leaves its parse data
  behind, so the next request on that connection meets it
  (`qmcpabstracthttpserver.cpp:183`).
* The two id counters of the client share a table, so a request made before the
  handshake is answered can displace its callback (`qmcpclient.cpp:222`);
  `RepliesAreConfusedByHandshakesOnly` says how far that goes.
* A late 404 drops the current session although the POST carried an older one
  (`qmcpclientstreamablehttp.cpp:322`), and the late end of an old handshake stores
  its session (`:494`); `SessionKnownWhenNegotiated` names both.
* The setter of a union leaves the variant unset when it is given the default value
  (`qmcpmessagecontentbase.h:29`), so an empty text is sent as an empty object.

## 13. What is not modelled

* Futures that finish on another thread (`qmcpserver.h:264`): the continuation has
  no context object, and what a data race in the session's members can produce is
  not a protocol question. Tools are assumed to finish on the event loop.
* `resources/read`, `prompts/get`, resource templates and `completion/complete`,
  which read and change nothing; handlers an application registers.
* The static line buffer of `QMcpClientStdio` shared by several clients of one
  process: `Framing` has one reader at a time.
* In `LegacySse`, what `lines.at(1)` yields out of range, when a piece of an event
  without its data line is completed by the line end of another client's stream.
* The reflection that makes tools of slots, the selection of the overload a call
  fits and the conversion of arguments: data, abstracted to the four ways a
  `tools/call` can go. The same for the headers a tool call is annotated with.
* Notifications the client receives (one handler each), `setProtocolVersion()` and
  the `_meta` of stateless requests on the client.
* `bind()` to another `QTcpServer`, the lookup of a slot by path, and pipelining in
  `Framing` (`StreamableHttpServer` has a constant for it).
* The strings of revisions, plug-in loading, the interfaces of backends, the
  examples, the JSON schemas and the build: nothing that keeps state between
  messages.
* The conversion of a property by its type (numbers, dates, lists, nested objects,
  `qmcpgadget.cpp:32-202`): in `Gadget` a value survives it.

The hazards in these parts are in `PROJECT.json` with a note.

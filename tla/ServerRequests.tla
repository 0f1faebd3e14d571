---------------------------- MODULE ServerRequests ----------------------------
(***************************************************************************)
(* The requests a server sends (QMcpServer::request(), send() and the      *)
(* reply branch of received() in qmcpserver.cpp) and the client that       *)
(* answers them (the request branch of received() in qmcpclient.cpp):      *)
(* roots/list after a notifications/roots/list_changed, and what           *)
(* QMcpServerSession::createMessage() and elicit() send.                   *)
(*                                                                         *)
(* A server reaches a client in order, on the event stream of its session: *)
(* the backend drops what it sends while the session has no open stream,   *)
(* and what was written to a stream that ends before the client read it is *)
(* lost.  What a client sends arrives in any order, every message being a  *)
(* POST on a connection of its own, and twice when the client repeats a    *)
(* POST.                                                                   *)
(***************************************************************************)
EXTENDS Naturals, Sequences, FiniteSets

CONSTANTS
  Sessions,
  Library,       \* the sessions whose client is QMcpClient
  Versions,      \* per session, the revisions its client may ask for
  Asked,         \* the requests the application makes: kinds of Kinds
  Steady,        \* bound: sessions whose stream is open all along
  MaxRequests,   \* bound: requests the server sends
  MaxChanges,    \* bound, per session: changes of the roots of its client
  MaxStray       \* bound: messages repeated, or answering what nobody asked

V2025_06_18 == 3
V2026_07_28 == 5

ASSUME RequestsAssumption ==
  /\ Library \subseteq Sessions /\ Steady \subseteq Sessions
  /\ Asked \subseteq {"sampling/createMessage", "elicitation/create"}
  /\ Versions \in [Sessions -> SUBSET (1 .. V2026_07_28)]
  /\ {MaxRequests, MaxStray} \subseteq Nat
  /\ MaxChanges \in [Sessions -> Nat]

VARIABLES
  version,      \* QMcpServerSession::protocolVersion
  initialized,  \* QMcpServerSession::isInitialized
  roots,        \* QMcpServerSession::roots, 0 when empty
  requests,     \* what the server sent; the id of the nth request is n
  callbacks,    \* QMcpServer::Private::callbacks: ids by session
  runs,         \* per request, the replies its callback ran with
  stream,       \* per session, whether it has an open event stream
  toClient,     \* per session, the ids on the event stream
  lost,         \* the ids of requests that never reached their client
  toServer,     \* per session, the messages on their way to the server
  held,         \* per client, the roots it has: 0, 1, ...
  strays,       \* messages repeated or made up so far
  untold        \* per session, whether the server had no chance to learn
                \* the roots after their last change

vars == <<version, initialized, roots, requests, callbacks, runs,
          stream, toClient, lost, toServer, held, strays, untold>>

server == <<version, initialized, roots, requests, callbacks, runs>>

wire == <<stream, toClient, lost>>

Kinds == {"roots/list", "sampling/createMessage", "elicitation/create"}

Requests == [session : Sessions, kind : Kinds, waits : BOOLEAN]

(* A reply carries the roots its client had when it wrote it. *)
Messages ==
  [type : {"result", "error", "bare"}, id : Nat, roots : Nat]
    \cup [type : {"list_changed"}, roots : Nat]
    \cup [type : {"initialized"}]

Init ==
  /\ version = [s \in Sessions |-> V2026_07_28]
  /\ initialized = [s \in Sessions |-> FALSE]
  /\ roots = [s \in Sessions |-> 0]
  /\ requests = <<>>
  /\ callbacks = [s \in Sessions |-> {}]
  /\ runs = <<>>
  /\ stream = [s \in Sessions |-> s \in Steady]
  /\ toClient = [s \in Sessions |-> <<>>]
  /\ lost = {}
  /\ toServer = [s \in Sessions |-> {}]
  /\ held = [s \in Sessions |-> 0]
  /\ strays = 0
  /\ untold = [s \in Sessions |-> FALSE]
-----------------------------------------------------------------------------
(***************************************************************************)
(* The server.                                                             *)
(***************************************************************************)

(* HttpServer::send(): on the stream of the session, or dropped. *)
SendOnStream(s, id) ==
  /\ toClient' = IF stream[s] THEN [toClient EXCEPT ![s] = Append(@, id)] ELSE toClient
  /\ lost' = IF stream[s] THEN lost ELSE lost \cup {id}
  /\ UNCHANGED stream

\* Mutant: the counter is advanced before the callback is stored.
SendAdvancedEarly(s, kind, waits) ==
  LET id == Len(requests) + 1
  IN  /\ Len(requests) < MaxRequests
      /\ requests' = Append(requests, [session |-> s, kind |-> kind, waits |-> waits])
      /\ runs' = Append(runs, {})
      /\ callbacks' = IF waits THEN [callbacks EXCEPT ![s] = @ \cup {id + 1}] ELSE callbacks
      /\ SendOnStream(s, id)

(* QMcpServer::send() with a null id.  The static counter is shared by all *)
(* sessions; the callback is kept under the session and the id.            *)
Send(s, kind, waits) ==
  LET id == Len(requests) + 1
  IN  /\ Len(requests) < MaxRequests
      /\ requests' = Append(requests, [session |-> s, kind |-> kind, waits |-> waits])
      /\ runs' = Append(runs, {})
      /\ callbacks' = IF waits THEN [callbacks EXCEPT ![s] = @ \cup {id}] ELSE callbacks
      /\ SendOnStream(s, id)

(* createMessage() and elicit() look at the revision of the session, and   *)
(* at nothing else.                                                        *)
MayAsk(s, kind) ==
  /\ version[s] < V2026_07_28
  /\ kind = "elicitation/create" => version[s] >= V2025_06_18

Ask(s) ==
  /\ \E kind \in Asked : MayAsk(s, kind) /\ Send(s, kind, TRUE)
  /\ UNCHANGED <<version, initialized, roots, toServer, held, strays, untold>>

(* request() without a callback, which an application may call. *)
AskWithoutCallback(s) ==
  /\ Send(s, "sampling/createMessage", FALSE)
  /\ UNCHANGED <<version, initialized, roots, toServer, held, strays, untold>>

\* Mutant: a change is not asked about while an answer is under way.
RootsListChangedCoalesced(s) ==
  CASE version[s] >= V2026_07_28 \/ ~initialized[s] ->
         /\ untold' = [untold EXCEPT ![s] = TRUE]
         /\ UNCHANGED <<server, wire>>
    [] \E id \in callbacks[s] : requests[id].kind = "roots/list" ->
         UNCHANGED <<server, wire, untold>>
    [] OTHER ->
         /\ Send(s, "roots/list", TRUE)
         /\ untold' = [untold EXCEPT ![s] = ~stream[s]]
         /\ UNCHANGED <<version, initialized, roots>>

(* notifications/roots/list_changed: ignored on the latest revision and    *)
(* before the session is initialized, else answered by a roots/list.       *)
RootsListChanged(s) ==
  IF version[s] >= V2026_07_28 \/ ~initialized[s]
    THEN /\ untold' = [untold EXCEPT ![s] = TRUE]
         /\ UNCHANGED <<server, wire>>
    ELSE /\ Send(s, "roots/list", TRUE)
         /\ untold' = [untold EXCEPT ![s] = ~stream[s]]
         /\ UNCHANGED <<version, initialized, roots>>

Initialized(s) ==
  /\ initialized' = [initialized EXCEPT ![s] = TRUE]
  /\ UNCHANGED <<version, roots, requests, callbacks, runs, wire, untold>>

(* An error is handed to the callback as an empty result. *)
RootsIn(m) == IF m.type = "result" THEN m.roots ELSE 0

IsRootsReply(s, m) == requests[m.id].kind = "roots/list" /\ initialized[s]

(* The client has yet to answer, or its answer is on its way. *)
AnswerToCome(s, id) ==
  \/ \E i \in DOMAIN toClient[s] : toClient[s][i] = id
  \/ \E m \in toServer[s] : m.type \in {"result", "error"} /\ m.id = id

(* An earlier request for the roots of the session is answered only later. *)
Overtakes(s, m) ==
  \E id \in callbacks[s] :
    id < m.id /\ requests[id].kind = "roots/list" /\ AnswerToCome(s, id)

\* Mutant: callbacks are found by id alone, whoever sends it.
HasCallbackOfAny(s, id) == id \in UNION {callbacks[t] : t \in Sessions}

HasCallback(s, id) == id \in callbacks[s]

(* take(id)(session, result), and the callback: setRoots(), or the signal  *)
(* of a finished createMessage() or elicit().                              *)
RunCallback(s, m) ==
  /\ callbacks' = [callbacks EXCEPT ![s] = @ \ {m.id}]
  /\ runs' = [runs EXCEPT ![m.id] = @ \cup {[session |-> s, reply |-> m]}]
  /\ roots' = IF IsRootsReply(s, m) THEN [roots EXCEPT ![s] = RootsIn(m)] ELSE roots
  /\ untold' = [untold EXCEPT ![s] =
                  \/ @
                  \/ /\ IsRootsReply(s, m)
                     /\ m.type = "error" \/ Overtakes(s, m)]
  /\ UNCHANGED <<version, initialized, requests, wire>>

\* Mutant: errors are not handed on.
HandledResultsOnly(s, m) ==
  CASE m.type = "list_changed" -> RootsListChanged(s)
    [] m.type = "initialized"  -> Initialized(s)
    [] m.type = "result" /\ HasCallback(s, m.id) -> RunCallback(s, m)
    [] OTHER -> UNCHANGED <<server, wire, untold>>

(* received(): a message with an id and a result or an error runs the      *)
(* callback of that id; whatever else has no method is not handled.        *)
Handled(s, m) ==
  CASE m.type = "list_changed" -> RootsListChanged(s)
    [] m.type = "initialized"  -> Initialized(s)
    [] m.type \in {"result", "error"} /\ HasCallback(s, m.id) -> RunCallback(s, m)
    [] OTHER -> UNCHANGED <<server, wire, untold>>

Receive(s) ==
  /\ \E m \in toServer[s] :
       /\ Handled(s, m)
       /\ toServer' = [toServer EXCEPT ![s] = @ \ {m}]
  /\ UNCHANGED <<held, strays>>

(* initialize and then, on a POST of its own, notifications/initialized. *)
Handshake(s) ==
  /\ ~initialized[s] /\ [type |-> "initialized"] \notin toServer[s]
  /\ \E v \in Versions[s] : version' = [version EXCEPT ![s] = v]
  /\ toServer' = [toServer EXCEPT ![s] = @ \cup {[type |-> "initialized"]}]
  /\ UNCHANGED <<initialized, roots, requests, callbacks, runs, wire,
                 held, strays, untold>>

(* openStream() and closeStream() of the backend, or a broken connection:  *)
(* what the client has not read of a stream that ends is lost.             *)
OpenStream(s) ==
  /\ ~stream[s]
  /\ stream' = [stream EXCEPT ![s] = TRUE]
  /\ UNCHANGED <<server, toClient, lost, toServer, held, strays, untold>>

EndStream(s) ==
  LET unread == {toClient[s][i] : i \in DOMAIN toClient[s]}
  IN  /\ stream[s] /\ s \notin Steady
      /\ stream' = [stream EXCEPT ![s] = FALSE]
      /\ toClient' = [toClient EXCEPT ![s] = <<>>]
      /\ lost' = lost \cup unread
      /\ untold' = [untold EXCEPT ![s] =
                      @ \/ \E id \in unread \cap callbacks[s] : requests[id].kind = "roots/list"]
      /\ UNCHANGED <<server, toServer, held, strays>>
-----------------------------------------------------------------------------
(***************************************************************************)
(* The client.                                                             *)
(***************************************************************************)
ToServer(s, m) == toServer' = [toServer EXCEPT ![s] = @ \cup {m}]

ChangeRoots(s) ==
  /\ held[s] < MaxChanges[s]
  /\ held' = [held EXCEPT ![s] = @ + 1]
  /\ ToServer(s, [type |-> "list_changed", roots |-> held[s] + 1])
  /\ UNCHANGED <<server, wire, strays, untold>>

Reply(type, id, s) == [type |-> type, id |-> id, roots |-> held[s]]

(* The request branch of received(): without a handler, or when it fails,  *)
(* an error with the id of the request; otherwise the result of the        *)
(* handler, which QMcpClient sends as it is.                               *)
Replies(s, id) ==
  {Reply("error", id, s),
   Reply(IF s \in Library THEN "bare" ELSE "result", id, s)}

Answer(s) ==
  /\ toClient[s] # <<>>
  /\ toClient' = [toClient EXCEPT ![s] = Tail(@)]
  /\ \E m \in Replies(s, Head(toClient[s])) : ToServer(s, m)
  /\ UNCHANGED <<server, stream, lost, held, strays, untold>>

(* A client answers what it was not asked, or answers again. *)
AnswerUnasked(s) ==
  /\ strays < MaxStray
  /\ strays' = strays + 1
  /\ \E id \in 1 .. Len(requests) : ToServer(s, Reply("result", id, s))
  /\ UNCHANGED <<server, wire, held, untold>>

Next ==
  \E s \in Sessions :
    \/ Handshake(s)
    \/ OpenStream(s)
    \/ EndStream(s)
    \/ Ask(s)
    \/ AskWithoutCallback(s)
    \/ Receive(s)
    \/ ChangeRoots(s)
    \/ Answer(s)
    \/ AnswerUnasked(s)

(* Both event loops turn: a client answers what it gets, and its POSTs     *)
(* arrive.                                                                 *)
Fairness == \A s \in Sessions : WF_vars(Answer(s)) /\ WF_vars(Receive(s))

Spec == Init /\ [][Next]_vars /\ Fairness
-----------------------------------------------------------------------------
TypeOK ==
  /\ version \in [Sessions -> 1 .. V2026_07_28]
  /\ initialized \in [Sessions -> BOOLEAN]
  /\ roots \in [Sessions -> Nat]
  /\ requests \in Seq(Requests) /\ Len(requests) <= MaxRequests
  /\ callbacks \in [Sessions -> SUBSET (1 .. Len(requests))]
  /\ DOMAIN runs = 1 .. Len(requests)
  /\ stream \in [Sessions -> BOOLEAN]
  /\ toClient \in [Sessions -> Seq(1 .. Len(requests))]
  /\ lost \subseteq 1 .. Len(requests)
  /\ toServer \in [Sessions -> SUBSET Messages]
  /\ held \in [Sessions -> Nat] /\ \A s \in Sessions : held[s] <= MaxChanges[s]
  /\ strays \in 0 .. MaxStray
  /\ untold \in [Sessions -> BOOLEAN]

(* A callback runs at most once, and with an answer to its own request     *)
(* that came from the session the request was sent to, although all        *)
(* sessions share the counter and clients repeat and make up answers.      *)
CallbackRunsWithItsAnswer ==
  \A id \in 1 .. Len(requests) :
    /\ \A run \in runs[id] : /\ run.session = requests[id].session
                            /\ run.reply.id = id
    /\ \A run, other \in runs[id] : run = other
    /\ id \in callbacks[requests[id].session] => runs[id] = {}

InFlight(s) == toClient[s] # <<>> \/ toServer[s] # {}

(* Once nothing is under way, the server knows the roots of the client,    *)
(* unless it ignored the last change, its question about it was lost, or   *)
(* it got an error or the answers in another order.                        *)
RootsSettle ==
  \A s \in Sessions \ Library :
    ~InFlight(s) /\ ~untold[s] => roots[s] = held[s]

Waits(id) == \E s \in Sessions \ Library : id \in callbacks[s]

(* A client that puts the id into its answers completes every request that *)
(* waits for one, unless the request is lost: nobody sends it again, and   *)
(* its callback waits for good.                                            *)
RequestsAreAnswered ==
  \A id \in 1 .. MaxRequests : Waits(id) ~> ~Waits(id) \/ id \in lost

(* An answer is heard: once nothing is under way, no callback waits for    *)
(* the answer to a request that reached its client.                        *)
EveryAnswerIsHeard ==
  \A s \in Sessions : ~InFlight(s) => callbacks[s] \subseteq lost
=============================================================================

------------------------------ MODULE McpClient ------------------------------
(***************************************************************************)
(* QMcpClient (src/src/mcpclient): how the replies of a server find the    *)
(* callbacks of the requests an application made.                          *)
(*                                                                         *)
(* The clients are the QMcpClient objects of one process; the two counters *)
(* that number requests are static variables, shared by all of them.  The  *)
(* module has no next-state relation of its own: a backend decides when a  *)
(* reply is received, and StreamableHttpClient composes the two.  Methods, *)
(* parameters and results are abstracted to the kind of a call.            *)
(***************************************************************************)
EXTENDS Naturals, Sequences, Functions

CONSTANTS
  Clients,   \* the QMcpClient objects
  MaxCalls,  \* bound on the messages the applications send
  None

ASSUME CallsAssumption == MaxCalls \in Nat

ASSUME ClientsAssumption ==
  /\ None \notin Clients
  /\ None \notin Nat

VARIABLES
  nextInitializeId,  \* static int id of the initialize branch of send()
  nextId,            \* static int id of the other branch
  sent,              \* how many calls were made, all clients together
  call,              \* what the application asked for
  callbacks,         \* Private::callbacks, as the calls whose callback it holds
  completed          \* the calls whose replies the callback of a call was run with

clientVars == <<nextInitializeId, nextId, sent, call, callbacks, completed>>

-----------------------------------------------------------------------------

Calls == 1 .. MaxCalls

\* A silent call is a request without a callback; a message carries no null id:
\* a notification, or the reply to a request of the server.
Kinds == {"initialize", "request", "silent", "message"}

CallState ==
  [kind   : Kinds \cup {None},
   client : Clients \cup {None},
   id     : Nat \cup {None}]

Unmade == [kind |-> None, client |-> None, id |-> None]

ClientTypeOK ==
  /\ nextInitializeId \in Nat
  /\ nextId \in Nat
  /\ sent \in 0 .. MaxCalls
  /\ call \in [Calls -> CallState]
  /\ callbacks \in [Clients -> SUBSET Calls]
  /\ completed \in [Calls -> Seq(Calls)]

ClientInit ==
  /\ nextInitializeId = 0
  /\ nextId = 0
  /\ sent = 0
  /\ call = [c \in Calls |-> Unmade]
  /\ callbacks = [k \in Clients |-> {}]
  /\ completed = [c \in Calls |-> <<>>]

-----------------------------------------------------------------------------

Numbered == {"request", "silent"}
WithCallback == {"initialize", "request"}

IdOf(kind) ==
  CASE kind = "initialize" -> nextInitializeId
    [] kind \in Numbered -> nextId
    [] OTHER -> None

\* The callbacks a client holds under an id; the table has one at most.
Waiting(k, id) == {c \in callbacks[k] : call[c].id = id}

\* Mutant: the id is not incremented after a request.
SendUnnumbered(k, kind) ==
  /\ sent < MaxCalls
  /\ sent' = sent + 1
  /\ call' = [call EXCEPT ![sent + 1] =
                [kind |-> kind, client |-> k, id |-> IdOf(kind)]]
  /\ callbacks' = [callbacks EXCEPT ![k] =
                     IF kind \in WithCallback
                     THEN (@ \ Waiting(k, IdOf(kind))) \cup {sent + 1}
                     ELSE @]
  /\ nextInitializeId' =
       IF kind = "initialize" THEN nextInitializeId + 1 ELSE nextInitializeId
  /\ UNCHANGED <<nextId, completed>>

\* send(): the null id of a request is replaced by the next one of its branch
\* and the callback is inserted under it, in place of one that is there.
Send(k, kind) ==
  /\ sent < MaxCalls
  /\ sent' = sent + 1
  /\ call' = [call EXCEPT ![sent + 1] =
                [kind |-> kind, client |-> k, id |-> IdOf(kind)]]
  /\ callbacks' = [callbacks EXCEPT ![k] =
                     IF kind \in WithCallback
                     THEN (@ \ Waiting(k, IdOf(kind))) \cup {sent + 1}
                     ELSE @]
  /\ nextInitializeId' =
       IF kind = "initialize" THEN nextInitializeId + 1 ELSE nextInitializeId
  /\ nextId' = IF kind \in Numbered THEN nextId + 1 ELSE nextId
  /\ UNCHANGED completed

\* Mutant: callbacks.value() in place of callbacks.take().
ReceiveAndKeep(c, outcome) ==
  /\ completed' = [d \in Calls |->
                     IF d \in Waiting(call[c].client, call[c].id)
                     THEN Append(completed[d], c)
                     ELSE completed[d]]
  /\ UNCHANGED <<nextInitializeId, nextId, sent, call, callbacks>>

\* Mutant: a reply with an error is not looked at.
ReceiveResultsOnly(c, outcome) ==
  LET k == call[c].client
      W == IF outcome = "error" THEN {} ELSE Waiting(k, call[c].id)
  IN /\ callbacks' = [callbacks EXCEPT ![k] = @ \ W]
     /\ completed' = [d \in Calls |->
                        IF d \in W /\ outcome # "interim"
                        THEN Append(completed[d], c)
                        ELSE completed[d]]
     /\ UNCHANGED <<nextInitializeId, nextId, sent, call>>

\* The received() lambda, on a reply to call c.  An interim result takes the
\* callback out of the table without running it.
Receive(c, outcome) ==
  LET k == call[c].client
      W == Waiting(k, call[c].id)
  IN /\ callbacks' = [callbacks EXCEPT ![k] = @ \ W]
     /\ completed' = [d \in Calls |->
                        IF d \in W /\ outcome # "interim"
                        THEN Append(completed[d], c)
                        ELSE completed[d]]
     /\ UNCHANGED <<nextInitializeId, nextId, sent, call>>

\* initCallback runs with the result of an initialize.  Any revision the server
\* names is a supported one for it: an unknown string is taken for the latest.
Negotiates(c, outcome) ==
  /\ outcome = "result"
  /\ call[c].kind = "initialize"
  /\ \E d \in Waiting(call[c].client, call[c].id) : call[d].kind = "initialize"

-----------------------------------------------------------------------------
(***************************************************************************)
(* Properties of every backend that passes one reply per request           *)
(***************************************************************************)

\* callbacks.take(): however replies, errors and ids meet, a callback runs at
\* most once.
CallbackRunsOnce == \A c \in Calls : Len(completed[c]) <= 1

SameId(c, d) ==
  /\ call[c].client = call[d].client
  /\ call[c].id = call[d].id

IsInitialize(c) == call[c].kind = "initialize"

\* The two counters of send() can number two pending calls of a client alike,
\* but never two handshakes, nor two other requests: a callback runs with the
\* reply to another call only if exactly one of the two is a handshake.
RepliesAreConfusedByHandshakesOnly ==
  \A c, d \in Calls :
    d \in Range(completed[c]) /\ c # d =>
      SameId(c, d) /\ IsInitialize(c) # IsInitialize(d)

=============================================================================

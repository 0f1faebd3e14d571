-------------------------- MODULE ServerRequestsProofs --------------------------
(***************************************************************************)
(* Theorems about ServerRequests, for every number of sessions, requests   *)
(* and repeated or made up answers.                                        *)
(***************************************************************************)
EXTENDS ServerRequests, TLAPS

-----------------------------------------------------------------------------
(***************************************************************************)
(* The inductive invariant.                                                *)
(***************************************************************************)

Runs == [session : Sessions, reply : Messages]

(* A callback waits under the session its request was sent to, and has not *)
(* run yet.                                                                *)
CallbacksWait ==
  \A s \in Sessions : \A id \in callbacks[s] :
    requests[id].session = s /\ runs[id] = {}

IInv ==
  /\ TypeOK
  /\ runs \in Seq(SUBSET Runs) /\ Len(runs) = Len(requests)
  /\ CallbacksWait
  /\ CallbackRunsWithItsAnswer

(* What callbacks and runs depend on. *)
Kept == UNCHANGED <<requests, callbacks, runs>>

(* A step that sends nothing and runs no callback. *)
LEMMA KeptOK ==
  ASSUME IInv, Kept
  PROVE  /\ runs' \in Seq(SUBSET Runs) /\ Len(runs') = Len(requests')
         /\ CallbacksWait' /\ CallbackRunsWithItsAnswer'
BY DEF IInv, Kept, CallbacksWait, CallbackRunsWithItsAnswer

(* The id of a new request is its own. *)
LEMMA SendOK ==
  ASSUME IInv, NEW s \in Sessions, NEW kind \in Kinds, NEW waits \in BOOLEAN,
         Send(s, kind, waits)
  PROVE  /\ requests' \in Seq(Requests) /\ Len(requests') <= MaxRequests
         /\ Len(requests') = Len(requests) + 1
         /\ callbacks' \in [Sessions -> SUBSET (1 .. Len(requests'))]
         /\ DOMAIN runs' = 1 .. Len(requests')
         /\ stream' = stream
         /\ toClient' \in [Sessions -> Seq(1 .. Len(requests'))]
         /\ lost' \subseteq 1 .. Len(requests')
         /\ runs' \in Seq(SUBSET Runs) /\ Len(runs') = Len(requests')
         /\ CallbacksWait' /\ CallbackRunsWithItsAnswer'
<1> DEFINE n == Len(requests)
           id == n + 1
           request == [session |-> s, kind |-> kind, waits |-> waits]
<1>1. /\ n < MaxRequests
      /\ requests' = Append(requests, request)
      /\ runs' = Append(runs, {})
      /\ callbacks' = IF waits THEN [callbacks EXCEPT ![s] = @ \cup {id}] ELSE callbacks
      /\ toClient' = IF stream[s] THEN [toClient EXCEPT ![s] = Append(@, id)] ELSE toClient
      /\ lost' = IF stream[s] THEN lost ELSE lost \cup {id}
      /\ stream' = stream
  BY DEF Send, SendOnStream
<1>2. request \in Requests /\ request.session = s
  BY DEF Requests
<1>3. /\ requests \in Seq(Requests) /\ n \in Nat
      /\ runs \in Seq(SUBSET Runs) /\ Len(runs) = n
      /\ MaxRequests \in Nat
  BY RequestsAssumption DEF IInv, TypeOK
<1> HIDE DEF request
<1>4. /\ requests' \in Seq(Requests) /\ Len(requests') = id
      /\ requests'[id] = request
      /\ \A i \in 1 .. n : requests'[i] = requests[i]
  BY <1>1, <1>2, <1>3
<1>5. /\ runs' \in Seq(SUBSET Runs) /\ Len(runs') = id
      /\ runs'[id] = {}
      /\ \A i \in 1 .. n : runs'[i] = runs[i]
  BY <1>1, <1>3
<1>6. /\ callbacks' \in [Sessions -> SUBSET (1 .. id)]
      /\ callbacks'[s] \subseteq callbacks[s] \cup {id}
      /\ \A t \in Sessions \ {s} : callbacks'[t] = callbacks[t]
      /\ \A t \in Sessions : callbacks[t] \subseteq 1 .. n
  <2>1. callbacks \in [Sessions -> SUBSET (1 .. n)]
    BY DEF IInv, TypeOK
  <2>2. \A t \in Sessions : callbacks[t] \subseteq 1 .. id /\ callbacks[t] \cup {id} \subseteq 1 .. id
    BY <1>3, <2>1
  <2> QED BY <1>1, <2>1, <2>2
<1>7. toClient' \in [Sessions -> Seq(1 .. id)]
  <2>1. toClient \in [Sessions -> Seq(1 .. n)]
    BY DEF IInv, TypeOK
  <2>2. \A t \in Sessions : toClient[t] \in Seq(1 .. id) /\ Append(toClient[t], id) \in Seq(1 .. id)
    BY <1>3, <2>1
  <2> QED BY <1>1, <2>1, <2>2
<1>71. lost' \subseteq 1 .. id
  <2>1. lost \subseteq 1 .. n /\ 1 .. n \subseteq 1 .. id /\ id \in 1 .. id
    BY <1>3 DEF IInv, TypeOK
  <2>2. lost' \subseteq lost \cup {id}
    BY <1>1
  <2> HIDE DEF n, id
  <2> QED BY <2>1, <2>2
<1>8. CallbacksWait'
  BY <1>2, <1>4, <1>5, <1>6 DEF IInv, CallbacksWait
<1>9. CallbackRunsWithItsAnswer'
  <2> SUFFICES ASSUME NEW i \in 1 .. id
               PROVE  /\ \A run \in runs'[i] : /\ run.session = requests'[i].session
                                              /\ run.reply.id = i
                      /\ \A run, other \in runs'[i] : run = other
                      /\ i \in callbacks'[requests'[i].session] => runs'[i] = {}
    BY <1>4 DEF CallbackRunsWithItsAnswer
  <2>1. CASE i = id
    BY <1>5, <2>1
  <2>2. CASE i \in 1 .. n
    <3>1. requests[i] \in Requests /\ i # id /\ i \in 1 .. Len(requests)
      BY <1>3, <2>2
    <3>2. requests[i].session \in Sessions
      BY <3>1 DEF Requests
    <3>3. requests'[i] = requests[i] /\ runs'[i] = runs[i]
      BY <1>4, <1>5, <2>2
    <3>4. i \in callbacks'[requests[i].session] => i \in callbacks[requests[i].session]
      BY <1>6, <3>1, <3>2
    <3> QED BY <3>1, <3>3, <3>4 DEF IInv, CallbackRunsWithItsAnswer
  <2> QED BY <1>3, <2>1, <2>2
<1> QED BY <1>1, <1>3, <1>4, <1>5, <1>6, <1>7, <1>71, <1>8, <1>9

(* A reply a session sends runs the callback of its id, which is taken.    *)
LEMMA RunCallbackOK ==
  ASSUME IInv, NEW s \in Sessions, NEW m \in toServer[s], m.type \in {"result", "error"},
         HasCallback(s, m.id), RunCallback(s, m)
  PROVE  /\ roots' \in [Sessions -> Nat]
         /\ requests' = requests
         /\ callbacks' \in [Sessions -> SUBSET (1 .. Len(requests))]
         /\ DOMAIN runs' = 1 .. Len(requests)
         /\ untold' \in [Sessions -> BOOLEAN]
         /\ runs' \in Seq(SUBSET Runs) /\ Len(runs') = Len(requests)
         /\ CallbacksWait' /\ CallbackRunsWithItsAnswer'
<1> DEFINE run == [session |-> s, reply |-> m]
<1>1. /\ callbacks' = [callbacks EXCEPT ![s] = @ \ {m.id}]
      /\ runs' = [runs EXCEPT ![m.id] = @ \cup {run}]
      /\ roots' = IF IsRootsReply(s, m) THEN [roots EXCEPT ![s] = RootsIn(m)] ELSE roots
      /\ requests' = requests
  BY DEF RunCallback
<1>2. m \in Messages /\ m.roots \in Nat
  <2>1. m \in Messages
    BY DEF IInv, TypeOK
  <2> QED BY <2>1 DEF Messages
<1>3. /\ m.id \in 1 .. Len(requests) /\ m.id \in callbacks[s]
      /\ requests[m.id].session = s /\ runs[m.id] = {}
  BY DEF HasCallback, IInv, TypeOK, CallbacksWait
<1>4. /\ run \in Runs /\ run.session = s /\ run.reply.id = m.id
  BY <1>2 DEF Runs
<1> HIDE DEF run
<1>5. /\ runs' \in Seq(SUBSET Runs) /\ Len(runs') = Len(requests)
      /\ DOMAIN runs' = 1 .. Len(requests)
      /\ runs'[m.id] = {run}
      /\ \A i \in 1 .. Len(requests) \ {m.id} : runs'[i] = runs[i]
  BY <1>1, <1>3, <1>4 DEF IInv
<1>6. /\ callbacks' \in [Sessions -> SUBSET (1 .. Len(requests))]
      /\ callbacks'[s] = callbacks[s] \ {m.id}
      /\ \A t \in Sessions \ {s} : callbacks'[t] = callbacks[t]
  BY <1>1 DEF IInv, TypeOK
<1>7. roots' \in [Sessions -> Nat]
  BY <1>1, <1>2 DEF RootsIn, IInv, TypeOK
<1>8. untold' \in [Sessions -> BOOLEAN]
  <2>1. PICK b \in BOOLEAN : untold' = [untold EXCEPT ![s] = b]
    <3>1. untold' = [untold EXCEPT ![s] = untold[s] \/ (IsRootsReply(s, m)
                       /\ (m.type = "error" \/ Overtakes(s, m)))]
      BY DEF RunCallback, IInv, TypeOK
    <3> QED BY <3>1
  <2> QED BY <2>1 DEF IInv, TypeOK
<1>9. CallbacksWait'
  <2> SUFFICES ASSUME NEW t \in Sessions, NEW i \in callbacks'[t]
               PROVE  requests[i].session = t /\ runs'[i] = {}
    BY <1>1 DEF CallbacksWait
  <2>1. i \in callbacks[t] /\ i \in 1 .. Len(requests)
    BY <1>6 DEF IInv, TypeOK
  <2>2. requests[i].session = t /\ runs[i] = {}
    BY <2>1 DEF IInv, CallbacksWait
  <2>3. i # m.id
    BY <1>3, <1>6, <2>2
  <2> QED BY <1>5, <2>1, <2>2, <2>3
<1>10. CallbackRunsWithItsAnswer'
  <2> SUFFICES ASSUME NEW i \in 1 .. Len(requests)
               PROVE  /\ \A r \in runs'[i] : r.session = requests[i].session /\ r.reply.id = i
                      /\ \A r, other \in runs'[i] : r = other
                      /\ i \in callbacks'[requests[i].session] => runs'[i] = {}
    BY <1>1 DEF CallbackRunsWithItsAnswer
  <2>1. CASE i = m.id
    BY <1>3, <1>4, <1>5, <1>6, <2>1
  <2>2. CASE i # m.id
    <3>1. runs'[i] = runs[i]
      BY <1>5, <2>2
    <3>2. \A t : callbacks'[t] \subseteq callbacks[t]
      BY <1>1 DEF IInv, TypeOK
    <3> QED BY <3>1, <3>2 DEF IInv, CallbackRunsWithItsAnswer
  <2> QED BY <2>1, <2>2
<1> QED BY <1>1, <1>5, <1>6, <1>7, <1>8, <1>9, <1>10

(* A message that arrives is handled, and is no longer on its way.         *)
LEMMA ReceiveOK ==
  ASSUME IInv, NEW s \in Sessions, Receive(s)
  PROVE  IInv'
<1>1. PICK m \in toServer[s] :
        Handled(s, m) /\ toServer' = [toServer EXCEPT ![s] = @ \ {m}]
  BY DEF Receive
<1>2. toServer' \in [Sessions -> SUBSET Messages] /\ UNCHANGED <<held, strays>>
  BY <1>1 DEF Receive, IInv, TypeOK
<1>3. CASE RootsListChanged(s)
  <2>1. CASE version[s] >= V2026_07_28 \/ ~initialized[s]
    <3>1. Kept /\ UNCHANGED <<version, initialized, roots, stream, toClient, lost>>
          /\ untold' = [untold EXCEPT ![s] = TRUE]
      BY <1>3, <2>1 DEF RootsListChanged, server, wire, Kept
    <3> QED BY <1>2, <3>1, KeptOK DEF IInv, TypeOK, Kept
  <2>2. CASE ~(version[s] >= V2026_07_28 \/ ~initialized[s])
    <3>1. /\ Send(s, "roots/list", TRUE) /\ UNCHANGED <<version, initialized, roots>>
          /\ untold' = [untold EXCEPT ![s] = ~stream[s]]
      BY <1>3, <2>2 DEF RootsListChanged
    <3>2. "roots/list" \in Kinds
      BY DEF Kinds
    <3>3. stream \in [Sessions -> BOOLEAN] /\ untold' \in [Sessions -> BOOLEAN]
      BY <3>1 DEF IInv, TypeOK
    <3> QED BY <1>2, <3>1, <3>2, <3>3, SendOK DEF IInv, TypeOK
  <2> QED BY <2>1, <2>2
<1>4. CASE Initialized(s)
  <2>1. Kept /\ UNCHANGED <<version, roots, stream, toClient, lost, untold>>
        /\ initialized' = [initialized EXCEPT ![s] = TRUE]
    BY <1>4 DEF Initialized, wire, Kept
  <2> QED BY <1>2, <2>1, KeptOK DEF IInv, TypeOK, Kept
<1>5. CASE m.type \in {"result", "error"} /\ HasCallback(s, m.id) /\ RunCallback(s, m)
  <2>1. UNCHANGED <<version, initialized, stream, toClient, lost>>
    BY <1>5 DEF RunCallback, wire
  <2> QED BY <1>2, <1>5, <2>1, RunCallbackOK DEF IInv, TypeOK
<1>6. CASE UNCHANGED <<server, wire, untold>>
  <2>1. Kept /\ UNCHANGED <<version, initialized, roots, stream, toClient, lost, untold>>
    BY <1>6 DEF server, wire, Kept
  <2> QED BY <1>2, <2>1, KeptOK DEF IInv, TypeOK, Kept
<1> QED BY <1>1, <1>3, <1>4, <1>5, <1>6 DEF Handled

(* What a client sends is a message. *)
LEMMA ToServerOK ==
  ASSUME IInv, NEW s \in Sessions, NEW m \in Messages, ToServer(s, m)
  PROVE  toServer' \in [Sessions -> SUBSET Messages]
BY DEF ToServer, IInv, TypeOK

LEMMA RepliesAreMessages ==
  ASSUME IInv, NEW s \in Sessions, NEW id \in Nat, NEW type \in {"result", "error", "bare"}
  PROVE  Reply(type, id, s) \in Messages
<1>1. held[s] \in Nat
  BY DEF IInv, TypeOK
<1> QED BY <1>1 DEF Reply, Messages

(* What the client does leaves the server alone. *)
LEMMA ClientOK ==
  ASSUME IInv, NEW s \in Sessions, ChangeRoots(s) \/ Answer(s) \/ AnswerUnasked(s)
  PROVE  IInv'
<1>1. CASE ChangeRoots(s)
  <2> DEFINE m == [type |-> "list_changed", roots |-> held[s] + 1]
  <2>1. /\ held[s] < MaxChanges[s] /\ held' = [held EXCEPT ![s] = @ + 1] /\ ToServer(s, m)
        /\ UNCHANGED <<server, wire, strays, untold>>
    BY <1>1 DEF ChangeRoots
  <2>2. m \in Messages
    BY DEF Messages, IInv, TypeOK
  <2> HIDE DEF m
  <2>3. Kept /\ UNCHANGED <<version, initialized, roots, stream, toClient, lost>>
    BY <2>1 DEF server, wire, Kept
  <2>4. held' \in [Sessions -> Nat] /\ \A t \in Sessions : held'[t] <= MaxChanges[t]
    <3>1. held \in [Sessions -> Nat] /\ \A t \in Sessions : held[t] <= MaxChanges[t]
      BY DEF IInv, TypeOK
    <3>2. held[s] + 1 \in Nat /\ held[s] + 1 <= MaxChanges[s]
      <4>1. held[s] \in Nat /\ MaxChanges[s] \in Nat
        BY <3>1, RequestsAssumption
      <4> QED BY <2>1, <4>1
    <3>3. held' = [held EXCEPT ![s] = held[s] + 1]
      BY <2>1
    <3> QED BY <3>1, <3>2, <3>3
  <2> QED BY <2>1, <2>2, <2>3, <2>4, ToServerOK, KeptOK DEF IInv, TypeOK, Kept
<1>2. CASE Answer(s)
  <2>1. /\ toClient[s] # <<>> /\ toClient' = [toClient EXCEPT ![s] = Tail(@)]
        /\ UNCHANGED <<server, stream, lost, held, strays, untold>>
    BY <1>2 DEF Answer
  <2>2. PICK m \in Replies(s, Head(toClient[s])) : ToServer(s, m)
    BY <1>2 DEF Answer
  <2>3. /\ toClient[s] \in Seq(1 .. Len(requests)) /\ Head(toClient[s]) \in 1 .. Len(requests)
        /\ Tail(toClient[s]) \in Seq(1 .. Len(requests))
    BY <2>1 DEF IInv, TypeOK
  <2>4. m \in Messages
    BY <2>2, <2>3, RepliesAreMessages DEF Replies
  <2>5. Kept /\ UNCHANGED <<version, initialized, roots>>
    BY <2>1 DEF server, Kept
  <2> QED BY <2>1, <2>2, <2>3, <2>4, <2>5, ToServerOK, KeptOK DEF IInv, TypeOK, Kept
<1>3. CASE AnswerUnasked(s)
  <2>1. /\ strays < MaxStray /\ strays' = strays + 1
        /\ UNCHANGED <<server, wire, held, untold>>
    BY <1>3 DEF AnswerUnasked
  <2>2. PICK id \in 1 .. Len(requests) : ToServer(s, Reply("result", id, s))
    BY <1>3 DEF AnswerUnasked
  <2>3. Reply("result", id, s) \in Messages
    BY RepliesAreMessages
  <2>4. Kept /\ UNCHANGED <<version, initialized, roots, stream, toClient, lost>>
    BY <2>1 DEF server, wire, Kept
  <2>5. strays' \in 0 .. MaxStray
    <3>1. MaxStray \in Nat /\ strays \in 0 .. MaxStray
      BY RequestsAssumption DEF IInv, TypeOK
    <3> QED BY <2>1, <3>1
  <2> QED BY <2>1, <2>2, <2>3, <2>4, <2>5, ToServerOK, KeptOK DEF IInv, TypeOK, Kept
<1> QED BY <1>1, <1>2, <1>3

(* The handshake and the requests of the application. *)
LEMMA ServerOK ==
  ASSUME IInv, NEW s \in Sessions, Handshake(s) \/ Ask(s) \/ AskWithoutCallback(s)
  PROVE  IInv'
<1>1. CASE Handshake(s)
  <2>1. /\ Kept /\ UNCHANGED <<initialized, roots, stream, toClient, lost,
                               held, strays, untold>>
        /\ toServer' = [toServer EXCEPT ![s] = @ \cup {[type |-> "initialized"]}]
    BY <1>1 DEF Handshake, wire, Kept
  <2>2. toServer' \in [Sessions -> SUBSET Messages]
    BY <2>1 DEF IInv, TypeOK, Messages
  <2>3. version' \in [Sessions -> 1 .. V2026_07_28]
    <3>1. PICK v \in Versions[s] : version' = [version EXCEPT ![s] = v]
      BY <1>1 DEF Handshake
    <3>2. v \in 1 .. V2026_07_28
      BY RequestsAssumption
    <3> QED BY <3>1, <3>2 DEF IInv, TypeOK
  <2> QED BY <2>1, <2>2, <2>3, KeptOK DEF IInv, TypeOK, Kept
<1>2. CASE Ask(s)
  <2>1. PICK kind \in Asked : Send(s, kind, TRUE)
    BY <1>2 DEF Ask
  <2>2. kind \in Kinds
    BY RequestsAssumption DEF Kinds
  <2>3. UNCHANGED <<version, initialized, roots, toServer, held, strays, untold>>
    BY <1>2 DEF Ask
  <2> QED BY <2>1, <2>2, <2>3, SendOK DEF IInv, TypeOK
<1>3. CASE AskWithoutCallback(s)
  <2>1. Send(s, "sampling/createMessage", FALSE) /\ "sampling/createMessage" \in Kinds
        /\ UNCHANGED <<version, initialized, roots, toServer, held, strays, untold>>
    BY <1>3 DEF AskWithoutCallback, Kinds
  <2> QED BY <2>1, SendOK DEF IInv, TypeOK
<1> QED BY <1>1, <1>2, <1>3

(* What a stream carries was sent. *)
LEMMA StreamOK ==
  ASSUME IInv, NEW s \in Sessions, OpenStream(s) \/ EndStream(s)
  PROVE  IInv'
<1>1. CASE OpenStream(s)
  <2>1. /\ Kept /\ UNCHANGED <<version, initialized, roots, toClient, lost, toServer,
                               held, strays, untold>>
        /\ stream' = [stream EXCEPT ![s] = TRUE]
    BY <1>1 DEF OpenStream, server, Kept
  <2> QED BY <2>1, KeptOK DEF IInv, TypeOK, Kept
<1>2. CASE EndStream(s)
  <2> DEFINE unread == {toClient[s][i] : i \in DOMAIN toClient[s]}
             told == \E id \in unread \cap callbacks[s] : requests[id].kind = "roots/list"
  <2>1. /\ Kept /\ UNCHANGED <<version, initialized, roots, toServer, held, strays>>
        /\ stream' = [stream EXCEPT ![s] = FALSE]
        /\ toClient' = [toClient EXCEPT ![s] = <<>>]
        /\ lost' = lost \cup unread
        /\ untold' = [untold EXCEPT ![s] = @ \/ told]
    BY <1>2 DEF EndStream, server, Kept
  <2>2. unread \subseteq 1 .. Len(requests)
    BY DEF IInv, TypeOK
  <2>3. untold' \in [Sessions -> BOOLEAN]
    <3>1. PICK b \in BOOLEAN : untold' = [untold EXCEPT ![s] = b]
      <4>1. untold' = [untold EXCEPT ![s] = untold[s] \/ told] /\ untold[s] \in BOOLEAN
        BY <2>1 DEF IInv, TypeOK
      <4> HIDE DEF told
      <4>2. (untold[s] \/ told) \in BOOLEAN
        BY <4>1
      <4> QED BY <4>1, <4>2
    <3> QED BY <3>1 DEF IInv, TypeOK
  <2> HIDE DEF unread, told
  <2>4. stream' \in [Sessions -> BOOLEAN] /\ toClient' \in [Sessions -> Seq(1 .. Len(requests))]
    BY <2>1 DEF IInv, TypeOK
  <2> QED BY <2>1, <2>2, <2>3, <2>4, KeptOK DEF IInv, TypeOK, Kept
<1> QED BY <1>1, <1>2

-----------------------------------------------------------------------------
(***************************************************************************)
(* The roots of a client, which the server asks for whenever they change.  *)
(***************************************************************************)

(* The requests for the roots of a session that wait for their answer.     *)
RootsRequests(s) == {id \in callbacks[s] : requests[id].kind = "roots/list"}

(* The replies to a request that are on their way. *)
RepliesTo(s, id) == {m \in toServer[s] : m.type \in {"result", "error"} /\ m.id = id}

OnStream(s) == {toClient[s][i] : i \in DOMAIN toClient[s]}

(* The client has said that its roots changed to those it holds. *)
WillBeTold(s) == [type |-> "list_changed", roots |-> held[s]] \in toServer[s]

(* A request is still to be answered, or its answers have the roots the    *)
(* client holds.                                                           *)
WillAnswer(s, id) ==
  /\ \A m \in RepliesTo(s, id) : m.roots = held[s]
  /\ id \in OnStream(s) \/ RepliesTo(s, id) # {}

(* The latest request for the roots brings the ones the client holds. *)
WillLearn(s) ==
  \E id \in RootsRequests(s) :
    (\A other \in RootsRequests(s) : other <= id) /\ WillAnswer(s, id)

(* The server has the roots, and no answer on its way brings others. *)
Knows(s) ==
  /\ roots[s] = held[s]
  /\ \A id \in RootsRequests(s) : \A m \in RepliesTo(s, id) : m.roots = held[s]

IsLearnt(s) == ~untold[s] => WillBeTold(s) \/ WillLearn(s) \/ Knows(s)

(* Unless it had no chance to, the server knows the roots of a client or   *)
(* will learn them.                                                        *)
RootsAreLearnt == \A s \in Sessions \ Library : IsLearnt(s)

(* Roots are asked for once the session is initialized, and replies follow *)
(* their requests.                                                         *)
RequestsPrecede ==
  \A s \in Sessions :
    /\ RootsRequests(s) # {} => initialized[s]
    /\ \A m \in toServer[s] : m.type \in {"result", "error"} => m.id \in 1 .. Len(requests)

RootsInv == IInv /\ RootsAreLearnt /\ RequestsPrecede

(* A step that leaves the requests for the roots of a session and the      *)
(* roots alone, and loses nothing that brings them.                        *)
LEMMA StaysLearnt ==
  ASSUME NEW s, IsLearnt(s),
         RootsRequests(s)' = RootsRequests(s),
         UNCHANGED <<roots[s], held[s], untold[s]>>,
         WillBeTold(s) => WillBeTold(s)',
         \A id \in RootsRequests(s) :
           /\ WillAnswer(s, id) => WillAnswer(s, id)'
           /\ \A m \in RepliesTo(s, id)' : m \in RepliesTo(s, id) \/ m.roots = held[s]
  PROVE  IsLearnt(s)'
BY DEF IsLearnt, WillLearn, Knows

(* What a request for something else, or to another session, leaves alone. *)
LEMMA SendKeeps ==
  ASSUME IInv, NEW s \in Sessions, NEW kind, NEW waits, Send(s, kind, waits)
  PROVE  /\ Len(requests') = Len(requests) + 1
         /\ \A id \in 1 .. Len(requests) : requests'[id] = requests[id]
         /\ requests'[Len(requests) + 1].kind = kind
         /\ callbacks'[s] = IF waits THEN callbacks[s] \cup {Len(requests) + 1} ELSE callbacks[s]
         /\ OnStream(s)' = IF stream[s] THEN OnStream(s) \cup {Len(requests) + 1} ELSE OnStream(s)
         /\ \A t \in Sessions \ {s} : /\ RootsRequests(t)' = RootsRequests(t)
                                     /\ OnStream(t)' = OnStream(t)
         /\ kind # "roots/list" => RootsRequests(s)' = RootsRequests(s)
<1> DEFINE n == Len(requests)
           new == [session |-> s, kind |-> kind, waits |-> waits]
<1>1. /\ requests' = Append(requests, new)
      /\ callbacks' = IF waits THEN [callbacks EXCEPT ![s] = @ \cup {n + 1}] ELSE callbacks
      /\ toClient' = IF stream[s] THEN [toClient EXCEPT ![s] = Append(@, n + 1)] ELSE toClient
  BY DEF Send, SendOnStream
<1>2. /\ requests \in Seq(Requests) /\ n \in Nat
      /\ callbacks \in [Sessions -> SUBSET (1 .. n)]
      /\ toClient \in [Sessions -> Seq(1 .. n)]
  BY DEF IInv, TypeOK
<1>3. new.kind = kind
  OBVIOUS
<1> HIDE DEF new
<1>4. /\ Len(requests') = n + 1 /\ requests'[n + 1] = new
      /\ \A id \in 1 .. n : requests'[id] = requests[id]
  BY <1>1, <1>2
<1>5. /\ callbacks'[s] = IF waits THEN callbacks[s] \cup {n + 1} ELSE callbacks[s]
      /\ \A t \in Sessions \ {s} : callbacks'[t] = callbacks[t] /\ toClient'[t] = toClient[t]
      /\ \A t \in Sessions : callbacks[t] \subseteq 1 .. n
      /\ toClient'[s] = IF stream[s] THEN Append(toClient[s], n + 1) ELSE toClient[s]
  BY <1>1, <1>2
<1>61. ASSUME stream[s] PROVE OnStream(s)' = OnStream(s) \cup {n + 1}
  <2>1. toClient[s] \in Seq(1 .. n)
    BY <1>2
  <2>2. /\ DOMAIN toClient'[s] = DOMAIN toClient[s] \cup {Len(toClient[s]) + 1}
        /\ \A i \in DOMAIN toClient[s] : toClient'[s][i] = toClient[s][i]
        /\ toClient'[s][Len(toClient[s]) + 1] = n + 1
    BY <1>2, <1>5, <1>61, <2>1
  <2> QED BY <2>2 DEF OnStream
<1>6. OnStream(s)' = IF stream[s] THEN OnStream(s) \cup {n + 1} ELSE OnStream(s)
  BY <1>5, <1>61 DEF OnStream
<1>7. ASSUME NEW t \in Sessions \ {s} PROVE RootsRequests(t)' = RootsRequests(t)
  BY <1>4, <1>5 DEF RootsRequests
<1>8. ASSUME kind # "roots/list" PROVE RootsRequests(s)' = RootsRequests(s)
  BY <1>2, <1>3, <1>4, <1>5, <1>8 DEF RootsRequests
<1>9. \A t \in Sessions \ {s} : OnStream(t)' = OnStream(t)
  BY <1>5 DEF OnStream
<1> QED BY <1>3, <1>4, <1>5, <1>6, <1>7, <1>8, <1>9

(* A request for something else. *)
LEMMA OtherRequestRoots ==
  ASSUME RootsInv, NEW s \in Sessions, NEW kind \in Kinds \ {"roots/list"}, NEW waits,
         Send(s, kind, waits), UNCHANGED <<initialized, roots, toServer, held, untold>>
  PROVE  RootsAreLearnt' /\ RequestsPrecede'
<1>1. /\ Len(requests') = Len(requests) + 1 /\ Len(requests) \in Nat
      /\ \A t \in Sessions : /\ RootsRequests(t)' = RootsRequests(t)
                            /\ OnStream(t) \subseteq OnStream(t)'
  <2>1. IInv /\ Len(requests) \in Nat
    BY DEF RootsInv, IInv, TypeOK
  <2>2. kind # "roots/list"
    OBVIOUS
  <2>3. Len(requests') = Len(requests) + 1
    BY <2>1, SendKeeps
  <2>4. RootsRequests(s)' = RootsRequests(s)
    <3>1. \A other : Send(s, other, waits) /\ other # "roots/list"
                      => RootsRequests(s)' = RootsRequests(s)
      BY <2>1, SendKeeps
    <3> QED BY <2>2, <3>1
  <2>5. OnStream(s)' = IF stream[s] THEN OnStream(s) \cup {Len(requests) + 1} ELSE OnStream(s)
    BY <2>1, SendKeeps
  <2>6. \A t \in Sessions \ {s} : RootsRequests(t)' = RootsRequests(t) /\ OnStream(t)' = OnStream(t)
    BY <2>1, SendKeeps
  <2> QED BY <2>1, <2>3, <2>4, <2>5, <2>6
<1>2. ASSUME NEW t \in Sessions \ Library PROVE IsLearnt(t)'
  <2>1. IsLearnt(t) /\ (WillBeTold(t) => WillBeTold(t)')
    BY DEF RootsInv, RootsAreLearnt, WillBeTold
  <2>2. \A id : (WillAnswer(t, id) => WillAnswer(t, id)') /\ RepliesTo(t, id)' = RepliesTo(t, id)
    BY <1>1 DEF WillAnswer, RepliesTo
  <2> QED BY <1>1, <2>1, <2>2, StaysLearnt
<1>3. RequestsPrecede'
  BY <1>1 DEF RootsInv, RequestsPrecede
<1> QED BY <1>2, <1>3 DEF RootsAreLearnt

(* A change that is heard of is answered by the latest request, to which   *)
(* no reply can be on its way yet.                                         *)
LEMMA RootsListChangedRoots ==
  ASSUME RootsInv, NEW s \in Sessions, NEW m, RootsListChanged(s),
         toServer' = [toServer EXCEPT ![s] = @ \ {m}], held' = held
  PROVE  RootsAreLearnt' /\ RequestsPrecede'
<1>1. /\ toServer \in [Sessions -> SUBSET Messages] /\ untold \in [Sessions -> BOOLEAN]
      /\ callbacks \in [Sessions -> SUBSET (1 .. Len(requests))] /\ Len(requests) \in Nat
  BY DEF RootsInv, IInv, TypeOK
<1>2. /\ toServer'[s] \subseteq toServer[s]
      /\ \A t \in Sessions \ {s} : toServer'[t] = toServer[t]
  BY <1>1
<1>3. \A t \in Sessions \ Library : IsLearnt(t)
  BY DEF RootsInv, RootsAreLearnt
<1>4. CASE version[s] >= V2026_07_28 \/ ~initialized[s]
  <2>1. /\ untold' = [untold EXCEPT ![s] = TRUE]
        /\ UNCHANGED <<initialized, roots, requests, callbacks, toClient>>
    BY <1>4 DEF RootsListChanged, server, wire
  <2>2. ASSUME NEW t \in Sessions \ Library PROVE IsLearnt(t)'
    <3>1. CASE t = s
      BY <1>1, <2>1, <3>1 DEF IsLearnt
    <3>2. CASE t # s
      <4>1. RootsRequests(t)' = RootsRequests(t) /\ untold'[t] = untold[t]
        BY <1>1, <2>1, <3>2 DEF RootsRequests
      <4>2. /\ WillBeTold(t) => WillBeTold(t)'
            /\ \A id : /\ WillAnswer(t, id) => WillAnswer(t, id)'
                       /\ RepliesTo(t, id)' = RepliesTo(t, id)
        BY <1>2, <2>1, <3>2 DEF WillBeTold, WillAnswer, RepliesTo, OnStream
      <4> QED BY <1>3, <2>1, <4>1, <4>2, StaysLearnt
    <3> QED BY <3>1, <3>2
  <2>3. RequestsPrecede'
    BY <1>2, <2>1 DEF RootsInv, RequestsPrecede, RootsRequests
  <2> QED BY <2>2, <2>3 DEF RootsAreLearnt
<1>5. CASE ~(version[s] >= V2026_07_28 \/ ~initialized[s])
  <2> PICK new \in Nat : new = Len(requests) + 1
    BY <1>1
  <2>1. /\ Send(s, "roots/list", TRUE) /\ initialized[s]
        /\ untold' = [untold EXCEPT ![s] = ~stream[s]]
        /\ UNCHANGED <<initialized, roots>>
    BY <1>5 DEF RootsListChanged
  <2>2. /\ Len(requests') = new
        /\ \A id \in 1 .. Len(requests) : requests'[id] = requests[id]
        /\ requests'[new].kind = "roots/list"
        /\ callbacks'[s] = callbacks[s] \cup {new}
        /\ stream[s] => new \in OnStream(s)'
        /\ \A t \in Sessions \ {s} : /\ RootsRequests(t)' = RootsRequests(t)
                                    /\ OnStream(t)' = OnStream(t)
    BY <2>1, SendKeeps DEF RootsInv
  <2>3. ASSUME NEW t \in Sessions \ Library PROVE IsLearnt(t)'
    <3>1. CASE t = s /\ ~stream[s]
      BY <1>1, <2>1, <3>1 DEF IsLearnt
    <3>3. CASE t = s /\ stream[s]
      <4>1. new \in RootsRequests(s)' /\ \A other \in RootsRequests(s)' : other <= new
        BY <1>1, <2>2 DEF RootsRequests
      <4>2. \A r \in toServer'[s] : r.type \in {"result", "error"} => r.id # new
        BY <1>1, <1>2 DEF RootsInv, RequestsPrecede
      <4>3. WillAnswer(s, new)'
        BY <2>2, <3>3, <4>2 DEF WillAnswer, RepliesTo
      <4> QED BY <3>3, <4>1, <4>3 DEF IsLearnt, WillLearn
    <3>2. CASE t # s
      <4>1. untold'[t] = untold[t]
        BY <1>1, <2>1, <3>2
      <4>2. /\ WillBeTold(t) => WillBeTold(t)'
            /\ \A id : /\ WillAnswer(t, id) => WillAnswer(t, id)'
                       /\ RepliesTo(t, id)' = RepliesTo(t, id)
        BY <1>2, <2>2, <3>2 DEF WillBeTold, WillAnswer, RepliesTo
      <4> QED BY <1>3, <2>1, <2>2, <3>2, <4>1, <4>2, StaysLearnt
    <3> QED BY <3>1, <3>2, <3>3
  <2>4. RequestsPrecede'
    <3> SUFFICES ASSUME NEW t \in Sessions
                 PROVE  /\ RootsRequests(t)' # {} => initialized'[t]
                        /\ \A r \in toServer'[t] : r.type \in {"result", "error"}
                                                     => r.id \in 1 .. Len(requests')
      BY DEF RequestsPrecede
    <3>1. toServer'[t] \subseteq toServer[t]
      BY <1>2
    <3>2. \A r \in toServer[t] : r.type \in {"result", "error"} => r.id \in 1 .. Len(requests)
      BY DEF RootsInv, RequestsPrecede
    <3>3. RootsRequests(t)' # {} => initialized[t]
      BY <2>1, <2>2 DEF RootsInv, RequestsPrecede
    <3> QED BY <1>1, <2>1, <2>2, <3>1, <3>2, <3>3
  <2> QED BY <2>3, <2>4 DEF RootsAreLearnt
<1> QED BY <1>4, <1>5

(* An answer to the latest request for the roots that comes last brings    *)
(* the roots of the client; whatever an error or an overtaken answer       *)
(* brings, the session is marked.                                          *)
LEMMA RunCallbackRoots ==
  ASSUME RootsInv, NEW s \in Sessions, NEW m \in toServer[s], m.type \in {"result", "error"},
         HasCallback(s, m.id), RunCallback(s, m),
         toServer' = [toServer EXCEPT ![s] = @ \ {m}], held' = held
  PROVE  RootsAreLearnt' /\ RequestsPrecede'
<1>1. /\ toServer \in [Sessions -> SUBSET Messages] /\ untold \in [Sessions -> BOOLEAN]
      /\ callbacks \in [Sessions -> SUBSET (1 .. Len(requests))] /\ Len(requests) \in Nat
      /\ roots \in [Sessions -> Nat]
  BY DEF RootsInv, IInv, TypeOK
<1>2. /\ callbacks' = [callbacks EXCEPT ![s] = @ \ {m.id}]
      /\ roots' = IF IsRootsReply(s, m) THEN [roots EXCEPT ![s] = RootsIn(m)] ELSE roots
      /\ UNCHANGED <<initialized, requests, toClient>>
      /\ m.id \in callbacks[s]
  BY DEF RunCallback, HasCallback, wire
<1>3. /\ toServer'[s] = toServer[s] \ {m} /\ callbacks'[s] = callbacks[s] \ {m.id}
      /\ \A t \in Sessions \ {s} : /\ toServer'[t] = toServer[t] /\ callbacks'[t] = callbacks[t]
                                  /\ roots'[t] = roots[t]
  BY <1>1, <1>2
<1>4. /\ \A t \in Sessions \ {s} : untold'[t] = untold[t]
      /\ untold'[s] <=> \/ untold[s]
                        \/ IsRootsReply(s, m) /\ (m.type = "error" \/ Overtakes(s, m))
  <2>1. PICK b \in BOOLEAN :
          /\ untold' = [untold EXCEPT ![s] = b]
          /\ b <=> \/ untold[s]
                   \/ IsRootsReply(s, m) /\ (m.type = "error" \/ Overtakes(s, m))
    <3>1. untold' = [untold EXCEPT ![s] = untold[s] \/ (IsRootsReply(s, m)
                       /\ (m.type = "error" \/ Overtakes(s, m)))]
      BY <1>1 DEF RunCallback
    <3> QED BY <3>1
  <2> QED BY <1>1, <2>1
<1>5. RootsRequests(s)' = RootsRequests(s) \ {m.id}
  BY <1>2, <1>3 DEF RootsRequests
<1>6. /\ \A id : id # m.id => RepliesTo(s, id)' = RepliesTo(s, id)
      /\ OnStream(s)' = OnStream(s)
      /\ WillBeTold(s) => WillBeTold(s)'
  BY <1>2, <1>3 DEF RepliesTo, OnStream, WillBeTold
<1>7. \A id : id # m.id /\ WillAnswer(s, id) => WillAnswer(s, id)'
  BY <1>6 DEF WillAnswer
<1>8. ASSUME NEW t \in Sessions \ Library PROVE IsLearnt(t)'
  <2>1. IsLearnt(t)
    BY DEF RootsInv, RootsAreLearnt
  <2>2. CASE t # s
    <3>1. RootsRequests(t)' = RootsRequests(t)
      BY <1>2, <1>3, <2>2 DEF RootsRequests
    <3>2. /\ WillBeTold(t) => WillBeTold(t)'
          /\ \A id : /\ WillAnswer(t, id) => WillAnswer(t, id)'
                     /\ RepliesTo(t, id)' = RepliesTo(t, id)
      BY <1>2, <1>3, <2>2 DEF WillBeTold, WillAnswer, RepliesTo, OnStream
    <3> QED BY <1>3, <1>4, <2>1, <2>2, <3>1, <3>2, StaysLearnt
  <2>3. CASE t = s /\ requests[m.id].kind # "roots/list"
    <3>1. RootsRequests(s)' = RootsRequests(s) /\ m.id \notin RootsRequests(s)
      BY <1>5, <2>3 DEF RootsRequests
    <3>2. roots'[s] = roots[s] /\ (untold'[s] <=> untold[s])
      BY <1>2, <1>4, <2>3 DEF IsRootsReply
    <3> QED BY <1>6, <1>7, <2>1, <2>3, <3>1, <3>2 DEF IsLearnt, WillLearn, Knows
  <2>4. CASE t = s /\ requests[m.id].kind = "roots/list"
    <3>1. m.id \in RootsRequests(s) /\ IsRootsReply(s, m)
      BY <1>2, <2>4 DEF RootsRequests, IsRootsReply, RootsInv, RequestsPrecede
    <3>2. CASE untold'[s]
      BY <2>4, <3>2 DEF IsLearnt
    <3>3. CASE ~untold'[s]
      <4>1. /\ ~untold[s] /\ m.type = "result"
            /\ \A id \in RootsRequests(s) : id < m.id => ~AnswerToCome(s, id)
        BY <1>4, <3>1, <3>3 DEF Overtakes, RootsRequests
      <4>2. roots'[s] = m.roots
        BY <1>1, <1>2, <3>1, <4>1 DEF RootsIn
      <4>3. m \in RepliesTo(s, m.id)
        BY DEF RepliesTo
      <4>4. CASE WillBeTold(s)
        BY <1>6, <2>4, <4>4 DEF IsLearnt
      <4>5. CASE WillLearn(s)
        <5>1. PICK id \in RootsRequests(s) :
                (\A other \in RootsRequests(s) : other <= id) /\ WillAnswer(s, id)
          BY <4>5 DEF WillLearn
        <5>2. CASE id # m.id
          BY <1>5, <1>7, <2>4, <5>1, <5>2 DEF IsLearnt, WillLearn
        <5>3. CASE id = m.id
          <6>1. ASSUME NEW other \in RootsRequests(s) \ {m.id} PROVE RepliesTo(s, other) = {}
            <7>1. other < m.id
              BY <1>1, <5>1, <5>3 DEF RootsRequests
            <7> QED BY <4>1, <7>1 DEF AnswerToCome, RepliesTo
          <6>2. m.roots = held[s]
            BY <4>3, <5>1, <5>3 DEF WillAnswer
          <6> QED BY <1>5, <1>6, <2>4, <4>2, <6>1, <6>2 DEF IsLearnt, Knows
        <5> QED BY <5>2, <5>3
      <4>6. CASE Knows(s)
        <5>1. m.roots = held[s]
          BY <3>1, <4>3, <4>6 DEF Knows
        <5> QED BY <1>5, <1>6, <2>4, <4>2, <4>6, <5>1 DEF IsLearnt, Knows
      <4> QED BY <2>1, <2>4, <4>1, <4>4, <4>5, <4>6 DEF IsLearnt
    <3> QED BY <3>2, <3>3
  <2> QED BY <2>2, <2>3, <2>4
<1>9. RequestsPrecede'
  <2>1. \A t \in Sessions : /\ RootsRequests(t)' \subseteq RootsRequests(t)
                           /\ toServer'[t] \subseteq toServer[t]
    BY <1>2, <1>3 DEF RootsRequests
  <2> QED BY <1>2, <2>1 DEF RootsInv, RequestsPrecede
<1> QED BY <1>8, <1>9 DEF RootsAreLearnt

(* A message that changes neither callbacks nor roots: a reply among them  *)
(* is one no callback waits for.                                           *)
LEMMA UnhandledRoots ==
  ASSUME RootsInv, NEW s \in Sessions, NEW m \in toServer[s], m.type # "list_changed",
         m.type \in {"result", "error"} => ~HasCallback(s, m.id),
         toServer' = [toServer EXCEPT ![s] = @ \ {m}],
         UNCHANGED <<roots, requests, callbacks, toClient, held, untold>>,
         \A t \in Sessions : initialized[t] => initialized'[t]
  PROVE  RootsAreLearnt' /\ RequestsPrecede'
<1>1. /\ toServer'[s] = toServer[s] \ {m}
      /\ \A t \in Sessions \ {s} : toServer'[t] = toServer[t]
  BY DEF RootsInv, IInv, TypeOK
<1>2. \A t : RootsRequests(t)' = RootsRequests(t) /\ OnStream(t)' = OnStream(t)
  BY DEF RootsRequests, OnStream
<1>3. ASSUME NEW t \in Sessions \ Library PROVE IsLearnt(t)'
  <2>1. IsLearnt(t)
    BY DEF RootsInv, RootsAreLearnt
  <2>2. WillBeTold(t) => WillBeTold(t)'
    BY <1>1 DEF WillBeTold
  <2>3. \A id \in RootsRequests(t) : RepliesTo(t, id)' = RepliesTo(t, id)
    BY <1>1 DEF RepliesTo, RootsRequests, HasCallback
  <2>4. \A id \in RootsRequests(t) : WillAnswer(t, id) => WillAnswer(t, id)'
    BY <1>2, <2>3 DEF WillAnswer
  <2> QED BY <1>2, <2>1, <2>2, <2>3, <2>4, StaysLearnt
<1>4. RequestsPrecede'
  <2>1. \A t \in Sessions : toServer'[t] \subseteq toServer[t]
    BY <1>1
  <2> QED BY <1>2, <2>1 DEF RootsInv, RequestsPrecede
<1> QED BY <1>3, <1>4 DEF RootsAreLearnt

LEMMA ReceiveRoots ==
  ASSUME RootsInv, NEW s \in Sessions, Receive(s)
  PROVE  RootsAreLearnt' /\ RequestsPrecede'
<1>1. PICK m \in toServer[s] :
        Handled(s, m) /\ toServer' = [toServer EXCEPT ![s] = @ \ {m}]
  BY DEF Receive
<1>2. held' = held
  BY DEF Receive
<1>3. CASE m.type = "list_changed"
  <2>1. RootsListChanged(s)
    BY <1>1, <1>3 DEF Handled
  <2> QED BY <1>1, <1>2, <2>1, RootsListChangedRoots
<1>4. CASE m.type = "initialized"
  <2>1. /\ initialized' = [initialized EXCEPT ![s] = TRUE]
        /\ UNCHANGED <<roots, requests, callbacks, toClient, untold>>
    BY <1>1, <1>4 DEF Handled, Initialized, wire
  <2>2. \A t \in Sessions : initialized[t] => initialized'[t]
    BY <2>1 DEF RootsInv, IInv, TypeOK
  <2> QED BY <1>1, <1>2, <1>4, <2>1, <2>2, UnhandledRoots
<1>5. CASE m.type \in {"result", "error"} /\ HasCallback(s, m.id)
  <2>1. RunCallback(s, m)
    BY <1>1, <1>5 DEF Handled
  <2> QED BY <1>1, <1>2, <1>5, <2>1, RunCallbackRoots
<1>6. CASE /\ m.type \notin {"list_changed", "initialized"}
           /\ ~(m.type \in {"result", "error"} /\ HasCallback(s, m.id))
  <2>1. UNCHANGED <<initialized, roots, requests, callbacks, toClient, untold>>
    BY <1>1, <1>6 DEF Handled, server, wire
  <2> QED BY <1>1, <1>2, <1>6, <2>1, UnhandledRoots
<1> QED BY <1>3, <1>4, <1>5, <1>6

(* A message that is sent and says what the client holds. *)
LEMMA ToServerRoots ==
  ASSUME RootsInv, NEW s \in Sessions, NEW m, ToServer(s, m),
         m.type \in {"result", "error"} =>
           m.id \in 1 .. Len(requests) /\ m.roots = held[s],
         UNCHANGED <<initialized, roots, requests, callbacks, held, untold>>,
         \A t \in Sessions : \A id \in OnStream(t) :
           id \in OnStream(t)' \/ s \in Library
             \/ (t = s /\ m.type \in {"result", "error"} /\ m.id = id),
         \A t \in Sessions \ {s} : OnStream(t)' = OnStream(t)
  PROVE  RootsAreLearnt' /\ RequestsPrecede'
<1>1. /\ toServer'[s] = toServer[s] \cup {m}
      /\ \A t \in Sessions \ {s} : toServer'[t] = toServer[t]
  BY DEF ToServer, RootsInv, IInv, TypeOK
<1>2. \A t : RootsRequests(t)' = RootsRequests(t)
  BY DEF RootsRequests
<1>3. ASSUME NEW t \in Sessions \ Library PROVE IsLearnt(t)'
  <2>1. IsLearnt(t)
    BY DEF RootsInv, RootsAreLearnt
  <2>2. WillBeTold(t) => WillBeTold(t)'
    BY <1>1 DEF WillBeTold
  <2>4. ASSUME NEW id
        PROVE  \A r \in RepliesTo(t, id)' : r \in RepliesTo(t, id) \/ r.roots = held[t]
    BY <1>1 DEF RepliesTo
  <2>3. ASSUME NEW id, WillAnswer(t, id) PROVE WillAnswer(t, id)'
    <3>1. CASE t # s
      BY <1>1, <2>3, <3>1 DEF WillAnswer, RepliesTo
    <3>2. CASE t = s
      <4>1. RepliesTo(s, id) \subseteq RepliesTo(s, id)'
            /\ \A r \in RepliesTo(s, id)' : r \in RepliesTo(s, id) \/ r.roots = held[s]
        BY <1>1 DEF RepliesTo
      <4>2. id \in OnStream(s) => id \in OnStream(s)' \/ RepliesTo(s, id)' # {}
        BY <1>1, <3>2 DEF RepliesTo
      <4> QED BY <2>3, <3>2, <4>1, <4>2 DEF WillAnswer
    <3> QED BY <3>1, <3>2
  <2> QED BY <1>2, <2>1, <2>2, <2>3, <2>4, StaysLearnt
<1>4. RequestsPrecede'
  BY <1>1, <1>2 DEF RootsInv, RequestsPrecede
<1> QED BY <1>3, <1>4 DEF RootsAreLearnt

LEMMA ClientRoots ==
  ASSUME RootsInv, NEW s \in Sessions, ChangeRoots(s) \/ Answer(s) \/ AnswerUnasked(s)
  PROVE  RootsAreLearnt' /\ RequestsPrecede'
<1>1. CASE ChangeRoots(s)
  <2> DEFINE m == [type |-> "list_changed", roots |-> held[s] + 1]
  <2>1. /\ held' = [held EXCEPT ![s] = @ + 1] /\ ToServer(s, m)
        /\ UNCHANGED <<initialized, roots, requests, callbacks, toClient, untold>>
    BY <1>1 DEF ChangeRoots, server, wire
  <2>2. /\ toServer'[s] = toServer[s] \cup {m} /\ held'[s] = held[s] + 1
        /\ \A t \in Sessions \ {s} : toServer'[t] = toServer[t] /\ held'[t] = held[t]
    BY <2>1 DEF ToServer, RootsInv, IInv, TypeOK
  <2>3. \A t : RootsRequests(t)' = RootsRequests(t) /\ OnStream(t)' = OnStream(t)
    BY <2>1 DEF RootsRequests, OnStream
  <2>4. ASSUME NEW t \in Sessions \ Library PROVE IsLearnt(t)'
    <3>1. CASE t = s
      BY <2>2, <3>1 DEF IsLearnt, WillBeTold
    <3>2. CASE t # s
      <4>1. /\ WillBeTold(t) => WillBeTold(t)'
            /\ \A id : /\ WillAnswer(t, id) => WillAnswer(t, id)'
                       /\ RepliesTo(t, id)' = RepliesTo(t, id)
        BY <2>2, <2>3, <3>2 DEF WillBeTold, WillAnswer, RepliesTo
      <4> QED BY <2>1, <2>2, <2>3, <3>2, <4>1, StaysLearnt DEF RootsInv, RootsAreLearnt
    <3> QED BY <3>1, <3>2
  <2>5. RequestsPrecede'
    <3>1. m.type = "list_changed"
      OBVIOUS
    <3> HIDE DEF m
    <3> QED BY <2>1, <2>2, <2>3, <3>1 DEF RootsInv, RequestsPrecede
  <2> QED BY <2>4, <2>5 DEF RootsAreLearnt
<1>2. CASE Answer(s)
  <2> DEFINE id == Head(toClient[s])
  <2>1. /\ toClient[s] # <<>> /\ toClient' = [toClient EXCEPT ![s] = Tail(@)]
        /\ UNCHANGED <<initialized, roots, requests, callbacks, held, untold>>
    BY <1>2 DEF Answer, server
  <2>2. PICK m \in Replies(s, id) : ToServer(s, m)
    BY <1>2 DEF Answer
  <2>3. toClient \in [Sessions -> Seq(1 .. Len(requests))]
    BY DEF RootsInv, IInv, TypeOK
  <2>4. /\ id \in 1 .. Len(requests)
        /\ \A other \in OnStream(s) : other = id \/ other \in OnStream(s)'
        /\ \A t \in Sessions \ {s} : OnStream(t)' = OnStream(t)
    <3>1. toClient[s] \in Seq(1 .. Len(requests)) /\ toClient'[s] = Tail(toClient[s])
      BY <2>1, <2>3
    <3>2. ASSUME NEW i \in DOMAIN toClient[s] PROVE toClient[s][i] = id \/ toClient[s][i] \in OnStream(s)'
      <4>1. CASE i = 1
        BY <2>1, <3>1, <4>1
      <4>2. CASE i # 1
        <5> DEFINE queue == toClient[s]
        <5>1. queue \in Seq(1 .. Len(requests)) /\ queue # <<>> /\ i \in DOMAIN queue
          BY <2>1, <3>1
        <5> HIDE DEF queue
        <5>2. i - 1 \in DOMAIN Tail(queue) /\ Tail(queue)[i - 1] = queue[i]
          BY <4>2, <5>1
        <5> QED BY <3>1, <5>2 DEF OnStream, queue
      <4> QED BY <4>1, <4>2
    <3>3. \A t \in Sessions \ {s} : OnStream(t)' = OnStream(t)
      BY <2>1, <2>3 DEF OnStream
    <3>4. id \in 1 .. Len(requests)
      BY <2>1, <3>1
    <3> QED BY <3>2, <3>3, <3>4 DEF OnStream
  <2>5. /\ m.id = id /\ m.roots = held[s] /\ m.type \in {"error", "result", "bare"}
        /\ s \notin Library => m.type \in {"result", "error"}
    BY <2>2 DEF Replies, Reply
  <2> HIDE DEF id
  <2> QED BY <2>1, <2>2, <2>4, <2>5, ToServerRoots
<1>3. CASE AnswerUnasked(s)
  <2>1. PICK id \in 1 .. Len(requests) : ToServer(s, Reply("result", id, s))
    BY <1>3 DEF AnswerUnasked
  <2>2. UNCHANGED <<initialized, roots, requests, callbacks, toClient, held, untold>>
    BY <1>3 DEF AnswerUnasked, server, wire
  <2>3. \A t : OnStream(t)' = OnStream(t)
    BY <2>2 DEF OnStream
  <2>4. Reply("result", id, s).id = id /\ Reply("result", id, s).roots = held[s]
    BY DEF Reply
  <2> QED BY <2>1, <2>2, <2>3, <2>4, ToServerRoots
<1> QED BY <1>1, <1>2, <1>3

LEMMA ServerRoots ==
  ASSUME RootsInv, NEW s \in Sessions, Handshake(s) \/ Ask(s) \/ AskWithoutCallback(s)
  PROVE  RootsAreLearnt' /\ RequestsPrecede'
<1>1. CASE Handshake(s)
  <2> DEFINE m == [type |-> "initialized"]
  <2>1. ToServer(s, m) /\ UNCHANGED <<initialized, roots, requests, callbacks, toClient, held, untold>>
    BY <1>1 DEF Handshake, ToServer, wire
  <2>2. \A t : OnStream(t)' = OnStream(t)
    BY <2>1 DEF OnStream
  <2>3. m.type \notin {"result", "error"}
    OBVIOUS
  <2> HIDE DEF m
  <2> QED BY <2>1, <2>2, <2>3, ToServerRoots
<1>2. CASE Ask(s)
  <2>1. PICK kind \in Asked : Send(s, kind, TRUE)
    BY <1>2 DEF Ask
  <2>2. kind \in Kinds \ {"roots/list"}
    BY RequestsAssumption DEF Kinds
  <2>3. UNCHANGED <<initialized, roots, toServer, held, untold>>
    BY <1>2 DEF Ask
  <2> QED BY <2>1, <2>2, <2>3, OtherRequestRoots
<1>3. CASE AskWithoutCallback(s)
  <2>1. /\ Send(s, "sampling/createMessage", FALSE)
        /\ "sampling/createMessage" \in Kinds \ {"roots/list"}
        /\ UNCHANGED <<initialized, roots, toServer, held, untold>>
    BY <1>3 DEF AskWithoutCallback, Kinds
  <2> QED BY <2>1, OtherRequestRoots
<1> QED BY <1>1, <1>2, <1>3

(* Requests that are lost with a stream leave the session marked. *)
LEMMA StreamRoots ==
  ASSUME RootsInv, NEW s \in Sessions, OpenStream(s) \/ EndStream(s)
  PROVE  RootsAreLearnt' /\ RequestsPrecede'
<1>1. UNCHANGED <<initialized, roots, requests, callbacks, toServer, held>>
  BY DEF OpenStream, EndStream, server
<1>2. \A t : /\ RootsRequests(t)' = RootsRequests(t)
             /\ WillBeTold(t)' <=> WillBeTold(t)
             /\ \A id : RepliesTo(t, id)' = RepliesTo(t, id)
  BY <1>1 DEF RootsRequests, WillBeTold, RepliesTo
<1>3. ASSUME NEW t \in Sessions \ Library PROVE IsLearnt(t)'
  <2>1. IsLearnt(t)
    BY DEF RootsInv, RootsAreLearnt
  <2>2. CASE untold'[t] = untold[t] /\ OnStream(t)' = OnStream(t)
    <3>1. \A id : WillAnswer(t, id) => WillAnswer(t, id)'
      BY <1>1, <1>2, <2>2 DEF WillAnswer
    <3> QED BY <1>1, <1>2, <2>1, <2>2, <3>1, StaysLearnt
  <2>3. CASE OpenStream(s)
    BY <2>2, <2>3 DEF OpenStream, OnStream
  <2>4. CASE EndStream(s) /\ t # s
    <3>1. untold'[t] = untold[t] /\ toClient'[t] = toClient[t]
      BY <2>4 DEF EndStream, RootsInv, IInv, TypeOK
    <3> QED BY <2>2, <3>1 DEF OnStream
  <2>5. CASE EndStream(s) /\ t = s
    <3> DEFINE told == \E id \in OnStream(s) \cap callbacks[s] : requests[id].kind = "roots/list"
    <3>1. untold'[s] <=> untold[s] \/ told
      <4>1. untold' = [untold EXCEPT ![s] = untold[s] \/ told]
        BY <2>5 DEF EndStream, OnStream
      <4>2. s \in DOMAIN untold
        BY DEF RootsInv, IInv, TypeOK
      <4> QED BY <4>1, <4>2
    <3>2. CASE untold'[s]
      BY <2>5, <3>2 DEF IsLearnt
    <3>3. CASE ~untold[s] /\ ~told
      <4>1. \A id \in RootsRequests(s) : id \notin OnStream(s)
        BY <3>3 DEF RootsRequests
      <4>2. \A id \in RootsRequests(s) : WillAnswer(s, id) => WillAnswer(s, id)'
        BY <1>1, <1>2, <4>1 DEF WillAnswer
      <4>3. untold'[s] <=> untold[s]
        BY <3>1, <3>3
      <4> QED BY <1>1, <1>2, <2>1, <2>5, <4>2, <4>3 DEF IsLearnt, WillLearn, Knows
    <3> QED BY <3>1, <3>2, <3>3
  <2> QED BY <2>3, <2>4, <2>5
<1>4. RequestsPrecede'
  BY <1>1, <1>2 DEF RootsInv, RequestsPrecede
<1> QED BY <1>3, <1>4 DEF RootsAreLearnt

-----------------------------------------------------------------------------
(***************************************************************************)
(* Theorems.                                                               *)
(***************************************************************************)

(* Nothing was sent at first. *)
LEMMA InitOK == Init => IInv
<1> SUFFICES ASSUME Init PROVE IInv
  OBVIOUS
<1>1. TypeOK
  BY RequestsAssumption DEF Init, TypeOK, V2026_07_28
<1> QED BY <1>1 DEF Init, IInv, CallbacksWait, CallbackRunsWithItsAnswer

(* Every step preserves the invariant. *)
LEMMA StepOK == IInv /\ [Next]_vars => IInv'
<1> SUFFICES ASSUME IInv, [Next]_vars PROVE IInv'
  OBVIOUS
<1>1. CASE UNCHANGED vars
  <2>1. Kept /\ UNCHANGED <<version, initialized, roots, stream, toClient, lost, toServer,
                           held, strays, untold>>
    BY <1>1 DEF vars, Kept
  <2> QED BY <2>1, KeptOK DEF IInv, TypeOK, Kept
<1> QED BY <1>1, ReceiveOK, ClientOK, ServerOK, StreamOK DEF Next

(* Requests, callbacks and runs belong together in every execution. *)
THEOREM Invariance == Spec => []IInv
<1> QED BY InitOK, StepOK, PTL DEF Spec

(* Every variable keeps its type; no callback waits for a request that was *)
(* never sent.                                                             *)
THEOREM TypeCorrect == Spec => []TypeOK
<1>1. IInv => TypeOK
  BY DEF IInv
<1> QED BY <1>1, Invariance, PTL

(* A callback runs at most once, with the answer of the session that was   *)
(* asked, although all sessions share one counter and clients may repeat   *)
(* answers and make them up.                                               *)
THEOREM CallbacksRunOnce == Spec => []CallbackRunsWithItsAnswer
<1>1. IInv => CallbackRunsWithItsAnswer
  BY DEF IInv
<1> QED BY <1>1, Invariance, PTL

(* The server has the roots of every client at first: none. *)
LEMMA InitRoots == Init => RootsAreLearnt /\ RequestsPrecede
<1> SUFFICES ASSUME Init PROVE RootsAreLearnt /\ RequestsPrecede
  OBVIOUS
<1>1. \A s \in Sessions : RootsRequests(s) = {} /\ toServer[s] = {} /\ roots[s] = held[s]
  BY DEF Init, RootsRequests
<1> QED BY <1>1 DEF RootsAreLearnt, RequestsPrecede, IsLearnt, Knows

LEMMA StepRoots == RootsInv /\ [Next]_vars => RootsInv'
<1> SUFFICES ASSUME RootsInv, [Next]_vars PROVE RootsInv'
  OBVIOUS
<1>1. IInv'
  BY StepOK DEF RootsInv
<1>2. CASE UNCHANGED vars
  BY <1>1, <1>2 DEF RootsInv, vars, RootsAreLearnt, RequestsPrecede, IsLearnt, WillBeTold, WillLearn,
                    Knows, WillAnswer, RootsRequests, RepliesTo, OnStream
<1> QED BY <1>1, <1>2, ReceiveRoots, ClientRoots, ServerRoots, StreamRoots DEF Next, RootsInv

(* However changes of the roots, requests and answers overtake each other: *)
(* once nothing is under way the server has the roots its client holds,    *)
(* unless it was marked for having had no chance to learn them.            *)
THEOREM RootsSettleAlways == Spec => []RootsSettle
<1>1. RootsInv => RootsSettle
  <2> SUFFICES ASSUME RootsInv, NEW s \in Sessions \ Library, ~InFlight(s), ~untold[s]
               PROVE  roots[s] = held[s]
    BY DEF RootsSettle
  <2>1. toServer[s] = {} /\ OnStream(s) = {}
    <3>1. toClient[s] = <<>> /\ toServer[s] = {}
      BY DEF InFlight
    <3> QED BY <3>1 DEF OnStream
  <2>2. ~WillBeTold(s) /\ ~WillLearn(s)
    BY <2>1 DEF WillBeTold, WillLearn, WillAnswer, RepliesTo
  <2> QED BY <2>2 DEF RootsInv, RootsAreLearnt, IsLearnt, Knows
<1>2. Init => RootsInv
  BY InitOK, InitRoots DEF RootsInv
<1> QED BY <1>1, <1>2, StepRoots, PTL DEF Spec
=============================================================================

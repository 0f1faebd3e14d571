--------------------- MODULE StreamableHttpClientProofs ---------------------
(***************************************************************************)
(* Theorems about StreamableHttpClient, for every number of clients, calls *)
(* and sessions.                                                           *)
(***************************************************************************)
EXTENDS StreamableHttpClient, TLAPS

-----------------------------------------------------------------------------
(***************************************************************************)
(* QMcpClient: the counters, the ids and the table of callbacks.           *)
(***************************************************************************)

\* Ids come from the counter of their kind.
NumberedByKind ==
  \A c \in 1 .. sent :
    /\ call[c].client \in Clients
    /\ call[c].kind \in Kinds
    /\ IsInitialize(c) => call[c].id \in Nat /\ call[c].id < nextInitializeId
    /\ call[c].kind \in Numbered => call[c].id \in Nat /\ call[c].id < nextId
    /\ call[c].kind = "message" => call[c].id = None

\* A counter numbers no two calls alike.
IdsAreDistinct ==
  \A c, d \in 1 .. sent :
    c # d /\ call[c].id = call[d].id /\ call[c].id # None
      => IsInitialize(c) # IsInitialize(d)

UnmadeIsUntouched ==
  \A c \in Calls : c > sent => call[c] = Unmade /\ completed[c] = <<>>

\* A callback in the table was not run.
CallbacksArePending ==
  \A k \in Clients : \A c \in callbacks[k] :
    /\ c <= sent
    /\ call[c].client = k
    /\ call[c].kind \in WithCallback
    /\ completed[c] = <<>>

ClientOK ==
  /\ ClientTypeOK
  /\ NumberedByKind
  /\ IdsAreDistinct
  /\ UnmadeIsUntouched
  /\ CallbacksArePending
  /\ CallbackRunsOnce
  /\ RepliesAreConfusedByHandshakesOnly

-----------------------------------------------------------------------------
(***************************************************************************)
(* The backend: its POSTs and the session of a handshake.                  *)
(***************************************************************************)

\* A POST belongs to a call, and only a reply that was read is dispatched.
PostsBelongToCalls ==
  \A c \in Calls :
    /\ post[c].status = "unsent" <=> c > sent
    /\ post[c].dispatched => post[c].status \in {"open", "done"}
    /\ post[c].status \in {"unsent", "dropped", "posted"} => post[c].issued = None

\* An application has one handshake under way per client.
OneHandshake ==
  \A c, d \in 1 .. sent :
    /\ IsInitialize(c) /\ UnderWay(c)
    /\ IsInitialize(d) /\ UnderWay(d)
    /\ call[c].client = call[d].client
    => c = d

\* From its headers to its result, the session of a handshake is the client's.
SessionOfHandshake ==
  \A c \in 1 .. sent :
    /\ IsInitialize(c) /\ UnderWay(c)
    /\ post[c].issued # None
    => Overtaken(c) \/ sessionId[call[c].client] = post[c].issued

IInv ==
  /\ TypeOK
  /\ ClientOK
  /\ PostsBelongToCalls
  /\ OneHandshake
  /\ SessionOfHandshake
  /\ CallbackIsKeptForItsReply

-----------------------------------------------------------------------------
(***************************************************************************)
(* The operators of QMcpClient preserve ClientOK.                          *)
(***************************************************************************)

\* What send() does to the calls and to the table of callbacks.
LEMMA SentCall ==
  ASSUME ClientOK, NEW k \in Clients, NEW kind \in Kinds, Send(k, kind)
  PROVE  /\ sent + 1 \in Calls /\ sent \in Nat /\ sent' = sent + 1
         /\ call' \in [Calls -> CallState]
         /\ call'[sent + 1] = [kind |-> kind, client |-> k, id |-> IdOf(kind)]
         /\ \A c \in Calls : c # sent + 1 => call'[c] = call[c]
         /\ callbacks' \in [Clients -> SUBSET Calls]
         /\ \A j \in Clients : j # k => callbacks'[j] = callbacks[j]
         /\ callbacks'[k] = IF kind \in WithCallback
                            THEN (callbacks[k] \ Waiting(k, IdOf(kind))) \cup {sent + 1}
                            ELSE callbacks[k]
         /\ completed' = completed
<1>1. /\ sent + 1 \in Calls /\ sent \in Nat /\ sent' = sent + 1
      /\ completed' = completed
  BY CallsAssumption DEF ClientOK, ClientTypeOK, Send, Calls
<1>2. IdOf(kind) \in Nat \cup {None}
  BY DEF IdOf, Numbered, ClientOK, ClientTypeOK
<1>3. /\ call' \in [Calls -> CallState]
      /\ call'[sent + 1] = [kind |-> kind, client |-> k, id |-> IdOf(kind)]
      /\ \A c \in Calls : c # sent + 1 => call'[c] = call[c]
  BY <1>1, <1>2 DEF ClientOK, ClientTypeOK, Send, CallState
<1>4. /\ callbacks' \in [Clients -> SUBSET Calls]
      /\ \A j \in Clients : j # k => callbacks'[j] = callbacks[j]
      /\ callbacks'[k] = IF kind \in WithCallback
                         THEN (callbacks[k] \ Waiting(k, IdOf(kind))) \cup {sent + 1}
                         ELSE callbacks[k]
  BY <1>1 DEF ClientOK, ClientTypeOK, Send
<1> QED BY <1>1, <1>3, <1>4

\* send() numbers the new call and displaces at most a callback of its id.
LEMMA SendOK ==
  ASSUME ClientOK, NEW k \in Clients, NEW kind \in Kinds, Send(k, kind)
  PROVE  ClientOK'
<1> USE DEF ClientOK
<1>1. /\ sent + 1 \in Calls /\ sent \in Nat /\ sent' = sent + 1
      /\ call' \in [Calls -> CallState]
      /\ call'[sent + 1] = [kind |-> kind, client |-> k, id |-> IdOf(kind)]
      /\ \A c \in Calls : c # sent + 1 => call'[c] = call[c]
      /\ completed' = completed
  BY SentCall
<1>2. /\ callbacks' \in [Clients -> SUBSET Calls]
      /\ \A j \in Clients : j # k => callbacks'[j] = callbacks[j]
      /\ callbacks'[k] = IF kind \in WithCallback
                         THEN (callbacks[k] \ Waiting(k, IdOf(kind))) \cup {sent + 1}
                         ELSE callbacks[k]
  BY SentCall
<1>3. /\ nextInitializeId' = IF kind = "initialize" THEN nextInitializeId + 1
                             ELSE nextInitializeId
      /\ nextId' = IF kind \in Numbered THEN nextId + 1 ELSE nextId
      /\ nextInitializeId \in Nat /\ nextId \in Nat
      /\ kind = "initialize" => IdOf(kind) = nextInitializeId
      /\ kind \in Numbered => IdOf(kind) = nextId
      /\ kind = "message" => IdOf(kind) = None
  BY DEF Send, ClientTypeOK, IdOf, Numbered
<1>4. ClientTypeOK'
  BY <1>1, <1>2, <1>3, CallsAssumption DEF ClientTypeOK, Calls
<1>5. \A c \in 1 .. sent' : c # sent + 1 => c \in 1 .. sent /\ c \in Calls
  BY <1>1, CallsAssumption DEF Calls
<1>6. NumberedByKind'
  <2> SUFFICES ASSUME NEW c \in 1 .. sent'
               PROVE  (/\ call[c].client \in Clients
                       /\ call[c].kind \in Kinds
                       /\ IsInitialize(c) => call[c].id \in Nat /\ call[c].id < nextInitializeId
                       /\ call[c].kind \in Numbered => call[c].id \in Nat /\ call[c].id < nextId
                       /\ call[c].kind = "message" => call[c].id = None)'
    BY DEF NumberedByKind
  <2>1. CASE c = sent + 1
    BY <2>1, <1>1, <1>3 DEF IsInitialize, Numbered
  <2>2. CASE c # sent + 1
    <3>1. c \in 1 .. sent /\ call'[c] = call[c]
      BY <2>2, <1>1, <1>5
    <3> QED BY <3>1, <1>3 DEF NumberedByKind, IsInitialize, Numbered
  <2> QED BY <2>1, <2>2
<1>7. IdsAreDistinct'
  <2> SUFFICES ASSUME NEW c \in 1 .. sent', NEW e \in 1 .. sent', c # e,
                      call'[c].id = call'[e].id, call'[c].id # None
               PROVE  IsInitialize(c)' # IsInitialize(e)'
    BY DEF IdsAreDistinct
  <2>1. ASSUME NEW x \in 1 .. sent, call'[x].id = IdOf(kind), IdOf(kind) # None
        PROVE  IsInitialize(x)' # (kind = "initialize")
    <3>1. call'[x] = call[x]
      BY <1>1, <1>5
    <3>2. /\ IsInitialize(x) => call[x].id \in Nat /\ call[x].id < nextInitializeId
          /\ call[x].kind \in Numbered => call[x].id \in Nat /\ call[x].id < nextId
          /\ call[x].kind = "message" => call[x].id = None
          /\ call[x].kind \in Kinds
      BY DEF NumberedByKind
    <3>3. kind = "initialize" \/ kind \in Numbered
      BY <1>3, <2>1 DEF Kinds, Numbered
    <3> QED BY <3>1, <3>2, <3>3, <2>1, <1>3 DEF IsInitialize, Kinds, Numbered
  <2>2. CASE c = sent + 1
    BY <2>1, <2>2, <1>1, <1>5 DEF IsInitialize
  <2>3. CASE e = sent + 1
    BY <2>1, <2>3, <1>1, <1>5 DEF IsInitialize
  <2>4. CASE c # sent + 1 /\ e # sent + 1
    BY <2>4, <1>1, <1>5 DEF IdsAreDistinct, IsInitialize
  <2> QED BY <2>2, <2>3, <2>4
<1>8. UnmadeIsUntouched'
  BY <1>1 DEF UnmadeIsUntouched, Calls
<1>9. CallbacksArePending'
  <2> SUFFICES ASSUME NEW j \in Clients, NEW c \in callbacks'[j]
               PROVE  (/\ c <= sent
                       /\ call[c].client = j
                       /\ call[c].kind \in WithCallback
                       /\ completed[c] = <<>>)'
    BY DEF CallbacksArePending
  <2>1. CASE c \in callbacks[j]
    <3>1. /\ c \in Calls /\ c <= sent /\ call[c].client = j
          /\ call[c].kind \in WithCallback /\ completed[c] = <<>>
      BY <2>1 DEF CallbacksArePending, ClientTypeOK
    <3>2. c \in Nat /\ c # sent + 1
      BY <3>1, <1>1 DEF Calls
    <3> QED BY <3>1, <3>2, <1>1
  <2>2. CASE c \notin callbacks[j]
    <3>1. j = k /\ c = sent + 1 /\ kind \in WithCallback
      BY <2>2, <1>2
    <3> QED BY <3>1, <1>1 DEF UnmadeIsUntouched
  <2> QED BY <2>1, <2>2
<1>10. CallbackRunsOnce'
  BY <1>1 DEF CallbackRunsOnce
<1>11. RepliesAreConfusedByHandshakesOnly'
  <2> SUFFICES ASSUME NEW c \in Calls, NEW e \in Calls, e \in Range(completed[c]), c # e
               PROVE  SameId(c, e)' /\ IsInitialize(c)' # IsInitialize(e)'
    BY <1>1 DEF RepliesAreConfusedByHandshakesOnly, Range
  <2>1. SameId(c, e) /\ IsInitialize(c) # IsInitialize(e)
    BY DEF RepliesAreConfusedByHandshakesOnly
  <2>2. c # sent + 1
    <3>1. completed[sent + 1] = <<>>
      BY <1>1 DEF UnmadeIsUntouched
    <3> QED BY <3>1 DEF Range
  <2>3. e # sent + 1
    <3> SUFFICES ASSUME e = sent + 1 PROVE FALSE
      OBVIOUS
    <3>1. call[e].client = None
      BY <1>1 DEF UnmadeIsUntouched, Unmade
    <3>2. call[c].client \in Clients
      <4>1. ~(c > sent)
        BY DEF UnmadeIsUntouched, Range
      <4>2. c \in 1 .. sent
        BY <4>1, <1>1 DEF Calls
      <4> QED BY <4>2 DEF NumberedByKind
    <3> QED BY <2>1, <3>1, <3>2, ClientsAssumption DEF SameId
  <2> QED BY <2>1, <2>2, <2>3, <1>1 DEF SameId, IsInitialize
<1> QED BY <1>4, <1>6, <1>7, <1>8, <1>9, <1>10, <1>11

\* A reply runs callbacks of its id only, and takes them out of the table.
LEMMA ReceiveOK ==
  ASSUME ClientOK, NEW c \in 1 .. sent, call[c].kind # "message", NEW outcome,
         Receive(c, outcome)
  PROVE  ClientOK'
<1> USE DEF ClientOK
<1> DEFINE k == call[c].client
           W == Waiting(k, call[c].id)
<1>1. /\ UNCHANGED <<nextInitializeId, nextId, sent, call>>
      /\ callbacks' = [callbacks EXCEPT ![k] = @ \ W]
      /\ completed' = [x \in Calls |-> IF x \in W /\ outcome # "interim"
                                       THEN Append(completed[x], c) ELSE completed[x]]
  BY DEF Receive
<1>2. k \in Clients /\ c \in Calls /\ c \in 1 .. sent /\ call[c].id \in Nat
  BY CallsAssumption DEF NumberedByKind, ClientTypeOK, Calls, IsInitialize, Kinds, Numbered
<1>3. /\ callbacks' \in [Clients -> SUBSET Calls]
      /\ callbacks'[k] = callbacks[k] \ W
      /\ \A j \in Clients : j # k => callbacks'[j] = callbacks[j]
  BY <1>1, <1>2 DEF ClientTypeOK
<1>4. \A x \in W : /\ x \in callbacks[k] /\ x \in Calls /\ x \in 1 .. sent
                   /\ call[x].id = call[c].id /\ call[x].client = k
                   /\ call[x].kind \in WithCallback /\ completed[x] = <<>>
  BY <1>2 DEF Waiting, CallbacksArePending, ClientTypeOK, Calls
<1>5. \A x \in Calls : completed'[x] = completed[x]
                         \/ (x \in W /\ completed'[x] = <<c>>)
  <2> SUFFICES ASSUME NEW x \in Calls
               PROVE  completed'[x] = completed[x] \/ (x \in W /\ completed'[x] = <<c>>)
    OBVIOUS
  <2>1. CASE x \in W /\ outcome # "interim"
    <3>1. completed'[x] = Append(<<>>, c)
      BY <2>1, <1>1, <1>4
    <3> QED BY <3>1, <2>1
  <2>2. CASE ~(x \in W /\ outcome # "interim")
    BY <2>2, <1>1
  <2> QED BY <2>1, <2>2
<1> HIDE DEF W
<1>6. ClientTypeOK'
  <2>1. completed' \in [Calls -> Seq(Calls)]
    <3>1. DOMAIN completed' = Calls /\ completed' = [x \in Calls |-> completed'[x]]
      BY <1>1
    <3>2. \A x \in Calls : completed[x] \in Seq(Calls)
      BY DEF ClientTypeOK
    <3>3. <<c>> \in Seq(Calls)
      BY <1>2
    <3>4. \A x \in Calls : completed'[x] \in Seq(Calls)
      BY <1>5, <3>2, <3>3
    <3> QED BY <3>1, <3>4
  <2> QED BY <2>1, <1>1, <1>3 DEF ClientTypeOK
<1>7. NumberedByKind' /\ IdsAreDistinct'
  BY <1>1 DEF NumberedByKind, IdsAreDistinct, IsInitialize
<1>8. UnmadeIsUntouched'
  <2> SUFFICES ASSUME NEW x \in Calls, x > sent PROVE call[x] = Unmade /\ completed'[x] = <<>>
    BY <1>1 DEF UnmadeIsUntouched
  <2>1. x \notin W
    BY <1>4 DEF ClientTypeOK, Calls
  <2> QED BY <2>1, <1>5 DEF UnmadeIsUntouched
<1>9. CallbacksArePending'
  <2> SUFFICES ASSUME NEW j \in Clients, NEW x \in callbacks'[j]
               PROVE  /\ x <= sent /\ call[x].client = j
                      /\ call[x].kind \in WithCallback /\ completed'[x] = <<>>
    BY <1>1 DEF CallbacksArePending
  <2>1. x \in callbacks[j] /\ x \in Calls
    BY <1>3 DEF ClientTypeOK
  <2>2. /\ x <= sent /\ call[x].client = j
        /\ call[x].kind \in WithCallback /\ completed[x] = <<>>
    BY <2>1 DEF CallbacksArePending
  <2>3. x \notin W
    BY <1>3, <1>4, <2>2
  <2> QED BY <2>1, <2>2, <2>3, <1>5
<1>10. CallbackRunsOnce'
  <2> SUFFICES ASSUME NEW x \in Calls PROVE Len(completed'[x]) <= 1
    BY DEF CallbackRunsOnce
  <2>1. Len(<<c>>) <= 1
    OBVIOUS
  <2> QED BY <2>1, <1>5 DEF CallbackRunsOnce
<1>11. RepliesAreConfusedByHandshakesOnly'
  <2> SUFFICES ASSUME NEW x \in Calls, NEW e \in Calls, e \in Range(completed'[x]), x # e
               PROVE  SameId(x, e) /\ IsInitialize(x) # IsInitialize(e)
    BY <1>1 DEF RepliesAreConfusedByHandshakesOnly, SameId, IsInitialize, Range
  <2>1. CASE completed'[x] = completed[x]
    BY <2>1 DEF RepliesAreConfusedByHandshakesOnly
  <2>2. CASE x \in W /\ completed'[x] = <<c>>
    <3>1. e = c
      BY <2>2 DEF Range
    <3>2. SameId(x, e)
      BY <3>1, <2>2, <1>4 DEF SameId
    <3>3. call[x].id # None
      BY <1>4, <2>2, <1>2, ClientsAssumption
    <3>4. IsInitialize(x) # IsInitialize(e)
      BY <3>1, <3>3, <1>4, <2>2 DEF IdsAreDistinct
    <3> QED BY <3>2, <3>4
  <2> QED BY <2>1, <2>2, <1>5
<1> QED BY <1>6, <1>7, <1>8, <1>9, <1>10, <1>11

\* The client is not part of a step that leaves its variables alone.
LEMMA ClientStutter ==
  ASSUME ClientOK, UNCHANGED clientVars
  PROVE  ClientOK'
BY DEF ClientOK, clientVars, ClientTypeOK, NumberedByKind, IdsAreDistinct, UnmadeIsUntouched,
       CallbacksArePending, CallbackRunsOnce, RepliesAreConfusedByHandshakesOnly, SameId,
       IsInitialize, Range

-----------------------------------------------------------------------------
(***************************************************************************)
(* The steps of the backend preserve IInv.                                 *)
(***************************************************************************)

\* A POST that was sent belongs to a call of a client.
LEMMA PostOfCall ==
  ASSUME IInv, NEW c \in Calls, post[c].status # "unsent"
  PROVE  c \in 1 .. sent /\ call[c].client \in Clients /\ call[c].kind \in Kinds
<1>1. c \in 1 .. sent
  BY CallsAssumption DEF IInv, PostsBelongToCalls, Calls, TypeOK, ClientTypeOK
<1> QED BY <1>1 DEF IInv, ClientOK, NumberedByKind

\* dispatch() of the reply to call c touches the callbacks of its id only.
LEMMA DispatchOK ==
  ASSUME IInv, NEW c \in Calls, post[c].status = "open", call[c].kind # "message",
         NEW outcome, NEW session \in MaybeSession, Dispatch(c, outcome, session)
  PROVE  /\ ClientOK'
         /\ UNCHANGED <<sent, call>>
         /\ negotiated' \in [Clients -> Versions \cup {None}]
         /\ serverStream' \in [Clients -> Stream]
         /\ c \notin callbacks'[call[c].client]
         /\ \A x \in Calls : ~SameId(x, c) /\ call[x].client \in Clients =>
              (x \in callbacks'[call[x].client] <=> x \in callbacks[call[x].client])
         /\ \A k \in Clients : \/ serverStream'[k] = serverStream[k]
                              \/ /\ serverStream[k].status # "running"
                                 /\ serverStream'[k].session = session
<1>1. c \in 1 .. sent /\ call[c].client \in Clients
  BY PostOfCall
<1>2. Receive(c, outcome)
  BY DEF Dispatch
<1>3. ClientOK'
  BY <1>1, <1>2, ReceiveOK DEF IInv
<1>4. /\ UNCHANGED <<sent, call>>
      /\ callbacks' = [callbacks EXCEPT ![call[c].client] =
                         @ \ Waiting(call[c].client, call[c].id)]
  BY <1>2 DEF Receive
<1>5. callbacks \in [Clients -> SUBSET Calls]
  BY DEF IInv, TypeOK, ClientTypeOK
<1>6. c \notin callbacks'[call[c].client]
  BY <1>1, <1>4, <1>5 DEF Waiting
<1>7. \A x \in Calls : ~SameId(x, c) /\ call[x].client \in Clients =>
        (x \in callbacks'[call[x].client] <=> x \in callbacks[call[x].client])
  BY <1>1, <1>4, <1>5 DEF Waiting, SameId
<1>8. /\ negotiated' \in [Clients -> Versions \cup {None}]
      /\ serverStream' \in [Clients -> Stream]
      /\ \A k \in Clients : \/ serverStream'[k] = serverStream[k]
                           \/ /\ serverStream[k].status # "running"
                              /\ serverStream'[k].session = session
  <2>1. /\ negotiated \in [Clients -> Versions \cup {None}]
        /\ serverStream \in [Clients -> Stream]
    BY DEF IInv, TypeOK
  <2>2. CASE Negotiates(c, outcome)
    <3>1. PICK version \in Versions :
            /\ negotiated' = [negotiated EXCEPT ![call[c].client] = version]
            /\ OpenServerStream(call[c].client, version, session)
      BY <2>2 DEF Dispatch
    <3> QED BY <3>1, <2>1, <1>1 DEF OpenServerStream, MayOpen, Stream
  <2>3. CASE ~Negotiates(c, outcome)
    BY <2>1, <2>3 DEF Dispatch
  <2> QED BY <2>2, <2>3
<1> QED BY <1>3, <1>4, <1>6, <1>7, <1>8

\* The backend becomes usable.
LEMMA StartIInv ==
  ASSUME IInv, NEW k \in Clients, Start(k)
  PROVE  IInv'
<1>1. UNCHANGED <<clientVars, post, sessionId, negotiated, serverStream, rejected,
                  timers, serverVars>>
      /\ started' = started \cup {k}
  BY DEF Start
<1>2. ClientOK'
  BY <1>1, ClientStutter DEF IInv
<1>3. TypeOK'
  BY <1>1, <1>2 DEF IInv, TypeOK, ClientOK, serverVars
<1> QED BY <1>1, <1>2, <1>3
        DEF IInv, clientVars, PostsBelongToCalls, OneHandshake, SessionOfHandshake, UnderWay,
            Overtaken, IsInitialize, CallbackIsKeptForItsReply, SameId

\* A new call is posted, or dropped.
LEMMA RequestIInv ==
  ASSUME IInv, NEW k \in Clients, NEW kind \in Kinds, Request(k, kind)
  PROVE  IInv'
<1> DEFINE n == sent + 1
<1>1. /\ kind = "initialize" => ~Handshaking(k)
      /\ Send(k, kind)
      /\ post' = [post EXCEPT ![n] = Posted(k)]
      /\ UNCHANGED <<started, sessionId, negotiated, serverStream, rejected, timers,
                     serverVars>>
  BY DEF Request
<1>2. ClientOK
  BY DEF IInv
<1>3. ClientOK'
  BY <1>1, <1>2, SendOK
<1>4. /\ n \in Calls /\ sent \in Nat /\ sent' = n
      /\ call' \in [Calls -> CallState]
      /\ call'[n] = [kind |-> kind, client |-> k, id |-> IdOf(kind)]
      /\ \A c \in Calls : c # n => call'[c] = call[c]
      /\ callbacks' \in [Clients -> SUBSET Calls]
      /\ \A j \in Clients : j # k => callbacks'[j] = callbacks[j]
      /\ callbacks'[k] = IF kind \in WithCallback
                         THEN (callbacks[k] \ Waiting(k, IdOf(kind))) \cup {n}
                         ELSE callbacks[k]
  BY <1>1, <1>2, SentCall
<1>5. post[n].status = "unsent"
  BY <1>4 DEF IInv, PostsBelongToCalls
<1>6. Posted(k) \in PostState
      /\ Posted(k).status \in {"posted", "dropped"}
      /\ Posted(k).issued = None /\ Posted(k).dispatched = FALSE
  BY DEF IInv, TypeOK, Posted, NoPost, PostState, MaybeSession
<1>7. /\ post' \in [Calls -> PostState]
      /\ post'[n] = Posted(k)
      /\ \A c \in Calls : c # n => post'[c] = post[c]
  BY <1>1, <1>4, <1>6 DEF IInv, TypeOK
<1>8. \A c \in 1 .. sent' : c # n => c \in 1 .. sent
  BY <1>4
<1>9. \A c \in 1 .. sent' : c \in Calls
  BY <1>4, CallsAssumption DEF Calls
<1>10. TypeOK'
  BY <1>1, <1>3, <1>7 DEF IInv, TypeOK, ClientOK, serverVars
<1>11. PostsBelongToCalls'
  BY <1>4, <1>6, <1>7 DEF IInv, PostsBelongToCalls, Calls
<1>12. OneHandshake'
  <2> SUFFICES ASSUME NEW c \in 1 .. sent', NEW e \in 1 .. sent', c # e,
                      IsInitialize(c)', UnderWay(c)', IsInitialize(e)', UnderWay(e)',
                      call'[c].client = call'[e].client
               PROVE  FALSE
    BY DEF OneHandshake
  <2>1. ASSUME NEW x \in 1 .. sent, IsInitialize(x)', UnderWay(x)', kind = "initialize",
               call'[x].client = k
        PROVE  FALSE
    <3>1. x \in Calls /\ x # n
      BY <1>4, CallsAssumption DEF Calls
    <3> QED BY <2>1, <3>1, <1>1, <1>4, <1>7 DEF Handshaking, IsInitialize, UnderWay
  <2>2. CASE c = n
    BY <2>1, <2>2, <1>4, <1>8 DEF IsInitialize
  <2>3. CASE e = n
    BY <2>1, <2>3, <1>4, <1>8 DEF IsInitialize
  <2>4. CASE c # n /\ e # n
    BY <2>4, <1>4, <1>7, <1>8, <1>9 DEF IInv, OneHandshake, IsInitialize, UnderWay
  <2> QED BY <2>2, <2>3, <2>4
<1>13. SessionOfHandshake'
  <2> SUFFICES ASSUME NEW c \in 1 .. sent', IsInitialize(c)', UnderWay(c)', post'[c].issued # None
               PROVE  Overtaken(c)' \/ sessionId'[call'[c].client] = post'[c].issued
    BY DEF SessionOfHandshake
  <2>1. c # n
    BY <1>6, <1>7
  <2>2. c \in Calls /\ c \in 1 .. sent /\ call'[c] = call[c] /\ post'[c] = post[c]
    BY <2>1, <1>4, <1>7, <1>8, <1>9
  <2>3. Overtaken(c) \/ sessionId[call[c].client] = post[c].issued
    BY <2>2 DEF IInv, SessionOfHandshake, IsInitialize, UnderWay
  <2>4. ASSUME Overtaken(c) PROVE Overtaken(c)'
    <3>1. PICK e \in Calls \ {c} : /\ call[e].client = call[c].client
                                   /\ \/ post[e].status = "gone"
                                      \/ post[e].status = "done" /\ IsInitialize(e)
      BY <2>4 DEF Overtaken
    <3>2. e # n
      BY <3>1, <1>5
    <3> QED BY <3>1, <3>2, <2>2, <1>4, <1>7 DEF Overtaken, IsInitialize
  <2> QED BY <2>2, <2>3, <2>4, <1>1
<1>14. CallbackIsKeptForItsReply'
  <2> SUFFICES ASSUME NEW c \in 1 .. sent', call'[c].kind \in WithCallback,
                      \A e \in Calls \ {c} : ~SameId(c, e)'
               PROVE  c \in callbacks'[call'[c].client] <=> ~post'[c].dispatched
    BY DEF CallbackIsKeptForItsReply
  <2>1. CASE c = n
    BY <2>1, <1>4, <1>6, <1>7
  <2>2. CASE c # n
    <3>1. c \in Calls /\ c \in 1 .. sent /\ call'[c] = call[c] /\ post'[c] = post[c]
      BY <2>2, <1>4, <1>7, <1>8, <1>9
    <3>2. call[c].client \in Clients
      BY <3>1, <1>2 DEF ClientOK, NumberedByKind
    <3>3. \A e \in Calls \ {c} : ~SameId(c, e)
      <4> SUFFICES ASSUME NEW e \in Calls, e # c, SameId(c, e) PROVE FALSE
        OBVIOUS
      <4>1. e = n
        BY <3>1, <1>4 DEF SameId
      <4>2. call[n].client = None
        BY <1>2, <1>4 DEF ClientOK, UnmadeIsUntouched, Unmade
      <4> QED BY <4>1, <4>2, <3>2, ClientsAssumption DEF SameId
    <3>4. c \in callbacks[call[c].client] <=> ~post[c].dispatched
      BY <3>1, <3>3 DEF IInv, CallbackIsKeptForItsReply
    <3>5. call[c].client = k => call[c].id # IdOf(kind)
      BY <3>1, <1>4, <2>2 DEF SameId
    <3>6. c \in callbacks'[call[c].client] <=> c \in callbacks[call[c].client]
      BY <3>2, <3>5, <2>2, <1>4 DEF Waiting
    <3> QED BY <3>1, <3>4, <3>6
  <2> QED BY <2>1, <2>2
<1> QED BY <1>3, <1>10, <1>11, <1>12, <1>13, <1>14 DEF IInv

\* What the steps of a POST have in common: none brings a handshake under way,
\* and none undoes the end of another POST.
LEMMA PostStep ==
  ASSUME IInv, NEW c \in Calls, post[c].status \in {"posted", "open"},
         post' \in [Calls -> PostState], UNCHANGED <<sent, call>>,
         \A x \in Calls : x # c => post'[x] = post[x],
         post'[c].status \in {"open", "done", "gone", "failed"},
         post'[c].dispatched => post'[c].status \in {"open", "done"},
         post[c].dispatched => post'[c].dispatched
  PROVE  /\ PostsBelongToCalls'
         /\ OneHandshake'
         /\ \A x \in Calls : UnderWay(x)' => UnderWay(x)
         /\ \A x \in Calls : Overtaken(x) => Overtaken(x)'
<1>1. PostsBelongToCalls'
  BY DEF IInv, PostsBelongToCalls
<1>2. \A x \in Calls : UnderWay(x)' => UnderWay(x)
  BY DEF UnderWay
<1>3. OneHandshake'
  <2>1. \A x \in 1 .. sent : x \in Calls
    BY CallsAssumption DEF IInv, TypeOK, ClientTypeOK, Calls
  <2> QED BY <1>2, <2>1 DEF IInv, OneHandshake, IsInitialize
<1>4. ASSUME NEW x \in Calls, Overtaken(x) PROVE Overtaken(x)'
  BY <1>4 DEF Overtaken, IsInitialize
<1> QED BY <1>1, <1>2, <1>3, <1>4

\* A step that dispatches nothing leaves the callbacks where they are.
LEMMA SameDispatches ==
  ASSUME IInv, UNCHANGED <<sent, call, callbacks>>, NEW c \in Calls,
         \A x \in Calls : x # c => post'[x] = post[x],
         post'[c].dispatched <=> post[c].dispatched
  PROVE  CallbackIsKeptForItsReply'
<1>1. \A x \in 1 .. sent : x \in Calls
  BY CallsAssumption DEF IInv, TypeOK, ClientTypeOK, Calls
<1>2. \A x \in 1 .. sent : post'[x].dispatched <=> post[x].dispatched
  BY <1>1
<1> QED BY <1>2 DEF IInv, CallbackIsKeptForItsReply, SameId

\* The headers of a response store the session of a handshake.
LEMMA HeadersIInv ==
  ASSUME IInv, NEW c \in Calls, Headers(c)
  PROVE  IInv'
<1> DEFINE k == call[c].client
<1>1. /\ post[c].status = "posted"
      /\ UNCHANGED <<clientVars, started, negotiated, serverStream, rejected, timers>>
  BY DEF Headers
<1>2. UNCHANGED <<sent, call, callbacks>>
  BY <1>1 DEF clientVars
<1>3. c \in 1 .. sent /\ k \in Clients /\ post[c].issued = None /\ ~post[c].dispatched
  BY <1>1, PostOfCall DEF IInv, PostsBelongToCalls
<1>4. /\ post \in [Calls -> PostState] /\ sessionId \in [Clients -> MaybeSession]
      /\ issued \in 0 .. MaxSessions /\ live \subseteq 1 .. issued
  BY DEF IInv, TypeOK
<1>5. ClientOK'
  BY <1>1, ClientStutter DEF IInv
<1>6. /\ post' \in [Calls -> PostState]
      /\ \A x \in Calls : x # c => post'[x] = post[x]
      /\ post'[c].status = "open" /\ ~post'[c].dispatched
      /\ sessionId' \in [Clients -> MaybeSession]
      /\ issued' \in 0 .. MaxSessions /\ live' \subseteq 1 .. issued'
      /\ post'[c].issued # None => IsInitialize(c) /\ sessionId'[k] = post'[c].issued
      /\ \A j \in Clients : sessionId'[j] = sessionId[j] \/ (IsInitialize(c) /\ j = k)
  <2>1. CASE /\ post' = [post EXCEPT ![c].status = "open"]
             /\ UNCHANGED <<sessionId, serverVars>>
    BY <2>1, <1>3, <1>4 DEF PostState, serverVars
  <2>2. CASE /\ call[c].kind = "initialize"
             /\ issued < MaxSessions
             /\ issued' = issued + 1
             /\ live' = live \cup {issued + 1}
             /\ post' = [post EXCEPT ![c].status = "open", ![c].issued = issued + 1]
             /\ sessionId' = [sessionId EXCEPT ![k] = Stored(k, issued + 1)]
    <3>1. /\ issued + 1 \in Sessions /\ issued + 1 \in MaybeSession /\ issued + 1 # None
          /\ issued' \in 0 .. MaxSessions /\ live' \subseteq 1 .. issued'
      BY <2>2, <1>4, HttpClientAssumption, ClientsAssumption DEF Sessions, MaybeSession
    <3>2. Stored(k, issued + 1) = issued + 1
      BY <3>1 DEF Stored
    <3> QED BY <2>2, <3>1, <3>2, <1>3, <1>4 DEF PostState, IsInitialize
  <2> QED BY <2>1, <2>2 DEF Headers
<1>7. /\ PostsBelongToCalls' /\ OneHandshake'
      /\ \A x \in Calls : UnderWay(x)' => UnderWay(x)
      /\ \A x \in Calls : Overtaken(x) => Overtaken(x)'
  BY <1>1, <1>2, <1>3, <1>6, PostStep
<1>8. TypeOK'
  BY <1>1, <1>5, <1>6 DEF IInv, TypeOK, ClientOK
<1>9. SessionOfHandshake'
  <2> SUFFICES ASSUME NEW x \in 1 .. sent, IsInitialize(x), UnderWay(x)', post'[x].issued # None
               PROVE  Overtaken(x)' \/ sessionId'[call[x].client] = post'[x].issued
    BY <1>2 DEF SessionOfHandshake, IsInitialize
  <2>1. x \in Calls /\ call[x].client \in Clients
    BY CallsAssumption DEF IInv, TypeOK, ClientTypeOK, Calls, ClientOK, NumberedByKind
  <2>2. CASE x = c
    BY <2>2, <1>6
  <2>3. CASE x # c
    <3>1. UnderWay(x) /\ post'[x] = post[x]
      BY <2>1, <2>3, <1>6, <1>7
    <3>2. UnderWay(c)
      BY <1>1, <1>3 DEF UnderWay
    <3>3. sessionId'[call[x].client] = sessionId[call[x].client]
      BY <2>1, <2>3, <3>1, <3>2, <1>3, <1>6 DEF IInv, OneHandshake
    <3> QED BY <3>1, <3>3, <2>1, <1>7 DEF IInv, SessionOfHandshake
  <2> QED BY <2>2, <2>3
<1>10. CallbackIsKeptForItsReply'
  BY <1>2, <1>3, <1>6, SameDispatches
<1> QED BY <1>5, <1>7, <1>8, <1>9, <1>10 DEF IInv

\* A callback is gone once the reply to its request is dispatched, and only then.
LEMMA DispatchKeepsCallbacks ==
  ASSUME IInv, NEW c \in Calls, post[c].status = "open", call[c].kind # "message",
         NEW outcome, NEW session \in MaybeSession, Dispatch(c, outcome, session),
         \A x \in Calls : x # c => post'[x] = post[x],
         post'[c].dispatched
  PROVE  CallbackIsKeptForItsReply'
<1>1. /\ UNCHANGED <<sent, call>>
      /\ c \notin callbacks'[call[c].client]
      /\ \A x \in Calls : ~SameId(x, c) /\ call[x].client \in Clients =>
           (x \in callbacks'[call[x].client] <=> x \in callbacks[call[x].client])
  BY DispatchOK
<1> SUFFICES ASSUME NEW x \in 1 .. sent, call[x].kind \in WithCallback,
                    \A e \in Calls \ {x} : ~SameId(x, e)
             PROVE  x \in callbacks'[call[x].client] <=> ~post'[x].dispatched
  BY <1>1 DEF CallbackIsKeptForItsReply, SameId
<1>2. x \in Calls /\ call[x].client \in Clients
  BY CallsAssumption DEF IInv, TypeOK, ClientTypeOK, Calls, ClientOK, NumberedByKind
<1>3. CASE x = c
  BY <1>3, <1>1
<1>4. CASE x # c
  <2>1. ~SameId(x, c)
    BY <1>4
  <2>2. x \in callbacks[call[x].client] <=> ~post[x].dispatched
    BY DEF IInv, CallbackIsKeptForItsReply
  <2> QED BY <2>1, <2>2, <1>1, <1>2, <1>4
<1> QED BY <1>3, <1>4

\* An event of the response stream holds the reply.
LEMMA EventIInv ==
  ASSUME IInv, NEW c \in Calls, Event(c)
  PROVE  IInv'
<1> DEFINE k == call[c].client
<1>1. /\ post[c].status = "open" /\ call[c].kind # "message" /\ ~post[c].dispatched
      /\ post' = [post EXCEPT ![c].dispatched = TRUE]
      /\ UNCHANGED <<started, sessionId, rejected, timers, serverVars>>
  BY DEF Event
<1>2. PICK outcome \in Outcomes(c) : Dispatch(c, outcome, sessionId[k])
  BY DEF Event
<1>3. k \in Clients /\ sessionId[k] \in MaybeSession
  BY <1>1, PostOfCall DEF IInv, TypeOK
<1>4. /\ ClientOK' /\ UNCHANGED <<sent, call>>
      /\ negotiated' \in [Clients -> Versions \cup {None}]
      /\ serverStream' \in [Clients -> Stream]
  BY <1>1, <1>2, <1>3, DispatchOK
<1>5. /\ post' \in [Calls -> PostState]
      /\ \A x \in Calls : x # c => post'[x] = post[x]
      /\ post'[c].status = "open" /\ post'[c].dispatched
  BY <1>1 DEF IInv, TypeOK, PostState
<1>6. /\ PostsBelongToCalls' /\ OneHandshake'
      /\ \A x \in Calls : UnderWay(x)' => UnderWay(x)
      /\ \A x \in Calls : Overtaken(x) => Overtaken(x)'
  BY <1>1, <1>4, <1>5, PostStep
<1>7. TypeOK'
  BY <1>1, <1>4, <1>5 DEF IInv, TypeOK, ClientOK, serverVars
<1>8. SessionOfHandshake'
  <2> SUFFICES ASSUME NEW x \in 1 .. sent, IsInitialize(x), UnderWay(x)', post'[x].issued # None
               PROVE  Overtaken(x)' \/ sessionId[call[x].client] = post'[x].issued
    BY <1>1, <1>4 DEF SessionOfHandshake, IsInitialize
  <2>1. x \in Calls
    BY CallsAssumption DEF IInv, TypeOK, ClientTypeOK, Calls
  <2>2. x # c
    BY <1>5 DEF UnderWay
  <2> QED BY <2>1, <2>2, <1>5, <1>6 DEF IInv, SessionOfHandshake
<1>9. CallbackIsKeptForItsReply'
  BY <1>1, <1>2, <1>3, <1>5, DispatchKeepsCallbacks
<1> QED BY <1>4, <1>6, <1>7, <1>8, <1>9 DEF IInv

\* The end of a response: a handshake stores its session again, and the POST of
\* an older one takes the session of a newer one away.
LEMMA FinishedIInv ==
  ASSUME IInv, NEW c \in Calls, Finished(c)
  PROVE  IInv'
<1> DEFINE k == call[c].client
           session == IF call[c].kind = "initialize"
                      THEN Stored(k, post[c].issued) ELSE sessionId[k]
<1>1. /\ post[c].status = "open"
      /\ sessionId' = [sessionId EXCEPT ![k] = session]
      /\ UNCHANGED <<started, rejected, timers, serverVars>>
  BY DEF Finished
<1>2. /\ post \in [Calls -> PostState] /\ sessionId \in [Clients -> MaybeSession]
      /\ k \in Clients
  BY <1>1, PostOfCall DEF IInv, TypeOK
<1>3. /\ session \in MaybeSession
      /\ sessionId' \in [Clients -> MaybeSession]
      /\ \A j \in Clients : sessionId'[j] = sessionId[j] \/ (IsInitialize(c) /\ j = k)
  BY <1>1, <1>2 DEF Stored, PostState, IsInitialize
<1> HIDE DEF session
<1>4. /\ ClientOK' /\ UNCHANGED <<sent, call>>
      /\ negotiated' \in [Clients -> Versions \cup {None}]
      /\ serverStream' \in [Clients -> Stream]
      /\ post' \in [Calls -> PostState]
      /\ \A x \in Calls : x # c => post'[x] = post[x]
      /\ post'[c].status = "done"
      /\ post[c].dispatched => post'[c].dispatched
      /\ CallbackIsKeptForItsReply'
  <2>1. CASE /\ post' = [post EXCEPT ![c].status = "done"]
             /\ UNCHANGED <<clientVars, negotiated, serverStream>>
    <3>1. ClientOK'
      BY <2>1, ClientStutter DEF IInv
    <3>2. /\ post' \in [Calls -> PostState]
          /\ \A x \in Calls : x # c => post'[x] = post[x]
          /\ post'[c].status = "done" /\ post'[c].dispatched = post[c].dispatched
      BY <2>1, <1>2 DEF PostState
    <3>3. CallbackIsKeptForItsReply'
      BY <2>1, <3>2, SameDispatches DEF clientVars
    <3> QED BY <2>1, <3>1, <3>2, <3>3 DEF clientVars, IInv, TypeOK
  <2>2. CASE /\ call[c].kind # "message"
             /\ post' = [post EXCEPT ![c].status = "done", ![c].dispatched = TRUE]
             /\ \E outcome \in Outcomes(c) : Dispatch(c, outcome, session)
    <3>1. PICK outcome \in Outcomes(c) : Dispatch(c, outcome, session)
      BY <2>2
    <3>2. /\ post' \in [Calls -> PostState]
          /\ \A x \in Calls : x # c => post'[x] = post[x]
          /\ post'[c].status = "done" /\ post'[c].dispatched
      BY <2>2, <1>2 DEF PostState
    <3>3. CallbackIsKeptForItsReply'
      BY <1>1, <1>3, <2>2, <3>1, <3>2, DispatchKeepsCallbacks
    <3>4. /\ ClientOK' /\ UNCHANGED <<sent, call>>
          /\ negotiated' \in [Clients -> Versions \cup {None}]
          /\ serverStream' \in [Clients -> Stream]
      BY <1>1, <1>3, <2>2, <3>1, DispatchOK
    <3> QED BY <3>2, <3>3, <3>4
  <2> QED BY <2>1, <2>2 DEF Finished, session
<1>5. /\ PostsBelongToCalls' /\ OneHandshake'
      /\ \A x \in Calls : UnderWay(x)' => UnderWay(x)
      /\ \A x \in Calls : Overtaken(x) => Overtaken(x)'
  BY <1>1, <1>4, PostStep
<1>6. TypeOK'
  BY <1>1, <1>3, <1>4 DEF IInv, TypeOK, ClientOK, serverVars
<1>7. SessionOfHandshake'
  <2> SUFFICES ASSUME NEW x \in 1 .. sent, IsInitialize(x), UnderWay(x)', post'[x].issued # None
               PROVE  Overtaken(x)' \/ sessionId'[call[x].client] = post'[x].issued
    BY <1>4 DEF SessionOfHandshake, IsInitialize
  <2>1. x \in Calls /\ call[x].client \in Clients
    BY CallsAssumption DEF IInv, TypeOK, ClientTypeOK, Calls, ClientOK, NumberedByKind
  <2>2. x # c
    BY <1>4 DEF UnderWay
  <2>3. CASE IsInitialize(c) /\ call[x].client = k
    BY <2>1, <2>2, <2>3, <1>4 DEF Overtaken, IsInitialize
  <2>4. CASE ~(IsInitialize(c) /\ call[x].client = k)
    <3>1. sessionId'[call[x].client] = sessionId[call[x].client]
      BY <2>1, <2>4, <1>3
    <3> QED BY <2>1, <2>2, <3>1, <1>4, <1>5 DEF IInv, SessionOfHandshake
  <2> QED BY <2>3, <2>4
<1> QED BY <1>4, <1>5, <1>6, <1>7 DEF IInv

\* A POST that ends with an error: the session of its client may be forgotten.
LEMMA ErrorIInv ==
  ASSUME IInv, NEW c \in Calls, SessionExpired(c) \/ Failed(c)
  PROVE  IInv'
<1> DEFINE k == call[c].client
<1>1. /\ post[c].status = "posted"
      /\ UNCHANGED <<clientVars, started, negotiated, serverStream, rejected, timers, serverVars>>
  BY DEF SessionExpired, Failed
<1>2. UNCHANGED <<sent, call, callbacks>>
  BY <1>1 DEF clientVars
<1>3. k \in Clients /\ ~post[c].dispatched
  BY <1>1, PostOfCall DEF IInv, PostsBelongToCalls
<1>4. ClientOK'
  BY <1>1, ClientStutter DEF IInv
<1>5. /\ post' \in [Calls -> PostState]
      /\ \A x \in Calls : x # c => post'[x] = post[x]
      /\ post'[c].status \in {"gone", "failed"} /\ ~post'[c].dispatched
      /\ sessionId' \in [Clients -> MaybeSession]
      /\ \A j \in Clients : sessionId'[j] = sessionId[j] \/ (post'[c].status = "gone" /\ j = k)
  <2>1. post \in [Calls -> PostState] /\ sessionId \in [Clients -> MaybeSession]
    BY DEF IInv, TypeOK
  <2>2. CASE SessionExpired(c)
    <3>1. [post[c] EXCEPT !.status = "gone"] \in PostState
      BY <2>1 DEF PostState
    <3> QED BY <1>3, <2>1, <2>2, <3>1 DEF SessionExpired, PostState, MaybeSession
  <2>3. CASE Failed(c)
    <3>1. [post[c] EXCEPT !.status = "failed"] \in PostState
      BY <2>1 DEF PostState
    <3> QED BY <1>3, <2>1, <2>3, <3>1 DEF Failed, PostState
  <2> QED BY <2>2, <2>3
<1>6. /\ PostsBelongToCalls' /\ OneHandshake'
      /\ \A x \in Calls : UnderWay(x)' => UnderWay(x)
      /\ \A x \in Calls : Overtaken(x) => Overtaken(x)'
  BY <1>1, <1>2, <1>3, <1>5, PostStep
<1>7. TypeOK'
  BY <1>1, <1>4, <1>5 DEF IInv, TypeOK, ClientOK, serverVars
<1>8. SessionOfHandshake'
  <2> SUFFICES ASSUME NEW x \in 1 .. sent, IsInitialize(x), UnderWay(x)', post'[x].issued # None
               PROVE  Overtaken(x)' \/ sessionId'[call[x].client] = post'[x].issued
    BY <1>2 DEF SessionOfHandshake, IsInitialize
  <2>1. x \in Calls /\ call[x].client \in Clients
    BY CallsAssumption DEF IInv, TypeOK, ClientTypeOK, Calls, ClientOK, NumberedByKind
  <2>2. x # c
    BY <1>5 DEF UnderWay
  <2>3. CASE post'[c].status = "gone" /\ call[x].client = k
    BY <2>1, <2>2, <2>3, <1>2 DEF Overtaken
  <2>4. CASE ~(post'[c].status = "gone" /\ call[x].client = k)
    <3>1. sessionId'[call[x].client] = sessionId[call[x].client]
      BY <2>1, <2>4, <1>5
    <3> QED BY <2>1, <2>2, <3>1, <1>5, <1>6 DEF IInv, SessionOfHandshake
  <2> QED BY <2>3, <2>4
<1>9. CallbackIsKeptForItsReply'
  BY <1>2, <1>3, <1>5, SameDispatches
<1> QED BY <1>4, <1>6, <1>7, <1>8, <1>9 DEF IInv

\* The GET stream, its timer and the end of a session touch no call.
LEMMA StreamIInv ==
  ASSUME IInv,
         \/ \E k \in Clients : StreamFinishes(k) \/ TimerFires(k)
         \/ \E s \in Sessions : SessionEnds(s)
  PROVE  IInv'
<1>1. UNCHANGED <<clientVars, started, post, sessionId, negotiated, issued>>
  BY DEF StreamFinishes, TimerFires, SessionEnds, serverVars, httpVars
<1>2. ClientOK'
  BY <1>1, ClientStutter DEF IInv
<1> DEFINE Typed == /\ serverStream' \in [Clients -> Stream]
                    /\ rejected' \in [Clients -> BOOLEAN]
                    /\ timers' \in [Clients -> Nat]
                    /\ live' \subseteq 1 .. issued'
<1>3. Typed
  <2>1. /\ serverStream \in [Clients -> Stream]
        /\ rejected \in [Clients -> BOOLEAN]
        /\ timers \in [Clients -> Nat]
        /\ sessionId \in [Clients -> MaybeSession]
        /\ live \subseteq 1 .. issued
    BY DEF IInv, TypeOK
  <2>2. ASSUME NEW k \in Clients, StreamFinishes(k) PROVE Typed
    <3>1. serverStream' \in [Clients -> Stream]
      BY <2>1, <2>2 DEF StreamFinishes, Stream
    <3>2. rejected' \in [Clients -> BOOLEAN] /\ timers' \in [Clients -> Nat]
      <4>1. CASE rejected' = [rejected EXCEPT ![k] = TRUE] /\ UNCHANGED timers
        BY <2>1, <4>1, Zenon
      <4>2. CASE timers' = [timers EXCEPT ![k] = @ + 1] /\ UNCHANGED rejected
        BY <2>1, <4>2
      <4> QED BY <2>2, <4>1, <4>2 DEF StreamFinishes
    <3> QED BY <2>1, <2>2, <3>1, <3>2 DEF StreamFinishes, serverVars
  <2>3. ASSUME NEW k \in Clients, TimerFires(k) PROVE Typed
    BY <2>1, <2>3 DEF TimerFires, OpenServerStream, Stream, serverVars
  <2>4. ASSUME NEW s \in Sessions, SessionEnds(s) PROVE Typed
    BY <2>1, <2>4 DEF SessionEnds, httpVars
  <2> QED BY <2>2, <2>3, <2>4
<1>4. TypeOK'
  BY <1>1, <1>2, <1>3 DEF IInv, TypeOK, ClientOK
<1> QED BY <1>1, <1>2, <1>4
        DEF IInv, clientVars, PostsBelongToCalls, OneHandshake, SessionOfHandshake, UnderWay,
            Overtaken, IsInitialize, CallbackIsKeptForItsReply, SameId

\* The invariant holds before a client is started.
LEMMA InitIInv == Init => IInv
<1> SUFFICES ASSUME Init PROVE IInv
  OBVIOUS
<1>1. ClientTypeOK
  <2>1. <<>> \in Seq(Calls)
    OBVIOUS
  <2> QED BY <2>1, CallsAssumption DEF Init, ClientInit, ClientTypeOK, CallState, Unmade
<1>2. TypeOK
  BY <1>1, HttpClientAssumption
     DEF Init, TypeOK, NoPost, PostState, Stream, MaybeSession
<1>3. ClientOK
  BY <1>1 DEF Init, ClientInit, ClientOK, NumberedByKind, IdsAreDistinct, UnmadeIsUntouched,
              CallbacksArePending, CallbackRunsOnce, RepliesAreConfusedByHandshakesOnly, Range
<1>4. PostsBelongToCalls
  BY DEF Init, ClientInit, PostsBelongToCalls, NoPost, Calls
<1>5. OneHandshake /\ SessionOfHandshake /\ CallbackIsKeptForItsReply
  BY DEF Init, ClientInit, OneHandshake, SessionOfHandshake, CallbackIsKeptForItsReply
<1> QED BY <1>2, <1>3, <1>4, <1>5 DEF IInv

\* Every step preserves the invariant.
LEMMA NextIInv == IInv /\ [Next]_vars => IInv'
<1> SUFFICES ASSUME IInv, [Next]_vars PROVE IInv'
  OBVIOUS
<1>1. ASSUME UNCHANGED vars PROVE IInv'
  <2>1. ClientOK'
    BY <1>1, ClientStutter DEF IInv, vars
  <2>2. UNCHANGED <<clientVars, httpVars, serverVars>>
    BY <1>1 DEF vars
  <2>3. TypeOK'
    BY <2>1, <2>2 DEF IInv, TypeOK, ClientOK, httpVars, serverVars
  <2> QED BY <2>1, <2>2, <2>3
          DEF IInv, clientVars, httpVars, PostsBelongToCalls, OneHandshake, SessionOfHandshake,
              UnderWay, Overtaken, IsInitialize, CallbackIsKeptForItsReply, SameId
<1>2. ASSUME Application PROVE IInv'
  BY <1>2, StartIInv, RequestIInv DEF Application
<1>3. ASSUME Network PROVE IInv'
  BY <1>3, HeadersIInv, EventIInv, FinishedIInv, ErrorIInv, StreamIInv DEF Network
<1>4. ASSUME NEW k \in Clients, TimerFires(k) PROVE IInv'
  BY <1>4, StreamIInv
<1> QED BY <1>1, <1>2, <1>3, <1>4 DEF Next

\* The inductive invariant: counters, callbacks, POSTs and the session of a
\* handshake hold together whatever the order of replies and errors.
THEOREM Invariance == Spec => []IInv
BY InitIInv, NextIInv, PTL DEF Spec

-----------------------------------------------------------------------------
(***************************************************************************)
(* What a single step does to the GET streams.                             *)
(***************************************************************************)

\* Only the dispatch of a reply, the timer, and the end of a stream touch it.
LEMMA StreamStep ==
  ASSUME IInv, [Next]_vars
  PROVE  \/ UNCHANGED serverStream
         \/ \E k \in Clients : StreamFinishes(k) \/ TimerFires(k)
         \/ \E c \in Calls : Event(c) \/ Finished(c)
BY DEF Next, Application, Network, Start, Request, Headers, SessionExpired, Failed, SessionEnds,
       vars, httpVars

\* The session a reply is dispatched with, if it is the reply to a call that was
\* not answered yet.
LEMMA DispatchStep ==
  ASSUME IInv, NEW c \in Calls, Event(c) \/ Finished(c)
  PROVE  \/ UNCHANGED serverStream
         \/ /\ post[c].status = "open" /\ call[c].kind # "message" /\ ~post[c].dispatched
            /\ \E outcome \in Outcomes(c), session \in MaybeSession :
                 /\ Dispatch(c, outcome, session)
                 /\ \/ session = sessionId[call[c].client]
                    \/ IsInitialize(c) /\ post[c].issued # None /\ session = post[c].issued
<1> DEFINE k == call[c].client
<1>1. post[c].status = "open"
  BY DEF Event, Finished
<1>2. k \in Clients /\ sessionId[k] \in MaybeSession /\ post[c].issued \in MaybeSession
  BY <1>1, PostOfCall DEF IInv, TypeOK, PostState
<1>3. CASE Event(c)
  BY <1>1, <1>2, <1>3 DEF Event
<1>4. CASE Finished(c)
  BY <1>1, <1>2, <1>4 DEF Finished, Stored, IsInitialize
<1> QED BY <1>3, <1>4

\* No step replaces a running stream.
LEMMA KeepsStreams ==
  ASSUME IInv, [Next]_vars, NEW k \in Clients
  PROVE  KeepsItsStream(k)
<1>1. CASE UNCHANGED serverStream
  BY <1>1 DEF KeepsItsStream
<1>2. ASSUME NEW j \in Clients, StreamFinishes(j) PROVE KeepsItsStream(k)
  BY <1>2 DEF KeepsItsStream, StreamFinishes, IInv, TypeOK, Stream
<1>3. ASSUME NEW j \in Clients, TimerFires(j) PROVE KeepsItsStream(k)
  BY <1>3 DEF KeepsItsStream, TimerFires, OpenServerStream, MayOpen, IInv, TypeOK, Stream
<1>4. ASSUME NEW c \in Calls, Event(c) \/ Finished(c) PROVE KeepsItsStream(k)
  BY <1>4, DispatchStep, DispatchOK DEF KeepsItsStream
<1> QED BY <1>1, <1>2, <1>3, <1>4, StreamStep

\* A reply opens a stream only on the session of its handshake.
LEMMA OpensStreams ==
  ASSUME IInv, [Next]_vars, NEW c \in Calls
  PROVE  OpensOnItsSession(c)
<1> DEFINE k == call[c].client
<1> SUFFICES ASSUME ~post[c].dispatched, post'[c].dispatched, post[c].issued # None,
                    serverStream'[k] # serverStream[k]
             PROVE  Overtaken(c) \/ serverStream'[k].session = post[c].issued
  BY DEF OpensOnItsSession
<1>1. post[c].status # "unsent"
  BY DEF IInv, PostsBelongToCalls
<1>2. c \in 1 .. sent /\ k \in Clients
  BY <1>1, PostOfCall
<1>3. Event(c) \/ Finished(c)
  <2>1. ASSUME NEW e \in Calls, e # c, Event(e) \/ Finished(e) PROVE FALSE
    BY <2>1 DEF Event, Finished, IInv, TypeOK
  <2>2. ASSUME NEW j \in Clients, StreamFinishes(j) \/ TimerFires(j) PROVE FALSE
    BY <2>2 DEF StreamFinishes, TimerFires
  <2> QED BY <2>1, <2>2, StreamStep
<1>4. /\ post[c].status = "open" /\ call[c].kind # "message"
      /\ \E outcome \in Outcomes(c), session \in MaybeSession :
           /\ Dispatch(c, outcome, session)
           /\ \/ session = sessionId[k]
              \/ IsInitialize(c) /\ post[c].issued # None /\ session = post[c].issued
  BY <1>3, DispatchStep
<1>5. PICK outcome \in Outcomes(c), session \in MaybeSession :
        /\ Dispatch(c, outcome, session)
        /\ \/ session = sessionId[k]
           \/ IsInitialize(c) /\ post[c].issued # None /\ session = post[c].issued
  BY <1>4
<1>6. IsInitialize(c)
  BY <1>5 DEF Dispatch, Negotiates, IsInitialize
<1>7. serverStream'[k].session = session
  BY <1>2, <1>4, <1>5, DispatchOK
<1>8. CASE session = sessionId[k]
  <2>1. UnderWay(c)
    BY <1>4 DEF UnderWay
  <2> QED BY <2>1, <1>2, <1>6, <1>7, <1>8 DEF IInv, SessionOfHandshake
<1>9. CASE session = post[c].issued
  BY <1>7, <1>9
<1> QED BY <1>5, <1>8, <1>9

-----------------------------------------------------------------------------
(***************************************************************************)
(* Theorems                                                                *)
(***************************************************************************)

\* Type correctness: among others, no timer fires that was not started.
THEOREM TypeCorrect == Spec => []TypeOK
<1>1. IInv => TypeOK
  BY DEF IInv
<1> QED BY <1>1, Invariance, PTL

\* However replies, errors and ids meet, a callback runs at most once.
THEOREM CallbacksRunOnce == Spec => []CallbackRunsOnce
<1>1. IInv => CallbackRunsOnce
  BY DEF IInv, ClientOK
<1> QED BY <1>1, Invariance, PTL

\* For any number of clients that share the counters, a reply runs the callback
\* of another call only if exactly one of the two is a handshake.
THEOREM RepliesAreRarelyConfused == Spec => []RepliesAreConfusedByHandshakesOnly
<1>1. IInv => RepliesAreConfusedByHandshakesOnly
  BY DEF IInv, ClientOK
<1> QED BY <1>1, Invariance, PTL

\* A callback with an id of its own is there exactly until its reply comes.
THEOREM CallbacksAreKept == Spec => []CallbackIsKeptForItsReply
<1>1. IInv => CallbackIsKeptForItsReply
  BY DEF IInv
<1> QED BY <1>1, Invariance, PTL

\* A handshake opens the GET stream on its own session, unless another POST
\* took the session away.
THEOREM SessionsAreKnown == Spec => SessionKnownWhenNegotiated
<1>1. IInv /\ [Next]_vars => \A c \in Calls : OpensOnItsSession(c)
  BY OpensStreams
<1> QED BY <1>1, Invariance, PTL DEF Spec, SessionKnownWhenNegotiated

\* A running GET stream is not replaced.
THEOREM StreamsAreKept == Spec => RunningStreamIsKept
<1>1. IInv /\ [Next]_vars => \A k \in Clients : KeepsItsStream(k)
  BY KeepsStreams
<1> QED BY <1>1, Invariance, PTL DEF Spec, RunningStreamIsKept
=============================================================================

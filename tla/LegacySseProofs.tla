---------------------------- MODULE LegacySseProofs ----------------------------
(***************************************************************************)
(* Theorems about LegacySse, for every number of clients, sessions and     *)
(* requests, and however the clients are spread over processes.            *)
(***************************************************************************)
EXTENDS LegacySse, TLAPS

-----------------------------------------------------------------------------
(***************************************************************************)
(* The inductive invariant.                                                *)
(***************************************************************************)

Endpoint(s) == [event |-> "endpoint", of |-> s]
Message(r) == [event |-> "message", of |-> r]

Events == [event : {"endpoint"}, of : Sessions] \cup [event : {"message"}, of : Requests]

Queued(c) == {wire[c][i] : i \in 1 .. Len(wire[c])}

\* The events client c may still hear, or a part of them.
Said(c) == Queued(c) \cup data[process[c]]

\* The types TypeOK leaves to the initial state.
Types ==
  /\ process \in Layouts
  /\ eventStream \in [Clients -> Sessions \cup {None, "opening"}]
  /\ wire \in [Clients -> Seq(Events)]
  /\ data \in [Processes -> SUBSET Events]
  /\ message \in [Clients -> Sessions \cup {None}]
  /\ sender \in [Requests -> Clients \cup {None}]
  /\ heard \in [Clients -> SUBSET Requests]

\* What is said was given out before, and is said where it was asked for.
SaidOK ==
  \A c \in Clients :
    /\ \A s \in Sessions : Endpoint(s) \in Said(c) => s \in sessions
    /\ \A r \in Requests : Message(r) \in Said(c) => sender[r] \in Neighbours(c)
    /\ \A r \in heard[c] : sender[r] \in Neighbours(c)

\* Client c has, may be told of, or asked something on session s.
Uses(c, s) ==
  \/ eventStream[c] = s
  \/ message[c] = s
  \/ Endpoint(s) \in Said(c)
  \/ \E asked \in posts \cup core : asked.session = s /\ sender[asked.request] = c

\* A session is used by the clients of one process.
Owned == \A c, f \in Clients, s \in Sessions : Uses(c, s) /\ Uses(f, s) => process[c] = process[f]

\* No two clients have the same stream.
StreamsDiffer ==
  \A c, f \in Clients : c # f /\ eventStream[c] \in Sessions => eventStream[c] # eventStream[f]

\* A request on its way, or received, was sent by a client.
Asked == \A asked \in posts \cup core : sender[asked.request] \in Clients

IInv == TypeOK /\ Types /\ SaidOK /\ Asked /\ Owned /\ StreamsDiffer

\* Every client has a process.
LEMMA HasProcess ==
  ASSUME Types, NEW c \in Clients
  PROVE  process[c] \in Processes
BY DEF Types, Processes

\* A fresh session is used by nobody.
LEMMA FreshIsUnused ==
  ASSUME IInv, NEW c \in Clients, NEW s \in Sessions \ sessions
  PROVE  ~Uses(c, s)
BY LegacyAssumption DEF IInv, TypeOK, SaidOK, Uses

\* A step that gives a session to no other process keeps them owned.
LEMMA StillOwned ==
  ASSUME Owned, process' = process,
         \A c \in Clients, s \in Sessions : Uses(c, s)' => \E f \in Neighbours(c) : Uses(f, s)
  PROVE  Owned'
BY DEF Owned, Neighbours

\* A step that leaves processes and streams alone.
LEMMA SameNeighbours ==
  ASSUME process' = process
  PROVE  \A c : Neighbours(c)' = Neighbours(c) /\ (c \in Clients => c \in Neighbours(c))
BY DEF Neighbours

\* An ended stream leaves nothing that was not said before.
LEMMA EndedOK ==
  ASSUME IInv, NEW c \in Clients, StreamEnds(c),
         NEW new \in {None, "opening"}, eventStream' = [eventStream EXCEPT ![c] = new],
         UNCHANGED <<sessions, streams, core, process, data, message, posts, sender, heard>>
  PROVE  IInv'
<1>1. /\ wire' \in [Clients -> Seq(Events)] /\ wire'[c] = <<>>
      /\ \A f \in Clients \ {c} : wire'[f] = wire[f]
  BY DEF StreamEnds, IInv, Types
<1>2. /\ eventStream'[c] = new
      /\ \A f \in Clients \ {c} : eventStream'[f] = eventStream[f]
      /\ eventStream' \in [Clients -> Sessions \cup {None, "opening"}]
  BY DEF IInv, Types
<1>3. \A f \in Clients : Said(f)' \subseteq Said(f)
  <2>1. Queued(c)' = {} /\ \A f \in Clients \ {c} : Queued(f)' = Queued(f)
    BY <1>1 DEF Queued
  <2> QED BY <2>1 DEF Said
<1>4. TypeOK' /\ Types'
  BY <1>1, <1>2 DEF IInv, TypeOK, Types
<1>5. SaidOK'
  BY <1>3, SameNeighbours DEF IInv, SaidOK
<1>6. \A f \in Clients, s \in Sessions : Uses(f, s)' => Uses(f, s)
  BY <1>2, <1>3, LegacyAssumption DEF Uses
<1>7. StreamsDiffer'
  BY <1>2, LegacyAssumption DEF IInv, StreamsDiffer
<1> QED BY <1>4, <1>5, <1>6, <1>7, StillOwned, SameNeighbours DEF IInv, Asked

\* A new session belongs to the client whose stream it is.
LEMMA GetSseOK ==
  ASSUME IInv, NEW c \in Clients, GetSse(c)
  PROVE  IInv'
<1> PICK s : s = NewSession
  OBVIOUS
<1>1. /\ s \in Sessions \ sessions
      /\ sessions' = sessions \cup {s}
      /\ streams' = streams \cup {s}
      /\ eventStream' = [eventStream EXCEPT ![c] = s]
      /\ wire' = [wire EXCEPT ![c] = <<Endpoint(s)>>]
  <2>1. Sessions \ sessions # {}
    BY DEF GetSse
  <2>2. s \in Sessions /\ s \notin sessions
    BY <2>1 DEF NewSession
  <2> QED BY <2>2 DEF GetSse, Endpoint
<1>2. UNCHANGED <<core, process, data, message, posts, sender, heard>>
  BY DEF GetSse
<1>3. Endpoint(s) \in Events
  BY <1>1 DEF Endpoint, Events
<1>4. /\ wire' \in [Clients -> Seq(Events)] /\ wire'[c] = <<Endpoint(s)>>
      /\ \A f \in Clients \ {c} : wire'[f] = wire[f]
      /\ eventStream' \in [Clients -> Sessions \cup {None, "opening"}]
      /\ eventStream'[c] = s
      /\ \A f \in Clients \ {c} : eventStream'[f] = eventStream[f]
  BY <1>1, <1>3 DEF IInv, Types
<1>5. /\ Said(c)' \subseteq Said(c) \cup {Endpoint(s)}
      /\ \A f \in Clients \ {c} : Said(f)' = Said(f)
  <2>1. Queued(c)' = {Endpoint(s)}
    <3>1. Len(<<Endpoint(s)>>) = 1 /\ <<Endpoint(s)>>[1] = Endpoint(s)
      OBVIOUS
    <3> QED BY <1>4, <3>1 DEF Queued
  <2>2. \A f \in Clients \ {c} : Queued(f)' = Queued(f)
    BY <1>4 DEF Queued
  <2> QED BY <1>2, <2>1, <2>2 DEF Said
<1>6. TypeOK'
  BY <1>1, <1>2, <1>4 DEF IInv, TypeOK
<1>7. Types'
  BY <1>2, <1>4 DEF IInv, Types
<1>8. SaidOK'
  BY <1>1, <1>2, <1>5, SameNeighbours DEF IInv, SaidOK, Endpoint, Message
<1>9. Asked'
  BY <1>2 DEF IInv, Asked
<1>10. ASSUME NEW f \in Clients, NEW t \in Sessions, Uses(f, t)'
       PROVE  Uses(f, t) \/ (f = c /\ t = s)
  BY <1>2, <1>4, <1>5, <1>10 DEF Uses, Endpoint
<1>11. \A f \in Clients : ~Uses(f, s)
  BY <1>1, FreshIsUnused
<1>12. Owned'
  BY <1>2, <1>10, <1>11 DEF IInv, Owned
<1>13. StreamsDiffer'
  <2>1. \A f \in Clients : eventStream[f] # s
    BY <1>11 DEF Uses
  <2> QED BY <1>4, <2>1 DEF IInv, StreamsDiffer
<1> QED BY <1>6, <1>7, <1>8, <1>9, <1>12, <1>13 DEF IInv

\* A stream that is gone was nobody's any more.
LEMMA DisconnectedOK ==
  ASSUME IInv, NEW s \in Sessions, Disconnected(s)
  PROVE  IInv'
<1>1. /\ streams' = streams \ {s} /\ \A c \in Clients : eventStream[c] # s
      /\ UNCHANGED <<sessions, core, process, eventStream, wire, data, message, heard, posts, sender>>
  BY DEF Disconnected, client
<1>2. TypeOK' /\ Types'
  BY <1>1 DEF IInv, TypeOK, Types
<1>3. SaidOK' /\ Asked'
  BY <1>1, SameNeighbours DEF IInv, SaidOK, Asked, Said, Queued
<1>4. Owned' /\ StreamsDiffer'
  BY <1>1 DEF IInv, Owned, StreamsDiffer, Uses, Said, Queued
<1> QED BY <1>2, <1>3, <1>4 DEF IInv

\* A request is posted on a session its client uses.
LEMMA SendOK ==
  ASSUME IInv, NEW c \in Clients, NEW r \in Requests, Send(c, r)
  PROVE  IInv'
<1> DEFINE post == [client |-> c, session |-> message[c], request |-> r]
<1>1. /\ sender[r] = None /\ sender' = [sender EXCEPT ![r] = c]
      /\ posts' = IF message[c] = None THEN posts ELSE posts \cup {post}
      /\ UNCHANGED <<sessions, streams, core, process, eventStream, wire, data, message, heard>>
  BY DEF Send, server, client
<1>2. post.session = message[c] /\ post.request = r
      /\ (message[c] # None => post \in [client : Clients, session : sessions, request : Requests])
  BY DEF IInv, TypeOK
<1> HIDE DEF post
<1>3. /\ sender' \in [Requests -> Clients \cup {None}] /\ sender'[r] = c
      /\ \A q \in Requests \ {r} : sender'[q] = sender[q]
  BY <1>1 DEF IInv, Types
<1>4. \A asked \in posts \cup core : asked.request \in Requests /\ asked.request # r
  BY <1>1, LegacyAssumption DEF IInv, TypeOK, Asked
<1>5. TypeOK'
  BY <1>1, <1>2 DEF IInv, TypeOK
<1>6. Types'
  BY <1>1, <1>3 DEF IInv, Types
<1>7. SaidOK'
  <2>1. \A f \in Clients : Said(f)' = Said(f) /\ Neighbours(f)' = Neighbours(f) /\ None \notin Neighbours(f)
    BY <1>1, LegacyAssumption DEF Said, Queued, Neighbours
  <2>2. \A f \in Clients, q \in Requests : sender[q] \in Neighbours(f) => sender'[q] \in Neighbours(f)
    BY <1>1, <1>3, <2>1
  <2> QED BY <1>1, <2>1, <2>2 DEF IInv, Types, SaidOK
<1>8. Asked'
  BY <1>1, <1>2, <1>3, <1>4 DEF IInv, Asked
<1>9. ASSUME NEW f \in Clients, NEW s \in Sessions, Uses(f, s)' PROVE Uses(f, s)
  <2>1. CASE \E asked \in (posts \cup core)' : asked.session = s /\ sender'[asked.request] = f
    BY <1>1, <1>2, <1>3, <1>4, <2>1 DEF Uses
  <2>2. CASE eventStream'[f] = s \/ message'[f] = s \/ Endpoint(s) \in Said(f)'
    BY <1>1, <2>2 DEF Uses, Said, Queued
  <2> QED BY <1>9, <2>1, <2>2 DEF Uses
<1>10. StreamsDiffer'
  BY <1>1 DEF IInv, StreamsDiffer
<1> QED BY <1>1, <1>5, <1>6, <1>7, <1>8, <1>9, <1>10, StillOwned, SameNeighbours DEF IInv

\* A post that arrives, or fails, is no longer on its way.
LEMMA PostOK ==
  ASSUME IInv, NEW post \in posts, PostMessages(post) \/ PostFails(post)
  PROVE  IInv'
<1> DEFINE asked == [session |-> post.session, request |-> post.request]
<1>1. /\ posts' = posts \ {post}
      /\ core' \in {core} \cup (IF post.session \in sessions THEN {core \cup {asked}} ELSE {})
      /\ UNCHANGED <<sessions, streams, process, eventStream, wire, data, message, heard, sender>>
  BY DEF PostMessages, PostFails, server, client
<1>2. /\ asked.session = post.session /\ asked.request = post.request
      /\ asked \in [session : sessions, request : Requests]
  BY DEF IInv, TypeOK
<1> HIDE DEF asked
<1>3. TypeOK' /\ Types'
  BY <1>1, <1>2 DEF IInv, TypeOK, Types
<1>4. SaidOK' /\ StreamsDiffer'
  BY <1>1, SameNeighbours DEF IInv, SaidOK, Said, Queued, StreamsDiffer
<1>5. Asked'
  BY <1>1, <1>2 DEF IInv, Asked
<1>6. \A f \in Clients, s \in Sessions : Uses(f, s)' => Uses(f, s)
  BY <1>1, <1>2 DEF Uses, Said, Queued
<1> QED BY <1>1, <1>3, <1>4, <1>5, <1>6, StillOwned, SameNeighbours DEF IInv

\* An answer is said in the process of the client that asked.
LEMMA CoreAnswersOK ==
  ASSUME IInv, NEW asked \in core, CoreAnswers(asked)
  PROVE  IInv'
<1> DEFINE event == Message(asked.request)
<1>1. /\ core' = core \ {asked}
      /\ wire' = [c \in Clients |-> IF Attached(c, asked.session) THEN Append(wire[c], event)
                                    ELSE wire[c]]
      /\ UNCHANGED <<sessions, streams, process, eventStream, data, message, posts, sender, heard>>
  BY DEF CoreAnswers, Message
<1>2. asked.session \in Sessions /\ asked.request \in Requests /\ event \in Events
  BY DEF IInv, TypeOK, Events, Message
<1>3. \A c \in Clients : Attached(c, asked.session) => sender[asked.request] \in Neighbours(c)
  <2> SUFFICES ASSUME NEW c \in Clients, Attached(c, asked.session)
               PROVE  sender[asked.request] \in Neighbours(c)
    OBVIOUS
  <2>1. sender[asked.request] \in Clients
    BY DEF IInv, Asked
  <2>2. Uses(c, asked.session) /\ Uses(sender[asked.request], asked.session)
    BY DEF Attached, Uses
  <2> QED BY <1>2, <2>1, <2>2 DEF IInv, Owned, Neighbours
<1> HIDE DEF event
<1>4. wire' \in [Clients -> Seq(Events)]
  BY <1>1, <1>2 DEF IInv, Types
<1>5. ASSUME NEW c \in Clients
      PROVE  Said(c)' \subseteq Said(c) \cup
               (IF Attached(c, asked.session) THEN {event} ELSE {})
  <2>1. CASE Attached(c, asked.session)
    <3>1. wire[c] \in Seq(Events) /\ wire'[c] = Append(wire[c], event)
      BY <1>1, <2>1 DEF IInv, Types
    <3>2. \A i \in 1 .. Len(wire'[c]) : \/ wire'[c][i] = event
                                         \/ /\ i \in 1 .. Len(wire[c])
                                            /\ wire'[c][i] = wire[c][i]
      BY <1>2, <3>1
    <3> QED BY <1>1, <2>1, <3>2 DEF Said, Queued
  <2>2. CASE ~Attached(c, asked.session)
    BY <1>1, <2>2 DEF Said, Queued
  <2> QED BY <2>1, <2>2
<1>6. TypeOK'
  <2>1. \A c \in Clients : wire'[c] # <<>> => wire[c] # <<>> \/ eventStream[c] \in streams
    BY <1>1 DEF Attached
  <2> QED BY <1>1, <2>1 DEF IInv, TypeOK
<1>7. Types'
  BY <1>1, <1>4 DEF IInv, Types
<1>8. SaidOK'
  BY <1>1, <1>3, <1>5, SameNeighbours DEF event, Message, Endpoint, IInv, SaidOK
<1>9. Asked'
  BY <1>1 DEF IInv, Asked
<1>10. \A f \in Clients, s \in Sessions : Uses(f, s)' => Uses(f, s)
  BY <1>1, <1>5 DEF Uses, event, Message, Endpoint
<1>11. StreamsDiffer'
  BY <1>1 DEF IInv, StreamsDiffer
<1> QED BY <1>1, <1>6, <1>7, <1>8, <1>9, <1>10, <1>11, StillOwned, SameNeighbours DEF IInv

\* A step in which client c reads: what its process may hear was said to a
\* neighbour before.
LEMMA ReadOK ==
  ASSUME IInv, NEW c \in Clients,
         UNCHANGED <<sessions, streams, core, process, eventStream, posts, sender>>,
         wire' \in [Clients -> Seq(Events)], data' \in [Processes -> SUBSET Events],
         wire'[c] # <<>> => wire[c] # <<>>,
         \A f \in Clients \ {c} : wire'[f] = wire[f],
         \A f \in Clients : Said(f)' \subseteq Said(f)
                              \cup (IF f \in Neighbours(c) THEN Said(c) ELSE {}),
         NEW taken \in Said(c) \cup {Nothing, Garbled}, Takes(c, taken)
  PROVE  IInv'
<1>1. /\ message' = [message EXCEPT ![c] = IF taken.event = "endpoint" THEN taken.of ELSE @]
      /\ heard' = [heard EXCEPT ![c] = IF taken.event = "message" THEN @ \cup {taken.of} ELSE @]
  BY DEF Takes
<1>2. Said(c) \subseteq Events
  BY HasProcess DEF Said, Queued, IInv, Types
<1>3. /\ taken.event = "endpoint" =>
           taken.of = None \/ (taken.of \in sessions /\ Endpoint(taken.of) \in Said(c))
      /\ taken.event = "message" => taken.of \in Requests /\ sender[taken.of] \in Neighbours(c)
  <2>1. CASE taken \in {Nothing, Garbled}
    BY <2>1 DEF Nothing, Garbled
  <2>2. CASE taken \in Said(c)
    <3>1. taken \in Events
      BY <1>2, <2>2
    <3>2. CASE taken.event = "endpoint"
      <4>1. taken = Endpoint(taken.of) /\ taken.of \in Sessions
        BY <3>1, <3>2 DEF Events, Endpoint
      <4> QED BY <2>2, <3>2, <4>1 DEF IInv, SaidOK
    <3>3. CASE taken.event = "message"
      <4>1. taken = Message(taken.of) /\ taken.of \in Requests
        BY <3>1, <3>3 DEF Events, Message
      <4> QED BY <2>2, <3>3, <4>1 DEF IInv, SaidOK
    <3> QED BY <3>2, <3>3
  <2> QED BY <2>1, <2>2
<1>4. /\ message' \in [Clients -> Sessions \cup {None}]
      /\ \A f \in Clients : message'[f] \in sessions \cup {None}
      /\ \A f \in Clients : \/ message'[f] = message[f]
                             \/ message'[f] = None
                             \/ (f = c /\ Endpoint(message'[f]) \in Said(c))
  <2> DEFINE new == IF taken.event = "endpoint" THEN taken.of ELSE message[c]
  <2>1. /\ new \in sessions \cup {None}
        /\ new = message[c] \/ new = None \/ Endpoint(new) \in Said(c)
    BY <1>3 DEF IInv, TypeOK
  <2>2. /\ message' = [message EXCEPT ![c] = new] /\ sessions \subseteq Sessions
        /\ message \in [Clients -> Sessions \cup {None}]
        /\ \A f \in Clients : message[f] \in sessions \cup {None}
    BY <1>1 DEF IInv, Types, TypeOK
  <2> HIDE DEF new
  <2>3. message'[c] = new /\ \A f \in Clients \ {c} : message'[f] = message[f]
    BY <2>2
  <2>4. message' \in [Clients -> Sessions \cup {None}]
    BY <2>1, <2>2
  <2> QED BY <2>1, <2>2, <2>3, <2>4
<1>5. /\ heard' \in [Clients -> SUBSET Requests]
      /\ \A f \in Clients : \A q \in heard'[f] : sender[q] \in Neighbours(f)
  BY <1>1, <1>3 DEF IInv, Types, SaidOK
<1>6. TypeOK' /\ Types'
  BY <1>4, <1>5 DEF IInv, TypeOK, Types
<1>7. SaidOK'
  <2> SUFFICES ASSUME NEW f \in Clients, NEW e \in Said(f)'
               PROVE  /\ \A s \in Sessions : e = Endpoint(s) => s \in sessions
                      /\ \A q \in Requests : e = Message(q) => sender[q] \in Neighbours(f)
    BY <1>5, SameNeighbours DEF SaidOK
  <2>1. CASE e \in Said(f)
    BY <2>1 DEF IInv, SaidOK
  <2>2. CASE e \in Said(c) /\ f \in Neighbours(c)
    BY <2>2 DEF IInv, SaidOK, Neighbours
  <2> QED BY <2>1, <2>2
<1>8. ASSUME NEW f \in Clients, NEW s \in Sessions, Uses(f, s)'
      PROVE  \E g \in Neighbours(f) : Uses(g, s)
  <2>1. f \in Neighbours(f) /\ (f \in Neighbours(c) => c \in Neighbours(f))
    BY DEF Neighbours
  <2>2. CASE eventStream'[f] = s \/ \E asked \in (posts \cup core)' :
                                      asked.session = s /\ sender'[asked.request] = f
    BY <2>1, <2>2 DEF Uses
  <2>3. CASE message'[f] = s
    BY <1>4, <2>1, <2>3, LegacyAssumption DEF Uses
  <2>4. CASE Endpoint(s) \in Said(f)'
    BY <2>1, <2>4 DEF Uses
  <2> QED BY <1>8, <2>2, <2>3, <2>4 DEF Uses
<1>9. Asked' /\ StreamsDiffer'
  BY DEF IInv, Asked, StreamsDiffer
<1> QED BY <1>6, <1>7, <1>8, <1>9, StillOwned DEF IInv

\* What is left in the buffer of a process was said to c.
LEMMA IsLeftSays ==
  ASSUME IInv, NEW c \in Clients, NEW event \in Queued(c), IsLeft(c, event), process' = process,
         \A f \in Clients : Queued(f)' \subseteq Queued(f)
  PROVE  /\ data' \in [Processes -> SUBSET Events]
         /\ \A f \in Clients : Said(f)' \subseteq Said(f)
                                  \cup (IF f \in Neighbours(c) THEN Said(c) ELSE {})
<1>1. data' = [data EXCEPT ![process[c]] = @ \cup {event}] /\ process[c] \in Processes
  BY HasProcess DEF IsLeft, IInv
<1>2. event \in Events
  BY DEF Queued, IInv, Types
<1>3. data' \in [Processes -> SUBSET Events]
  BY <1>1, <1>2 DEF IInv, Types
<1>4. ASSUME NEW f \in Clients
      PROVE  Said(f)' \subseteq Said(f) \cup (IF f \in Neighbours(c) THEN Said(c) ELSE {})
  <2>1. process[f] \in Processes
    BY HasProcess DEF IInv
  <2>2. CASE process[f] = process[c]
    <3>1. data'[process[f]] = data[process[f]] \cup {event} /\ f \in Neighbours(c)
      BY <1>1, <2>2 DEF Neighbours, IInv, Types
    <3> QED BY <3>1 DEF Said
  <2>3. CASE process[f] # process[c]
    <3>1. data'[process[f]] = data[process[f]]
      BY <1>1, <2>1, <2>3 DEF IInv, Types
    <3> QED BY <3>1 DEF Said
  <2> QED BY <2>2, <2>3
<1> QED BY <1>3, <1>4

\* A part of an event is read.
LEMMA ReadsPartOK ==
  ASSUME IInv, NEW c \in Clients, ReadsPart(c)
  PROVE  IInv'
<1>1. /\ wire[c] # <<>> /\ IsLeft(c, Head(wire[c]))
      /\ UNCHANGED <<sessions, streams, core, process, eventStream, wire, message, heard, posts, sender>>
  BY DEF ReadsPart, server
<1>2. Head(wire[c]) \in Queued(c)
  BY <1>1 DEF IInv, Types, Queued
<1>3. \A f \in Clients : Queued(f)' \subseteq Queued(f)
  BY <1>1 DEF Queued
<1>4. /\ data' \in [Processes -> SUBSET Events]
      /\ \A f \in Clients : Said(f)' \subseteq Said(f)
                               \cup (IF f \in Neighbours(c) THEN Said(c) ELSE {})
  BY <1>1, <1>2, <1>3, IsLeftSays
<1>5. Takes(c, Nothing)
  BY <1>1 DEF Takes, Nothing, IInv, Types
<1>6. wire' \in [Clients -> Seq(Events)]
  BY <1>1 DEF IInv, Types
<1> QED BY <1>1, <1>4, <1>5, <1>6, ReadOK

\* What a client takes from its buffer was said to it.
LEMMA ReadyReadOK ==
  ASSUME IInv, NEW c \in Clients, ReadyRead(c)
  PROVE  IInv'
<1>1. /\ wire[c] # <<>> /\ wire' = [wire EXCEPT ![c] = Tail(@)]
      /\ UNCHANGED <<sessions, streams, core, process, eventStream, posts, sender>>
  BY DEF ReadyRead, server
<1>2. /\ wire' \in [Clients -> Seq(Events)] /\ wire'[c] = Tail(wire[c])
      /\ \A f \in Clients \ {c} : wire'[f] = wire[f]
      /\ wire[c] \in Seq(Events) /\ Head(wire[c]) \in Queued(c)
  BY <1>1 DEF IInv, Types, Queued
<1>3. \A f \in Clients : Queued(f)' \subseteq Queued(f)
  <2>1. \A i \in 1 .. Len(wire'[c]) : /\ i + 1 \in 1 .. Len(wire[c])
                                       /\ wire'[c][i] = wire[c][i + 1]
    BY <1>1, <1>2
  <2>2. Queued(c)' \subseteq Queued(c)
    BY <2>1 DEF Queued
  <2>3. \A f \in Clients \ {c} : Queued(f)' = Queued(f)
    BY <1>2 DEF Queued
  <2> QED BY <2>2, <2>3
<1>4. CASE IsLeft(c, Head(wire[c])) /\ UNCHANGED <<message, heard>>
  <2>1. /\ data' \in [Processes -> SUBSET Events]
        /\ \A f \in Clients : Said(f)' \subseteq Said(f)
                                 \cup (IF f \in Neighbours(c) THEN Said(c) ELSE {})
    BY <1>1, <1>2, <1>3, <1>4, IsLeftSays
  <2>2. Takes(c, Nothing)
    BY <1>4 DEF Takes, Nothing, IInv, Types
  <2> QED BY <1>1, <1>2, <2>1, <2>2, ReadOK
<1>5. CASE /\ data' = [data EXCEPT ![process[c]] = {}]
           /\ \E taken \in IF data[process[c]] = Own(c) THEN {Head(wire[c])} ELSE Glued(c) :
                Takes(c, taken)
  <2>1. PICK taken \in IF data[process[c]] = Own(c) THEN {Head(wire[c])} ELSE Glued(c) :
          Takes(c, taken)
    BY <1>5
  <2>2. taken \in Said(c) \cup {Nothing, Garbled}
    BY <1>2 DEF Said, Own, Glued
  <2>3. data' \in [Processes -> SUBSET Events]
    BY <1>5 DEF IInv, Types
  <2>4. \A f \in Clients : Said(f)' \subseteq Said(f)
    <3>1. \A f \in Clients : data'[process[f]] \subseteq data[process[f]]
      BY <1>5, HasProcess DEF IInv, Types
    <3> QED BY <1>1, <1>3, <3>1 DEF Said
  <2> QED BY <1>1, <1>2, <2>1, <2>2, <2>3, <2>4, ReadOK
<1> QED BY <1>4, <1>5 DEF ReadyRead

-----------------------------------------------------------------------------
(***************************************************************************)
(* Theorems.                                                               *)
(***************************************************************************)

\* Nothing is said or used at first.
LEMMA InitOK == Init => IInv
<1> SUFFICES ASSUME Init PROVE IInv
  OBVIOUS
<1>1. process \in Layouts /\ \A c \in Clients : process[c] \in Processes
  BY DEF Init, Processes
<1>2. \A c \in Clients : Said(c) = {}
  <2>1. \A c \in Clients : wire[c] = <<>> /\ data[process[c]] = {}
    BY <1>1 DEF Init
  <2>2. ASSUME NEW c \in Clients PROVE Queued(c) = {}
    <3>1. wire[c] = <<>> /\ 1 .. 0 = {}
      BY <2>1
    <3>2. 1 .. Len(wire[c]) = {}
      BY <3>1
    <3> QED BY <3>2 DEF Queued
  <2> QED BY <2>1, <2>2 DEF Said
<1>3. TypeOK /\ Types /\ Asked
  BY <1>1 DEF Init, TypeOK, Types, Asked
<1>4. SaidOK
  BY <1>2 DEF Init, SaidOK
<1>5. \A c \in Clients, s \in Sessions : ~Uses(c, s)
  BY <1>2, LegacyAssumption DEF Init, Uses
<1>6. StreamsDiffer
  BY LegacyAssumption DEF Init, StreamsDiffer
<1> QED BY <1>3, <1>4, <1>5, <1>6 DEF IInv, Owned

\* Every step preserves the invariant.
LEMMA StepOK == IInv /\ [Next]_vars => IInv'
<1> SUFFICES ASSUME IInv, [Next]_vars PROVE IInv'
  OBVIOUS
<1>1. ASSUME NEW c \in Clients, Start(c) PROVE IInv'
  BY <1>1, EndedOK DEF Start, server
<1>2. ASSUME NEW c \in Clients, Breaks(c) PROVE IInv'
  BY <1>2, EndedOK DEF Breaks, server
<1>3. CASE UNCHANGED vars
  <2>1. UNCHANGED <<sessions, streams, core, process, eventStream, wire, data, message, heard,
                    posts, sender>>
    BY <1>3 DEF vars, server, client
  <2>2. \A c \in Clients : Said(c)' = Said(c)
    BY <2>1 DEF Said, Queued
  <2>3. TypeOK' /\ Types'
    BY <2>1 DEF IInv, TypeOK, Types
  <2>4. SaidOK' /\ Asked'
    BY <2>1, <2>2, SameNeighbours DEF IInv, SaidOK, Asked
  <2>5. \A c \in Clients, s \in Sessions : Uses(c, s)' => Uses(c, s)
    BY <2>1, <2>2 DEF Uses
  <2>6. StreamsDiffer'
    BY <2>1 DEF IInv, StreamsDiffer
  <2> QED BY <2>1, <2>3, <2>4, <2>5, <2>6, StillOwned, SameNeighbours DEF IInv
<1> QED BY <1>1, <1>2, <1>3, GetSseOK, ReadsPartOK, ReadyReadOK, SendOK, DisconnectedOK, PostOK, CoreAnswersOK
        DEF Next

\* Sessions, streams, events and requests belong together in every execution.
THEOREM Invariance == Spec => []IInv
<1> QED BY InitOK, StepOK, PTL DEF Spec

\* Every stream has a session, every post is for a session that was given out.
THEOREM TypeCorrect == Spec => []TypeOK
<1>1. IInv => TypeOK
  BY DEF IInv
<1> QED BY <1>1, Invariance, PTL

\* However many clients there are, in whatever processes, an answer is heard
\* only in the process of the client that asked, and no two clients share a
\* stream: a client alone in its process hears the answers to its own requests.
THEOREM AnswersStayHome == Spec => []AnswersGoToTheAsker
<1>1. IInv => AnswersGoToTheAsker
  BY DEF IInv, AnswersGoToTheAsker, SaidOK, StreamsDiffer
<1> QED BY <1>1, Invariance, PTL
=============================================================================

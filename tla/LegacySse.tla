------------------------------ MODULE LegacySse -------------------------------
(***************************************************************************)
(* The HTTP+SSE transport of the first revision, both ends of it: the      *)
(* server backend (plugins/mcpserverbackend/sse/httpserver.cpp) on the     *)
(* HTTP server base, and the client backend                                *)
(* (plugins/mcpclientbackend/sse/qmcpclientsse.cpp).                       *)
(*                                                                         *)
(* A client opens an event stream, learns from its first event where to    *)
(* post, and hears the answers to its posts on the stream.  Posts travel   *)
(* on connections of their own, so they arrive in any order; the stream    *)
(* keeps its order.  The buffer a client reads into is static, so all      *)
(* clients of a process share it: bytes of an event that came in part, or  *)
(* are left from a stream that ended, meet the bytes of whichever stream   *)
(* is read next.  A piece without its data line, completed by the line end *)
(* of another stream, makes the slot read lines.at(1) out of range; here   *)
(* nothing comes of it.                                                    *)
(***************************************************************************)
EXTENDS Naturals, Sequences

CONSTANTS
  Clients,
  Sessions,   \* the ids registerSseRequest() can give out
  Requests,
  Layouts,    \* the ways the clients are spread over processes
  None,
  MaxStarts   \* bound, per client: starts

ASSUME LegacyAssumption ==
  /\ MaxStarts \in [Clients -> Nat]
  /\ \A layout \in Layouts : layout = [c \in Clients |-> layout[c]]
  /\ None \notin Sessions \cup Clients /\ "opening" \notin Sessions

VARIABLES
  process,     \* the process each client runs in
  sessions,    \* HttpServer::Private::sessions
  streams,     \* QMcpAbstractHttpServer::Private::sessions: those with a socket
  core,        \* [session, request] received and not answered yet
  eventStream, \* per client: None, "opening", or the session it is attached to
  wire,        \* per client, the events that have not been read to their end
  begun,       \* per client, whether the first of them has been read in part
  data,        \* per process, the events its buffer holds bytes of,
  latest,      \* and the one whose bytes came last, or Nothing
  message,     \* per client, the session of the endpoint it posts to, or None
  posts,       \* [client, session, request] on the way
  sender,      \* the client of a request that was sent
  heard,       \* per client, the requests it heard answers to
  starts

server == <<sessions, streams, core>>
client == <<process, eventStream, wire, begun, data, latest, message, heard>>
vars == <<server, client, posts, sender, starts>>

Nothing == [event |-> "none", of |-> None]
Garbled == [event |-> "endpoint", of |-> None]

Processes == UNION {{layout[c] : c \in Clients} : layout \in Layouts}

Neighbours(c) == {d \in Clients : process[d] = process[c]}

Init ==
  /\ process \in Layouts
  /\ sessions = {} /\ streams = {} /\ core = {}
  /\ eventStream = [c \in Clients |-> None]
  /\ wire = [c \in Clients |-> <<>>]
  /\ begun = [c \in Clients |-> FALSE]
  /\ data = [p \in Processes |-> {}]
  /\ latest = [p \in Processes |-> Nothing]
  /\ message = [c \in Clients |-> None]
  /\ posts = {}
  /\ sender = [r \in Requests |-> None]
  /\ heard = [c \in Clients |-> {}]
  /\ starts = [c \in Clients |-> 0]
-----------------------------------------------------------------------------
(* The stream of c ends: what was not read is lost, what was read of an    *)
(* event stays in the buffer.                                              *)
StreamEnds(c) ==
  /\ wire' = [wire EXCEPT ![c] = <<>>]
  /\ begun' = [begun EXCEPT ![c] = FALSE]

(* start(): a stream that is open is given up for the new one; the         *)
(* endpoint stays what it was until the new one is announced.              *)
Start(c) ==
  /\ starts[c] < MaxStarts[c]
  /\ starts' = [starts EXCEPT ![c] = @ + 1]
  /\ eventStream' = [eventStream EXCEPT ![c] = "opening"]
  /\ StreamEnds(c)
  /\ UNCHANGED <<server, process, data, latest, message, posts, sender, heard>>

(* The stream breaks, or could not be opened. *)
Breaks(c) ==
  /\ eventStream[c] # None
  /\ eventStream' = [eventStream EXCEPT ![c] = None]
  /\ StreamEnds(c)
  /\ UNCHANGED <<server, process, data, latest, message, posts, sender, heard, starts>>

(* createUuid(): which of the new ids it is makes no difference. *)
NewSession == CHOOSE s \in Sessions : s \notin sessions

\* Mutant: the session is not entered.
GetSseForgotten(c) ==
  /\ eventStream[c] = "opening" /\ Sessions \ sessions # {}
  /\ streams' = streams \cup {NewSession}
  /\ eventStream' = [eventStream EXCEPT ![c] = NewSession]
  /\ wire' = [wire EXCEPT ![c] = << [event |-> "endpoint", of |-> NewSession] >>]
  /\ UNCHANGED <<sessions, core, process, begun, data, latest, message, posts, sender, heard, starts>>

(* getSse(): a session of its own for every stream. *)
GetSse(c) ==
  /\ eventStream[c] = "opening" /\ Sessions \ sessions # {}
  /\ sessions' = sessions \cup {NewSession}
  /\ streams' = streams \cup {NewSession}
  /\ eventStream' = [eventStream EXCEPT ![c] = NewSession]
  /\ wire' = [wire EXCEPT ![c] = << [event |-> "endpoint", of |-> NewSession] >>]
  /\ UNCHANGED <<core, process, begun, data, latest, message, posts, sender, heard, starts>>

\* Mutant: a stream goes while its client still reads it.
DisconnectedEarly(s) ==
  /\ s \in streams
  /\ streams' = streams \ {s}
  /\ UNCHANGED <<sessions, core, client, posts, sender, starts>>

(* handleDisconnected(): the stream goes, the session stays. *)
Disconnected(s) ==
  /\ s \in streams
  /\ \A c \in Clients : eventStream[c] # s
  /\ streams' = streams \ {s}
  /\ UNCHANGED <<sessions, core, client, posts, sender, starts>>

(* send(): posted to the endpoint, dropped as long as there is none. *)
Send(c, r) ==
  /\ sender[r] = None
  /\ sender' = [sender EXCEPT ![r] = c]
  /\ posts' = IF message[c] = None THEN posts
              ELSE posts \cup {[client |-> c, session |-> message[c], request |-> r]}
  /\ UNCHANGED <<server, client, starts>>

(* postMessages(): what a known session is sent is received, whether it    *)
(* still has a stream or not.                                              *)
PostMessages(post) ==
  /\ posts' = posts \ {post}
  /\ core' = IF post.session \in sessions
               THEN core \cup {[session |-> post.session, request |-> post.request]}
               ELSE core
  /\ UNCHANGED <<sessions, streams, client, sender, starts>>

(* A POST that fails is logged, nothing else. *)
PostFails(post) ==
  /\ posts' = posts \ {post}
  /\ UNCHANGED <<server, client, sender, starts>>

\* Mutant: the event goes to every stream.
AttachedToAny(c, s) == eventStream[c] \in streams

Attached(c, s) == eventStream[c] = s /\ s \in streams

(* The core answers, and sendSseEvent() writes to the stream of the        *)
(* session, if it has one.                                                 *)
CoreAnswers(asked) ==
  /\ core' = core \ {asked}
  /\ wire' = [c \in Clients |->
                IF Attached(c, asked.session)
                THEN Append(wire[c], [event |-> "message", of |-> asked.request])
                ELSE wire[c]]
  /\ UNCHANGED <<sessions, streams, process, eventStream, begun, data, latest, message, posts,
                 sender, heard, starts>>

(* An event: the endpoint, which starts the client, or an answer.          *)
Takes(c, event) ==
  /\ message' = [message EXCEPT ![c] = IF event.event = "endpoint" THEN event.of ELSE @]
  /\ heard' = [heard EXCEPT ![c] = IF event.event = "message" THEN @ \cup {event.of} ELSE @]

(* Bytes of an event end up in the buffer. *)
IsLeft(c, event) ==
  /\ data' = [data EXCEPT ![process[c]] = @ \cup {event}]
  /\ latest' = [latest EXCEPT ![process[c]] = event]

(* The first bytes of an event arrive, and not its end. *)
ReadsPart(c) ==
  /\ wire[c] # <<>> /\ ~begun[c]
  /\ begun' = [begun EXCEPT ![c] = TRUE]
  /\ IsLeft(c, Head(wire[c]))
  /\ UNCHANGED <<server, process, eventStream, wire, message, heard, posts, sender, starts>>

(* What the buffer should hold when c reads the end of its next event. *)
Own(c) == IF begun[c] THEN {Head(wire[c])} ELSE {}

(* What bytes of several events may be taken for: one of them, an endpoint *)
(* that is none, or nothing.                                               *)
Glued(c) ==
  LET mixed == IF data[process[c]] = {} THEN {} ELSE data[process[c]] \cup Own(c)
  IN  {Nothing} \cup mixed
        \cup (IF \E e \in mixed : e.event = "endpoint" THEN {Garbled} ELSE {})

(* The end of an event arrives, and everything in the buffer is taken for  *)
(* one event.  Should the end be no more than the last line end, and other *)
(* bytes before it, then nothing is complete.                              *)
ReadyRead(c) ==
  LET event == Head(wire[c])
  IN  /\ wire[c] # <<>>
      /\ wire' = [wire EXCEPT ![c] = Tail(@)]
      /\ begun' = [begun EXCEPT ![c] = FALSE]
      /\ \/ /\ data' = [data EXCEPT ![process[c]] = {}]
            /\ latest' = [latest EXCEPT ![process[c]] = Nothing]
            /\ \E taken \in IF data[process[c]] = Own(c) THEN {event} ELSE Glued(c) :
                 Takes(c, taken)
         \/ /\ begun[c] /\ latest[process[c]] # event
            /\ IsLeft(c, event)
            /\ UNCHANGED <<message, heard>>
  /\ UNCHANGED <<server, process, eventStream, posts, sender, starts>>

Next ==
  \/ \E c \in Clients :
       \/ Start(c)
       \/ Breaks(c)
       \/ GetSse(c)
       \/ ReadsPart(c)
       \/ ReadyRead(c)
       \/ \E r \in Requests : Send(c, r)
  \/ \E s \in Sessions : Disconnected(s)
  \/ \E post \in posts : PostMessages(post) \/ PostFails(post)
  \/ \E asked \in core : CoreAnswers(asked)

(* POSTs that do not fail arrive, the core answers, and the network hands  *)
(* on what was written.                                                    *)
Fairness ==
  /\ WF_vars(\E post \in posts : PostMessages(post) \/ PostFails(post))
  /\ WF_vars(\E asked \in core : CoreAnswers(asked))
  /\ \A c \in Clients : WF_vars(ReadyRead(c))

Spec == Init /\ [][Next]_vars /\ Fairness
-----------------------------------------------------------------------------
TypeOK ==
  /\ streams \subseteq sessions /\ sessions \subseteq Sessions
  /\ core \subseteq [session : sessions, request : Requests]
  /\ \A c \in Clients :
       /\ eventStream[c] \in streams \cup {None, "opening"}
       /\ wire[c] # <<>> => eventStream[c] \in streams
       /\ message[c] \in sessions \cup {None}
  /\ posts \subseteq [client : Clients, session : sessions, request : Requests]

(* However streams are opened, broken and opened again, and whoever reads  *)
(* whose bytes: an answer is heard only where it was asked for, by a client *)
(* in the process of the one that asked, and no two clients share a stream. *)
AnswersGoToTheAsker ==
  \A c \in Clients :
    /\ \A r \in heard[c] : sender[r] \in Neighbours(c)
    /\ \A d \in Clients \ {c} :
         eventStream[c] \in Sessions => eventStream[c] # eventStream[d]

Awaits(c, r) ==
  [session |-> eventStream[c], request |-> r] \in core /\ Neighbours(c) = {c}

(* A request that was posted on the session of an open stream is answered  *)
(* on it, unless the stream ends (a client gets no other before) or the    *)
(* client shares its process, and so its buffer.                           *)
RequestsAreAnswered ==
  \A c \in Clients, r \in Requests :
    Awaits(c, r) ~> r \in heard[c] \/ eventStream[c] \notin Sessions
=============================================================================

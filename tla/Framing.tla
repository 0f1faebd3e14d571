------------------------------- MODULE Framing --------------------------------
(***************************************************************************)
(* How the transports of src/src/plugins and the HTTP server base cut what *)
(* arrives in chunks of any size into messages:                            *)
(*   SseParser         event streams of the Streamable HTTP client         *)
(*   QMcpClientSse     the event stream of the legacy client               *)
(*   QMcpClientStdio   the output of the server process                    *)
(*   QMcpServerStdio   standard input                                      *)
(*   parseHttpRequest  the requests on one connection                      *)
(*                                                                         *)
(* Text is a sequence of tokens: line ends, and the parts of lines a       *)
(* parser looks for.  A message is one JSON text, on an event stream of    *)
(* the Streamable HTTP client also one in two data lines.                  *)
(***************************************************************************)
EXTENDS Naturals, Sequences, SequencesExt, FiniteSetsExt, TLC

CONSTANTS
  Readers,
  Messages,
  HeadersArriveWhole,   \* do the headers of a request arrive in one piece?
  None,
  MaxSent, MaxFillers, MaxStreams   \* bounds

ASSUME FramingAssumption ==
  /\ Readers \subseteq {"SseParser", "QMcpClientSse", "QMcpClientStdio",
                        "QMcpServerStdio", "parseHttpRequest"}
  /\ None \notin Messages
  /\ HeadersArriveWhole \in BOOLEAN
  /\ {MaxSent, MaxFillers, MaxStreams} \subseteq Nat

VARIABLES
  reader,
  eol,        \* the line end the other side writes
  wire,       \* written and not yet read
  data,       \* what the reader keeps until it can use it
  separator,  \* SseParser::separator, <<>> until it is known
  request,    \* ParseData::request is valid: its headers were read
  reading,    \* can the reader still read?
  stale,      \* how much of data comes from earlier streams
  heard,      \* the messages the reader passed on
  sent, fillers, streams

vars == <<reader, eol, wire, data, separator, request, reading, stale, heard,
          sent, fillers, streams>>
-----------------------------------------------------------------------------
Token(kind) == <<kind, None>>
CR == Token("CR")
LF == Token("LF")
CRLF == <<CR, LF>>

EventReaders == {"SseParser", "QMcpClientSse"}
LineReaders == {"QMcpClientStdio", "QMcpServerStdio"}

(* What the other side writes for a message. *)
Event(lines) == <<Token("event")>> \o eol \o lines \o eol \o eol

Frames(m) ==
  CASE reader = "SseParser" ->
         {Event(<< <<"json", m>> >>),
          Event(<< <<"first", m>> >> \o eol \o << <<"second", m>> >>)}
    [] reader = "QMcpClientSse" -> {Event(<< <<"json", m>> >>)}
    [] reader \in LineReaders -> {<< <<"json", m>> >> \o eol}
    [] OTHER -> {<<Token("request")>> \o CRLF \o <<Token("length")>> \o CRLF
                   \o CRLF \o << <<"first", m>>, <<"second", m>> >>}

(* A keep-alive comment, or an empty line. *)
Filler ==
  IF reader \in EventReaders THEN <<Token("comment")>> \o eol \o eol ELSE eol

(* The messages whose JSON text, or its last part, is in text. *)
MessagesIn(text) ==
  LET ends == SelectSeq(text, LAMBDA t : t[1] \in {"json", "second"})
  IN  [i \in DOMAIN ends |-> ends[i][2]]

(* QJsonDocument::fromJson() of a text: the message, white space aside, or *)
(* None.                                                                   *)
FromJson(text) ==
  LET json == SelectSeq(text, LAMBDA t : t \notin {CR, LF})
  IN  IF \E m \in Messages : json \in {<< <<"json", m>> >>,
                                       << <<"first", m>>, <<"second", m>> >>}
        THEN json[1][2] ELSE None

Heard(texts) == SelectSeq([i \in DOMAIN texts |-> FromJson(texts[i])],
                          LAMBDA m : m # None)
-----------------------------------------------------------------------------
(***************************************************************************)
(* Cutting text at a separator.                                            *)
(***************************************************************************)
IsAt(text, i, part) ==
  i + Len(part) - 1 <= Len(text) /\ SubSeq(text, i, i + Len(part) - 1) = part

Has(text, part) == \E i \in DOMAIN text : IsAt(text, i, part)

(* The pieces of text between the separators, which never overlap; the     *)
(* last piece is the rest.                                                 *)
Pieces(text, part) ==
  LET cuts == SetToSortSeq({i \in DOMAIN text : IsAt(text, i, part)}, <)
  IN  [k \in 1 .. Len(cuts) + 1 |->
         SubSeq(text, IF k = 1 THEN 1 ELSE cuts[k - 1] + Len(part),
                      IF k > Len(cuts) THEN Len(text) ELSE cuts[k] - 1)]

(* Both event stream readers know the line end once an event is complete. *)
SeparatorOf(text) ==
  IF Has(text, CRLF \o CRLF) THEN CRLF
  ELSE IF Has(text, <<LF, LF>>) THEN <<LF>> ELSE <<>>

(* SseParser: the data lines of an event are one payload, whatever else    *)
(* the event has.                                                          *)
IsData(line) == line # <<>> /\ line[1][1] \in {"json", "first", "second"}

\* Mutant: every data line is a payload of its own, and the last one counts.
PayloadOfLastLine(event, sep) ==
  LET lines == SelectSeq(Pieces(event, sep), IsData)
  IN  IF lines = <<>> THEN <<>> ELSE Last(lines)

Payload(event, sep) == FlattenSeq(SelectSeq(Pieces(event, sep), IsData))

(* QMcpClientSse: the first line tells what the event is, the second is    *)
(* its data.  Any other first line is a comment or unknown.                *)
SecondLine(event, sep) ==
  LET lines == Pieces(event, sep)
  IN  IF lines[1] = <<Token("event")>> /\ IsData(lines[2]) THEN lines[2] ELSE <<>>

ReadEvents(text, sep, TextOf(_, _)) ==
  LET pieces == Pieces(text, sep \o sep)
  IN  [heard |-> Heard([i \in 1 .. Len(pieces) - 1 |-> TextOf(pieces[i], sep)]),
       data  |-> Last(pieces)]

(* The stdio readers: a line is a message. *)
ReadLines(text) ==
  LET lines == Pieces(text, <<LF>>)
  IN  [heard |-> Heard(Front(lines)), data |-> Last(lines)]
-----------------------------------------------------------------------------
(***************************************************************************)
(* parseHttpRequest().  Headers are read once a line is complete, whether  *)
(* they are complete or not; where they end in the middle of a line the    *)
(* loop over them starts again at the request line and never ends.  What   *)
(* does not begin with a request line is kept and never handled.           *)
(***************************************************************************)
HeadersEnd(text) ==
  LET blank == {i \in DOMAIN text : IsAt(text, i, <<LF, CR>>)}
  IN  IF blank # {} THEN CHOOSE i \in blank : \A j \in blank : i <= j
      ELSE IF Last(text) = LF THEN Len(text) ELSE 0

HasLength(text) == \E i \in 1 .. HeadersEnd(text) : text[i] = Token("length")

(* The request of text is handled: its slot gets all of text as the body. *)
Handled(body) == [heard |-> Heard(<<body>>), data |-> <<>>,
                  request |-> FALSE, reading |-> TRUE]

Waiting(text, begun) == [heard |-> <<>>, data |-> text,
                         request |-> begun, reading |-> TRUE]

Body(body, length) ==
  IF Len(body) < length THEN Waiting(body, TRUE) ELSE Handled(body)

HasRequestLine(text) == Has(text, <<LF>>) /\ Head(text) = Token("request")

\* Mutant: a request is handled when its headers are read.
ReadRequestAtOnce(text) ==
  IF request THEN Handled(text)
  ELSE IF ~HasRequestLine(text) THEN Waiting(text, FALSE)
  ELSE Handled(SubSeq(text, HeadersEnd(text) + 3, Len(text)))

ReadRequest(text) ==
  IF request THEN Body(text, 2)
  ELSE IF ~HasRequestLine(text) THEN Waiting(text, FALSE)
  ELSE IF HeadersEnd(text) = 0
    THEN [Waiting(text, FALSE) EXCEPT !.reading = FALSE]
  ELSE Body(SubSeq(text, HeadersEnd(text) + 3, Len(text)),
            IF HasLength(text) THEN 2 ELSE 0)
-----------------------------------------------------------------------------
NewStream ==
  /\ eol' \in IF reader = "parseHttpRequest" THEN {CRLF} ELSE {CRLF, <<LF>>}
  /\ wire' = <<>>

Init ==
  /\ reader \in Readers
  /\ eol \in IF reader = "parseHttpRequest" THEN {CRLF} ELSE {CRLF, <<LF>>}
  /\ wire = <<>> /\ data = <<>> /\ separator = <<>>
  /\ request = FALSE /\ reading = TRUE
  /\ stale = 0
  /\ heard = <<>>
  /\ sent = 0 /\ fillers = 0 /\ streams = 1

(* The other side. *)
CanWrite == reader = "QMcpServerStdio" => reading

Write(m) ==
  /\ CanWrite
  /\ sent < MaxSent /\ sent' = sent + 1
  /\ \E frame \in Frames(m) : wire' = wire \o frame
  /\ UNCHANGED <<reader, eol, data, separator, request, reading, stale, heard,
                 fillers, streams>>

(* No comment meets the remains of an event, which would leave it without  *)
(* a second line: a legacy stream begins with the endpoint event.          *)
WriteFiller ==
  /\ CanWrite
  /\ reader = "QMcpClientSse" => stale = 0
  /\ reader # "parseHttpRequest"
  /\ fillers < MaxFillers /\ fillers' = fillers + 1
  /\ wire' = wire \o Filler
  /\ UNCHANGED <<reader, eol, data, separator, request, reading, stale, heard,
                 sent, streams>>

(* What may arrive at once: anything, but nothing of the next request,     *)
(* since clients wait for the answer.                                      *)
Chunks ==
  {n \in DOMAIN wire :
     reader = "parseHttpRequest" =>
       /\ \A i \in 2 .. n : wire[i] # Token("request")
       /\ HeadersArriveWhole /\ ~request =>
            Has(SubSeq(wire, 1, n), CRLF \o CRLF)}

(* What the reader makes of text, as far as it differs between readers. *)
Read(text) ==
  LET kept   == [separator |-> separator, request |-> request, reading |-> TRUE]
      nothing == [heard |-> <<>>, data |-> text]
      sep    == IF separator = <<>> THEN SeparatorOf(text) ELSE separator
  IN  CASE reader = "SseParser" ->
             (IF sep = <<>> THEN nothing ELSE ReadEvents(text, sep, Payload))
               @@ [kept EXCEPT !.separator = sep]
        [] reader = "QMcpClientSse" ->
             (IF SeparatorOf(text) = <<>> THEN nothing
              ELSE ReadEvents(text, SeparatorOf(text), SecondLine)) @@ kept
        [] reader \in LineReaders -> ReadLines(text) @@ kept
        [] OTHER -> ReadRequest(text) @@ kept

ReadyRead ==
  /\ reading
  /\ \E n \in Chunks : \E text \in {data \o SubSeq(wire, 1, n)} :
       \E result \in {Read(text)} :
         /\ wire' = SubSeq(wire, n + 1, Len(wire))
         /\ heard' = heard \o result.heard
         /\ data' = result.data
         /\ separator' = result.separator
         /\ request' = result.request
         /\ reading' = result.reading
         /\ stale' = IF data' = text THEN stale ELSE 0
  /\ UNCHANGED <<reader, eol, sent, fillers, streams>>

(* The stream ends.  Standard input ends for good, and its reader is       *)
(* disabled; the others may be started again, or get a new connection.     *)
(* SseParser and ParseData are new then, the static buffers of the two     *)
(* other clients are not.                                                  *)
KeepsBuffer == reader \in {"QMcpClientSse", "QMcpClientStdio"}

Ends ==
  /\ streams < MaxStreams /\ streams' = streams + 1
  /\ NewStream
  /\ reading' = (reader # "QMcpServerStdio")
  /\ request' = FALSE
  /\ separator' = <<>>
  /\ data' = IF KeepsBuffer THEN data ELSE <<>>
  /\ stale' = Len(data')
  /\ UNCHANGED <<reader, heard, sent, fillers>>

Next ==
  \/ \E m \in Messages : Write(m)
  \/ WriteFiller
  \/ ReadyRead
  \/ Ends

(* The event loop hands on what has arrived: weak fairness of ReadyRead.   *)
FairSpec == Init /\ [][Next]_vars /\ WF_vars(ReadyRead)

(* The same, with the condition under which ReadyRead is enabled spelled   *)
(* out, which TLC evaluates much faster than ENABLED.                      *)
Readable == reading /\ Chunks # {}

Fairness == []<>~Readable \/ []<><<ReadyRead>>_vars

Spec == Init /\ [][Next]_vars /\ Fairness
-----------------------------------------------------------------------------
(***************************************************************************)
(* However what is sent is cut into chunks, the messages of a stream are   *)
(* heard whole, once and in order; and where the remains of a stream are   *)
(* kept for the next one, that costs at most the first message of it.      *)
(***************************************************************************)
Pending == MessagesIn(SubSeq(data, stale + 1, Len(data)) \o wire)

Stream == INSTANCE MessageStream WITH
  keepsRemains <- KeepsBuffer,
  pending <- Pending,
  torn <- stale > 0,
  late <- ToSet(MessagesIn(SubSeq(data, 1, stale)))

Delivered == Stream!Spec

(* What is written is heard in the end, unless its stream ends first.      *)
AllIsHeard == Pending # <<>> ~> Pending = <<>>
=============================================================================

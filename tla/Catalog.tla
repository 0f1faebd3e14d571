------------------------------- MODULE Catalog --------------------------------
(***************************************************************************)
(* The lists a server offers and how clients learn that they changed:      *)
(* tools, registered at the server for every session (registerToolSet(),   *)
(* registerTool() of qmcpserver.cpp), resources and prompts, edited per    *)
(* session (qmcpserversession.cpp), the list requests, the timers that     *)
(* gather changes, and the notifications of both lifecycles, which flow    *)
(* freely before 2026-07-28 and on request (subscriptions/listen) since.   *)
(*                                                                         *)
(* A client reads lists when it likes and again whenever it is told of a   *)
(* change.  What it knows is the answer to its latest request; on HTTP an  *)
(* older answer may arrive after it and is left aside.                     *)
(***************************************************************************)
EXTENDS Naturals, Sequences, SequencesExt, FiniteSets

CONSTANTS
  Sessions,
  ToolSets,    \* QObjects registered as tool sets, with a tool each
  Actions,     \* QActions registered as tools
  Self,        \* the server, when it is a subclass with tools of its own
  Items,       \* prompts and resources
  PageSize,
  MaxEdits,    \* bound: registrations and edits
  Filters,     \* the filters clients listen with
  MaxListens   \* bound: subscriptions/listen and resources/subscribe requests

ASSUME CatalogAssumption ==
  /\ PageSize \in Nat \ {0}
  /\ {MaxEdits, MaxListens} \subseteq Nat
  /\ ToolSets \cap Actions = {} /\ Self \cap (ToolSets \cup Actions) = {}
  /\ IsFiniteSet(Self)
  /\ Filters \subseteq SUBSET ({"resources", "prompts", "tools"} \cup Items)

VARIABLES
  toolSets,     \* QMcpServer::Private::toolSets
  actions,      \* QMcpServer::Private::actions
  known,        \* QMcpServer::Private::sessions
  modern,       \* per session: 2026-07-28 or later
  initialized,
  entries,      \* per session and list, what it holds
  armed,        \* per session, the lists whose timer runs
  filter,       \* per session, the filter of its subscriptions/listen, which
                \* is empty before the first one
  subscribed,   \* per session, resources/subscribe
  stream,       \* per session, whether the client can be reached
  toClient,     \* per session, the notifications on their way
  read,         \* per session and list, what the client read last
  covered,      \* per session, the lists the client read while it
                \* would be told of changes
  walk,         \* per session, the prompts read page by page
  edits, listens

catalog == <<toolSets, actions, known, modern, initialized, entries, armed,
             filter, subscribed>>

client == <<stream, toClient, read, covered, walk>>

vars == <<catalog, client, edits, listens>>

Lists == {"resources", "prompts", "tools"}

Providers == Self \cup ToolSets \cup Actions

NoWalk == [of |-> <<>>, pages |-> <<>>, cursor |-> 0, steady |-> TRUE]

Init ==
  /\ toolSets = {} /\ actions = {}
  /\ known = {}
  /\ modern = [s \in Sessions |-> TRUE]
  /\ initialized = [s \in Sessions |-> FALSE]
  /\ entries = [s \in Sessions |-> [l \in Lists |-> <<>>]]
  /\ armed = [s \in Sessions |-> {}]
  /\ filter = [s \in Sessions |-> {}]
  /\ subscribed = [s \in Sessions |-> {}]
  /\ stream = [s \in Sessions |-> FALSE]
  /\ toClient = [s \in Sessions |-> <<>>]
  /\ read = [s \in Sessions |-> [l \in Lists |-> <<>>]]
  /\ covered = [s \in Sessions |-> {}]
  /\ walk = [s \in Sessions |-> NoWalk]
  /\ edits = 0
  /\ listens = 0
-----------------------------------------------------------------------------
(***************************************************************************)
(* Sessions.                                                               *)
(***************************************************************************)

\* Mutant: a new session starts without the tools.
NewSessionEmpty(s) ==
  /\ s \notin known
  /\ known' = known \cup {s}
  /\ UNCHANGED <<toolSets, actions, modern, initialized, entries, armed,
                 filter, subscribed, client, edits, listens>>

(* newSessionStarted: a session starts with the tools of the server itself *)
(* and every known tool set and action, in the arbitrary order of a QHash. *)
NewSession(s) ==
  /\ s \notin known
  /\ known' = known \cup {s}
  /\ \E own \in SetToSeqs(Self), sets \in SetToSeqs(toolSets), acts \in SetToSeqs(actions) :
       entries' = [entries EXCEPT ![s]["tools"] = own \o sets \o acts]
  /\ UNCHANGED <<toolSets, actions, modern, initialized, armed, filter,
                 subscribed, client, edits, listens>>

(* The handshake and notifications/initialized, or the _meta of a first    *)
(* request.                                                                *)
Initialize(s) ==
  /\ s \in known /\ ~initialized[s]
  /\ \E m \in BOOLEAN : modern' = [modern EXCEPT ![s] = m]
  /\ initialized' = [initialized EXCEPT ![s] = TRUE]
  /\ UNCHANGED <<toolSets, actions, known, entries, armed, filter, subscribed,
                 client, edits, listens>>

(* The backend attaches or loses the event stream of a session; what is    *)
(* sent without one is dropped.                                            *)
OpenStream(s) ==
  /\ s \in known /\ ~stream[s]
  /\ stream' = [stream EXCEPT ![s] = TRUE]
  /\ UNCHANGED <<catalog, toClient, read, covered, walk, edits, listens>>

CloseStream(s) ==
  /\ stream[s]
  /\ stream' = [stream EXCEPT ![s] = FALSE]
  /\ toClient' = [toClient EXCEPT ![s] = <<>>]
  /\ covered' = [covered EXCEPT ![s] = {}]
  /\ UNCHANGED <<catalog, read, walk, edits, listens>>

Told(s, notification) ==
  toClient' = [toClient EXCEPT ![s] =
                 IF stream[s] THEN Append(@, notification) ELSE @]
-----------------------------------------------------------------------------
(***************************************************************************)
(* Changes.  notifyChanged() starts the timer of a list only once the      *)
(* session is initialized.                                                 *)
(***************************************************************************)
Edit == edits < MaxEdits /\ edits' = edits + 1

\* Mutant: the timer of an uninitialized session is started too.
ArmedEarly(list, changed) ==
  armed' = [s \in Sessions |->
              IF s \in changed THEN armed[s] \cup {list} ELSE armed[s]]

Armed(list, changed) ==
  armed' = [s \in Sessions |->
              IF s \in changed /\ initialized[s] THEN armed[s] \cup {list}
              ELSE armed[s]]

WithTools(changed, Changed(_)) ==
  /\ Edit
  /\ entries' = [s \in Sessions |->
                   IF s \in changed
                   THEN [entries[s] EXCEPT !["tools"] = Changed(@)]
                   ELSE entries[s]]
  /\ Armed("tools", changed)
  /\ UNCHANGED <<known, modern, initialized, filter, subscribed, client, listens>>

(* registerToolSet(), registerTool(): appended to every session, also when *)
(* it is there already.                                                    *)
Register(provider) ==
  LET Appended(tools) == Append(tools, provider)
  IN  WithTools(known, Appended)

RegisterToolSet(t) ==
  toolSets' = toolSets \cup {t} /\ Register(t) /\ UNCHANGED actions

RegisterTool(a) ==
  actions' = actions \cup {a} /\ Register(a) /\ UNCHANGED toolSets

Holders(provider) == {s \in known : provider \in ToSet(entries[s]["tools"])}

(* Of a tool set every entry is removed, of an action the last one.        *)
Without(tools, t) ==
  LET kept[i \in 0 .. Len(tools)] ==
        IF i = 0 THEN <<>>
        ELSE IF tools[i] = t THEN kept[i - 1] ELSE Append(kept[i - 1], tools[i])
  IN  kept[Len(tools)]

UnregisterToolSet(t) ==
  LET Others(tools) == Without(tools, t)
  IN  /\ toolSets' = toolSets \ {t}
      /\ WithTools(Holders(t), Others)
      /\ UNCHANGED actions

LastIndexOf(tools, a) ==
  CHOOSE i \in DOMAIN tools :
    tools[i] = a /\ \A j \in DOMAIN tools : tools[j] = a => j <= i

UnregisterTool(a) ==
  LET Others(tools) == RemoveAt(tools, LastIndexOf(tools, a))
  IN  /\ actions' = actions \ {a}
      /\ WithTools(Holders(a), Others)
      /\ UNCHANGED toolSets

Inserted(seq) ==
  {InsertAt(seq, i, item) : i \in 1 .. Len(seq) + 1, item \in Items}

Removed(seq) == {RemoveAt(seq, i) : i \in DOMAIN seq}

Replaced(seq) == {[seq EXCEPT ![i] = item] : i \in DOMAIN seq, item \in Items}

EditList(s, list, Edits(_)) ==
  /\ s \in known
  /\ Edit
  /\ \E new \in Edits(entries[s][list]) :
       entries' = [entries EXCEPT ![s][list] = new]
  /\ UNCHANGED <<toolSets, actions, known, modern, initialized, filter,
                 subscribed, client, listens>>

(* appendPrompt(), insertPrompt(), removePromptAt(), and the same of       *)
(* resources.                                                              *)
InsertOrRemove(s) ==
  LET Edits(seq) == Inserted(seq) \cup Removed(seq)
  IN  \E list \in {"resources", "prompts"} :
        EditList(s, list, Edits) /\ Armed(list, {s})

\* Mutant: a replaced prompt is taken for the same prompt.
ReplacePromptUnannounced(s) ==
  EditList(s, "prompts", Replaced) /\ UNCHANGED armed

ReplacePrompt(s) == EditList(s, "prompts", Replaced) /\ Armed("prompts", {s})

(* replaceResource() announces the resource at once, to sessions that      *)
(* asked for it.                                                           *)
Wants(s, uri) ==
  /\ initialized[s]
  /\ uri \in IF modern[s] THEN filter[s] ELSE subscribed[s]

ReplaceResource(s) ==
  /\ s \in known
  /\ Edit
  /\ \E i \in DOMAIN entries[s]["resources"], uri \in Items :
       /\ entries' = [entries EXCEPT ![s]["resources"][i] = uri]
       /\ IF Wants(s, uri) THEN Told(s, uri) ELSE UNCHANGED toClient
       /\ covered' = [covered EXCEPT ![s] =
                        IF entries'[s] # entries[s] THEN @ \ {"resources"} ELSE @]
  /\ UNCHANGED <<toolSets, actions, known, modern, initialized, armed, filter,
                 subscribed, stream, read, walk, listens>>

\* Mutant: sessions of either lifecycle are told what they listen to.
MayTellListeners(s, list) == initialized[s] /\ list \in filter[s]

MayTell(s, list) ==
  /\ initialized[s]
  /\ modern[s] => list \in filter[s]

(* The timer of a list fires: resourceListChanged(), promptListChanged(),  *)
(* toolListChanged().                                                      *)
TimerFires(s) ==
  /\ \E list \in armed[s] :
       /\ armed' = [armed EXCEPT ![s] = @ \ {list}]
       /\ IF MayTell(s, list) THEN Told(s, list) ELSE UNCHANGED toClient
  /\ UNCHANGED <<toolSets, actions, known, modern, initialized, entries, filter,
                 subscribed, stream, read, covered, walk, edits, listens>>
-----------------------------------------------------------------------------
(***************************************************************************)
(* Requests of the client.                                                 *)
(***************************************************************************)

(* subscriptions/listen: the filter replaces the one before, and the       *)
(* acknowledgement is sent before the answer.  The backend opened the      *)
(* stream before it passed the request on.                                 *)
Listen(s) ==
  /\ initialized[s] /\ stream[s]
  /\ listens < MaxListens /\ listens' = listens + 1
  /\ \E f \in Filters :
       /\ filter' = [filter EXCEPT ![s] = f]
       /\ covered' = [covered EXCEPT ![s] = IF modern[s] THEN @ \cap f ELSE @]
  /\ Told(s, "acknowledged")
  /\ UNCHANGED <<toolSets, actions, known, modern, initialized, entries, armed,
                 subscribed, stream, read, walk, edits>>

(* resources/subscribe and resources/unsubscribe, removed in 2026-07-28. *)
Subscribe(s) ==
  /\ initialized[s] /\ ~modern[s]
  /\ listens < MaxListens /\ listens' = listens + 1
  /\ \E uris \in {subscribed[s] \cup {uri} : uri \in Items}
                  \cup {subscribed[s] \ {uri} : uri \in Items} :
       subscribed' = [subscribed EXCEPT ![s] = uris]
  /\ UNCHANGED <<toolSets, actions, known, modern, initialized, entries, armed,
                 filter, client, edits>>

(* resources() and prompts(): one page from the cursor on, and the cursor  *)
(* of the next page, or 0.  A cursor beyond the end starts again.        *)
StartIndex(seq, cursor) == IF cursor >= Len(seq) THEN 0 ELSE cursor

EndIndex(seq, cursor) ==
  IF StartIndex(seq, cursor) + PageSize < Len(seq)
    THEN StartIndex(seq, cursor) + PageSize ELSE Len(seq)

Page(seq, cursor) ==
  SubSeq(seq, StartIndex(seq, cursor) + 1, EndIndex(seq, cursor))

\* Mutant: the next page starts behind its first entry.
NextCursorBeyond(seq, cursor) ==
  IF EndIndex(seq, cursor) < Len(seq) THEN EndIndex(seq, cursor) + 1 ELSE 0

NextCursor(seq, cursor) ==
  IF EndIndex(seq, cursor) < Len(seq) THEN EndIndex(seq, cursor) ELSE 0

(* The answer to a list request without a cursor: all tools, whose names   *)
(* put them in order, the first page of prompts, and the only page of      *)
(* resources there is.  The order of tools is left as it is here.          *)
Listed(s, list) ==
  IF list = "tools" THEN entries[s]["tools"] ELSE Page(entries[s][list], 0)

(* What a client may count on: with a stream it is told of every list      *)
(* before 2026-07-28, and of the lists of its filter since.                *)
Promised(s, list) == stream[s] /\ (modern[s] => list \in filter[s])

Read(s, list) ==
  /\ initialized[s]
  /\ read' = [read EXCEPT ![s][list] = Listed(s, list)]
  /\ covered' = [covered EXCEPT ![s] = IF Promised(s, list) THEN @ \cup {list} ELSE @]

ReadList(s) ==
  /\ \E list \in Lists : Read(s, list)
  /\ UNCHANGED <<catalog, stream, toClient, walk, edits, listens>>

(* A client that is told of a change reads the list again. *)
Refresh(s) ==
  /\ toClient[s] # <<>>
  /\ toClient' = [toClient EXCEPT ![s] = Tail(@)]
  /\ IF Head(toClient[s]) \in Lists THEN Read(s, Head(toClient[s]))
     ELSE UNCHANGED <<read, covered>>
  /\ UNCHANGED <<catalog, stream, walk, edits, listens>>

(* prompts/list page by page: from the start, or on with the last cursor.  *)
ReadPage(s) ==
  /\ initialized[s]
  /\ LET prompts == entries[s]["prompts"]
         cursor  == walk[s].cursor
         before  == IF cursor = 0 THEN <<>> ELSE walk[s].pages
         of      == IF cursor = 0 THEN prompts ELSE walk[s].of
     IN  walk' = [walk EXCEPT ![s] =
                    [of |-> of, pages |-> before \o Page(prompts, cursor),
                     cursor |-> NextCursor(prompts, cursor),
                     steady |-> of = prompts /\ (cursor = 0 \/ walk[s].steady)]]
  /\ UNCHANGED <<catalog, stream, toClient, read, covered, edits, listens>>
-----------------------------------------------------------------------------
Next ==
  \/ \E t \in ToolSets : RegisterToolSet(t) \/ UnregisterToolSet(t)
  \/ \E a \in Actions : RegisterTool(a) \/ UnregisterTool(a)
  \/ \E s \in Sessions :
       \/ NewSession(s)
       \/ Initialize(s)
       \/ OpenStream(s)
       \/ CloseStream(s)
       \/ InsertOrRemove(s)
       \/ ReplacePrompt(s)
       \/ ReplaceResource(s)
       \/ TimerFires(s)
       \/ Listen(s)
       \/ Subscribe(s)
       \/ ReadList(s)
       \/ Refresh(s)
       \/ ReadPage(s)

(* A timer of 0 ms fires with the next turn of the event loop, and the     *)
(* client handles what it is told.                                         *)
Fairness == \A s \in Sessions : WF_vars(TimerFires(s)) /\ WF_vars(Refresh(s))

Spec == Init /\ [][Next]_vars /\ Fairness
-----------------------------------------------------------------------------
TypeOK ==
  /\ toolSets \subseteq ToolSets /\ actions \subseteq Actions
  /\ known \subseteq Sessions
  /\ {modern, initialized, stream} \subseteq [Sessions -> BOOLEAN]
  /\ \A s \in Sessions :
       /\ entries[s]["tools"] \in Seq(Providers)
       /\ \A list \in Lists \ {"tools"} : entries[s][list] \in Seq(Items)
       /\ armed[s] \subseteq Lists
       /\ s \notin known => ~initialized[s] /\ ~stream[s]
       /\ ~initialized[s] => armed[s] = {} /\ filter[s] = {}
       /\ subscribed[s] \subseteq Items
       /\ toClient[s] \in Seq(Lists \cup Items \cup {"acknowledged"})
       /\ ~stream[s] => toClient[s] = <<>>
       /\ covered[s] \subseteq Lists

(* A client that read a list while it would be told of changes knows the   *)
(* current list as soon as no timer runs and nothing is on its way, however *)
(* changes, notifications and requests interleave.                         *)
CoveredListsAreCurrent ==
  \A s \in Sessions : \A list \in covered[s] :
    \/ read[s][list] = Listed(s, list)
    \/ list \in armed[s]
    \/ list \in ToSet(toClient[s])

(* Every session offers the server's own tools, the registered tool sets   *)
(* and actions, and no tool set that is not registered, whenever it        *)
(* started: clients of the stateless lifecycle read lists on one session   *)
(* and are told of changes on another.                                     *)
ToolsFollowRegistrations ==
  \A s \in known :
    LET offered == ToSet(entries[s]["tools"])
    IN  offered \cap ToolSets = toolSets /\ Self \cup actions \subseteq offered

(* Following the cursors of a list that does not change gives each entry   *)
(* once, in order.                                                         *)
PagesMakeTheList ==
  \A s \in Sessions :
    walk[s].steady =>
      /\ walk[s].pages = SubSeq(walk[s].of, 1, Len(walk[s].pages))
      /\ walk[s].cursor = 0 => walk[s].pages = walk[s].of

(* A client that would be told of changes learns of them in the end.       *)
ChangesReachTheClient ==
  \A s \in Sessions : \A list \in Lists :
    list \in covered[s] /\ read[s][list] # Listed(s, list)
      ~> list \notin covered[s] \/ read[s][list] = Listed(s, list)
=============================================================================

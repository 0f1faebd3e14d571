--------------------------- MODULE MessageExchange ---------------------------
(***************************************************************************)
(* One object on its way from one peer to the other: the application fills *)
(* it, toJsonObject() writes it at the revision the sender believes in,    *)
(* and fromJsonObject() reads it at the receiver's.  The two differ while  *)
(* the revision is negotiated and for every message in flight then: a      *)
(* session starts at the latest revision (qmcpserversession.cpp) and a     *)
(* client reads the answer to initialize before it adopts the revision in  *)
(* it (qmcpclient.cpp).                                                    *)
(*                                                                         *)
(* The object is a plain one, with its class as the only variant, or a     *)
(* union, which holds a value of each variant and the name (refType) of    *)
(* the one that counts.                                                    *)
(***************************************************************************)
EXTENDS Gadget, Sequences

CONSTANTS
  Classes,      \* the classes by name
  Unions,       \* the unions by name
  MaxChanged,   \* bound: properties that differ from their default
  MaxSets,      \* bound: calls of a union's setters
  None

ASSUME ExchangeAssumption ==
  /\ MaxChanged \in Nat /\ MaxSets \in Nat
  /\ \A u \in DOMAIN Unions : Unions[u].variants \subseteq DOMAIN Classes
  /\ DOMAIN Classes \cap DOMAIN Unions = {}
  /\ None \notin DOMAIN Classes \cup DOMAIN Unions
  /\ \A c \in DOMAIN Classes : WellFormed(Classes[c])

(***************************************************************************)
(* What lets a reader tell the variants of a union apart: what each of     *)
(* them writes at every revision, and which keys it may have at all.       *)
(***************************************************************************)
Always(class) ==
  {p \in class : p.required /\ p.since = V2024_11_05 /\ ~p.formOnly}

Keys(properties) == {p.key : p \in properties}

Says(class, key, values) ==
  \E p \in Always(class) :
    p.key = key /\ p.name = key /\ p.values \cup {p.default} \subseteq values

(* No other variant accepts what this one writes, and this one does.       *)
ToldByProperties(variants, c) ==
  /\ \A p \in Classes[c] : p.key = p.name /\ (p.required => p \in Always(Classes[c]))
  /\ \A d \in variants \ {c} : \E p \in Classes[d] :
       p.required /\ p.name \notin Names(Classes[c])

ContentType ==
  [QMcpTextContent |-> "text", QMcpImageContent |-> "image",
   QMcpAudioContent |-> "audio", QMcpEmbeddedResource |-> "resource",
   QMcpResourceLink |-> "resource_link", QMcpToolUseContent |-> "tool_use",
   QMcpToolResultContent |-> "tool_result"]

ToldByContent(union, c) ==
  /\ c \in DOMAIN ContentType
  /\ Says(Classes[c], "type", {ContentType[c]})
  /\ c = "QMcpResourceLink" => union.find = "linkType"
  /\ c \in {"QMcpToolUseContent", "QMcpToolResultContent"} => union.find = "toolType"
  /\ IF c \in {"QMcpImageContent", "QMcpAudioContent"}
       THEN Says(Classes[c], "mimeType", MediaTypes)
       ELSE c \in {"QMcpTextContent", "QMcpEmbeddedResource"} =>
              /\ "mimeType" \notin Keys(Classes[c])
              /\ ToldByProperties(union.variants, c)

ToldBySchema(c) ==
  LET class == Classes[c]
  IN  \/ c = "QMcpBooleanSchema" /\ Says(class, "type", {"boolean"})
      \/ c = "QMcpNumberSchema" /\ Says(class, "type", {"integer", "number"})
      \/ /\ Says(class, "type", {"string"})
         /\ \/ c = "QMcpTitledSingleSelectEnumSchema" /\ "oneOf" \in Keys(Always(class))
            \/ /\ "oneOf" \notin Keys(class)
               /\ \/ c = "QMcpStringSchema" /\ "enum" \notin Keys(class)
                  \/ /\ c = "QMcpUntitledSingleSelectEnumSchema"
                     /\ "enum" \in Keys(Always(class)) /\ "enumNames" \notin Keys(class)
                  \/ /\ c = "QMcpEnumSchema"
                     /\ "enum" \in Keys(Always(class))
                     /\ \E p \in class :
                          /\ p.key = "enumNames" /\ p.name = "enumNames"
                          /\ p.since = V2024_11_05 /\ ~p.formOnly /\ p.default = "default"
      \/ /\ Says(class, "type", {"array"})
         /\ \/ c = "QMcpTitledMultiSelectEnumSchema" /\ Says(class, "items", {"anyOf"})
            \/ c = "QMcpUntitledMultiSelectEnumSchema" /\ Says(class, "items", {"enum"})

TellsApart(union) ==
  /\ union.find \in {"schemaType", "properties", "mediaType", "linkType", "toolType"}
  /\ \A c \in union.variants :
       /\ "mode" \notin Names(Classes[c])
       /\ CASE union.find = "schemaType" -> ToldBySchema(c)
            [] union.find = "properties" -> ToldByProperties(union.variants, c)
            [] OTHER -> ToldByContent(union, c)

ASSUME UnionsAssumption == \A u \in DOMAIN Unions : TellsApart(Unions[u])

VARIABLES
  object,   \* the sender's object: type, refType and values per variant
  sets,     \* what the application set, in order: <<[class, value], ...>>
  sent,     \* the message on the wire: [version, json]
  got       \* what the receiver made of it: [version, result]

vars == <<object, sets, sent, got>>

IsUnion(type) == type \in DOMAIN Unions

VariantsOf(type) == IF IsUnion(type) THEN Unions[type].variants ELSE {type}

Construct(type) ==
  [type |-> type, refType |-> IF IsUnion(type) THEN None ELSE type,
   values |-> [c \in VariantsOf(type) |-> Default(Classes[c])]]

Init ==
  /\ object = None
  /\ sets = <<>>
  /\ sent = None
  /\ got = None

Fill(type) ==
  /\ object = None
  /\ \E value \in Values(Classes[type], MaxChanged) :
       /\ object' = [Construct(type) EXCEPT !.values[type] = value]
       /\ sets' = <<[class |-> type, value |-> value]>>
  /\ UNCHANGED <<sent, got>>

(* A setter of a union returns at once when the value is the one it holds, *)
(* and names the variant only then, except in QMcpPrimitiveSchemaDefinition.*)
SetRefType(o, class, value) ==
  IF Unions[o.type].namesFirst \/ o.values[class] # value
    THEN [o EXCEPT !.refType = class, !.values[class] = value]
    ELSE o

SetVariant(type) ==
  /\ sent = None
  /\ object = None \/ (object # None /\ object.type = type)
  /\ Len(sets) < MaxSets
  /\ LET o == IF object = None THEN Construct(type) ELSE object
     IN  \E class \in Unions[type].variants :
           \E value \in Values(Classes[class], MaxChanged) :
             /\ object' = SetRefType(o, class, value)
             /\ sets' = Append(sets, [class |-> class, value |-> value])
  /\ UNCHANGED <<sent, got>>

(* QMcpAnyOf::toJsonObject(): an unset union is an empty object.           *)
Json(o, v) ==
  IF o.refType = None THEN EmptyObject
  ELSE ToJson(Classes[o.refType], o.values[o.refType], v)

Send ==
  /\ object # None
  /\ sent = None
  /\ \E v \in ProtocolVersion : sent' = [version |-> v, json |-> Json(object, v)]
  /\ UNCHANGED <<object, sets, got>>
-----------------------------------------------------------------------------
FromJson(type, json, v) ==
  IF MissesRequired(Classes[type], json, v)
    THEN Rejected
    ELSE Accepted(type, ReadValue(Classes[type], json, v))

(* findPropertyIndex() of the union's class.                               *)
FindPropertyIndex(union, json) ==
  CASE union.find = "mediaType" -> ByMediaType(json)
    [] union.find = "linkType" -> ByLinkType(json)
    [] union.find = "toolType" -> ByToolType(json)
    [] OTHER -> {}

(* The candidates for an object; only one will do.                         *)
Matches(union, json, v) ==
  IF union.find = "schemaType" THEN BySchemaType(json, v)
  ELSE IF FindPropertyIndex(union, json) # {} THEN FindPropertyIndex(union, json)
  ELSE {c \in union.variants : TypeMatches(Classes[c], json)}

AnyOfFromJson(union, json, v) ==
  IF Cardinality(Matches(union, json, v)) # 1
    THEN Rejected
    ELSE FromJson(CHOOSE c \in Matches(union, json, v) : TRUE, json, v)

Receive ==
  /\ sent # None
  /\ got = None
  /\ \E v \in ProtocolVersion :
       got' = [version |-> v,
               result |-> IF IsUnion(object.type)
                          THEN AnyOfFromJson(Unions[object.type], sent.json, v)
                          ELSE FromJson(object.type, sent.json, v)]
  /\ UNCHANGED <<object, sets, sent>>

Next ==
  \/ \E type \in DOMAIN Classes : Fill(type)
  \/ \E type \in DOMAIN Unions : SetVariant(type)
  \/ Send
  \/ Receive

Spec == Init /\ [][Next]_vars
-----------------------------------------------------------------------------
LastSet == sets[Len(sets)]

Meant(class) == LastSet.class = class

TypeOK ==
  /\ object # None =>
       /\ object.type \in DOMAIN Classes \cup DOMAIN Unions
       /\ object.refType \in VariantsOf(object.type) \cup {None}
       /\ \A c \in VariantsOf(object.type) :
            DOMAIN object.values[c] = Names(Classes[c])
  /\ Len(sets) <= MaxSets \/ Len(sets) = 1
  /\ sent # None => object # None /\ sent.version \in ProtocolVersion
  /\ got # None => sent # None /\ got.version \in ProtocolVersion

(* A message written at any revision is read at any other: what became     *)
(* mandatory later (resultType, cacheScope, ttlMs) is assumed, and what    *)
(* the reader does not know is ignored.  Only an elicitation in url mode,  *)
(* which the older revisions have no word for, is refused by them.         *)
MessagesAreRead ==
  got # None /\ ~IsUnion(object.type) =>
    \/ got.result.accepted
    \/ IsUrlMode(LastSet.value, sent.version) /\ got.version < V2025_11_25

(* What both revisions know of arrives as it was set; whatever one of them *)
(* lacks reads as never set, with the value the reader assumes for it.     *)
ArrivesAsSet ==
  got # None /\ ~IsUnion(object.type) /\ got.result.accepted =>
    \A p \in Classes[object.type] :
      LET value == LastSet.value
          read  == got.result.value
          both  == /\ Available(p, value, sent.version)
                   /\ Available(p, read, got.version)
      IN  read[p.name] =
            IF p.constant \/ both THEN value[p.name]
            ELSE IF p.assumed /\ got.version >= p.since THEN AssumedValue(p)
            ELSE p.default

(* The revision has the variant, and its media type says what it is. *)
TellsItself(class, value, v) ==
  /\ class \in {"QMcpTitledSingleSelectEnumSchema",
                "QMcpUntitledSingleSelectEnumSchema",
                "QMcpTitledMultiSelectEnumSchema",
                "QMcpUntitledMultiSelectEnumSchema"} => v >= V2025_11_25
  /\ class = "QMcpEnumSchema" /\ v >= V2025_11_25 => value["enumNames"] # "default"
  /\ class = "QMcpImageContent" => value["mimeType"] = "image/png"
  /\ class = "QMcpAudioContent" => value["mimeType"] = "audio/wav"

(* A union is read as the variant that was sent, whatever else the object  *)
(* carries.                                                                *)
VariantIsRecovered ==
  (/\ got # None
   /\ IsUnion(object.type)
   /\ object.refType # None
   /\ \A v \in {sent.version, got.version} :
        TellsItself(object.refType, object.values[object.refType], v))
  => got.result.accepted /\ got.result.class = object.refType
=============================================================================

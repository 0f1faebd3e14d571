------------------------------- MODULE Gadget --------------------------------
(***************************************************************************)
(* How the message types of src/src/mcpcommon become JSON objects and are  *)
(* read back: QMcpGadget (qmcpgadget.cpp) and QMcpAnyOf (qmcpanyof.cpp).   *)
(*                                                                         *)
(* A class is the set of its properties, inherited ones included, and a    *)
(* value of it a function from property names to values.  A property value *)
(* is abstract: "default" or "changed", or the few strings the code looks  *)
(* at (type, mode, mimeType, resultType).  A JSON object is a function     *)
(* from keys to values.  Objects inside objects are read and written by    *)
(* the same two functions and are values here.                             *)
(***************************************************************************)
EXTENDS Naturals, FiniteSets, FiniteSetsExt

(* QtMcp::ProtocolVersion, in the order the code compares revisions. *)
V2024_11_05 == 1
V2025_03_26 == 2
V2025_06_18 == 3
V2025_11_25 == 4
V2026_07_28 == 5

ProtocolVersion == V2024_11_05 .. V2026_07_28

(***************************************************************************)
(* Q_PROPERTY declarations.                                                *)
(***************************************************************************)
Property(name, values, default) ==
  [name |-> name, key |-> name, required |-> FALSE, constant |-> FALSE,
   since |-> V2024_11_05, formOnly |-> FALSE, assumed |-> FALSE,
   values |-> values, default |-> default]

Optional(names) == {Property(n, {"default", "changed"}, "default") : n \in names}

Required(names) == {[p EXCEPT !.required = TRUE] : p \in Optional(names)}

OneOf(name, values, default) == {Property(name, values, default)}

RequiredOneOf(name, values, default) ==
  {[p EXCEPT !.required = TRUE] : p \in OneOf(name, values, default)}

(* CONSTANT REQUIRED: written, and not read back. *)
Constant(name, value) ==
  {[p EXCEPT !.constant = TRUE] : p \in RequiredOneOf(name, {value}, value)}

MediaTypes == {"", "image/png", "audio/wav", "text/plain"}

MediaType == OneOf("mimeType", MediaTypes, "")
RequiredMediaType == RequiredOneOf("mimeType", MediaTypes, "")

(* isPropertyAvailable(): the properties exist from a revision on.         *)
Since(version, properties) == {[p EXCEPT !.since = version] : p \in properties}

(* QMcpElicitRequestParams: the property does not exist in url mode.       *)
FormOnly(properties) == {[p EXCEPT !.formOnly = TRUE] : p \in properties}

(* renamedKey(): the property is named differently in JSON.                *)
Key(key, properties) == {[p EXCEPT !.key = key] : p \in properties}

(* The reader supplies the value "default" stands for when it is absent.   *)
Assumed(properties) == {[p EXCEPT !.assumed = TRUE] : p \in properties}

(* resultType differs by the class of the result; an absent one is read as *)
(* "complete", whatever the class starts with.                             *)
ResultType(default) ==
  Assumed(RequiredOneOf("resultType",
                        {"complete", "input_required", "task"}, default))

(* A derived class, whose properties hide those of the same name.          *)
Extend(base, properties) ==
  properties \cup {p \in base : \A q \in properties : q.name # p.name}

(***************************************************************************)
(* What the classes have in common: a name and a key mean one property,    *)
(* and a property that is mandatory only in later revisions has a value    *)
(* the reader assumes.  A mode is read like any other property.            *)
(***************************************************************************)
Keyed(class) ==
  \A p \in class : \A q \in class : p.name = q.name \/ p.key = q.key => p = q

LateIsAssumed(class) ==
  \A p \in class :
    p.required /\ ~p.constant /\ ~p.assumed => p.since = V2024_11_05

PlainMode(class) ==
  \A p \in class :
    p.name = "mode" => /\ p.key = "mode"
                       /\ ~p.constant /\ ~p.formOnly /\ ~p.assumed
                       /\ p.since <= V2025_11_25
                       /\ p.default # "url"

Typed(class) ==
  \A p \in class :
    /\ p.since \in ProtocolVersion
    /\ {p.required, p.constant, p.formOnly, p.assumed} \subseteq BOOLEAN
    /\ p.assumed => p.required /\ ~p.formOnly

WellFormed(class) ==
  Typed(class) /\ Keyed(class) /\ LateIsAssumed(class) /\ PlainMode(class)

-----------------------------------------------------------------------------
(***************************************************************************)
(* Values.                                                                 *)
(***************************************************************************)
Names(class) == {p.name : p \in class}

Named(class, name) == CHOOSE p \in class : p.name = name

Default(class) == [n \in Names(class) |-> Named(class, n).default]

(* The values with at most max properties that differ from the default.    *)
Values(class, max) ==
  UNION {{[n \in Names(class) |-> IF n \in ns THEN f[n] ELSE Default(class)[n]] :
            f \in {g \in [ns -> UNION {p.values : p \in class}] :
                     \A n \in ns : g[n] \in Named(class, n).values}} :
         ns \in UNION {kSubset(k, {p.name : p \in {q \in class : ~q.constant}}) :
                       k \in 0 .. max}}

IsUrlMode(value, v) ==
  /\ v >= V2025_11_25
  /\ "mode" \in DOMAIN value
  /\ value["mode"] = "url"

Available(p, value, v) ==
  /\ v >= p.since
  /\ p.formOnly => ~IsUrlMode(value, v)

\* Mutant: properties of later revisions are written too.
WrittenEverywhere(class, value, v) ==
  {p \in class : p.required \/ value[p.name] # p.default}

(***************************************************************************)
(* QMcpGadget::toJsonObject(): every available property that is required   *)
(* or differs from its default, under its JSON key.                        *)
(***************************************************************************)
Written(class, value, v) ==
  {p \in class : /\ Available(p, value, v)
                 /\ p.required \/ value[p.name] # p.default}

ToJson(class, value, v) ==
  LET written == Written(class, value, v)
  IN  [k \in {p.key : p \in written} |->
         value[(CHOOSE p \in written : p.key = k).name]]

EmptyObject == [k \in {} |-> ""]

(***************************************************************************)
(* QMcpGadget::fromJsonObject(), into a fresh value: constants and         *)
(* unavailable properties are skipped, a missing required one rejects the  *)
(* object, and every other key is ignored.  The elicitation mode is read   *)
(* first, since it decides what is available.                              *)
(***************************************************************************)
Rejected == [accepted |-> FALSE]

Accepted(class, value) == [accepted |-> TRUE, class |-> class, value |-> value]

AssumedValue(p) == IF p.name = "resultType" THEN "complete" ELSE p.default

ModeFirst(class, json, v) ==
  IF v >= V2025_11_25 /\ "mode" \in Names(class) \cap DOMAIN json
    THEN [Default(class) EXCEPT !["mode"] = json["mode"]]
    ELSE Default(class)

Readable(class, json, v) ==
  {p \in class : ~p.constant /\ Available(p, ModeFirst(class, json, v), v)}

\* Mutant: the overrides that assume a value are gone.
MissesAnyRequired(class, json, v) ==
  \E p \in Readable(class, json, v) : p.required /\ p.key \notin DOMAIN json

MissesRequired(class, json, v) ==
  \E p \in Readable(class, json, v) :
    p.required /\ ~p.assumed /\ p.key \notin DOMAIN json

ReadValue(class, json, v) ==
  [n \in Names(class) |->
     LET p == Named(class, n)
     IN  IF p \notin Readable(class, json, v) THEN p.default
         ELSE IF p.key \in DOMAIN json THEN json[p.key]
         ELSE IF p.assumed THEN AssumedValue(p)
         ELSE p.default]
-----------------------------------------------------------------------------
(***************************************************************************)
(* Unions (QMcpAnyOf).  A union knows the classes of its variants, how     *)
(* findPropertyIndex() tells them apart, and whether its setters name the  *)
(* variant before they compare it.                                         *)
(***************************************************************************)
QMcpAnyOf == [variants |-> {}, find |-> "properties", namesFirst |-> FALSE]

Variants(base, classes) ==
  [base EXCEPT !.variants = base.variants \cup classes]

FindBy(how, union) == [union EXCEPT !.find = how]

NamesFirst(union) == [union EXCEPT !.namesFirst = TRUE]

Get(json, key) == IF key \in DOMAIN json THEN json[key] ELSE ""

ByMediaType(json) ==
  CASE Get(json, "mimeType") = "image/png" -> {"QMcpImageContent"}
    [] Get(json, "mimeType") = "audio/wav" -> {"QMcpAudioContent"}
    [] OTHER -> {}

\* Mutant: the media type is looked at first.
ByMediaTypeFirst(json) ==
  IF ByMediaType(json) # {} THEN ByMediaType(json)
  ELSE IF Get(json, "type") = "resource_link" THEN {"QMcpResourceLink"} ELSE {}

ByLinkType(json) ==
  IF Get(json, "type") = "resource_link"
    THEN {"QMcpResourceLink"} ELSE ByMediaType(json)

ByToolType(json) ==
  CASE Get(json, "type") = "tool_use" -> {"QMcpToolUseContent"}
    [] Get(json, "type") = "tool_result" -> {"QMcpToolResultContent"}
    [] OTHER -> ByMediaType(json)

StringSchemas(json, v) ==
  IF v >= V2025_11_25 /\ "oneOf" \in DOMAIN json
    THEN {"QMcpTitledSingleSelectEnumSchema"}
  ELSE IF "enum" \notin DOMAIN json THEN {"QMcpStringSchema"}
  ELSE IF v < V2025_11_25 \/ "enumNames" \in DOMAIN json THEN {"QMcpEnumSchema"}
  ELSE {"QMcpUntitledSingleSelectEnumSchema"}

BySchemaType(json, v) ==
  LET type == Get(json, "type")
  IN  CASE type = "boolean" -> {"QMcpBooleanSchema"}
        [] type \in {"integer", "number"} -> {"QMcpNumberSchema"}
        [] type = "string" -> StringSchemas(json, v)
        [] type = "array" /\ v >= V2025_11_25 /\ Get(json, "items") = "anyOf" ->
             {"QMcpTitledMultiSelectEnumSchema"}
        [] type = "array" /\ v >= V2025_11_25 /\ Get(json, "items") = "enum" ->
             {"QMcpUntitledMultiSelectEnumSchema"}
        [] OTHER -> {}

(* typeMatches(): by property names and in every revision.                 *)
TypeMatches(class, json) ==
  /\ DOMAIN json \subseteq Names(class)
  /\ \A p \in class : p.required => p.name \in DOMAIN json
=============================================================================

------------------------ MODULE MessageExchangeProofs ------------------------
(***************************************************************************)
(* What MessageExchange guarantees for every family of well-formed classes *)
(* (WellFormed of Gadget), every value and every pair of revisions: plain  *)
(* messages are read, and arrive as they were set, and the variants of a   *)
(* union that can be told apart (UnionsAssumption) are told apart.         *)
(***************************************************************************)
EXTENDS MessageExchange, FiniteSetTheorems, TLAPS

-----------------------------------------------------------------------------
(* Names determine properties.                                             *)
LEMMA NamedIs ==
  ASSUME NEW class, Keyed(class), NEW p \in class
  PROVE  Named(class, p.name) = p
BY DEF Named, Keyed

LEMMA NamedIn ==
  ASSUME NEW class, NEW n \in Names(class)
  PROVE  Named(class, n) \in class /\ Named(class, n).name = n
<1>1. PICK p \in class : p.name = n
  BY DEF Names
<1> QED
  BY <1>1 DEF Named

(* Values have the properties of their class, and constants are constant.  *)
IsValue(value, class) ==
  /\ DOMAIN value = Names(class)
  /\ \A p \in class : /\ p.constant => value[p.name] = p.default
                      /\ value[p.name] \in p.values \cup {p.default}

LEMMA ValuesAreValues ==
  ASSUME NEW class, Keyed(class), NEW max, NEW value \in Values(class, max)
  PROVE  IsValue(value, class)
<1> DEFINE Free == {p.name : p \in {q \in class : ~q.constant}}
           Chosen == UNION {kSubset(k, Free) : k \in 0 .. max}
           Changes(ns) == {g \in [ns -> UNION {p.values : p \in class}] :
                             \A n \in ns : g[n] \in Named(class, n).values}
           Changed(ns, f) == [n \in Names(class) |->
                                IF n \in ns THEN f[n] ELSE Default(class)[n]]
<1>a. value \in UNION {{Changed(ns, f) : f \in Changes(ns)} : ns \in Chosen}
  BY DEF Values
<1>b. \A ns \in Chosen : ns \in SUBSET Free
  <2> HIDE DEF Free
  <2> QED
    BY DEF kSubset
<1>c. PICK ns \in Chosen : value \in {Changed(ns, f) : f \in Changes(ns)}
  <2> HIDE DEF Chosen, Changes, Changed
  <2> QED
    BY <1>a
<1>d. PICK f \in Changes(ns) : value = Changed(ns, f)
  <2> HIDE DEF Chosen, Changes, Changed
  <2> QED
    BY <1>c
<1>1. value = [n \in Names(class) |->
                 IF n \in ns THEN f[n] ELSE Default(class)[n]]
  BY <1>d
<1>2. ns \subseteq Free
  BY <1>b
<1>3. ASSUME NEW p \in class, p.constant
      PROVE  value[p.name] = p.default
  <2>1. p.name \notin ns
    BY <1>2, <1>3 DEF Keyed
  <2>2. p.name \in Names(class)
    BY DEF Names
  <2>3. Default(class)[p.name] = p.default
    BY <2>2, NamedIs DEF Default
  <2> QED
    BY <1>1, <2>1, <2>2, <2>3
<1>4. ASSUME NEW p \in class
      PROVE  value[p.name] \in p.values \cup {p.default}
  <2>1. p.name \in Names(class) /\ Named(class, p.name) = p
    BY NamedIs DEF Names
  <2>2. Default(class)[p.name] = p.default
    BY <2>1 DEF Default
  <2>3. p.name \in ns => f[p.name] \in p.values
    BY <1>d, <2>1
  <2> QED
    BY <1>1, <2>1, <2>2, <2>3
<1> QED
  BY <1>1, <1>3, <1>4 DEF IsValue

LEMMA DefaultIsValue ==
  ASSUME NEW class, Keyed(class)
  PROVE  IsValue(Default(class), class)
<1>1. ASSUME NEW p \in class PROVE Default(class)[p.name] = p.default
  BY NamedIs DEF Default, Names
<1> QED
  BY <1>1 DEF IsValue, Default
-----------------------------------------------------------------------------
(* An object has the keys of what was written, with the values written.    *)
LEMMA Carries ==
  ASSUME NEW class, Keyed(class), NEW value, NEW v, NEW p \in class
  PROVE  /\ p \in Written(class, value, v)
              => /\ p.key \in DOMAIN ToJson(class, value, v)
                 /\ ToJson(class, value, v)[p.key] = value[p.name]
         /\ p \notin Written(class, value, v)
              => p.key \notin DOMAIN ToJson(class, value, v)
<1> DEFINE W == Written(class, value, v)
<1>1. W \subseteq class
  BY DEF Written
<1>2. DOMAIN ToJson(class, value, v) = {q.key : q \in W}
  BY DEF ToJson
<1>3. ASSUME p \in W
      PROVE  ToJson(class, value, v)[p.key] = value[p.name]
  <2>1. (CHOOSE q \in W : q.key = p.key) = p
    BY <1>1, <1>3 DEF Keyed
  <2> QED
    BY <1>3, <2>1 DEF ToJson
<1>4. ASSUME p \notin W PROVE p.key \notin {q.key : q \in W}
  BY <1>1, <1>4 DEF Keyed
<1> QED
  BY <1>2, <1>3, <1>4

(* The mode of an object that is read is known before the rest of it.      *)
LEMMA ModeIsKnown ==
  ASSUME NEW class, WellFormed(class), NEW json, NEW v \in ProtocolVersion
  PROVE  IsUrlMode(ModeFirst(class, json, v), v)
           <=> IsUrlMode(ReadValue(class, json, v), v)
<1> DEFINE first == ModeFirst(class, json, v)
           read  == ReadValue(class, json, v)
<1>0. DOMAIN first = Names(class) /\ DOMAIN read = Names(class)
  BY DEF ModeFirst, ReadValue, Default
<1>1. CASE v >= V2025_11_25 /\ "mode" \in Names(class)
  <2> DEFINE p == Named(class, "mode")
  <2>1. p \in class /\ p.name = "mode"
    BY <1>1, NamedIn
  <2>2. p.key = "mode" /\ ~p.constant /\ ~p.formOnly /\ ~p.assumed
        /\ p.since <= V2025_11_25 /\ p.since \in ProtocolVersion
    BY <2>1 DEF WellFormed, PlainMode, Typed
  <2>3. p \in Readable(class, json, v)
    BY <1>1, <2>1, <2>2 DEF Readable, Available, ProtocolVersion, V2024_11_05,
       V2025_11_25, V2026_07_28
  <2>4. read["mode"] = IF "mode" \in DOMAIN json THEN json["mode"] ELSE p.default
    BY <1>1, <2>2, <2>3 DEF ReadValue
  <2>5. first["mode"] = IF "mode" \in DOMAIN json THEN json["mode"] ELSE p.default
    BY <1>1 DEF ModeFirst, Default
  <2> QED
    BY <1>0, <2>4, <2>5 DEF IsUrlMode
<1>2. CASE ~(v >= V2025_11_25 /\ "mode" \in Names(class))
  BY <1>0, <1>2 DEF IsUrlMode
<1> QED
  BY <1>1, <1>2

(* A property is read exactly if the revision has it for what was read.    *)
LEMMA ReadableIs ==
  ASSUME NEW class, WellFormed(class), NEW json, NEW v \in ProtocolVersion,
         NEW p \in class
  PROVE  p \in Readable(class, json, v)
           <=> ~p.constant /\ Available(p, ReadValue(class, json, v), v)
BY ModeIsKnown DEF Readable, Available
-----------------------------------------------------------------------------
(* What the sender says about its own mode reaches the reader.             *)
LEMMA ModeArrives ==
  ASSUME NEW class, WellFormed(class), NEW value, IsValue(value, class),
         NEW v \in ProtocolVersion, NEW w \in ProtocolVersion,
         IsUrlMode(value, v), w >= V2025_11_25
  PROVE  IsUrlMode(ModeFirst(class, ToJson(class, value, v), w), w)
<1> DEFINE p == Named(class, "mode")
           json == ToJson(class, value, v)
<1>1. "mode" \in Names(class) /\ value["mode"] = "url" /\ v >= V2025_11_25
  BY DEF IsUrlMode, IsValue
<1>2. p \in class /\ p.name = "mode"
  BY <1>1, NamedIn
<1>3. p.key = "mode" /\ ~p.formOnly /\ p.since <= V2025_11_25
      /\ p.default # "url" /\ p.since \in ProtocolVersion
  BY <1>2 DEF WellFormed, PlainMode, Typed
<1>4. v >= p.since
  BY <1>1, <1>3 DEF ProtocolVersion, V2024_11_05, V2025_11_25, V2026_07_28
<1>5. p \in Written(class, value, v)
  BY <1>1, <1>2, <1>3, <1>4 DEF Written, Available
<1>6. "mode" \in DOMAIN json /\ json["mode"] = "url"
  BY <1>1, <1>2, <1>3, <1>5, Carries DEF WellFormed
<1>7. ModeFirst(class, json, w) = [Default(class) EXCEPT !["mode"] = "url"]
  BY <1>1, <1>6 DEF ModeFirst
<1>8. DOMAIN Default(class) = Names(class)
  BY DEF Default
<1> QED
  BY <1>1, <1>7, <1>8 DEF IsUrlMode

(* No required property is missed, except that an older reader asks an     *)
(* elicitation in url mode for its form.                                   *)
LEMMA NothingIsMissed ==
  ASSUME NEW class, WellFormed(class), NEW value, IsValue(value, class),
         NEW v \in ProtocolVersion, NEW w \in ProtocolVersion,
         ~(IsUrlMode(value, v) /\ w < V2025_11_25)
  PROVE  ~MissesRequired(class, ToJson(class, value, v), w)
<1> DEFINE json == ToJson(class, value, v)
<1> SUFFICES ASSUME NEW p \in Readable(class, json, w),
                    p.required, ~p.assumed, p.key \notin DOMAIN json
             PROVE  FALSE
  BY DEF MissesRequired
<1>1. p \in class /\ ~p.constant /\ Available(p, ModeFirst(class, json, w), w)
  BY DEF Readable
<1>2. p.since = V2024_11_05
  BY <1>1 DEF WellFormed, LateIsAssumed
<1>3. p \notin Written(class, value, v)
  BY <1>1, Carries DEF WellFormed
<1>4. v >= p.since
  BY <1>2 DEF ProtocolVersion, V2024_11_05, V2026_07_28
<1>5. p.formOnly /\ IsUrlMode(value, v)
  BY <1>1, <1>3, <1>4 DEF Written, Available, WellFormed, Typed
<1>6. w >= V2025_11_25
  BY <1>5 DEF ProtocolVersion, V2024_11_05, V2025_11_25, V2026_07_28
<1> QED
  BY <1>1, <1>5, <1>6, ModeArrives DEF Available

(* What both revisions know of is read as it was set.                      *)
LEMMA RoundTrip ==
  ASSUME NEW class, WellFormed(class), NEW value, IsValue(value, class),
         NEW v \in ProtocolVersion, NEW w \in ProtocolVersion,
         NEW p \in class
  PROVE  LET read == ReadValue(class, ToJson(class, value, v), w)
             both == Available(p, value, v) /\ Available(p, read, w)
         IN  read[p.name] =
               IF p.constant \/ both THEN value[p.name]
               ELSE IF p.assumed /\ w >= p.since THEN AssumedValue(p)
               ELSE p.default
<1> DEFINE json == ToJson(class, value, v)
           read == ReadValue(class, json, w)
           both == Available(p, value, v) /\ Available(p, read, w)
<1>1. read[p.name] =
        IF p \notin Readable(class, json, w) THEN p.default
        ELSE IF p.key \in DOMAIN json THEN json[p.key]
        ELSE IF p.assumed THEN AssumedValue(p)
        ELSE p.default
  <2>1. Named(class, p.name) = p /\ p.name \in Names(class)
    BY NamedIs DEF Names, WellFormed
  <2> QED
    BY <2>1 DEF ReadValue
<1>2. p \in Readable(class, json, w) <=> ~p.constant /\ Available(p, read, w)
  BY ReadableIs
<1>3. /\ p \in Written(class, value, v)
           => p.key \in DOMAIN json /\ json[p.key] = value[p.name]
      /\ p \notin Written(class, value, v) => p.key \notin DOMAIN json
  BY Carries DEF WellFormed
<1>4. CASE p.constant
  BY <1>1, <1>2, <1>4 DEF IsValue
<1>5. CASE ~p.constant /\ both
  <2>1. CASE p \in Written(class, value, v)
    BY <1>1, <1>2, <1>3, <1>5, <2>1
  <2>2. CASE p \notin Written(class, value, v)
    <3>1. value[p.name] = p.default /\ ~p.assumed
      BY <1>5, <2>2 DEF Written, WellFormed, Typed
    <3> QED
      BY <1>1, <1>2, <1>3, <1>5, <2>2, <3>1
  <2> QED
    BY <2>1, <2>2
<1>6. CASE ~p.constant /\ ~Available(p, read, w)
  <2>1. p.assumed => ~(w >= p.since)
    BY <1>6 DEF Available, WellFormed, Typed
  <2> QED
    BY <1>1, <1>2, <1>6, <2>1
<1>7. CASE ~p.constant /\ Available(p, read, w) /\ ~Available(p, value, v)
  <2>1. p \notin Written(class, value, v)
    BY <1>7 DEF Written
  <2>2. w >= p.since
    BY <1>7 DEF Available
  <2> QED
    BY <1>1, <1>2, <1>3, <1>7, <2>1, <2>2
<1> HIDE DEF json, read
<1> QED
  BY <1>4, <1>5, <1>6, <1>7 DEF json, read
-----------------------------------------------------------------------------
(***************************************************************************)
(* The inductive invariant.  What the application set is the value of a    *)
(* plain object, what is on the wire is that value written, and what the   *)
(* receiver has is that read.                                              *)
(***************************************************************************)
Sets == [class : DOMAIN Classes,
         value : UNION {Values(Classes[c], MaxChanged) : c \in DOMAIN Classes}]

Plain(o) ==
  /\ o.refType = o.type
  /\ IsValue(o.values[o.type], Classes[o.type])

ObjectOK ==
  object # None =>
    /\ object = [type |-> object.type, refType |-> object.refType,
                 values |-> object.values]
    /\ object.type \in DOMAIN Classes \cup DOMAIN Unions
    /\ object.refType \in VariantsOf(object.type) \cup {None}
    /\ DOMAIN object.values = VariantsOf(object.type)
    /\ \A c \in VariantsOf(object.type) : IsValue(object.values[c], Classes[c])
    /\ object.type \in DOMAIN Classes =>
         Plain(object) /\ Len(sets) = 1 /\ LastSet.value = object.values[object.type]

SetsOK ==
  /\ sets \in Seq(Sets)
  /\ Len(sets) <= MaxSets \/ Len(sets) = 1

SentOK ==
  sent # None =>
    /\ object # None
    /\ sent.version \in ProtocolVersion
    /\ sent.json = Json(object, sent.version)

GotOK ==
  got # None =>
    /\ sent # None
    /\ got.version \in ProtocolVersion
    /\ got.result = IF IsUnion(object.type)
                     THEN AnyOfFromJson(Unions[object.type], sent.json, got.version)
                     ELSE FromJson(object.type, sent.json, got.version)

IInv == ObjectOK /\ SetsOK /\ SentOK /\ GotOK

LEMMA ClassFacts ==
  ASSUME NEW c \in DOMAIN Classes
  PROVE  /\ WellFormed(Classes[c])
         /\ ~IsUnion(c) /\ VariantsOf(c) = {c} /\ c # None
BY ExchangeAssumption DEF IsUnion, VariantsOf

LEMMA InitInv == Init => IInv
BY ExchangeAssumption DEF Init, IInv, ObjectOK, SetsOK, SentOK, GotOK

LEMMA FillInv ==
  ASSUME IInv, NEW type \in DOMAIN Classes, Fill(type)
  PROVE  IInv'
<1>1. PICK value \in Values(Classes[type], MaxChanged) :
        /\ object' = [Construct(type) EXCEPT !.values[type] = value]
        /\ sets' = <<[class |-> type, value |-> value]>>
  BY DEF Fill
<1>2. IsValue(value, Classes[type])
  BY ClassFacts, ValuesAreValues DEF WellFormed
<1>3. object' = [type |-> type, refType |-> type,
                 values |-> [c \in {type} |-> value]]
  BY <1>1, ClassFacts DEF Construct
<1>4. sent = None /\ got = None /\ sent' = None /\ got' = None
  BY DEF Fill, IInv, SentOK, GotOK
<1>5. ObjectOK'
  <2>1. /\ object'.type = type /\ object'.refType = type
        /\ DOMAIN object'.values = {type} /\ object'.values[type] = value
    BY <1>3
  <2>2. Len(sets') = 1 /\ LastSet'.value = value
    BY <1>1 DEF LastSet
  <2>3. Plain(object)'
    BY <1>2, <2>1 DEF Plain
  <2> QED
    BY <1>2, <1>3, <2>1, <2>2, <2>3, ClassFacts DEF ObjectOK
<1>6. SetsOK'
  BY <1>1 DEF SetsOK, Sets
<1> QED
  BY <1>4, <1>5, <1>6 DEF IInv, SentOK, GotOK

LEMMA SetVariantInv ==
  ASSUME IInv, NEW type \in DOMAIN Unions, SetVariant(type)
  PROVE  IInv'
<1> DEFINE o == IF object = None THEN Construct(type) ELSE object
<1>0. PICK class \in Unions[type].variants :
        \E value \in Values(Classes[class], MaxChanged) :
          /\ object' = SetRefType(o, class, value)
          /\ sets' = Append(sets, [class |-> class, value |-> value])
  BY DEF SetVariant
<1>1. PICK value \in Values(Classes[class], MaxChanged) :
        /\ object' = SetRefType(o, class, value)
        /\ sets' = Append(sets, [class |-> class, value |-> value])
  BY <1>0
<1>2. class \in DOMAIN Classes /\ class \in VariantsOf(type)
      /\ IsUnion(type) /\ type \notin DOMAIN Classes
      /\ VariantsOf(type) \subseteq DOMAIN Classes
  BY ExchangeAssumption DEF VariantsOf, IsUnion
<1>3. IsValue(value, Classes[class])
  BY <1>2, ClassFacts, ValuesAreValues DEF WellFormed
<1>4. /\ o.type = type
      /\ o = [type |-> type, refType |-> o.refType, values |-> o.values]
      /\ o.refType \in VariantsOf(type) \cup {None}
      /\ DOMAIN o.values = VariantsOf(type)
      /\ \A c \in VariantsOf(type) : IsValue(o.values[c], Classes[c])
  <2>1. CASE object = None
    <3>1. Construct(type) = [type |-> type, refType |-> None,
            values |-> [c \in VariantsOf(type) |-> Default(Classes[c])]]
      BY <1>2 DEF Construct
    <3>2. \A c \in VariantsOf(type) : IsValue(Default(Classes[c]), Classes[c])
      BY <1>2, ClassFacts, DefaultIsValue DEF WellFormed
    <3> QED
      BY <2>1, <3>1, <3>2
  <2>2. CASE object # None
    <3>1. object.type = type
      BY <2>2 DEF SetVariant
    <3> QED
      BY <2>2, <3>1 DEF IInv, ObjectOK
  <2> QED
    BY <2>1, <2>2
<1>5. ObjectOK'
  <2> HIDE DEF o
  <2>1. \/ object' = o
        \/ object' = [type |-> type, refType |-> class,
                      values |-> [o.values EXCEPT ![class] = value]]
    BY <1>1, <1>4 DEF SetRefType
  <2>2. /\ object'.type = type
        /\ object' = [type |-> type, refType |-> object'.refType,
                      values |-> object'.values]
        /\ object'.refType \in VariantsOf(type) \cup {None}
        /\ DOMAIN object'.values = VariantsOf(type)
    BY <1>2, <1>4, <2>1
  <2>3. \A c \in VariantsOf(type) : IsValue(object'.values[c], Classes[c])
    BY <1>2, <1>3, <1>4, <2>1
  <2> QED
    BY <1>2, <2>2, <2>3 DEF ObjectOK
<1>6. SetsOK'
  <2>1. [class |-> class, value |-> value] \in Sets
    BY <1>2 DEF Sets
  <2> QED
    <3>1. Len(sets) \in Nat /\ Len(sets) < MaxSets /\ MaxSets \in Nat
      BY ExchangeAssumption DEF SetVariant, SetsOK, IInv
    <3>2. sets' \in Seq(Sets) /\ Len(sets') = Len(sets) + 1
      BY <1>1, <2>1 DEF SetsOK, IInv
    <3> QED
      BY <3>1, <3>2 DEF SetsOK
<1>7. sent = None /\ got = None /\ sent' = None /\ got' = None
  BY DEF SetVariant, IInv, SentOK, GotOK
<1> QED
  BY <1>5, <1>6, <1>7 DEF IInv, SentOK, GotOK

LEMMA SendInv == ASSUME IInv, Send PROVE IInv'
<1>1. got = None
  BY DEF Send, IInv, GotOK
<1>2. ObjectOK' /\ SetsOK' /\ GotOK'
  BY <1>1 DEF Send, IInv, ObjectOK, SetsOK, GotOK, LastSet, Plain
<1>3. SentOK'
  BY DEF Send, SentOK, Json
<1> QED
  BY <1>2, <1>3 DEF IInv

LEMMA ReceiveInv == ASSUME IInv, Receive PROVE IInv'
<1>1. ObjectOK' /\ SetsOK' /\ SentOK'
  BY DEF Receive, IInv, ObjectOK, SetsOK, SentOK, LastSet, Plain, Json
<1>2. GotOK'
  BY ExchangeAssumption DEF Receive, GotOK, IsUnion
<1> QED
  BY <1>1, <1>2 DEF IInv

(* The invariant holds in every reachable state.                           *)
THEOREM Invariance == Spec => []IInv
<1>1. ASSUME IInv, [Next]_vars PROVE IInv'
  <2>1. CASE UNCHANGED vars
    BY <1>1, <2>1 DEF vars, IInv, ObjectOK, SetsOK, SentOK, GotOK, LastSet, Plain
  <2>2. CASE Next
    BY <1>1, <2>2, FillInv, SetVariantInv, SendInv, ReceiveInv DEF Next
  <2> QED
    BY <1>1, <2>1, <2>2
<1> QED
  BY <1>1, InitInv, PTL DEF Spec
-----------------------------------------------------------------------------
(* What the invariant says of a plain message that has arrived.            *)
LEMMA Arrived ==
  ASSUME IInv, got # None, ~IsUnion(object.type)
  PROVE  /\ object.type \in DOMAIN Classes
         /\ WellFormed(Classes[object.type])
         /\ IsValue(LastSet.value, Classes[object.type])
         /\ sent.version \in ProtocolVersion /\ got.version \in ProtocolVersion
         /\ got.result = FromJson(object.type,
                                 ToJson(Classes[object.type], LastSet.value,
                                        sent.version),
                                 got.version)
BY ClassFacts DEF IInv, ObjectOK, SentOK, GotOK, IsUnion, Plain, Json

(* Objects, messages and results keep their types.                         *)
THEOREM TypeCorrect == Spec => []TypeOK
<1>1. IInv => TypeOK
  BY DEF IInv, ObjectOK, SetsOK, SentOK, GotOK, TypeOK, IsValue
<1> QED
  BY <1>1, Invariance, PTL

(* For all well-formed classes: a plain message written at any revision is *)
(* read at any other, but for an elicitation in url mode by an old reader. *)
THEOREM Read == Spec => []MessagesAreRead
<1>1. IInv => MessagesAreRead
  <2> SUFFICES ASSUME IInv, got # None, ~IsUnion(object.type),
                      ~(IsUrlMode(LastSet.value, sent.version)
                          /\ got.version < V2025_11_25)
               PROVE  got.result.accepted
    BY DEF MessagesAreRead
  <2>1. ~MissesRequired(Classes[object.type],
                        ToJson(Classes[object.type], LastSet.value, sent.version),
                        got.version)
    BY Arrived, NothingIsMissed
  <2> QED
    BY <2>1, Arrived DEF FromJson, Accepted
<1> QED
  BY <1>1, Invariance, PTL

(* For all well-formed classes: what both revisions know of arrives as it  *)
(* was set, and everything else as never set.                              *)
THEOREM Arrives == Spec => []ArrivesAsSet
<1>1. IInv => ArrivesAsSet
  <2> SUFFICES ASSUME IInv, got # None, ~IsUnion(object.type), got.result.accepted
               PROVE  ArrivesAsSet
    BY DEF ArrivesAsSet
  <2> DEFINE class == Classes[object.type]
             json == ToJson(class, LastSet.value, sent.version)
  <2>1. got.result.value = ReadValue(class, json, got.version)
    BY Arrived DEF FromJson, Accepted, Rejected
  <2> QED
    BY <2>1, Arrived, RoundTrip DEF ArrivesAsSet
<1> QED
  BY <1>1, Invariance, PTL

-----------------------------------------------------------------------------
(***************************************************************************)
(* What an object shows of its class, whatever the revision.               *)
(***************************************************************************)

(* What a class always writes is there, and is the value.                  *)
LEMMA AlwaysThere ==
  ASSUME NEW class, WellFormed(class), NEW value, NEW v \in ProtocolVersion, NEW p \in Always(class)
  PROVE  /\ p \in class
         /\ p.key \in DOMAIN ToJson(class, value, v)
         /\ ToJson(class, value, v)[p.key] = value[p.name]
<1>1. p \in class /\ p.required /\ p.since = V2024_11_05 /\ ~p.formOnly
  BY DEF Always
<1>2. v >= p.since
  BY <1>1 DEF ProtocolVersion, V2024_11_05, V2026_07_28
<1>3. p \in Written(class, value, v)
  BY <1>1, <1>2 DEF Written, Available
<1> QED
  BY <1>1, <1>3, Carries DEF WellFormed

(* An object has no key that its class has not.                            *)
LEMMA NoOtherKeys ==
  ASSUME NEW class, NEW value, NEW v
  PROVE  DOMAIN ToJson(class, value, v) \subseteq Keys(class)
BY DEF ToJson, Written, Keys

(* What a class always writes, it writes at every revision.                *)
LEMMA SaidKeys ==
  ASSUME NEW class, WellFormed(class), NEW value, NEW v \in ProtocolVersion,
         NEW key \in Keys(Always(class))
  PROVE  key \in DOMAIN ToJson(class, value, v)
BY AlwaysThere DEF Keys

(* What it writes there is one of the values that tell the class.          *)
LEMMA Said ==
  ASSUME NEW class, WellFormed(class), NEW value, IsValue(value, class),
         NEW v \in ProtocolVersion, NEW key, NEW values, Says(class, key, values)
  PROVE  /\ Get(ToJson(class, value, v), key) \in values
         /\ Get(ToJson(class, value, v), key) = value[key]
         /\ key \in Keys(class)
<1>1. PICK p \in Always(class) :
        p.key = key /\ p.name = key /\ p.values \cup {p.default} \subseteq values
  BY DEF Says
<1>2. /\ p \in class
      /\ key \in DOMAIN ToJson(class, value, v)
      /\ ToJson(class, value, v)[key] = value[key]
  BY <1>1, AlwaysThere
<1>3. value[key] \in values
  BY <1>1, <1>2 DEF IsValue
<1> QED
  BY <1>1, <1>2, <1>3 DEF Get, Keys

(* Property names decide.                                                  *)
LEMMA PropertiesTell ==
  ASSUME NEW variants, variants \subseteq DOMAIN Classes, NEW c \in variants,
         ToldByProperties(variants, c), NEW value, NEW v \in ProtocolVersion
  PROVE  \A d \in variants : TypeMatches(Classes[d], ToJson(Classes[c], value, v)) <=> d = c
<1> DEFINE json == ToJson(Classes[c], value, v)
<1>1. WellFormed(Classes[c])
  BY ClassFacts
<1>2. \A p \in Classes[c] : p.key = p.name
  BY DEF ToldByProperties
<1>3. DOMAIN json \subseteq Names(Classes[c])
  BY <1>2, NoOtherKeys DEF Keys, Names
<1>4. \A p \in Classes[c] : p.required => p.name \in DOMAIN json
  BY <1>1, <1>2, AlwaysThere DEF ToldByProperties
<1> HIDE DEF json
<1>5. TypeMatches(Classes[c], json)
  BY <1>3, <1>4 DEF TypeMatches
<1>6. ASSUME NEW d \in variants \ {c} PROVE ~TypeMatches(Classes[d], json)
  <2>1. PICK p \in Classes[d] : p.required /\ p.name \notin Names(Classes[c])
    BY DEF ToldByProperties
  <2> QED
    BY <1>3, <2>1 DEF TypeMatches
<1> QED
  BY <1>5, <1>6 DEF json

(* The type and the media type decide, and the names where they do not.    *)
LEMMA ContentTells ==
  ASSUME NEW u \in DOMAIN Unions, NEW c \in Unions[u].variants,
         Unions[u].find \in {"mediaType", "linkType", "toolType"},
         ToldByContent(Unions[u], c),
         NEW value, IsValue(value, Classes[c]), NEW v \in ProtocolVersion,
         NEW w, TellsItself(c, value, w)
  PROVE  Matches(Unions[u], ToJson(Classes[c], value, v), w) = {c}
<1> DEFINE union == Unions[u]
           json == ToJson(Classes[c], value, v)
<1>0. /\ c \in union.variants /\ union.variants \subseteq DOMAIN Classes
      /\ union.find \in {"mediaType", "linkType", "toolType"}
      /\ ToldByContent(union, c)
  BY ExchangeAssumption
<1> SUFFICES Matches(union, json, w) = {c}
  OBVIOUS
<1> HIDE DEF union
<1>1. WellFormed(Classes[c])
  BY <1>0, ClassFacts
<1>2. c \in DOMAIN ContentType /\ Get(json, "type") = ContentType[c]
  BY <1>0, <1>1, Said DEF ToldByContent
<1>3. c \in {"QMcpTextContent", "QMcpImageContent", "QMcpAudioContent", "QMcpEmbeddedResource",
             "QMcpResourceLink", "QMcpToolUseContent", "QMcpToolResultContent"}
  BY <1>2 DEF ContentType
<1>4. c \in {"QMcpImageContent", "QMcpAudioContent"} => Get(json, "mimeType") = value["mimeType"]
  BY <1>0, <1>1, Said DEF ToldByContent
<1>5. c \in {"QMcpTextContent", "QMcpEmbeddedResource"} => Get(json, "mimeType") = ""
  BY <1>0, NoOtherKeys DEF ToldByContent, Get
<1>6. c \in {"QMcpTextContent", "QMcpEmbeddedResource"} =>
        \A d \in union.variants : TypeMatches(Classes[d], json) <=> d = c
  <2> SUFFICES ASSUME c \in {"QMcpTextContent", "QMcpEmbeddedResource"}
               PROVE  \A d \in union.variants : TypeMatches(Classes[d], json) <=> d = c
    OBVIOUS
  <2>1. ToldByProperties(union.variants, c)
    BY <1>0 DEF ToldByContent
  <2> QED
    BY <1>0, <2>1, PropertiesTell
<1> HIDE DEF json
<1>7. CASE c \in {"QMcpTextContent", "QMcpEmbeddedResource"}
  <2>1. Get(json, "type") \in {"text", "resource"} /\ Get(json, "mimeType") = ""
    <3>1. CASE c = "QMcpTextContent"
      BY <1>2, <1>5, <3>1 DEF ContentType
    <3>2. CASE c = "QMcpEmbeddedResource"
      BY <1>2, <1>5, <3>2 DEF ContentType
    <3> QED
      BY <1>7, <3>1, <3>2
  <2>2. FindPropertyIndex(union, json) = {}
    BY <1>0, <2>1 DEF FindPropertyIndex, ByMediaType, ByLinkType, ByToolType
  <2> QED
    BY <1>0, <1>6, <1>7, <2>2 DEF Matches
<1>8. CASE c \in {"QMcpImageContent", "QMcpAudioContent"}
  <2>1. /\ Get(json, "type") \in {"image", "audio"}
        /\ Get(json, "mimeType") = IF c = "QMcpImageContent" THEN "image/png" ELSE "audio/wav"
    BY <1>0, <1>2, <1>4, <1>8 DEF ContentType, TellsItself
  <2>2. FindPropertyIndex(union, json) = {c}
    BY <1>0, <1>8, <2>1 DEF FindPropertyIndex, ByMediaType, ByLinkType, ByToolType
  <2> QED
    BY <1>0, <2>2 DEF Matches
<1>9. CASE c \in {"QMcpResourceLink", "QMcpToolUseContent", "QMcpToolResultContent"}
  <2>1. /\ c = "QMcpResourceLink" => union.find = "linkType" /\ Get(json, "type") = "resource_link"
        /\ c = "QMcpToolUseContent" => union.find = "toolType" /\ Get(json, "type") = "tool_use"
        /\ c = "QMcpToolResultContent" => union.find = "toolType" /\ Get(json, "type") = "tool_result"
    BY <1>0, <1>2, <1>9 DEF ContentType, ToldByContent
  <2>2. FindPropertyIndex(union, json) = {c}
    BY <1>0, <1>9, <2>1 DEF FindPropertyIndex, ByLinkType, ByToolType
  <2> QED
    BY <1>0, <2>2 DEF Matches
<1> QED
  BY <1>3, <1>7, <1>8, <1>9

(* The type of a schema decides, and its keys among those of one type.     *)
LEMMA SchemaTells ==
  ASSUME NEW c \in DOMAIN Classes, ToldBySchema(c), NEW value, IsValue(value, Classes[c]),
         "mode" \notin Names(Classes[c]),
         NEW v \in ProtocolVersion, NEW w \in ProtocolVersion,
         TellsItself(c, value, v), TellsItself(c, value, w)
  PROVE  BySchemaType(ToJson(Classes[c], value, v), w) = {c}
<1> DEFINE class == Classes[c]
           json == ToJson(class, value, v)
<1>1. WellFormed(class)
  BY ClassFacts
<1>2. \A k \in Keys(Always(class)) : k \in DOMAIN json
  BY <1>1, SaidKeys
<1>3. \A k : k \notin Keys(class) => k \notin DOMAIN json
  BY NoOtherKeys
<1>4. \A k, values : Says(class, k, values) => Get(json, k) \in values
  BY <1>1, Said
<1>5. ASSUME NEW p \in class, p.key = "enumNames", p.name = "enumNames",
             p.since = V2024_11_05, ~p.formOnly, value["enumNames"] # p.default
      PROVE  "enumNames" \in DOMAIN json
  <2>1. p \in Written(class, value, v)
    BY <1>5 DEF Written, Available, ProtocolVersion, V2024_11_05, V2026_07_28
  <2> QED
    BY <1>1, <1>5, <2>1, Carries DEF WellFormed
<1>6. w \in Nat /\ V2025_11_25 \in Nat
  BY DEF ProtocolVersion, V2024_11_05, V2025_11_25, V2026_07_28
<1> HIDE DEF json
<1>7. CASE c = "QMcpBooleanSchema" /\ Says(class, "type", {"boolean"})
  <2>1. Get(json, "type") = "boolean"
    BY <1>4, <1>7
  <2> QED
    BY <1>7, <2>1 DEF BySchemaType, json
<1>8. CASE c = "QMcpNumberSchema" /\ Says(class, "type", {"integer", "number"})
  <2>1. Get(json, "type") \in {"integer", "number"}
    BY <1>4, <1>8
  <2> QED
    BY <1>8, <2>1 DEF BySchemaType, json
<1>9. CASE Says(class, "type", {"string"})
  <2>1. Get(json, "type") = "string"
    BY <1>4, <1>9
  <2>2. BySchemaType(json, w) = StringSchemas(json, w)
    BY <2>1 DEF BySchemaType
  <2>3. CASE c = "QMcpTitledSingleSelectEnumSchema" /\ "oneOf" \in Keys(Always(class))
    <3>1. w >= V2025_11_25 /\ "oneOf" \in DOMAIN json
      BY <1>2, <2>3 DEF TellsItself
    <3>2. StringSchemas(json, w) = {c}
      BY <2>3, <3>1 DEF StringSchemas
    <3> QED
      BY <2>2, <3>2 DEF json
  <2>4. CASE c = "QMcpStringSchema" /\ "oneOf" \notin Keys(class) /\ "enum" \notin Keys(class)
    BY <1>3, <2>2, <2>4 DEF StringSchemas, json
  <2>5. CASE /\ c = "QMcpUntitledSingleSelectEnumSchema" /\ "oneOf" \notin Keys(class)
             /\ "enum" \in Keys(Always(class)) /\ "enumNames" \notin Keys(class)
    BY <1>2, <1>3, <1>6, <2>2, <2>5 DEF StringSchemas, TellsItself, json
  <2>6. CASE /\ c = "QMcpEnumSchema" /\ "oneOf" \notin Keys(class)
             /\ "enum" \in Keys(Always(class))
             /\ \E p \in class : /\ p.key = "enumNames" /\ p.name = "enumNames"
                                 /\ p.since = V2024_11_05 /\ ~p.formOnly /\ p.default = "default"
    <3>1. w >= V2025_11_25 => "enumNames" \in DOMAIN json
      BY <1>5, <2>6 DEF TellsItself
    <3> QED
      <4>1. "oneOf" \notin DOMAIN json /\ "enum" \in DOMAIN json
        BY <1>2, <1>3, <2>6
      <4>2. w < V2025_11_25 \/ "enumNames" \in DOMAIN json
        BY <1>6, <3>1
      <4>3. StringSchemas(json, w) = {c}
        BY <2>6, <4>1, <4>2 DEF StringSchemas
      <4> QED
        BY <2>2, <4>3 DEF json
  <2>7. ~Says(class, "type", {"boolean"}) /\ ~Says(class, "type", {"integer", "number"})
        /\ ~Says(class, "type", {"array"})
    BY <1>4, <2>1
  <2> QED
    BY <2>3, <2>4, <2>5, <2>6, <2>7 DEF ToldBySchema
<1>10. CASE Says(class, "type", {"array"})
  <2>1. Get(json, "type") = "array"
    BY <1>4, <1>10
  <2>2. CASE c = "QMcpTitledMultiSelectEnumSchema" /\ Says(class, "items", {"anyOf"})
    <3>1. Get(json, "items") = "anyOf" /\ w >= V2025_11_25
      BY <1>4, <2>2 DEF TellsItself
    <3> QED
      BY <2>1, <2>2, <3>1 DEF BySchemaType, json
  <2>3. CASE c = "QMcpUntitledMultiSelectEnumSchema" /\ Says(class, "items", {"enum"})
    <3>1. Get(json, "items") = "enum" /\ w >= V2025_11_25
      BY <1>4, <2>3 DEF TellsItself
    <3> QED
      BY <2>1, <2>3, <3>1 DEF BySchemaType, json
  <2>4. ~Says(class, "type", {"boolean"}) /\ ~Says(class, "type", {"integer", "number"})
        /\ ~Says(class, "type", {"string"})
    BY <1>4, <2>1
  <2> QED
    BY <2>2, <2>3, <2>4 DEF ToldBySchema
<1> QED
  BY <1>7, <1>8, <1>9, <1>10 DEF ToldBySchema

(* So exactly one variant matches: the one that was written.               *)
LEMMA OneMatches ==
  ASSUME NEW u \in DOMAIN Unions, NEW c \in Unions[u].variants,
         NEW value, IsValue(value, Classes[c]),
         NEW v \in ProtocolVersion, NEW w \in ProtocolVersion,
         TellsItself(c, value, v), TellsItself(c, value, w)
  PROVE  AnyOfFromJson(Unions[u], ToJson(Classes[c], value, v), w)
           = FromJson(c, ToJson(Classes[c], value, v), w)
<1> DEFINE union == Unions[u]
           json == ToJson(Classes[c], value, v)
<1>1. union.variants \subseteq DOMAIN Classes /\ TellsApart(union)
  BY ExchangeAssumption, UnionsAssumption
<1>2. union.find \in {"schemaType", "properties", "mediaType", "linkType", "toolType"}
  BY <1>1 DEF TellsApart
<1>3. Matches(union, json, w) = {c}
  <2>1. CASE union.find = "schemaType"
    <3>1. ToldBySchema(c) /\ "mode" \notin Names(Classes[c])
      BY <1>1, <2>1 DEF TellsApart
    <3> QED
      BY <1>1, <2>1, <3>1, SchemaTells DEF Matches
  <2>2. CASE union.find = "properties"
    <3>1. ToldByProperties(union.variants, c)
      BY <1>1, <2>2 DEF TellsApart
    <3>2. FindPropertyIndex(union, json) = {}
      BY <2>2 DEF FindPropertyIndex
    <3>3. ASSUME NEW d \in union.variants
           PROVE  TypeMatches(Classes[d], json) <=> d = c
      <4>1. d \in union.variants /\ c \in union.variants
            /\ union.variants \subseteq DOMAIN Classes
        BY <1>1
      <4> HIDE DEF union
      <4> QED
        BY <4>1, <3>1, PropertiesTell
    <3> HIDE DEF json, union
    <3> QED
      BY <2>2, <3>2, <3>3 DEF Matches, union
  <2>3. CASE union.find \in {"mediaType", "linkType", "toolType"}
    <3>1. ToldByContent(union, c)
      BY <1>1, <2>3 DEF TellsApart
    <3> QED
      BY <2>3, <3>1, ContentTells
  <2> QED
    BY <1>2, <2>1, <2>2, <2>3
<1> HIDE DEF json
<1>4. Cardinality({c}) = 1 /\ (CHOOSE d \in {c} : TRUE) = c
  BY FS_Singleton
<1> QED
  BY <1>3, <1>4 DEF AnyOfFromJson, json

(* For all unions whose variants can be told apart (TellsApart of          *)
(* MessageExchange, which TLC evaluates on the real classes): whatever was *)
(* set into them and whatever revisions the two sides speak, a variant     *)
(* that both revisions tell is the one that the receiver gets.             *)
THEOREM VariantsAreRecovered == Spec => []VariantIsRecovered
<1>1. IInv => VariantIsRecovered
  <2> DEFINE c == object.refType
             value == object.values[c]
             json == ToJson(Classes[c], value, sent.version)
  <2> SUFFICES ASSUME IInv, got # None, IsUnion(object.type), c # None,
                      \A v \in {sent.version, got.version} : TellsItself(c, value, v)
               PROVE  got.result.accepted /\ got.result.class = c
    BY DEF VariantIsRecovered
  <2>1. /\ sent # None /\ object # None
        /\ sent.version \in ProtocolVersion /\ got.version \in ProtocolVersion
        /\ got.result = AnyOfFromJson(Unions[object.type], sent.json, got.version)
        /\ sent.json = json
    BY DEF IInv, SentOK, GotOK, Json
  <2>2. /\ object.type \in DOMAIN Unions /\ c \in Unions[object.type].variants
        /\ IsValue(value, Classes[c])
    BY <2>1 DEF IInv, ObjectOK, IsUnion, VariantsOf
  <2>3. c \in DOMAIN Classes /\ "mode" \notin Names(Classes[c])
    BY <2>2, ExchangeAssumption, UnionsAssumption DEF TellsApart
  <2>4. TellsItself(c, value, sent.version) /\ TellsItself(c, value, got.version)
    OBVIOUS
  <2> HIDE DEF c, value
  <2>5. got.result = FromJson(c, json, got.version)
    BY <2>1, <2>2, <2>4, OneMatches
  <2>6. ~IsUrlMode(value, sent.version)
    BY <2>2, <2>3 DEF IsUrlMode, IsValue
  <2>7. ~MissesRequired(Classes[c], json, got.version)
    BY <2>1, <2>2, <2>3, <2>6, ClassFacts, NothingIsMissed
  <2> QED
    BY <2>5, <2>7 DEF FromJson, Accepted
<1> QED
  BY <1>1, Invariance, PTL
=============================================================================

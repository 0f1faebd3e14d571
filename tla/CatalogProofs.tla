----------------------------- MODULE CatalogProofs -----------------------------
(***************************************************************************)
(* Theorems about Catalog, for every number of sessions, tools, items,     *)
(* edits and subscriptions.  That clients learn of changes depends on      *)
(* which lists a step changes, not on what it makes of them; what sessions *)
(* offer, and what pages make of a list, depends on the lists themselves.  *)
(***************************************************************************)
EXTENDS Catalog, WellFoundedInduction, FiniteSetTheorems, TLAPS

-----------------------------------------------------------------------------
(***************************************************************************)
(* Lists of tools: what appending, inserting and removing does to them.    *)
(***************************************************************************)

(* Counting up: a set of numbers that holds 0 and, below n, with each       *)
(* number the next one holds n.                                            *)
LEMMA CountsUp ==
  ASSUME NEW P, NEW n \in Nat, 0 \in P, \A k \in Nat : k < n /\ k \in P => k + 1 \in P
  PROVE  n \in P
<1> SUFFICES ASSUME n \notin P PROVE FALSE
  OBVIOUS
<1> DEFINE Less == OpToRel(<, Nat)
           M == {k \in Nat : k <= n /\ k \notin P}
<1>1. IsWellFoundedOn(Less, Nat)
  BY NatLessThanWellFounded
<1>2. M \subseteq Nat /\ n \in M
  OBVIOUS
<1>3. PICK x \in M : \A y \in M : <<y, x>> \notin Less
  <2> HIDE DEF Less, M
  <2> QED BY <1>1, <1>2, WFMin
<1>4. \A y \in M : ~(y < x)
  BY <1>2, <1>3 DEF OpToRel
<1>5. x \in Nat /\ x # 0 /\ x - 1 \in Nat /\ x - 1 < n
  OBVIOUS
<1>6. x - 1 \in P
  BY <1>4, <1>5
<1>7. (x - 1) + 1 \in P
  BY <1>5, <1>6
<1>8. x \in P
  BY <1>5, <1>7
<1> QED BY <1>3, <1>8

(* An entry put behind the others. *)
LEMMA AppendedSet ==
  ASSUME NEW S, NEW seq \in Seq(S), NEW e \in S
  PROVE  ToSet(Append(seq, e)) = ToSet(seq) \cup {e}
<1>1. DOMAIN Append(seq, e) = DOMAIN seq \cup {Len(seq) + 1}
  OBVIOUS
<1>2. /\ \A i \in DOMAIN seq : Append(seq, e)[i] = seq[i]
      /\ Append(seq, e)[Len(seq) + 1] = e
  OBVIOUS
<1> QED BY <1>1, <1>2 DEF ToSet

(* unregisterToolSet() leaves everything but the tool set: the sequence that *)
(* its loop builds exists, and holds at each turn what the loop has seen.   *)
LEMMA WithoutOK ==
  ASSUME NEW S, NEW tools \in Seq(S), NEW t
  PROVE  /\ Without(tools, t) \in Seq(S)
         /\ ToSet(Without(tools, t)) = ToSet(tools) \ {t}
<1> DEFINE n == Len(tools)
           Turn(g, i) == IF i = 0 THEN <<>>
                         ELSE IF tools[i] = t THEN g[i - 1] ELSE Append(g[i - 1], tools[i])
           kept == CHOOSE g : g = [i \in 0 .. n |-> Turn(g, i)]
           Seen(k) == {tools[j] : j \in 1 .. k}
           Runs == {k \in Nat : \E g : g = [i \in 0 .. k |-> Turn(g, i)]}
           Right == {k \in Nat : k <= n => /\ kept[k] \in Seq(S)
                                          /\ ToSet(kept[k]) = Seen(k) \ {t}}
<1>1. Without(tools, t) = kept[n]
  BY DEF Without
<1>2. n \in Nat /\ DOMAIN tools = 1 .. n /\ \A i \in 1 .. n : tools[i] \in S
  OBVIOUS
<1>3. n \in Runs
  <2>1. 0 \in Runs
    <3>1. [i \in 0 .. 0 |-> <<>>] = [i \in 0 .. 0 |-> Turn([j \in 0 .. 0 |-> <<>>], i)]
      OBVIOUS
    <3> QED BY <3>1
  <2>2. ASSUME NEW k \in Nat, k \in Runs PROVE k + 1 \in Runs
    <3>1. PICK g : g = [i \in 0 .. k |-> Turn(g, i)]
      BY <2>2
    <3>2. \A i \in 0 .. k : g[i] = Turn(g, i)
      BY <3>1
    <3> HIDE DEF Turn
    <3> DEFINE h == [i \in 0 .. k + 1 |-> IF i = k + 1 THEN Turn(g, i) ELSE g[i]]
    <3>3. \A i \in 0 .. k + 1 : h[i] = Turn(h, i)
      <4> SUFFICES ASSUME NEW i \in 0 .. k + 1 PROVE h[i] = Turn(h, i)
        OBVIOUS
      <4>1. i # 0 => h[i - 1] = g[i - 1]
        OBVIOUS
      <4>2. Turn(h, i) = Turn(g, i)
        BY <4>1 DEF Turn
      <4> QED BY <3>2, <4>2
    <3>4. h = [i \in 0 .. k + 1 |-> Turn(h, i)]
      BY <3>3
    <3> HIDE DEF h
    <3> QED BY <3>4
  <2> HIDE DEF Runs
  <2> QED BY <1>2, <2>1, <2>2, CountsUp
<1>4. kept = [i \in 0 .. n |-> Turn(kept, i)]
  BY <1>3
<1> HIDE DEF kept, n
<1>5. n \in Right
  <2>1. 0 \in Right
    <3>1. kept[0] = <<>>
      BY <1>2, <1>4
    <3>2. <<>> \in Seq(S) /\ ToSet(<<>>) = {} /\ Seen(0) = {}
      BY DEF ToSet
    <3> QED BY <3>1, <3>2
  <2>2. ASSUME NEW k \in Nat, k < n, k \in Right PROVE k + 1 \in Right
    <3>1. k + 1 \in 0 .. n /\ k + 1 \in 1 .. n /\ k + 1 # 0 /\ (k + 1) - 1 = k
      BY <1>2, <2>2
    <3>2. kept[k + 1] = Turn(kept, k + 1)
      BY <1>4, <3>1
    <3>3. /\ kept[k + 1] = IF tools[k + 1] = t THEN kept[k] ELSE Append(kept[k], tools[k + 1])
          /\ tools[k + 1] \in S
      BY <1>2, <3>1, <3>2
    <3>4. kept[k] \in Seq(S) /\ ToSet(kept[k]) = Seen(k) \ {t}
      BY <1>2, <2>2
    <3>5. Seen(k + 1) = Seen(k) \cup {tools[k + 1]}
      OBVIOUS
    <3>6. ToSet(Append(kept[k], tools[k + 1])) = ToSet(kept[k]) \cup {tools[k + 1]}
      BY <3>3, <3>4, AppendedSet
    <3> HIDE DEF Seen
    <3>7. kept[k + 1] \in Seq(S)
      BY <3>3, <3>4
    <3>8. ToSet(kept[k + 1]) = Seen(k + 1) \ {t}
      BY <3>3, <3>4, <3>5, <3>6
    <3> QED BY <3>7, <3>8
  <2> HIDE DEF Right
  <2> QED BY <1>2, <2>1, <2>2, CountsUp
<1>6. ToSet(tools) = Seen(n)
  BY <1>2 DEF ToSet
<1> QED BY <1>1, <1>2, <1>5, <1>6

(* unregisterTool() finds the last entry of an action that is there. *)
LEMMA LastIndexExists ==
  ASSUME NEW S, NEW tools \in Seq(S), NEW a \in ToSet(tools)
  PROVE  LastIndexOf(tools, a) \in DOMAIN tools /\ tools[LastIndexOf(tools, a)] = a
<1> DEFINE n == Len(tools)
           IsLast(i, k) == tools[i] = a /\ \A j \in 1 .. k : tools[j] = a => j <= i
           P == {k \in Nat : (\E i \in 1 .. k : tools[i] = a) => \E i \in 1 .. k : IsLast(i, k)}
<1>1. n \in Nat /\ DOMAIN tools = 1 .. n
  OBVIOUS
<1>2. n \in P
  <2>1. 0 \in P
    OBVIOUS
  <2>2. ASSUME NEW k \in Nat, k \in P PROVE k + 1 \in P
    <3>1. CASE tools[k + 1] = a
      <4>1. IsLast(k + 1, k + 1)
        BY <3>1
      <4>2. k + 1 \in 1 .. k + 1
        OBVIOUS
      <4> HIDE DEF IsLast
      <4> QED BY <4>1, <4>2
    <3>2. CASE tools[k + 1] # a
      <4> SUFFICES ASSUME NEW i \in 1 .. k + 1, tools[i] = a
                   PROVE  \E l \in 1 .. k + 1 : IsLast(l, k + 1)
        OBVIOUS
      <4>1. i \in 1 .. k
        BY <3>2
      <4>2. PICK l \in 1 .. k : IsLast(l, k)
        BY <2>2, <4>1
      <4>3. l \in 1 .. k + 1 /\ IsLast(l, k + 1)
        BY <3>2, <4>2
      <4> HIDE DEF IsLast
      <4> QED BY <4>3
    <3> QED BY <3>1, <3>2
  <2> HIDE DEF P
  <2> QED BY <1>1, <2>1, <2>2, CountsUp
<1>3. \E i \in 1 .. n : tools[i] = a
  BY <1>1 DEF ToSet
<1>4. \E i \in DOMAIN tools : IsLast(i, n)
  BY <1>1, <1>2, <1>3
<1> QED BY <1>1, <1>4 DEF LastIndexOf

(* Two lists put together. *)
LEMMA JoinedSet ==
  ASSUME NEW S, NEW left \in Seq(S), NEW right \in Seq(S)
  PROVE  left \o right \in Seq(S) /\ ToSet(left \o right) = ToSet(left) \cup ToSet(right)
<1>1. /\ left \o right \in Seq(S)
      /\ Len(left \o right) = Len(left) + Len(right)
      /\ DOMAIN (left \o right) = 1 .. Len(left) + Len(right)
  OBVIOUS
<1>2. \A i \in DOMAIN left : i \in DOMAIN (left \o right) /\ (left \o right)[i] = left[i]
  OBVIOUS
<1>3. \A i \in DOMAIN right : /\ i + Len(left) \in DOMAIN (left \o right)
                             /\ (left \o right)[i + Len(left)] = right[i]
  OBVIOUS
<1>4. \A i \in DOMAIN (left \o right) :
        \/ i \in DOMAIN left
        \/ i - Len(left) \in DOMAIN right /\ (left \o right)[i] = right[i - Len(left)]
  OBVIOUS
<1> DEFINE both == left \o right
<1> HIDE DEF both
<1>5. ASSUME NEW x \in ToSet(both) PROVE x \in ToSet(left) \cup ToSet(right)
  <2>1. PICK i \in DOMAIN both : x = both[i]
    BY DEF ToSet
  <2> QED BY <1>2, <1>4, <2>1 DEF ToSet, both
<1>6. ToSet(left) \subseteq ToSet(both)
  BY <1>2 DEF ToSet, both
<1>7. ToSet(right) \subseteq ToSet(both)
  BY <1>3 DEF ToSet, both
<1>8. ToSet(both) = ToSet(left) \cup ToSet(right)
  BY <1>5, <1>6, <1>7
<1> QED BY <1>1, <1>8 DEF both

(* Where one entry is removed the others stay. *)
LEMMA RemovedSet ==
  ASSUME NEW S, NEW seq \in Seq(S), NEW i \in DOMAIN seq
  PROVE  /\ RemoveAt(seq, i) \in Seq(S)
         /\ ToSet(RemoveAt(seq, i)) \subseteq ToSet(seq)
         /\ ToSet(seq) \subseteq ToSet(RemoveAt(seq, i)) \cup {seq[i]}
<1> DEFINE left == SubSeq(seq, 1, i - 1)
           right == SubSeq(seq, i + 1, Len(seq))
<1>1. /\ left \in Seq(S) /\ DOMAIN left = 1 .. i - 1
      /\ \A j \in 1 .. i - 1 : left[j] = seq[j]
  OBVIOUS
<1>2. /\ right \in Seq(S) /\ DOMAIN right = 1 .. Len(seq) - i
      /\ \A j \in 1 .. Len(seq) - i : right[j] = seq[i + j]
  OBVIOUS
<1>3. RemoveAt(seq, i) = left \o right
  BY DEF RemoveAt
<1> HIDE DEF left, right
<1>4. RemoveAt(seq, i) \in Seq(S) /\ ToSet(RemoveAt(seq, i)) = ToSet(left) \cup ToSet(right)
  BY <1>1, <1>2, <1>3, JoinedSet
<1>5. Len(seq) \in Nat /\ DOMAIN seq = 1 .. Len(seq)
  OBVIOUS
<1>6. ToSet(left) \subseteq ToSet(seq)
  BY <1>1, <1>5 DEF ToSet
<1>7. ToSet(right) \subseteq ToSet(seq)
  <2> SUFFICES ASSUME NEW j \in 1 .. Len(seq) - i PROVE right[j] \in ToSet(seq)
    BY <1>2 DEF ToSet
  <2>1. i + j \in DOMAIN seq
    BY <1>5
  <2> QED BY <1>2, <2>1 DEF ToSet
<1>8. ASSUME NEW j \in DOMAIN seq PROVE seq[j] \in ToSet(left) \cup ToSet(right) \cup {seq[i]}
  <2>1. CASE j < i
    <3>1. j \in 1 .. i - 1
      BY <1>5, <2>1
    <3> QED BY <1>1, <3>1 DEF ToSet
  <2>2. CASE j > i
    <3>1. j - i \in 1 .. Len(seq) - i /\ i + (j - i) = j
      BY <1>5, <2>2
    <3> QED BY <1>2, <3>1 DEF ToSet
  <2>3. CASE j = i
    BY <2>3
  <2> QED BY <1>5, <2>1, <2>2, <2>3
<1>9. ToSet(seq) \subseteq ToSet(left) \cup ToSet(right) \cup {seq[i]}
  BY <1>8 DEF ToSet
<1> QED BY <1>4, <1>6, <1>7, <1>9

(* Where one entry is inserted. *)
LEMMA InsertedType ==
  ASSUME NEW S, NEW seq \in Seq(S), NEW i \in 1 .. Len(seq) + 1, NEW e \in S
  PROVE  InsertAt(seq, i, e) \in Seq(S)
<1>1. SubSeq(seq, 1, i - 1) \in Seq(S) /\ SubSeq(seq, i, Len(seq)) \in Seq(S) /\ <<e>> \in Seq(S)
  OBVIOUS
<1> QED BY <1>1 DEF InsertAt

(* A QHash in whatever order holds what it holds. *)
LEMMA OrderedSet ==
  ASSUME NEW T, IsFiniteSet(T), NEW seq \in SetToSeqs(T)
  PROVE  seq \in Seq(T) /\ ToSet(seq) = T
<1> DEFINE D == 1 .. Cardinality(T)
<1>1. Cardinality(T) \in Nat /\ IsFiniteSet(D) /\ Cardinality(D) = Cardinality(T)
  BY FS_CardinalityType, FS_Interval
<1>2. seq \in [D -> T] /\ \A i, j \in D : i # j => seq[i] # seq[j]
  BY DEF SetToSeqs
<1>3. seq \in Injection(D, T)
  BY <1>2 DEF Injection, IsInjective
<1>4. seq \in Surjection(D, T)
  BY <1>1, <1>3, FS_Injection
<1>5. \A t \in T : \E i \in D : seq[i] = t
  BY <1>4 DEF Surjection
<1>6. seq \in Seq(T)
  BY <1>1, <1>2
<1> QED BY <1>2, <1>5, <1>6 DEF ToSet

-----------------------------------------------------------------------------
(***************************************************************************)
(* The inductive invariant.                                                *)
(***************************************************************************)

Notifications == Lists \cup Items \cup {"acknowledged"}

(* A table of something per session and list. *)
IsTable(f) == f = [s \in Sessions |-> [l \in Lists |-> f[s][l]]]

Shapes ==
  /\ IsTable(entries) /\ IsTable(read)
  /\ initialized \in [Sessions -> BOOLEAN]
  /\ modern \in [Sessions -> BOOLEAN]
  /\ stream \in [Sessions -> BOOLEAN]
  /\ armed \in [Sessions -> SUBSET Lists]
  /\ filter \in [Sessions -> Filters \cup {{}}]
  /\ covered \in [Sessions -> SUBSET Lists]
  /\ toClient \in [Sessions -> Seq(Notifications)]

(* Sessions are initialized once they are known, and a list is covered     *)
(* only as long as the client would be told of its changes.                *)
CoveredIsPromised ==
  \A s \in Sessions :
    /\ initialized[s] => s \in known
    /\ \A list \in covered[s] : initialized[s] /\ Promised(s, list)

IInv == Shapes /\ CoveredIsPromised /\ CoveredListsAreCurrent

(* CoveredListsAreCurrent of one list. *)
Current(s, list) ==
  \/ read[s][list] = Listed(s, list)
  \/ list \in armed[s]
  \/ list \in ToSet(toClient[s])

LEMMA CurrentLists == CoveredListsAreCurrent <=> \A s \in Sessions : \A l \in covered[s] : Current(s, l)
BY DEF CoveredListsAreCurrent, Current

(* What a list request answers depends on its list alone.                  *)
LEMMA ListedOfEntries ==
  ASSUME NEW s, NEW list, entries'[s][list] = entries[s][list]
  PROVE  Listed(s, list)' = Listed(s, list)
BY DEF Listed

(* A list nothing changed, whose notifications are still there. *)
LEMMA StaysCurrent ==
  ASSUME NEW s, NEW list, Current(s, list),
         read'[s][list] = read[s][list],
         entries'[s][list] = entries[s][list],
         list \in armed[s] => list \in armed'[s],
         list \in ToSet(toClient[s]) => list \in ToSet(toClient'[s])
  PROVE  Current(s, list)'
BY ListedOfEntries DEF Current

(* A notification is put behind the others. *)
LEMMA ToldOK ==
  ASSUME Shapes, NEW s \in Sessions, NEW n \in Notifications, Told(s, n)
  PROVE  /\ toClient' \in [Sessions -> Seq(Notifications)]
         /\ \A t \in Sessions : ToSet(toClient[t]) \subseteq ToSet(toClient'[t])
         /\ stream[s] => n \in ToSet(toClient'[s])
<1>1. toClient[s] \in Seq(Notifications) /\ toClient \in [Sessions -> Seq(Notifications)]
  BY DEF Shapes
<1>2. toClient' = [toClient EXCEPT ![s] = IF stream[s] THEN Append(toClient[s], n)
                                         ELSE toClient[s]]
  BY DEF Told
<1>3. Append(toClient[s], n) \in Seq(Notifications)
  BY <1>1
<1>4. ToSet(toClient[s]) \subseteq ToSet(Append(toClient[s], n))
  <2>1. \A i \in DOMAIN toClient[s] : i \in DOMAIN Append(toClient[s], n)
                                      /\ Append(toClient[s], n)[i] = toClient[s][i]
    BY <1>1
  <2> QED BY <2>1 DEF ToSet
<1>5. n \in ToSet(Append(toClient[s], n))
  <2>1. Len(toClient[s]) + 1 \in DOMAIN Append(toClient[s], n)
        /\ Append(toClient[s], n)[Len(toClient[s]) + 1] = n
    BY <1>1
  <2> QED BY <2>1 DEF ToSet
<1> QED BY <1>1, <1>2, <1>3, <1>4, <1>5

(* An edit of some lists of some sessions, whose timers are started. *)
LEMMA EditedOK ==
  ASSUME IInv, NEW list \in Lists, NEW changed \in SUBSET Sessions, Armed(list, changed),
         IsTable(entries'),
         \A s \in Sessions, l \in Lists :
           s \notin changed \/ l # list => entries'[s][l] = entries[s][l],
         UNCHANGED <<known, modern, initialized, filter, stream, toClient, read, covered>>
  PROVE  IInv'
<1>1. /\ armed' \in [Sessions -> SUBSET Lists]
      /\ \A s \in Sessions : armed[s] \subseteq armed'[s]
      /\ \A s \in changed : initialized[s] => list \in armed'[s]
  BY DEF IInv, Shapes, Armed
<1>2. Shapes'
  BY <1>1 DEF IInv, Shapes, IsTable
<1>3. CoveredIsPromised'
  BY DEF IInv, CoveredIsPromised, Promised
<1>4. ASSUME NEW s \in Sessions, NEW l \in covered[s] PROVE Current(s, l)'
  <2>1. l \in Lists /\ initialized[s] /\ Current(s, l)
    BY CurrentLists DEF IInv, Shapes, CoveredIsPromised
  <2>2. CASE s \in changed /\ l = list
    BY <1>1, <2>1, <2>2 DEF Current
  <2>3. CASE s \notin changed \/ l # list
    BY <1>1, <2>1, <2>3, StaysCurrent
  <2> QED BY <2>2, <2>3
<1>5. CoveredListsAreCurrent'
  BY <1>4 DEF CoveredListsAreCurrent, Current
<1> QED BY <1>2, <1>3, <1>5 DEF IInv

-----------------------------------------------------------------------------
(***************************************************************************)
(* Registrations and edits.                                                *)
(***************************************************************************)

(* What WithTools does, whatever the tools are changed to. *)
LEMMA ToolsOK ==
  ASSUME IInv, NEW changed \in SUBSET Sessions, Armed("tools", changed), NEW Tools,
         entries' = [s \in Sessions |->
                       IF s \in changed THEN [entries[s] EXCEPT !["tools"] = Tools[s]]
                       ELSE entries[s]],
         UNCHANGED <<known, modern, initialized, filter, stream, toClient, read, covered>>
  PROVE  IInv'
<1>1. "tools" \in Lists
  BY DEF Lists
<1>2. IsTable(entries)
  BY DEF IInv, Shapes
<1>3. \A s \in Sessions, l \in Lists :
        entries'[s][l] = IF s \in changed /\ l = "tools" THEN Tools[s] ELSE entries[s][l]
  BY <1>2 DEF IsTable
<1>4. IsTable(entries')
  <2>1. \A s \in Sessions : entries'[s] = [l \in Lists |-> entries'[s][l]]
    BY <1>2 DEF IsTable
  <2> QED BY <2>1 DEF IsTable
<1> QED BY <1>1, <1>3, <1>4, EditedOK

(* Registering and unregistering start the timers of those who see it. *)
LEMMA RegistrationOK ==
  ASSUME IInv, known \in SUBSET Sessions, NEW t,
         \/ RegisterToolSet(t) \/ UnregisterToolSet(t) \/ RegisterTool(t) \/ UnregisterTool(t)
  PROVE  IInv'
<1>1. known \in SUBSET Sessions /\ Holders(t) \in SUBSET Sessions
  BY DEF Holders
<1>2. CASE RegisterToolSet(t) \/ RegisterTool(t)
  <2> DEFINE Tools == [s \in Sessions |-> Append(entries[s]["tools"], t)]
  <2>1. /\ Armed("tools", known)
        /\ entries' = [s \in Sessions |->
                         IF s \in known
                         THEN [entries[s] EXCEPT !["tools"] = Append(entries[s]["tools"], t)]
                         ELSE entries[s]]
        /\ UNCHANGED <<known, modern, initialized, filter, client>>
    BY <1>2 DEF RegisterToolSet, RegisterTool, Register, WithTools, IInv, Shapes, IsTable
  <2>2. entries' = [s \in Sessions |->
                      IF s \in known THEN [entries[s] EXCEPT !["tools"] = Tools[s]]
                      ELSE entries[s]]
    BY <2>1
  <2> HIDE DEF Tools
  <2> QED BY <1>1, <2>1, <2>2, ToolsOK DEF client
<1>3. CASE UnregisterToolSet(t)
  <2> DEFINE Tools == [s \in Sessions |-> Without(entries[s]["tools"], t)]
  <2>1. /\ Armed("tools", Holders(t))
        /\ entries' = [s \in Sessions |->
                         IF s \in Holders(t)
                         THEN [entries[s] EXCEPT !["tools"] = Tools[s]]
                         ELSE entries[s]]
        /\ UNCHANGED <<known, modern, initialized, filter, client>>
    BY <1>3 DEF UnregisterToolSet, WithTools, IInv, Shapes, IsTable
  <2> HIDE DEF Tools
  <2> QED BY <1>1, <2>1, ToolsOK DEF client
<1>4. CASE UnregisterTool(t)
  <2> DEFINE Tools == [s \in Sessions |->
                         RemoveAt(entries[s]["tools"], LastIndexOf(entries[s]["tools"], t))]
  <2>1. /\ Armed("tools", Holders(t))
        /\ entries' = [s \in Sessions |->
                         IF s \in Holders(t)
                         THEN [entries[s] EXCEPT !["tools"] = Tools[s]]
                         ELSE entries[s]]
        /\ UNCHANGED <<known, modern, initialized, filter, client>>
    BY <1>4 DEF UnregisterTool, WithTools, IInv, Shapes, IsTable
  <2> HIDE DEF Tools
  <2> QED BY <1>1, <2>1, ToolsOK DEF client
<1> QED BY <1>2, <1>3, <1>4

(* An edit of one list of one session starts its timer. *)
LEMMA ListEditOK ==
  ASSUME IInv, NEW s \in Sessions, InsertOrRemove(s) \/ ReplacePrompt(s)
  PROVE  IInv'
<1>1. PICK list \in {"resources", "prompts"} :
        /\ Armed(list, {s})
        /\ \E new : entries' = [entries EXCEPT ![s][list] = new]
        /\ UNCHANGED <<known, modern, initialized, filter, client>>
  BY DEF InsertOrRemove, ReplacePrompt, EditList
<1>2. PICK new : entries' = [entries EXCEPT ![s][list] = new]
  BY <1>1
<1>3. list \in Lists /\ IsTable(entries)
  BY DEF Lists, IInv, Shapes
<1>4. /\ IsTable(entries')
      /\ \A t \in Sessions, l \in Lists :
           t \notin {s} \/ l # list => entries'[t][l] = entries[t][l]
  BY <1>2, <1>3 DEF IsTable
<1>5. /\ {s} \in SUBSET Sessions
      /\ UNCHANGED <<known, modern, initialized, filter, stream, toClient, read, covered>>
  BY <1>1 DEF client
<1> QED BY <1>1, <1>3, <1>4, <1>5, EditedOK

(* A replaced resource is announced itself, and its list not covered. *)
LEMMA ReplaceResourceOK ==
  ASSUME IInv, NEW s \in Sessions, ReplaceResource(s)
  PROVE  IInv'
<1>1. PICK i \in DOMAIN entries[s]["resources"] : \E uri \in Items :
        /\ entries' = [entries EXCEPT ![s]["resources"][i] = uri]
        /\ IF Wants(s, uri) THEN Told(s, uri) ELSE UNCHANGED toClient
        /\ covered' = [covered EXCEPT ![s] =
                         IF entries'[s] # entries[s] THEN @ \ {"resources"} ELSE @]
  BY DEF ReplaceResource
<1>2. PICK uri \in Items :
        /\ entries' = [entries EXCEPT ![s]["resources"][i] = uri]
        /\ IF Wants(s, uri) THEN Told(s, uri) ELSE UNCHANGED toClient
        /\ covered' = [covered EXCEPT ![s] =
                         IF entries'[s] # entries[s] THEN @ \ {"resources"} ELSE @]
  BY <1>1
<1>3. UNCHANGED <<known, modern, initialized, armed, filter, stream, read>>
  BY DEF ReplaceResource
<1>4. /\ IsTable(entries')
      /\ \A t \in Sessions, l \in Lists :
           t # s \/ l # "resources" => entries'[t][l] = entries[t][l]
  <2>1. IsTable(entries) /\ "resources" \in Lists
    BY DEF IInv, Shapes, Lists
  <2> QED BY <1>2, <2>1 DEF IsTable
<1>5. /\ toClient' \in [Sessions -> Seq(Notifications)]
      /\ \A t \in Sessions : ToSet(toClient[t]) \subseteq ToSet(toClient'[t])
  <2>1. uri \in Notifications
    BY DEF Notifications
  <2> QED BY <1>2, <2>1, ToldOK DEF IInv, Shapes
<1>6. /\ covered' \in [Sessions -> SUBSET Lists]
      /\ \A t \in Sessions : covered'[t] \subseteq covered[t]
      /\ entries'[s] # entries[s] => "resources" \notin covered'[s]
  BY <1>2 DEF IInv, Shapes
<1>7. Shapes'
  BY <1>3, <1>4, <1>5, <1>6 DEF IInv, Shapes, IsTable
<1>8. CoveredIsPromised'
  BY <1>3, <1>6 DEF IInv, CoveredIsPromised, Promised
<1>9. ASSUME NEW t \in Sessions, NEW l \in covered'[t] PROVE Current(t, l)'
  <2>1. l \in Lists /\ Current(t, l) /\ entries'[t][l] = entries[t][l]
    BY <1>4, <1>6, CurrentLists DEF IInv, Shapes
  <2> QED BY <1>3, <1>5, <2>1, StaysCurrent
<1>10. CoveredListsAreCurrent'
  BY <1>9 DEF CoveredListsAreCurrent, Current
<1> QED BY <1>7, <1>8, <1>10 DEF IInv

-----------------------------------------------------------------------------
(***************************************************************************)
(* Notifications and requests.                                             *)
(***************************************************************************)

(* A client that covers a list is told when its timer fires. *)
LEMMA TimerFiresOK ==
  ASSUME IInv, NEW s \in Sessions, TimerFires(s)
  PROVE  IInv'
<1>1. PICK list \in armed[s] :
        /\ armed' = [armed EXCEPT ![s] = @ \ {list}]
        /\ IF MayTell(s, list) THEN Told(s, list) ELSE UNCHANGED toClient
  BY DEF TimerFires
<1>2. UNCHANGED <<known, modern, initialized, entries, filter, stream, read, covered>>
  BY DEF TimerFires
<1>3. list \in Notifications
  BY DEF IInv, Shapes, Notifications
<1>4. /\ toClient' \in [Sessions -> Seq(Notifications)]
      /\ \A t \in Sessions : ToSet(toClient[t]) \subseteq ToSet(toClient'[t])
      /\ MayTell(s, list) /\ stream[s] => list \in ToSet(toClient'[s])
  BY <1>1, <1>3, ToldOK DEF IInv, Shapes
<1>5. /\ armed' \in [Sessions -> SUBSET Lists]
      /\ \A t \in Sessions : \A l : t # s \/ l # list => (l \in armed[t] => l \in armed'[t])
  BY <1>1 DEF IInv, Shapes
<1>6. Shapes' /\ CoveredIsPromised'
  BY <1>2, <1>4, <1>5 DEF IInv, Shapes, IsTable, CoveredIsPromised, Promised
<1>7. ASSUME NEW t \in Sessions, NEW l \in covered[t] PROVE Current(t, l)'
  <2>1. l \in Lists /\ Current(t, l) /\ initialized[t] /\ Promised(t, l)
    BY CurrentLists DEF IInv, Shapes, CoveredIsPromised
  <2>2. CASE t = s /\ l = list
    BY <1>4, <2>1, <2>2 DEF Promised, MayTell, Current
  <2>3. CASE t # s \/ l # list
    BY <1>2, <1>4, <1>5, <2>1, <2>3, StaysCurrent
  <2> QED BY <2>2, <2>3
<1>8. CoveredListsAreCurrent'
  BY <1>2, <1>7 DEF CoveredListsAreCurrent, Current
<1> QED BY <1>6, <1>8 DEF IInv

(* A new filter covers no more than it names. *)
LEMMA ListenOK ==
  ASSUME IInv, NEW s \in Sessions, Listen(s)
  PROVE  IInv'
<1>1. PICK f \in Filters :
        /\ filter' = [filter EXCEPT ![s] = f]
        /\ covered' = [covered EXCEPT ![s] = IF modern[s] THEN @ \cap f ELSE @]
  BY DEF Listen
<1>2. /\ Told(s, "acknowledged")
      /\ UNCHANGED <<known, modern, initialized, entries, armed, stream, read>>
  BY DEF Listen
<1>3. /\ toClient' \in [Sessions -> Seq(Notifications)]
      /\ \A t \in Sessions : ToSet(toClient[t]) \subseteq ToSet(toClient'[t])
  BY <1>2, ToldOK DEF IInv, Notifications
<1>4. /\ covered' \in [Sessions -> SUBSET Lists]
      /\ \A t \in Sessions : covered'[t] \subseteq covered[t]
      /\ modern[s] => covered'[s] \subseteq f
      /\ filter' \in [Sessions -> Filters \cup {{}}] /\ filter'[s] = f
      /\ \A t \in Sessions \ {s} : filter'[t] = filter[t]
  BY <1>1 DEF IInv, Shapes
<1>5. Shapes'
  BY <1>2, <1>3, <1>4 DEF IInv, Shapes, IsTable
<1>6. CoveredIsPromised'
  BY <1>2, <1>4 DEF IInv, CoveredIsPromised, Promised
<1>7. ASSUME NEW t \in Sessions, NEW l \in covered'[t] PROVE Current(t, l)'
  <2>1. Current(t, l)
    BY <1>4, CurrentLists DEF IInv
  <2> QED BY <1>2, <1>3, <2>1, StaysCurrent
<1>8. CoveredListsAreCurrent'
  BY <1>7 DEF CoveredListsAreCurrent, Current
<1> QED BY <1>5, <1>6, <1>8 DEF IInv

(* A list that was just read is current. *)
LEMMA ReadOK ==
  ASSUME IInv, NEW s \in Sessions, NEW list \in Lists, Read(s, list),
         UNCHANGED <<known, modern, initialized, entries, armed, filter, stream>>,
         toClient' \in [Sessions -> Seq(Notifications)],
         \A t \in Sessions, l \in Lists :
           t # s \/ l # list => (l \in ToSet(toClient[t]) => l \in ToSet(toClient'[t]))
  PROVE  IInv'
<1>1. /\ initialized[s]
      /\ read' = [read EXCEPT ![s][list] = Listed(s, list)]
      /\ covered' = [covered EXCEPT ![s] = IF Promised(s, list) THEN @ \cup {list} ELSE @]
  BY DEF Read
<1>2. /\ IsTable(read') /\ read'[s][list] = Listed(s, list)
      /\ \A t \in Sessions, l \in Lists : t # s \/ l # list => read'[t][l] = read[t][l]
  BY <1>1 DEF IInv, Shapes, IsTable
<1>3. /\ covered' \in [Sessions -> SUBSET Lists]
      /\ \A t \in Sessions, l \in Lists : t # s \/ l # list => (l \in covered'[t] <=> l \in covered[t])
      /\ \A l \in covered'[s] : l \in covered[s] \/ (l = list /\ Promised(s, list))
  <2>1. covered \in [Sessions -> SUBSET Lists]
    BY DEF IInv, Shapes
  <2>2. PICK new \in SUBSET Lists :
          /\ covered' = [covered EXCEPT ![s] = new]
          /\ new = IF Promised(s, list) THEN covered[s] \cup {list} ELSE covered[s]
    BY <1>1, <2>1
  <2> QED BY <2>1, <2>2
<1>4. Shapes'
  BY <1>2, <1>3 DEF IInv, Shapes, IsTable
<1>5. CoveredIsPromised'
  BY <1>1, <1>3 DEF IInv, Shapes, CoveredIsPromised, Promised
<1>6. ASSUME NEW t \in Sessions, NEW l \in covered'[t] PROVE Current(t, l)'
  <2>1. CASE t = s /\ l = list
    <3>1. Listed(s, list)' = Listed(s, list)
      BY ListedOfEntries
    <3> QED BY <1>2, <2>1, <3>1 DEF Current
  <2>2. CASE t # s \/ l # list
    <3>1. l \in Lists /\ l \in covered[t] /\ Current(t, l)
      BY <1>3, <2>2, CurrentLists DEF IInv, Shapes
    <3> QED BY <1>2, <2>2, <3>1, StaysCurrent
  <2> QED BY <2>1, <2>2
<1>7. CoveredListsAreCurrent'
  BY <1>6 DEF CoveredListsAreCurrent, Current
<1> QED BY <1>4, <1>5, <1>7 DEF IInv

(* Reading again what one was told of, or reading on one's own. *)
LEMMA RefreshOK ==
  ASSUME IInv, NEW s \in Sessions, Refresh(s) \/ ReadList(s)
  PROVE  IInv'
<1>1. UNCHANGED <<known, modern, initialized, entries, armed, filter, stream>>
  BY DEF Refresh, ReadList, catalog
<1>2. CASE ReadList(s)
  <2>1. PICK list \in Lists : Read(s, list)
    BY <1>2 DEF ReadList
  <2>2. toClient' = toClient
    BY <1>2 DEF ReadList
  <2> QED BY <1>1, <2>1, <2>2, ReadOK DEF IInv, Shapes
<1>3. CASE Refresh(s)
  <2> DEFINE queue == toClient[s]
  <2>1. /\ queue # <<>> /\ toClient' = [toClient EXCEPT ![s] = Tail(queue)]
        /\ IF Head(queue) \in Lists THEN Read(s, Head(queue)) ELSE UNCHANGED <<read, covered>>
    BY <1>3 DEF Refresh
  <2>2. queue \in Seq(Notifications) /\ toClient \in [Sessions -> Seq(Notifications)]
    BY DEF IInv, Shapes
  <2>3. \A n \in ToSet(queue) : n = Head(queue) \/ n \in ToSet(Tail(queue))
    <3> SUFFICES ASSUME NEW i \in DOMAIN queue
                 PROVE  queue[i] = Head(queue) \/ queue[i] \in ToSet(Tail(queue))
      BY DEF ToSet
    <3>1. CASE i = 1
      BY <2>2, <3>1
    <3>2. CASE i # 1
      <4>1. i - 1 \in DOMAIN Tail(queue) /\ Tail(queue)[i - 1] = queue[i]
        BY <2>1, <2>2, <3>2
      <4> QED BY <4>1 DEF ToSet
    <3> QED BY <3>1, <3>2
  <2>4. Tail(queue) \in Seq(Notifications)
    BY <2>1, <2>2
  <2> HIDE DEF queue
  <2>5. /\ toClient' \in [Sessions -> Seq(Notifications)] /\ toClient'[s] = Tail(queue)
        /\ \A t \in Sessions \ {s} : toClient'[t] = toClient[t]
    BY <2>1, <2>2, <2>4
  <2>6. CASE Head(queue) \in Lists
    <3>1. \A t \in Sessions, l \in Lists :
            t # s \/ l # Head(queue) => (l \in ToSet(toClient[t]) => l \in ToSet(toClient'[t]))
      BY <2>3, <2>5 DEF queue
    <3> QED BY <1>1, <2>1, <2>5, <2>6, <3>1, ReadOK
  <2>7. CASE Head(queue) \notin Lists
    <3>1. UNCHANGED <<read, covered>>
      BY <2>1, <2>7
    <3>2. \A t \in Sessions, l \in Lists : l \in ToSet(toClient[t]) => l \in ToSet(toClient'[t])
      BY <2>3, <2>5, <2>7 DEF queue
    <3>3. Shapes' /\ CoveredIsPromised'
      BY <1>1, <2>5, <3>1 DEF IInv, Shapes, IsTable, CoveredIsPromised, Promised
    <3>4. ASSUME NEW t \in Sessions, NEW l \in covered[t] PROVE Current(t, l)'
      <4>1. l \in Lists /\ Current(t, l)
        BY CurrentLists DEF IInv, Shapes
      <4> QED BY <1>1, <3>1, <3>2, <4>1, StaysCurrent
    <3>5. CoveredListsAreCurrent'
      BY <3>1, <3>4 DEF CoveredListsAreCurrent, Current
    <3> QED BY <3>3, <3>5 DEF IInv
  <2> QED BY <2>6, <2>7
<1> QED BY <1>2, <1>3

(* Sessions and streams that come and go. *)
LEMMA SessionOK ==
  ASSUME IInv, NEW s \in Sessions,
         NewSession(s) \/ Initialize(s) \/ OpenStream(s) \/ CloseStream(s)
  PROVE  IInv'
<1>1. covered \in [Sessions -> SUBSET Lists] /\ IsTable(entries)
  BY DEF IInv, Shapes
<1>2. CASE NewSession(s)
  <2>1. PICK new : entries' = [entries EXCEPT ![s]["tools"] = new]
    BY <1>2 DEF NewSession
  <2>2. /\ s \notin known /\ known' = known \cup {s}
        /\ UNCHANGED <<modern, initialized, armed, filter, stream, toClient, read, covered>>
    BY <1>2 DEF NewSession, client
  <2>3. IsTable(entries') /\ \A t \in Sessions \ {s} : entries'[t] = entries[t]
    BY <1>1, <2>1 DEF IsTable
  <2>4. covered[s] = {}
    BY <1>1, <2>2 DEF IInv, CoveredIsPromised
  <2>5. Shapes' /\ CoveredIsPromised'
    BY <2>2, <2>3 DEF IInv, Shapes, IsTable, CoveredIsPromised, Promised
  <2>6. ASSUME NEW t \in Sessions, NEW l \in covered[t] PROVE Current(t, l)'
    <3>1. t # s /\ Current(t, l)
      BY <2>4, <2>6, CurrentLists DEF IInv
    <3> QED BY <2>2, <2>3, <3>1, StaysCurrent
  <2>7. CoveredListsAreCurrent'
    BY <2>2, <2>6 DEF CoveredListsAreCurrent, Current
  <2> QED BY <2>5, <2>7 DEF IInv
<1>3. CASE Initialize(s)
  <2>1. /\ s \in known /\ ~initialized[s] /\ initialized' = [initialized EXCEPT ![s] = TRUE]
        /\ \E m \in BOOLEAN : modern' = [modern EXCEPT ![s] = m]
        /\ UNCHANGED <<known, entries, armed, filter, stream, toClient, read, covered>>
    BY <1>3 DEF Initialize, client
  <2>2. covered[s] = {}
    BY <1>1, <2>1 DEF IInv, CoveredIsPromised
  <2>3. /\ modern' \in [Sessions -> BOOLEAN] /\ initialized' \in [Sessions -> BOOLEAN]
        /\ \A t \in Sessions \ {s} : modern'[t] = modern[t] /\ initialized'[t] = initialized[t]
    BY <2>1 DEF IInv, Shapes
  <2>4. Shapes'
    BY <2>1, <2>3 DEF IInv, Shapes, IsTable
  <2>5. CoveredIsPromised'
    BY <2>1, <2>2, <2>3 DEF IInv, CoveredIsPromised, Promised
  <2>6. CoveredListsAreCurrent'
    BY <2>1 DEF IInv, CoveredListsAreCurrent, Listed
  <2> QED BY <2>4, <2>5, <2>6 DEF IInv
<1>4. CASE OpenStream(s)
  <2>1. /\ stream' = [stream EXCEPT ![s] = TRUE]
        /\ UNCHANGED <<known, modern, initialized, entries, armed, filter, toClient, read, covered>>
    BY <1>4 DEF OpenStream, catalog
  <2>2. Shapes' /\ CoveredIsPromised'
    BY <2>1 DEF IInv, Shapes, IsTable, CoveredIsPromised, Promised
  <2>3. CoveredListsAreCurrent'
    BY <2>1 DEF IInv, CoveredListsAreCurrent, Listed
  <2> QED BY <2>2, <2>3 DEF IInv
<1>5. CASE CloseStream(s)
  <2>1. /\ stream' = [stream EXCEPT ![s] = FALSE]
        /\ toClient' = [toClient EXCEPT ![s] = <<>>]
        /\ covered' = [covered EXCEPT ![s] = {}]
        /\ UNCHANGED <<known, modern, initialized, entries, armed, filter, read>>
    BY <1>5 DEF CloseStream, catalog
  <2>2. /\ covered' \in [Sessions -> SUBSET Lists] /\ covered'[s] = {}
        /\ toClient' \in [Sessions -> Seq(Notifications)] /\ stream' \in [Sessions -> BOOLEAN]
        /\ \A t \in Sessions \ {s} : /\ covered'[t] = covered[t] /\ toClient'[t] = toClient[t]
                                    /\ stream'[t] = stream[t]
    BY <2>1 DEF IInv, Shapes
  <2>3. Shapes' /\ CoveredIsPromised'
    BY <2>1, <2>2 DEF IInv, Shapes, IsTable, CoveredIsPromised, Promised
  <2>4. ASSUME NEW t \in Sessions, NEW l \in covered'[t] PROVE Current(t, l)'
    <3>1. t # s /\ l \in covered[t] /\ toClient'[t] = toClient[t]
      BY <2>2
    <3>2. Current(t, l)
      BY <3>1, CurrentLists DEF IInv
    <3> QED BY <2>1, <3>1, <3>2, StaysCurrent
  <2>5. CoveredListsAreCurrent'
    BY <2>4 DEF CoveredListsAreCurrent, Current
  <2> QED BY <2>3, <2>5 DEF IInv
<1> QED BY <1>2, <1>3, <1>4, <1>5

-----------------------------------------------------------------------------
(***************************************************************************)
(* Theorems.                                                               *)
(***************************************************************************)

(* Only known sessions are registered at and edited. *)
KnownOK == known \in SUBSET Sessions

(* No list is covered at first. *)
LEMMA InitOK == Init => IInv /\ KnownOK
<1> SUFFICES ASSUME Init PROVE IInv /\ KnownOK
  OBVIOUS
<1>1. Shapes
  BY DEF Init, Shapes, IsTable
<1>2. CoveredIsPromised /\ CoveredListsAreCurrent /\ KnownOK
  BY DEF Init, CoveredIsPromised, CoveredListsAreCurrent, KnownOK
<1> QED BY <1>1, <1>2 DEF IInv

LEMMA KnownStays == KnownOK /\ [Next]_vars => KnownOK'
<1> SUFFICES ASSUME KnownOK, [Next]_vars PROVE KnownOK'
  OBVIOUS
<1>1. known' = known \/ \E s \in Sessions : known' = known \cup {s}
  <2>1. ASSUME NEW s \in Sessions, NewSession(s) PROVE known' = known \cup {s}
    BY <2>1 DEF NewSession
  <2>2. ASSUME NEW t, \/ RegisterToolSet(t) \/ UnregisterToolSet(t)
                      \/ RegisterTool(t) \/ UnregisterTool(t)
        PROVE  known' = known
    BY <2>2 DEF RegisterToolSet, UnregisterToolSet, RegisterTool, UnregisterTool, Register, WithTools
  <2>3. ASSUME NEW s \in Sessions,
               \/ Initialize(s) \/ OpenStream(s) \/ CloseStream(s) \/ InsertOrRemove(s)
               \/ ReplacePrompt(s) \/ ReplaceResource(s) \/ TimerFires(s) \/ Listen(s)
               \/ Subscribe(s) \/ ReadList(s) \/ Refresh(s) \/ ReadPage(s)
        PROVE  known' = known
    BY <2>3 DEF Initialize, OpenStream, CloseStream, InsertOrRemove, ReplacePrompt, EditList,
                ReplaceResource, TimerFires, Listen, Subscribe, ReadList, Refresh, ReadPage, catalog
  <2>4. UNCHANGED vars => known' = known
    BY DEF vars, catalog
  <2> QED BY <2>1, <2>2, <2>3, <2>4 DEF Next
<1> QED BY <1>1 DEF KnownOK

(* Steps that touch neither lists, nor timers, nor notifications. *)
LEMMA QuietOK ==
  ASSUME IInv,
         UNCHANGED <<known, modern, initialized, entries, armed, filter, stream, toClient, read,
                     covered>>
  PROVE  IInv'
<1>1. Shapes' /\ CoveredIsPromised'
  BY DEF IInv, Shapes, IsTable, CoveredIsPromised, Promised
<1>2. CoveredListsAreCurrent'
  BY DEF IInv, CoveredListsAreCurrent, Listed
<1> QED BY <1>1, <1>2 DEF IInv

(* Every step preserves the invariant. *)
LEMMA StepOK == IInv /\ KnownOK /\ [Next]_vars => IInv'
<1> SUFFICES ASSUME IInv, KnownOK, [Next]_vars PROVE IInv'
  OBVIOUS
<1>1. ASSUME NEW s \in Sessions, Subscribe(s) \/ ReadPage(s) PROVE IInv'
  BY <1>1, QuietOK DEF Subscribe, ReadPage, client, catalog
<1>2. CASE UNCHANGED vars
  BY <1>2, QuietOK DEF vars, client, catalog
<1>3. known \in SUBSET Sessions
  BY DEF KnownOK
<1> QED BY <1>1, <1>2, <1>3, RegistrationOK, ListEditOK, ReplaceResourceOK, TimerFiresOK, ListenOK,
           RefreshOK, SessionOK DEF Next

(* Lists, timers and notifications belong together in every execution. *)
THEOREM Invariance == Spec => [](IInv /\ KnownOK)
<1> QED BY InitOK, KnownStays, StepOK, PTL DEF Spec

(* However many sessions, edits and requests interleave: a client that read *)
(* a list while it would be told of changes has the current list, or will  *)
(* be told.                                                                *)
THEOREM CoveredStaysCurrent == Spec => []CoveredListsAreCurrent
<1>1. IInv => CoveredListsAreCurrent
  BY DEF IInv
<1> QED BY <1>1, Invariance, PTL

-----------------------------------------------------------------------------
(***************************************************************************)
(* What sessions offer.                                                    *)
(***************************************************************************)

(* The lists hold what they are for, and the tools follow the              *)
(* registrations; only finitely many of those were made, which             *)
(* newSessionStarted needs to put them in an order.                        *)
RegistrationsInv ==
  /\ toolSets \subseteq ToolSets /\ IsFiniteSet(toolSets)
  /\ actions \subseteq Actions /\ IsFiniteSet(actions)
  /\ \A s \in Sessions :
       /\ entries[s]["tools"] \in Seq(Providers)
       /\ \A list \in Lists \ {"tools"} : entries[s][list] \in Seq(Items)
  /\ ToolsFollowRegistrations

(* Offering the tools of one session, and no tool set that is not there.    *)
Follows(tools, sets, acts) ==
  /\ ToSet(tools) \cap ToolSets = sets
  /\ Self \cup acts \subseteq ToSet(tools)

(* A step that only changes tools, pointwise. *)
LEMMA ToolsKeep ==
  ASSUME RegistrationsInv, KnownOK,
         toolSets' \subseteq ToolSets, IsFiniteSet(toolSets'),
         actions' \subseteq Actions, IsFiniteSet(actions'),
         \A s \in Sessions, l \in Lists : l # "tools" => entries'[s][l] = entries[s][l],
         \A s \in Sessions : entries'[s]["tools"] \in Seq(Providers),
         known' \in SUBSET Sessions,
         \A s \in known' : Follows(entries'[s]["tools"], toolSets', actions')
  PROVE  RegistrationsInv'
<1>1. \A s \in Sessions : \A list \in Lists \ {"tools"} : entries'[s][list] \in Seq(Items)
  BY DEF RegistrationsInv
<1>2. ToolsFollowRegistrations'
  BY DEF ToolsFollowRegistrations, Follows
<1> QED BY <1>1, <1>2 DEF RegistrationsInv

(* What is registered is offered by every session that was started, and     *)
(* what is unregistered by none.                                           *)
LEMMA RegistrationFollows ==
  ASSUME IInv, KnownOK, RegistrationsInv,
         \/ \E t \in ToolSets : RegisterToolSet(t) \/ UnregisterToolSet(t)
         \/ \E a \in Actions : RegisterTool(a) \/ UnregisterTool(a)
  PROVE  RegistrationsInv'
<1> DEFINE Tools == Providers
<1>1. /\ toolSets \subseteq ToolSets /\ IsFiniteSet(toolSets)
      /\ actions \subseteq Actions /\ IsFiniteSet(actions)
      /\ \A s \in Sessions : entries[s]["tools"] \in Seq(Tools)
      /\ \A s \in known : Follows(entries[s]["tools"], toolSets, actions)
      /\ known \in SUBSET Sessions
  BY DEF RegistrationsInv, ToolsFollowRegistrations, Follows, KnownOK
<1>2. ToolSets \cap Actions = {} /\ Self \cap (ToolSets \cup Actions) = {}
  BY CatalogAssumption
<1>3. ASSUME NEW p \in Tools, Register(p), NEW s \in Sessions
      PROVE  /\ known' = known
             /\ \A l \in Lists : l # "tools" => entries'[s][l] = entries[s][l]
             /\ entries'[s]["tools"] \in Seq(Tools)
             /\ s \in known => ToSet(entries'[s]["tools"]) = ToSet(entries[s]["tools"]) \cup {p}
  <2>1. /\ entries' = [u \in Sessions |->
                         IF u \in known
                         THEN [entries[u] EXCEPT !["tools"] = Append(entries[u]["tools"], p)]
                         ELSE entries[u]]
        /\ known' = known
    BY <1>3 DEF Register, WithTools, IInv, Shapes, IsTable
  <2>2. \A l \in Lists : entries'[s][l] = IF s \in known /\ l = "tools"
                                        THEN Append(entries[s]["tools"], p) ELSE entries[s][l]
    BY <2>1 DEF IInv, Shapes, IsTable
  <2>3. "tools" \in Lists
    BY DEF Lists
  <2>4. /\ Append(entries[s]["tools"], p) \in Seq(Tools)
        /\ ToSet(Append(entries[s]["tools"], p)) = ToSet(entries[s]["tools"]) \cup {p}
    BY <1>1, AppendedSet
  <2> HIDE DEF Tools
  <2> QED BY <1>1, <2>1, <2>2, <2>3, <2>4
<1>4. ASSUME NEW p \in Tools, NEW Left,
             entries' = [u \in Sessions |->
                           IF u \in Holders(p) THEN [entries[u] EXCEPT !["tools"] = Left[u]]
                           ELSE entries[u]],
             \A u \in Holders(p) :
               /\ Left[u] \in Seq(Tools)
               /\ ToSet(Left[u]) \subseteq ToSet(entries[u]["tools"])
               /\ ToSet(entries[u]["tools"]) \subseteq ToSet(Left[u]) \cup {p},
             NEW s \in Sessions
      PROVE  /\ \A l \in Lists : l # "tools" => entries'[s][l] = entries[s][l]
             /\ entries'[s]["tools"] \in Seq(Tools)
             /\ ToSet(entries'[s]["tools"]) \subseteq ToSet(entries[s]["tools"])
             /\ ToSet(entries[s]["tools"]) \subseteq ToSet(entries'[s]["tools"]) \cup {p}
             /\ s \in Holders(p) => entries'[s]["tools"] = Left[s]
             /\ s \in known \ Holders(p) => p \notin ToSet(entries'[s]["tools"])
  <2>1. \A l \in Lists : entries'[s][l] = IF s \in Holders(p) /\ l = "tools"
                                        THEN Left[s] ELSE entries[s][l]
    BY <1>4 DEF IInv, Shapes, IsTable
  <2>2. "tools" \in Lists
    BY DEF Lists
  <2>3. s \in known \ Holders(p) => p \notin ToSet(entries[s]["tools"])
    BY DEF Holders
  <2> HIDE DEF Tools
  <2> QED BY <1>1, <1>4, <2>1, <2>2, <2>3
<1>5. ASSUME NEW t \in ToolSets, RegisterToolSet(t) PROVE RegistrationsInv'
  <2>1. /\ toolSets' = toolSets \cup {t} /\ actions' = actions /\ Register(t) /\ t \in Tools
    BY <1>5 DEF RegisterToolSet, Providers
  <2>2. IsFiniteSet(toolSets')
    BY <1>1, <2>1, FS_AddElement
  <2>3. \A s \in known : Follows(entries'[s]["tools"], toolSets', actions')
    <3> SUFFICES ASSUME NEW s \in known
                 PROVE  Follows(entries'[s]["tools"], toolSets', actions')
      OBVIOUS
    <3> DEFINE before == ToSet(entries[s]["tools"])
               after == ToSet(entries'[s]["tools"])
    <3>1. before \cap ToolSets = toolSets /\ Self \cup actions \subseteq before
      BY <1>1 DEF Follows
    <3>2. after = before \cup {t}
      BY <1>1, <1>3, <2>1
    <3> HIDE DEF before, after
    <3>3. after \cap ToolSets = toolSets' /\ Self \cup actions' \subseteq after
      BY <2>1, <3>1, <3>2
    <3> QED BY <3>3 DEF Follows, before, after
  <2>4. known' = known
    BY <2>1 DEF Register, WithTools
  <2> QED BY <1>1, <1>3, <2>1, <2>2, <2>3, <2>4, ToolsKeep
<1>6. ASSUME NEW a \in Actions, RegisterTool(a) PROVE RegistrationsInv'
  <2>1. /\ actions' = actions \cup {a} /\ toolSets' = toolSets /\ Register(a) /\ a \in Tools
    BY <1>6 DEF RegisterTool, Providers
  <2>2. IsFiniteSet(actions')
    BY <1>1, <2>1, FS_AddElement
  <2>3. \A s \in known : Follows(entries'[s]["tools"], toolSets', actions')
    <3> SUFFICES ASSUME NEW s \in known
                 PROVE  Follows(entries'[s]["tools"], toolSets', actions')
      OBVIOUS
    <3> DEFINE before == ToSet(entries[s]["tools"])
               after == ToSet(entries'[s]["tools"])
    <3>1. before \cap ToolSets = toolSets /\ Self \cup actions \subseteq before
      BY <1>1 DEF Follows
    <3>2. after = before \cup {a}
      BY <1>1, <1>3, <2>1
    <3> HIDE DEF before, after
    <3>3. after \cap ToolSets = toolSets' /\ Self \cup actions' \subseteq after
      BY <1>2, <2>1, <3>1, <3>2
    <3> QED BY <3>3 DEF Follows, before, after
  <2>4. known' = known
    BY <2>1 DEF Register, WithTools
  <2> QED BY <1>1, <1>3, <2>1, <2>2, <2>3, <2>4, ToolsKeep
<1>7. ASSUME NEW t \in ToolSets, UnregisterToolSet(t) PROVE RegistrationsInv'
  <2> DEFINE Left == [u \in Sessions |-> Without(entries[u]["tools"], t)]
  <2>1. /\ toolSets' = toolSets \ {t} /\ actions' = actions /\ known' = known /\ t \in Tools
        /\ entries' = [u \in Sessions |->
                         IF u \in Holders(t) THEN [entries[u] EXCEPT !["tools"] = Left[u]]
                         ELSE entries[u]]
    BY <1>7 DEF UnregisterToolSet, WithTools, IInv, Shapes, IsTable, Providers
  <2>2. \A u \in Sessions : /\ Left[u] \in Seq(Tools)
                           /\ ToSet(Left[u]) = ToSet(entries[u]["tools"]) \ {t}
    BY <1>1, WithoutOK
  <2>3. Holders(t) \subseteq Sessions
    BY <1>1 DEF Holders
  <2> HIDE DEF Left, Tools
  <2>4. \A s \in Sessions :
          /\ \A l \in Lists : l # "tools" => entries'[s][l] = entries[s][l]
          /\ entries'[s]["tools"] \in Seq(Tools)
          /\ ToSet(entries'[s]["tools"]) \subseteq ToSet(entries[s]["tools"])
          /\ ToSet(entries[s]["tools"]) \subseteq ToSet(entries'[s]["tools"]) \cup {t}
          /\ s \in Holders(t) => entries'[s]["tools"] = Left[s]
          /\ s \in known \ Holders(t) => t \notin ToSet(entries'[s]["tools"])
    <3>1. \A u \in Holders(t) :
            /\ Left[u] \in Seq(Tools)
            /\ ToSet(Left[u]) \subseteq ToSet(entries[u]["tools"])
            /\ ToSet(entries[u]["tools"]) \subseteq ToSet(Left[u]) \cup {t}
      BY <2>2, <2>3
    <3> QED BY <1>4, <2>1, <3>1
  <2>5. \A s \in known : t \notin ToSet(entries'[s]["tools"])
    BY <1>1, <2>2, <2>4
  <2>6. \A s \in known : Follows(entries'[s]["tools"], toolSets', actions')
    <3> SUFFICES ASSUME NEW s \in known
                 PROVE  Follows(entries'[s]["tools"], toolSets', actions')
      OBVIOUS
    <3> DEFINE before == ToSet(entries[s]["tools"])
               after == ToSet(entries'[s]["tools"])
    <3>1. before \cap ToolSets = toolSets /\ Self \cup actions \subseteq before
      BY <1>1 DEF Follows
    <3>2. after \subseteq before /\ before \subseteq after \cup {t} /\ t \notin after
      BY <1>1, <2>4, <2>5
    <3> HIDE DEF before, after
    <3>3. after \cap ToolSets = toolSets' /\ Self \cup actions' \subseteq after
      BY <1>1, <1>2, <2>1, <3>1, <3>2
    <3> QED BY <3>3 DEF Follows, before, after
  <2>7. IsFiniteSet(toolSets')
    BY <1>1, <2>1, FS_RemoveElement
  <2> QED BY <1>1, <2>1, <2>4, <2>6, <2>7, ToolsKeep DEF Tools
<1>8. ASSUME NEW a \in Actions, UnregisterTool(a) PROVE RegistrationsInv'
  <2> DEFINE Left == [u \in Sessions |->
                        RemoveAt(entries[u]["tools"], LastIndexOf(entries[u]["tools"], a))]
  <2>1. /\ actions' = actions \ {a} /\ toolSets' = toolSets /\ known' = known /\ a \in Tools
        /\ entries' = [u \in Sessions |->
                         IF u \in Holders(a) THEN [entries[u] EXCEPT !["tools"] = Left[u]]
                         ELSE entries[u]]
    BY <1>8 DEF UnregisterTool, WithTools, IInv, Shapes, IsTable, Providers
  <2>2. ASSUME NEW u \in Holders(a)
        PROVE  /\ Left[u] \in Seq(Tools)
               /\ ToSet(Left[u]) \subseteq ToSet(entries[u]["tools"])
               /\ ToSet(entries[u]["tools"]) \subseteq ToSet(Left[u]) \cup {a}
    <3> DEFINE tools == entries[u]["tools"]
    <3>1. u \in Sessions /\ a \in ToSet(tools) /\ tools \in Seq(Tools)
      BY <1>1 DEF Holders
    <3>2. Left[u] = RemoveAt(tools, LastIndexOf(tools, a))
      BY <3>1
    <3> HIDE DEF tools, Left, Tools
    <3>3. LastIndexOf(tools, a) \in DOMAIN tools /\ tools[LastIndexOf(tools, a)] = a
      BY <3>1, LastIndexExists
    <3>4. /\ RemoveAt(tools, LastIndexOf(tools, a)) \in Seq(Tools)
          /\ ToSet(RemoveAt(tools, LastIndexOf(tools, a))) \subseteq ToSet(tools)
          /\ ToSet(tools) \subseteq ToSet(RemoveAt(tools, LastIndexOf(tools, a))) \cup {a}
      BY <3>1, <3>3, RemovedSet
    <3> QED BY <3>2, <3>4 DEF tools
  <2> HIDE DEF Left, Tools
  <2>3. \A s \in Sessions :
          /\ \A l \in Lists : l # "tools" => entries'[s][l] = entries[s][l]
          /\ entries'[s]["tools"] \in Seq(Tools)
          /\ ToSet(entries'[s]["tools"]) \subseteq ToSet(entries[s]["tools"])
          /\ ToSet(entries[s]["tools"]) \subseteq ToSet(entries'[s]["tools"]) \cup {a}
    <3> SUFFICES ASSUME NEW s \in Sessions
                 PROVE  /\ \A l \in Lists : l # "tools" => entries'[s][l] = entries[s][l]
                        /\ entries'[s]["tools"] \in Seq(Tools)
                        /\ ToSet(entries'[s]["tools"]) \subseteq ToSet(entries[s]["tools"])
                        /\ ToSet(entries[s]["tools"])
                             \subseteq ToSet(entries'[s]["tools"]) \cup {a}
      OBVIOUS
    <3>1. CASE s \in Holders(a)
      <4>1. entries'[s] = [entries[s] EXCEPT !["tools"] = Left[s]]
        BY <2>1, <3>1
      <4>2. /\ entries'[s]["tools"] = Left[s]
            /\ \A l \in Lists : l # "tools" => entries'[s][l] = entries[s][l]
        BY <4>1 DEF IInv, Shapes, IsTable, Lists
      <4> QED BY <2>2, <3>1, <4>2
    <3>2. CASE s \notin Holders(a)
      <4>1. entries'[s] = entries[s]
        BY <2>1, <3>2
      <4> QED BY <1>1, <4>1
    <3> QED BY <3>1, <3>2
  <2>4. \A s \in known : Follows(entries'[s]["tools"], toolSets', actions')
    <3> SUFFICES ASSUME NEW s \in known
                 PROVE  Follows(entries'[s]["tools"], toolSets', actions')
      OBVIOUS
    <3> DEFINE before == ToSet(entries[s]["tools"])
               after == ToSet(entries'[s]["tools"])
    <3>1. before \cap ToolSets = toolSets /\ Self \cup actions \subseteq before
      BY <1>1 DEF Follows
    <3>2. after \subseteq before /\ before \subseteq after \cup {a}
      BY <1>1, <2>3
    <3> HIDE DEF before, after
    <3>3. after \cap ToolSets = toolSets' /\ Self \cup actions' \subseteq after
      BY <1>1, <1>2, <2>1, <3>1, <3>2
    <3> QED BY <3>3 DEF Follows, before, after
  <2>5. IsFiniteSet(actions')
    BY <1>1, <2>1, FS_RemoveElement
  <2> QED BY <1>1, <2>1, <2>3, <2>4, <2>5, ToolsKeep DEF Tools
<1> QED BY <1>5, <1>6, <1>7, <1>8

(* A session starts with the server's own tools and what is registered, in *)
(* whatever order.                                                         *)
LEMMA NewSessionFollows ==
  ASSUME IInv, KnownOK, RegistrationsInv, NEW s \in Sessions, NewSession(s)
  PROVE  RegistrationsInv'
<1>1. PICK own \in SetToSeqs(Self), sets \in SetToSeqs(toolSets), acts \in SetToSeqs(actions) :
        entries' = [entries EXCEPT ![s]["tools"] = own \o sets \o acts]
  BY DEF NewSession
<1>2. known' = known \cup {s} /\ UNCHANGED <<toolSets, actions>>
  BY DEF NewSession
<1>3. /\ toolSets \subseteq ToolSets /\ IsFiniteSet(toolSets)
      /\ actions \subseteq Actions /\ IsFiniteSet(actions)
      /\ \A u \in Sessions : entries[u]["tools"] \in Seq(Providers)
      /\ \A u \in known : Follows(entries[u]["tools"], toolSets, actions)
  BY DEF RegistrationsInv, ToolsFollowRegistrations, Follows
<1>4. /\ own \in Seq(Self) /\ ToSet(own) = Self
      /\ sets \in Seq(toolSets) /\ ToSet(sets) = toolSets
      /\ acts \in Seq(actions) /\ ToSet(acts) = actions
  BY <1>3, OrderedSet, CatalogAssumption
<1>5. own \in Seq(Providers) /\ sets \in Seq(Providers) /\ acts \in Seq(Providers)
  BY <1>3, <1>4 DEF Providers
<1> DEFINE new == own \o sets \o acts
<1>6. new \in Seq(Providers) /\ ToSet(new) = Self \cup toolSets \cup actions
  <2> DEFINE both == own \o sets
  <2>1. both \in Seq(Providers) /\ ToSet(both) = Self \cup toolSets
    BY <1>4, <1>5, JoinedSet
  <2>2. new = both \o acts
    OBVIOUS
  <2> HIDE DEF both, new
  <2>3. both \o acts \in Seq(Providers) /\ ToSet(both \o acts) = ToSet(both) \cup actions
    BY <1>4, <1>5, <2>1, JoinedSet
  <2> QED BY <2>1, <2>2, <2>3
<1> HIDE DEF new
<1>7. entries' = [entries EXCEPT ![s]["tools"] = new]
  BY <1>1 DEF new
<1>8. \A u \in Sessions, l \in Lists :
        entries'[u][l] = IF u = s /\ l = "tools" THEN new ELSE entries[u][l]
  BY <1>7 DEF IInv, Shapes, IsTable
<1>9. "tools" \in Lists
  BY DEF Lists
<1>10. Follows(new, toolSets, actions)
  BY <1>3, <1>6, CatalogAssumption DEF Follows
<1>11. \A u \in Sessions : entries'[u]["tools"] \in Seq(Providers)
  BY <1>3, <1>6, <1>8, <1>9
<1>12. \A u \in known' : Follows(entries'[u]["tools"], toolSets', actions')
  BY <1>2, <1>3, <1>8, <1>9, <1>10 DEF KnownOK
<1> QED BY <1>2, <1>3, <1>8, <1>11, <1>12, ToolsKeep DEF KnownOK

(* Prompts and resources come from the application, which edits them; the   *)
(* tools stay.                                                             *)
LEMMA EntriesKeep ==
  ASSUME IInv, RegistrationsInv, KnownOK, NEW s \in Sessions, NEW list \in {"resources", "prompts"},
         NEW new \in Seq(Items), entries' = [entries EXCEPT ![s][list] = new],
         UNCHANGED <<toolSets, actions, known>>
  PROVE  RegistrationsInv'
<1>1. \A u \in Sessions, l \in Lists :
        entries'[u][l] = IF u = s /\ l = list THEN new ELSE entries[u][l]
  BY DEF IInv, Shapes, IsTable
<1>2. /\ "tools" \in Lists /\ list # "tools"
      /\ \A u \in Sessions : entries'[u]["tools"] = entries[u]["tools"]
  BY <1>1 DEF Lists
<1>3. \A u \in Sessions :
        /\ entries'[u]["tools"] \in Seq(Providers)
        /\ \A l \in Lists \ {"tools"} : entries'[u][l] \in Seq(Items)
  BY <1>1, <1>2 DEF RegistrationsInv
<1>4. ToolsFollowRegistrations'
  BY <1>2 DEF RegistrationsInv, ToolsFollowRegistrations, KnownOK
<1> QED BY <1>3, <1>4 DEF RegistrationsInv

(* Edits of prompts and resources leave the tools alone. *)
LEMMA EditFollows ==
  ASSUME IInv, RegistrationsInv, KnownOK, NEW s \in Sessions,
         InsertOrRemove(s) \/ ReplacePrompt(s) \/ ReplaceResource(s)
  PROVE  RegistrationsInv'
<1>1. \A list \in {"resources", "prompts"} : entries[s][list] \in Seq(Items)
  BY DEF RegistrationsInv, Lists
<1>2. CASE InsertOrRemove(s)
  <2>1. PICK list \in {"resources", "prompts"} :
          \E new \in Inserted(entries[s][list]) \cup Removed(entries[s][list]) :
            /\ entries' = [entries EXCEPT ![s][list] = new]
            /\ UNCHANGED <<toolSets, actions, known>>
    BY <1>2 DEF InsertOrRemove, EditList
  <2>2. PICK new \in Inserted(entries[s][list]) \cup Removed(entries[s][list]) :
            /\ entries' = [entries EXCEPT ![s][list] = new]
            /\ UNCHANGED <<toolSets, actions, known>>
    BY <2>1
  <2> DEFINE old == entries[s][list]
  <2>3. old \in Seq(Items)
    BY <1>1
  <2> HIDE DEF old
  <2>4. new \in Inserted(old) \cup Removed(old)
    BY <2>2 DEF old
  <2>5. new \in Seq(Items)
    <3>1. CASE new \in Inserted(old)
      <4>1. PICK i \in 1 .. Len(old) + 1, item \in Items : new = InsertAt(old, i, item)
        BY <3>1 DEF Inserted
      <4>2. InsertAt(old, i, item) \in Seq(Items)
        BY <2>3, <4>1, InsertedType
      <4> QED BY <4>1, <4>2
    <3>2. CASE new \in Removed(old)
      <4>1. PICK i \in DOMAIN old : new = RemoveAt(old, i)
        BY <3>2 DEF Removed
      <4>2. RemoveAt(old, i) \in Seq(Items)
        BY <2>3, <4>1, RemovedSet
      <4> QED BY <4>1, <4>2
    <3> QED BY <2>4, <3>1, <3>2
  <2> QED BY <2>2, <2>5, EntriesKeep
<1>3. CASE ReplacePrompt(s)
  <2>1. PICK new \in Replaced(entries[s]["prompts"]) :
            /\ entries' = [entries EXCEPT ![s]["prompts"] = new]
            /\ UNCHANGED <<toolSets, actions, known>>
    BY <1>3 DEF ReplacePrompt, EditList
  <2>2. new \in Seq(Items)
    BY <1>1, <2>1 DEF Replaced
  <2> QED BY <2>1, <2>2, EntriesKeep
<1>4. CASE ReplaceResource(s)
  <2>1. PICK i \in DOMAIN entries[s]["resources"], uri \in Items :
          entries' = [entries EXCEPT ![s]["resources"][i] = uri]
    BY <1>4 DEF ReplaceResource
  <2> DEFINE new == [entries[s]["resources"] EXCEPT ![i] = uri]
  <2>2. new \in Seq(Items)
    BY <1>1, <2>1
  <2>3. entries' = [entries EXCEPT ![s]["resources"] = new]
    BY <2>1
  <2>4. UNCHANGED <<toolSets, actions, known>>
    BY <1>4 DEF ReplaceResource
  <2> HIDE DEF new
  <2> QED BY <2>2, <2>3, <2>4, EntriesKeep
<1> QED BY <1>2, <1>3, <1>4

(* Every step keeps what sessions offer in line with the registrations. *)
LEMMA RegistrationsStep == IInv /\ KnownOK /\ RegistrationsInv /\ [Next]_vars => RegistrationsInv'
<1> SUFFICES ASSUME IInv, KnownOK, RegistrationsInv, [Next]_vars PROVE RegistrationsInv'
  OBVIOUS
<1>1. ASSUME UNCHANGED <<toolSets, actions, known, entries>> PROVE RegistrationsInv'
  BY <1>1 DEF RegistrationsInv, ToolsFollowRegistrations
<1>2. ASSUME NEW s \in Sessions,
             \/ Initialize(s) \/ OpenStream(s) \/ CloseStream(s) \/ TimerFires(s) \/ Listen(s)
             \/ Subscribe(s) \/ ReadList(s) \/ Refresh(s) \/ ReadPage(s)
      PROVE  RegistrationsInv'
  <2>1. UNCHANGED <<toolSets, actions, known, entries>>
    BY <1>2 DEF Initialize, OpenStream, CloseStream, TimerFires, Listen, Subscribe, ReadList, Refresh,
                ReadPage, catalog
  <2> QED BY <1>1, <2>1
<1>3. CASE UNCHANGED vars
  BY <1>1, <1>3 DEF vars, catalog
<1> QED BY <1>2, <1>3, RegistrationFollows, NewSessionFollows, EditFollows DEF Next

-----------------------------------------------------------------------------
(***************************************************************************)
(* What a session that is not there, not initialized or not connected has. *)
(***************************************************************************)

(* A session nobody created is neither initialized nor connected, one that  *)
(* is not initialized neither announces changes nor listens to any, and     *)
(* without a stream nothing is on its way.                                 *)
SessionsInv ==
  /\ subscribed \in [Sessions -> SUBSET Items]
  /\ \A s \in Sessions :
       /\ s \notin known => ~initialized[s] /\ ~stream[s]
       /\ ~initialized[s] => armed[s] = {} /\ filter[s] = {}
       /\ ~stream[s] => toClient[s] = <<>>

(* Edits start timers of initialized sessions only. *)
LEMMA ArmedGated ==
  ASSUME IInv, SessionsInv, NEW list, NEW changed, Armed(list, changed),
         UNCHANGED <<known, initialized, stream, filter, toClient, subscribed>>
  PROVE  SessionsInv'
<1>1. \A s \in Sessions : ~initialized[s] => armed'[s] = armed[s]
  BY DEF Armed
<1> QED BY <1>1 DEF SessionsInv

(* A notification goes to one session, if that is connected. *)
LEMMA ToldGated ==
  ASSUME IInv, SessionsInv, NEW s \in Sessions, NEW n, Told(s, n)
  PROVE  \A u \in Sessions : ~stream[u] => toClient'[u] = <<>>
<1>1. toClient' = [toClient EXCEPT ![s] = IF stream[s] THEN Append(toClient[s], n)
                                         ELSE toClient[s]]
  BY DEF Told
<1> QED BY <1>1 DEF IInv, Shapes, SessionsInv

(* Every step leaves sessions that are not there, initialized or connected silent. *)
LEMMA SessionsStep == IInv /\ KnownOK /\ SessionsInv /\ [Next]_vars => SessionsInv'
<1> SUFFICES ASSUME IInv, KnownOK, SessionsInv, [Next]_vars PROVE SessionsInv'
  OBVIOUS
<1> DEFINE gates == <<known, initialized, stream, filter, toClient, subscribed>>
<1>1. ASSUME NEW p, \/ RegisterToolSet(p) \/ RegisterTool(p)
                    \/ UnregisterToolSet(p) \/ UnregisterTool(p)
      PROVE  SessionsInv'
  <2>1. \E changed : Armed("tools", changed) /\ UNCHANGED gates
    <3>1. CASE RegisterToolSet(p) \/ RegisterTool(p)
      BY <3>1 DEF RegisterToolSet, RegisterTool, Register, WithTools, client
    <3>2. CASE UnregisterToolSet(p) \/ UnregisterTool(p)
      BY <3>2 DEF UnregisterToolSet, UnregisterTool, WithTools, client
    <3> QED BY <1>1, <3>1, <3>2
  <2> QED BY <2>1, ArmedGated
<1>2. ASSUME NEW s \in Sessions, InsertOrRemove(s) \/ ReplacePrompt(s) PROVE SessionsInv'
  <2>1. \E list \in {"resources", "prompts"} : Armed(list, {s}) /\ UNCHANGED gates
    BY <1>2 DEF InsertOrRemove, ReplacePrompt, EditList, client
  <2> QED BY <2>1, ArmedGated
<1>3. ASSUME NEW s \in Sessions, ReplaceResource(s) PROVE SessionsInv'
  <2>1. /\ UNCHANGED <<known, initialized, stream, filter, armed, subscribed>>
        /\ UNCHANGED toClient \/ \E uri \in Items : Told(s, uri)
    BY <1>3 DEF ReplaceResource
  <2>2. \A u \in Sessions : ~stream[u] => toClient'[u] = <<>>
    BY <2>1, ToldGated DEF SessionsInv
  <2> QED BY <2>1, <2>2 DEF SessionsInv
<1>4. ASSUME NEW s \in Sessions, TimerFires(s) PROVE SessionsInv'
  <2>1. PICK list \in armed[s] :
          /\ armed' = [armed EXCEPT ![s] = @ \ {list}]
          /\ IF MayTell(s, list) THEN Told(s, list) ELSE UNCHANGED toClient
    BY <1>4 DEF TimerFires
  <2>2. UNCHANGED <<known, initialized, stream, filter, subscribed>>
    BY <1>4 DEF TimerFires
  <2>3. \A u \in Sessions : ~stream[u] => toClient'[u] = <<>>
    BY <2>1, ToldGated DEF SessionsInv
  <2>4. \A u \in Sessions : armed[u] = {} => armed'[u] = {}
    BY <2>1 DEF IInv, Shapes
  <2> QED BY <2>2, <2>3, <2>4 DEF SessionsInv
<1>5. ASSUME NEW s \in Sessions, Listen(s) PROVE SessionsInv'
  <2>1. PICK f \in Filters : filter' = [filter EXCEPT ![s] = f]
    BY <1>5 DEF Listen
  <2>2. /\ initialized[s] /\ Told(s, "acknowledged")
        /\ UNCHANGED <<known, initialized, stream, armed, subscribed>>
    BY <1>5 DEF Listen
  <2>3. \A u \in Sessions : ~stream[u] => toClient'[u] = <<>>
    BY <2>2, ToldGated
  <2>4. \A u \in Sessions : ~initialized[u] => filter'[u] = filter[u]
    BY <2>1, <2>2 DEF IInv, Shapes
  <2> QED BY <2>2, <2>3, <2>4 DEF SessionsInv
<1>6. ASSUME NEW s \in Sessions, Subscribe(s) PROVE SessionsInv'
  <2>1. PICK uris \in {subscribed[s] \cup {uri} : uri \in Items}
                  \cup {subscribed[s] \ {uri} : uri \in Items} :
          subscribed' = [subscribed EXCEPT ![s] = uris]
    BY <1>6 DEF Subscribe
  <2>2. UNCHANGED <<known, initialized, stream, armed, filter, toClient>>
    BY <1>6 DEF Subscribe, client
  <2>3. uris \subseteq Items
    BY <2>1 DEF SessionsInv
  <2> QED BY <2>1, <2>2, <2>3 DEF SessionsInv
<1>7. ASSUME NEW s \in Sessions, Refresh(s) PROVE SessionsInv'
  <2>1. /\ toClient[s] # <<>> /\ toClient' = [toClient EXCEPT ![s] = Tail(@)]
        /\ UNCHANGED <<known, initialized, stream, armed, filter, subscribed>>
    BY <1>7 DEF Refresh, catalog
  <2>2. \A u \in Sessions : toClient[u] = <<>> => toClient'[u] = <<>>
    BY <2>1 DEF IInv, Shapes
  <2> QED BY <2>1, <2>2 DEF SessionsInv
<1>8. ASSUME NEW s \in Sessions, ReadList(s) \/ ReadPage(s) PROVE SessionsInv'
  <2>1. UNCHANGED gates /\ UNCHANGED armed
    BY <1>8 DEF ReadList, ReadPage, catalog
  <2> QED BY <2>1 DEF SessionsInv
<1>9. ASSUME NEW s \in Sessions, NewSession(s) PROVE SessionsInv'
  <2>1. /\ known' = known \cup {s}
        /\ UNCHANGED <<initialized, stream, armed, filter, toClient, subscribed>>
    BY <1>9 DEF NewSession, client
  <2> QED BY <2>1 DEF SessionsInv
<1>10. ASSUME NEW s \in Sessions, Initialize(s) PROVE SessionsInv'
  <2>1. /\ s \in known /\ initialized' = [initialized EXCEPT ![s] = TRUE]
        /\ UNCHANGED <<known, stream, armed, filter, toClient, subscribed>>
    BY <1>10 DEF Initialize, client
  <2> QED BY <2>1 DEF SessionsInv, IInv, Shapes
<1>11. ASSUME NEW s \in Sessions, OpenStream(s) PROVE SessionsInv'
  <2>1. /\ s \in known /\ stream' = [stream EXCEPT ![s] = TRUE]
        /\ UNCHANGED <<known, initialized, armed, filter, toClient, subscribed>>
    BY <1>11 DEF OpenStream, catalog
  <2> QED BY <2>1 DEF SessionsInv, IInv, Shapes
<1>12. ASSUME NEW s \in Sessions, CloseStream(s) PROVE SessionsInv'
  <2>1. /\ stream' = [stream EXCEPT ![s] = FALSE] /\ toClient' = [toClient EXCEPT ![s] = <<>>]
        /\ UNCHANGED <<known, initialized, armed, filter, subscribed>>
    BY <1>12 DEF CloseStream, catalog
  <2> QED BY <2>1 DEF SessionsInv, IInv, Shapes
<1>13. CASE UNCHANGED vars
  <2>1. UNCHANGED gates /\ UNCHANGED armed
    BY <1>13 DEF vars, catalog, client
  <2> QED BY <2>1 DEF SessionsInv
<1> QED BY <1>1, <1>2, <1>3, <1>4, <1>5, <1>6, <1>7, <1>8, <1>9, <1>10, <1>11, <1>12, <1>13 DEF Next

-----------------------------------------------------------------------------
(***************************************************************************)
(* Pages.                                                                  *)
(***************************************************************************)

(* What a client has of a list that did not change is what the list begins  *)
(* with, up to where the cursor stands.                                    *)
IsWalk(w) ==
  /\ {w.of, w.pages} \subseteq Seq(Items)
  /\ w.cursor \in Nat
  /\ w.steady =>
       /\ Len(w.pages) <= Len(w.of)
       /\ w.pages = SubSeq(w.of, 1, Len(w.pages))
       /\ w.cursor = 0 => Len(w.pages) = Len(w.of)
       /\ w.cursor # 0 => w.cursor = Len(w.pages) /\ w.cursor < Len(w.of)

WalksInv == walk = [s \in Sessions |-> walk[s]] /\ \A s \in Sessions : IsWalk(walk[s])

(* The page behind a part of the list makes it a longer part. *)
LEMMA PageFollows ==
  ASSUME NEW list \in Seq(Items), NEW c \in 0 .. Len(list), c = 0 \/ c < Len(list)
  PROVE  LET end == EndIndex(list, c)
         IN  /\ end \in c .. Len(list)
             /\ Page(list, c) \in Seq(Items)
             /\ SubSeq(list, 1, c) \o Page(list, c) = SubSeq(list, 1, end)
             /\ Len(SubSeq(list, 1, end)) = end
             /\ NextCursor(list, c) = IF end < Len(list) THEN end ELSE 0
             /\ end < Len(list) => end # 0
<1> DEFINE end == EndIndex(list, c)
<1>1. PageSize \in Nat /\ PageSize > 0
  BY CatalogAssumption
<1>2. StartIndex(list, c) = c
  BY DEF StartIndex
<1>3. end = IF c + PageSize < Len(list) THEN c + PageSize ELSE Len(list)
  BY <1>2 DEF EndIndex
<1>4. end \in c .. Len(list) /\ (end < Len(list) => end # 0)
  BY <1>1, <1>3
<1>5. Page(list, c) = SubSeq(list, c + 1, end)
  BY <1>2 DEF Page
<1>6. NextCursor(list, c) = IF end < Len(list) THEN end ELSE 0
  BY DEF NextCursor
<1> HIDE DEF end
<1>7. Page(list, c) \in Seq(Items)
  BY <1>4, <1>5
<1>8. SubSeq(list, 1, c) \o SubSeq(list, c + 1, end) = SubSeq(list, 1, end)
  BY <1>4
<1>9. Len(SubSeq(list, 1, end)) = end
  BY <1>4
<1> QED BY <1>4, <1>5, <1>6, <1>7, <1>8, <1>9 DEF end

(* Only ReadPage moves a walk, by one page. *)
LEMMA WalksStep == RegistrationsInv /\ WalksInv /\ [Next]_vars => WalksInv'
<1> SUFFICES ASSUME RegistrationsInv, WalksInv, [Next]_vars PROVE WalksInv'
  OBVIOUS
<1>1. ASSUME NEW s \in Sessions, ReadPage(s) PROVE WalksInv'
  <2> DEFINE prompts == entries[s]["prompts"]
             w == walk[s]
             cursor == w.cursor
             before == IF cursor = 0 THEN <<>> ELSE w.pages
             of == IF cursor = 0 THEN prompts ELSE w.of
             new == [of |-> of, pages |-> before \o Page(prompts, cursor),
                     cursor |-> NextCursor(prompts, cursor),
                     steady |-> of = prompts /\ (cursor = 0 \/ w.steady)]
  <2>1. walk' = [walk EXCEPT ![s] = new]
    BY <1>1 DEF ReadPage
  <2>2. prompts \in Seq(Items) /\ IsWalk(w)
    BY DEF RegistrationsInv, Lists, WalksInv
  <2> HIDE DEF prompts, w
  <2>3. of \in Seq(Items) /\ before \in Seq(Items) /\ cursor \in Nat
    BY <2>2 DEF IsWalk
  <2>4. Page(prompts, cursor) \in Seq(Items) /\ NextCursor(prompts, cursor) \in Nat
    <3>1. StartIndex(prompts, cursor) \in 0 .. Len(prompts)
      BY <2>2, <2>3 DEF StartIndex
    <3>2. EndIndex(prompts, cursor) \in 0 .. Len(prompts)
      BY <2>2, <3>1, CatalogAssumption DEF EndIndex
    <3> QED BY <2>2, <3>1, <3>2 DEF Page, NextCursor
  <2>5. ASSUME new.steady
        PROVE  /\ Len(new.pages) <= Len(new.of)
               /\ new.pages = SubSeq(new.of, 1, Len(new.pages))
               /\ new.cursor = 0 => Len(new.pages) = Len(new.of)
               /\ new.cursor # 0 => new.cursor = Len(new.pages) /\ new.cursor < Len(new.of)
    <3>1. /\ cursor \in 0 .. Len(prompts) /\ (cursor = 0 \/ cursor < Len(prompts))
          /\ before = SubSeq(prompts, 1, cursor) /\ new.of = prompts
      <4>1. of = prompts /\ (cursor = 0 \/ w.steady) /\ new.of = of
        BY <2>5
      <4>2. CASE cursor = 0
        <5>1. SubSeq(prompts, 1, 0) = <<>> /\ 0 \in 0 .. Len(prompts)
          BY <2>2
        <5> QED BY <4>1, <4>2, <5>1
      <4>3. CASE cursor # 0
        <5>1. of = w.of /\ before = w.pages /\ w.steady
          BY <4>1, <4>3
        <5>2. /\ w.pages = SubSeq(w.of, 1, Len(w.pages))
              /\ cursor = Len(w.pages) /\ cursor < Len(w.of)
          BY <2>2, <4>3, <5>1 DEF IsWalk
        <5>3. cursor \in 0 .. Len(prompts)
          BY <2>2, <2>3, <4>1, <5>1, <5>2
        <5> QED BY <4>1, <5>1, <5>2, <5>3
      <4> QED BY <4>2, <4>3
    <3> DEFINE end == EndIndex(prompts, cursor)
    <3>2. /\ end \in cursor .. Len(prompts)
          /\ SubSeq(prompts, 1, cursor) \o Page(prompts, cursor) = SubSeq(prompts, 1, end)
          /\ Len(SubSeq(prompts, 1, end)) = end
          /\ NextCursor(prompts, cursor) = IF end < Len(prompts) THEN end ELSE 0
          /\ end < Len(prompts) => end # 0
      BY <2>2, <3>1, PageFollows
    <3> HIDE DEF end, cursor, before, of
    <3>3. /\ new.pages = SubSeq(prompts, 1, end) /\ Len(new.pages) = end
          /\ new.cursor = IF end < Len(prompts) THEN end ELSE 0
      BY <3>1, <3>2
    <3>4. Len(prompts) \in Nat
      BY <2>2
    <3> HIDE DEF new
    <3> QED BY <3>1, <3>2, <3>3, <3>4
  <2>6. new.of \in Seq(Items) /\ new.pages \in Seq(Items) /\ new.cursor \in Nat
    <3> HIDE DEF cursor, before, of
    <3> QED BY <2>3, <2>4
  <2> HIDE DEF new
  <2>7. IsWalk(new)
    BY <2>5, <2>6 DEF IsWalk
  <2> QED BY <2>1, <2>7 DEF WalksInv
<1>2. ASSUME NEW p, \/ RegisterToolSet(p) \/ RegisterTool(p)
                    \/ UnregisterToolSet(p) \/ UnregisterTool(p)
      PROVE  walk' = walk
  BY <1>2 DEF RegisterToolSet, RegisterTool, UnregisterToolSet, UnregisterTool, Register, WithTools, client
<1>3. ASSUME NEW s \in Sessions,
             \/ NewSession(s) \/ Initialize(s) \/ OpenStream(s) \/ CloseStream(s) \/ InsertOrRemove(s)
             \/ ReplacePrompt(s) \/ ReplaceResource(s) \/ TimerFires(s) \/ Listen(s)
             \/ Subscribe(s) \/ ReadList(s) \/ Refresh(s)
      PROVE  walk' = walk
  BY <1>3 DEF NewSession, Initialize, OpenStream, CloseStream, InsertOrRemove, ReplacePrompt, EditList,
              ReplaceResource, TimerFires, Listen, Subscribe, ReadList, Refresh, client
<1>4. CASE UNCHANGED vars
  BY <1>4 DEF vars, client, WalksInv
<1>5. walk' = walk => WalksInv'
  BY DEF WalksInv
<1> QED BY <1>1, <1>2, <1>3, <1>4, <1>5 DEF Next

-----------------------------------------------------------------------------
(***************************************************************************)
(* Theorems about types, tools and pages.                                  *)
(***************************************************************************)

(* At first there are no tools, no entries and no walks. *)
LEMMA InitLists == Init => RegistrationsInv /\ SessionsInv /\ WalksInv
<1> SUFFICES ASSUME Init PROVE RegistrationsInv /\ SessionsInv /\ WalksInv
  OBVIOUS
<1>1. RegistrationsInv
  <2>1. \A s \in Sessions : \A l \in Lists : entries[s][l] = <<>>
    BY DEF Init
  <2>2. "tools" \in Lists
    BY DEF Lists
  <2> QED BY <2>1, <2>2, FS_EmptySet DEF Init, RegistrationsInv, ToolsFollowRegistrations
<1>2. SessionsInv
  BY DEF Init, SessionsInv
<1>3. WalksInv
  <2>1. <<>> \in Seq(Items) /\ Len(<<>>) = 0 /\ SubSeq(<<>>, 1, 0) = <<>>
    OBVIOUS
  <2>2. IsWalk(NoWalk)
    BY <2>1 DEF IsWalk, NoWalk
  <2> QED BY <2>2 DEF Init, WalksInv
<1> QED BY <1>1, <1>2, <1>3

(* Lists, sessions and walks in every execution. *)
THEOREM ListsInvariance == Spec => [](RegistrationsInv /\ SessionsInv /\ WalksInv)
<1> QED BY InitLists, RegistrationsStep, SessionsStep, WalksStep, Invariance, PTL DEF Spec

(* The type invariant: what the lists, timers and streams hold, and that a  *)
(* session that is not initialized or connected holds nothing for a client. *)
THEOREM TypeCorrect == Spec => []TypeOK
<1>1. IInv /\ KnownOK /\ RegistrationsInv /\ SessionsInv => TypeOK
  <2> SUFFICES ASSUME IInv, KnownOK, RegistrationsInv, SessionsInv PROVE TypeOK
    OBVIOUS
  <2>1. \A s \in Sessions : armed[s] \subseteq Lists /\ covered[s] \subseteq Lists
                           /\ toClient[s] \in Seq(Lists \cup Items \cup {"acknowledged"})
    BY DEF IInv, Shapes, Notifications
  <2> QED BY <2>1 DEF IInv, Shapes, KnownOK, RegistrationsInv, SessionsInv, TypeOK
<1> QED BY <1>1, Invariance, ListsInvariance, PTL

(* Every session offers what is registered, and no tool set that is not, in  *)
(* whatever order sessions start, tools are registered and unregistered.    *)
THEOREM ToolsFollow == Spec => []ToolsFollowRegistrations
<1>1. RegistrationsInv => ToolsFollowRegistrations
  BY DEF RegistrationsInv
<1> QED BY <1>1, ListsInvariance, PTL

(* Following the cursors of a list that does not change gives every entry   *)
(* once, in order, for every page size and list.                           *)
THEOREM PagesAreTheList == Spec => []PagesMakeTheList
<1>1. WalksInv => PagesMakeTheList
  <2> SUFFICES ASSUME WalksInv, NEW s \in Sessions, walk[s].steady
               PROVE  /\ walk[s].pages = SubSeq(walk[s].of, 1, Len(walk[s].pages))
                      /\ walk[s].cursor = 0 => walk[s].pages = walk[s].of
    BY DEF PagesMakeTheList
  <2>1. IsWalk(walk[s])
    BY DEF WalksInv
  <2>2. walk[s].of \in Seq(Items)
    BY <2>1 DEF IsWalk
  <2>3. SubSeq(walk[s].of, 1, Len(walk[s].of)) = walk[s].of
    BY <2>2
  <2> QED BY <2>1, <2>3 DEF IsWalk
<1> QED BY <1>1, ListsInvariance, PTL
=============================================================================

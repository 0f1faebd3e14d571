-------------------------- MODULE MCServerRequests ---------------------------
(* Instances of ServerRequests for TLC: sessions of both kinds of clients. *)
EXTENDS ServerRequests

CONSTANTS s1, s2

TwoSessions == {s1, s2}
Second == {s2}
NoSession == {}
LibrarySession == {s2}
ChangesOfFirst == [s \in Sessions |-> IF s = s1 THEN 2 ELSE 0]
NoChanges == [s \in Sessions |-> 0]
Elicitation == {"elicitation/create"}
BothByFirst ==
  [s \in Sessions |-> {V2025_06_18} \cup IF s = s1 THEN {V2026_07_28} ELSE {}]
=============================================================================

----------------------------- MODULE MCLegacySse ------------------------------
(* Instances of LegacySse for TLC. *)
EXTENDS LegacySse

CONSTANTS c1, c2, s1, s2, s3, r1, r2

TwoClients == {c1, c2}
ThreeSessions == {s1, s2, s3}
TwoRequests == {r1, r2}
FirstTwice == [c \in Clients |-> IF c = c1 THEN 2 ELSE 1]
TogetherAndApart == {[c \in Clients |-> c1], [c \in Clients |-> c]}
=============================================================================

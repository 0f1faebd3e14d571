------------------------------ MODULE MCCatalog -------------------------------
(* Instances of Catalog for TLC. *)
EXTENDS Catalog

CONSTANTS s1, t1, a1, q1, i1, i2

OneSession == {s1}
OneToolSet == {t1}
OneAction == {a1}
OwnTools == {q1}
SomeFilters == {{"tools"}, {"prompts", "resources", i1}}
TwoItems == {i1, i2}
=============================================================================

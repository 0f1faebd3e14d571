----------------------------- MODULE MCMcpServer -----------------------------
(***************************************************************************)
(* Instances of McpServer for TLC.  Requests and sessions are              *)
(* interchangeable: no operator chooses one by name.                       *)
(***************************************************************************)
EXTENDS McpServer, TLC

\* 2024 stands for a revision the server knows and does not support.
MCVersions == {2024, 2025, 2026}
MCSupported == {2025, 2026}

Symmetry == Permutations(Requests) \cup Permutations(Sessions)
RequestSymmetry == Permutations(Requests)
=============================================================================

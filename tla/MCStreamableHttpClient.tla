----------------------- MODULE MCStreamableHttpClient -----------------------
(***************************************************************************)
(* Instances of StreamableHttpClient for TLC.                              *)
(***************************************************************************)
EXTENDS StreamableHttpClient, TLC

MCVersions == {2025, 2026}
MCModern == {2026}
=============================================================================

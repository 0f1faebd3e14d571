------------------------------ MODULE MCFraming -------------------------------
(* Instances of Framing for TLC. *)
EXTENDS Framing

CONSTANTS m1, m2

TwoMessages == {m1, m2}
AllReaders == {"SseParser", "QMcpClientSse", "QMcpClientStdio",
               "QMcpServerStdio", "parseHttpRequest"}
JustHttp == {"parseHttpRequest"}
=============================================================================

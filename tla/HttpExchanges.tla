---------------------------- MODULE HttpExchanges -----------------------------
(***************************************************************************)
(* What an HTTP server owes each exchange: it is answered once, with the   *)
(* answer to its own request or with none that belongs to a request, or    *)
(* becomes an event stream; it may wait before it is answered, and end     *)
(* without an answer; and what was answered or has ended stays so.         *)
(***************************************************************************)
EXTENDS Sequences

CONSTANTS Exchanges, None

VARIABLES
  phase,
  response  \* of each exchange, the exchanges whose answers it was given

vars == <<phase, response>>

Phases == {"new", "waiting", "streaming", "answered", "over"}

Init ==
  /\ phase = [e \in Exchanges |-> "new"]
  /\ response = [e \in Exchanges |-> <<>>]

Begins(e) ==
  /\ phase[e] = "new"
  /\ phase'[e] \in {"waiting", "streaming"}
  /\ response'[e] = response[e]

Refused(e) ==
  /\ phase[e] = "new"
  /\ phase'[e] = "answered"
  /\ response'[e] = Append(response[e], None)

Answered(e) ==
  /\ phase[e] = "waiting"
  /\ phase'[e] = "answered"
  /\ response'[e] = Append(response[e], e)

Ends(e) ==
  /\ phase[e] \in {"waiting", "streaming"}
  /\ phase'[e] = "over"
  /\ response'[e] = response[e]

Stays(e) ==
  /\ phase'[e] = phase[e]
  /\ response'[e] = response[e]

(* One event may end several exchanges, as a new stream ends the old one. *)
Next ==
  \A e \in Exchanges :
    Begins(e) \/ Refused(e) \/ Answered(e) \/ Ends(e) \/ Stays(e)

Spec == Init /\ [][Next]_vars
=============================================================================

---------------------------- MODULE MessageStream -----------------------------
(***************************************************************************)
(* What a transport promises of the messages that travel one way: they are *)
(* heard whole, once and in the order they were put on the stream, and     *)
(* those of a stream that ends before they are heard are lost.             *)
(*                                                                         *)
(* A reader that keeps the remains of a stream for the next one promises   *)
(* less: its next stream is torn, and loses the first message, instead of  *)
(* which one of the stream before may be heard late.                       *)
(***************************************************************************)
EXTENDS Naturals, Sequences

CONSTANT Messages

VARIABLES
  keepsRemains,
  pending,  \* on the stream and not yet heard
  heard,
  torn,     \* will the next message meet the remains of an earlier stream?
  late      \* the messages among those remains

vars == <<keepsRemains, pending, heard, torn, late>>

Init ==
  /\ keepsRemains \in BOOLEAN
  /\ pending = <<>>
  /\ heard = <<>>
  /\ torn = FALSE
  /\ late = {}

Put(m) ==
  /\ pending' = Append(pending, m)
  /\ UNCHANGED <<keepsRemains, heard, torn, late>>

Remains == {<<>>} \cup {<<m>> : m \in late}

(* The first n messages arrive. *)
Hear(n) ==
  /\ n \in 1 .. Len(pending)
  /\ pending' = SubSeq(pending, n + 1, Len(pending))
  /\ IF torn
       THEN \E remains \in Remains, first \in {1, 2} :
              heard' = heard \o remains \o SubSeq(pending, first, n)
       ELSE heard' = heard \o SubSeq(pending, 1, n)
  /\ torn' = FALSE /\ late' = {}
  /\ UNCHANGED keepsRemains

(* Something that is no message meets the remains. *)
Recover ==
  /\ torn
  /\ \E remains \in Remains : heard' = heard \o remains
  /\ torn' = FALSE /\ late' = {}
  /\ UNCHANGED <<keepsRemains, pending>>

(* The stream ends, and what is sent next is on another one. *)
Cut ==
  /\ pending' = <<>>
  /\ IF keepsRemains
       THEN torn' \in BOOLEAN /\ late' \in SUBSET Messages
       ELSE UNCHANGED <<torn, late>>
  /\ UNCHANGED <<keepsRemains, heard>>

Next ==
  \/ \E m \in Messages : Put(m)
  \/ \E n \in 1 .. Len(pending) : Hear(n)
  \/ Recover
  \/ Cut

Spec == Init /\ [][Next]_vars
=============================================================================

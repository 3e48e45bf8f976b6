---------------------------- MODULE MCMessageStore -----------------------------
(* Instances of MessageStore for TLC: a group message two sessions receive, and
   a message the first one sends. *)
EXTENDS MessageStore, TLC

CONSTANTS s1, s2, in1, out1

SessionsOfMessage == (in1 :> {s1, s2}) @@ (out1 :> {s1})

Acks == {-1, 2, 3, 4}

=============================================================================

------------------------------- MODULE Queues -------------------------------
(***************************************************************************)
(* What the invariants say of a queue: which messages are in it, and how   *)
(* many of a kind.                                                         *)
(***************************************************************************)
EXTENDS Integers, Sequences, FiniteSets

\* The messages in queue s.
In(s) == {s[i] : i \in DOMAIN s}

\* How many messages of T are in queue s.
HowMany(s, T) == Cardinality({i \in DOMAIN s : s[i] \in T})
=============================================================================

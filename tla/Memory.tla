------------------------------- MODULE Memory -------------------------------
(***************************************************************************)
(* What the sequential modules share: the null pointer, and values behind  *)
(* pointers as the functions of one structure that are in use.             *)
(***************************************************************************)
EXTENDS Integers, Sequences, FiniteSets

CONSTANT NULL

\* The function f without the addresses S: they were freed.
Without(f, S) == [a \in DOMAIN f \ S |-> f[a]]

\* The set of the elements of a sequence.
Elements(s) == {s[i] : i \in DOMAIN s}
=============================================================================

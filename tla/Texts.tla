------------------------------- MODULE Texts -------------------------------
(***************************************************************************)
(* Texts as the validators see them: their length, and the length that is  *)
(* left when the white space at both ends is trimmed.                      *)
(***************************************************************************)
EXTENDS Naturals

Texts == {t \in [len : Nat, ink : Nat] : t.ink <= t.len}

Text(len, ink) == [len |-> len, ink |-> ink]

Trim(t) == Text(t.ink, t.ink)

\* The test !t.trim().
Blank(t) == Trim(t).len = 0
=============================================================================

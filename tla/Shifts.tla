------------------------------- MODULE Shifts -------------------------------
(***************************************************************************)
(* Shifts of naturals by any number of binary digits, as recursive         *)
(* functions: the contract's and the clients' >>, <<, and * 2 ** level.    *)
(***************************************************************************)
EXTENDS Naturals

\* ShiftRight(n)[l] is n >> l.
ShiftRight(n) == LET s[l \in Nat] == IF l = 0 THEN n ELSE s[l - 1] \div 2 IN s

\* ShiftLeft(n)[l] is n << l.
ShiftLeft(n) == LET s[l \in Nat] == IF l = 0 THEN n ELSE 2 * s[l - 1] IN s
=============================================================================

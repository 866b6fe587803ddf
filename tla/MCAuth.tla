------------------------------- MODULE MCAuth -------------------------------
(* Small instances of Auth for TLC.                                          *)
EXTENDS Auth, TLC

CONSTANTS c1, c2, t1, t2, boot, pw1
TwoClients == {c1, c2}
TwoTokens == {t1, t2}
TwoPasswords == {boot, pw1}
Symmetry == Permutations(Clients) \cup Permutations(Tokens)
=============================================================================

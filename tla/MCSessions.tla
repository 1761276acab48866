----------------------------- MODULE MCSessions -----------------------------
(* A small instance of Sessions for TLC.                                   *)
EXTENDS Sessions, TLC

CONSTANTS w1, w2, u1, old, new

TwoWorkers == {w1, w2}
OneUser == {u1}
TwoPasswords == {old, new}

WorkerSymmetry == Permutations(Workers)

=============================================================================

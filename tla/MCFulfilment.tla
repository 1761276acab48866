---------------------------- MODULE MCFulfilment ----------------------------
(* Small instances of Fulfilment for TLC.                                  *)
EXTENDS Fulfilment, TLC

CONSTANTS w1, w2, o1, o2, p, q, s1, s2, s3

OneWorker == {w1}
TwoWorkers == {w1, w2}

OneOrder == {o1}
TwoOrders == {o1, o2}

(* One row of product p; two rows of it, the second expiring first, and a  *)
(* row of product q.                                                       *)
OneRow == {s1}
ThreeRows == {s1, s2, s3}

ProductOf == [s \in Slots |-> IF s = s3 THEN q ELSE p]
ExpiryOf == [s \in Slots |-> IF s = s2 THEN 1 ELSE NoExpiry]
TwoEach == [s \in Slots |-> 2]
TwoFirst == [s \in Slots |-> IF s = s2 THEN 2 ELSE 1]

L(pr, n) == [product |-> pr, req |-> n]
CartTwo == {<<L(p, 2)>>}
CartEither == {<<L(p, 2)>>, <<L(p, 1)>>}
CartMixed == {<<L(p, 2)>>, <<L(p, 1), L(q, 1)>>}

ScanOne == {1}
ScanAny == {1, 2}

NoMoves == {}
LoseOne == {-1}
LoseOrGain == {-1, 1}

Settled == {"confirm", "cancel", "pick", "scan", "ship"}

WorkerSymmetry == Permutations(Workers)

=============================================================================

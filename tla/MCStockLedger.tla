--------------------------- MODULE MCStockLedger ---------------------------
(* Finite instances of StockLedger: one product, two locations, three     *)
(* slots of which two share a location and differ by lot.                 *)
EXTENDS StockLedger, TLC

CONSTANTS w1, w2, a1, a2, b1

TwoBins == {a1, b1}
TwoLots == {a1, a2}
BinOf == (a1 :> "A") @@ (a2 :> "A") @@ (b1 :> "B")

OneTwo == {1, 2}
One == {1}
TwoWorkers == {w1, w2}

Everything == AllOps
Guarded == AllOps \ {"forceAdjust"}

WorkerSymmetry == Permutations(Workers)
=============================================================================

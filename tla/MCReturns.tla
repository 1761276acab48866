----------------------------- MODULE MCReturns ------------------------------
(* A small instance of Returns for TLC.                                    *)
EXTENDS Returns, TLC

CONSTANTS w1, w2, o1, p, q

TwoWorkers == {w1, w2}
OneOrder == {o1}
OneProduct == {p}

(* Two units of p and one of q; p has a second line, which AddItem does    *)
(* not look at.                                                            *)
OrderLines == [o \in Orders |-> SelectSeq(
    <<[product |-> p, shipped |-> 2], [product |-> p, shipped |-> 1],
      [product |-> q, shipped |-> 1]>>, LAMBDA l : l.product \in Products)]

UpToTwo == {1, 2}

StockAndHold == {"RESTOCK", "QC_HOLD"}

WorkerSymmetry == Permutations(Workers)

=============================================================================

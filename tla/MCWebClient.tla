---------------------------- MODULE MCWebClient -----------------------------
(* A small instance of WebClient for TLC.                                  *)
EXTENDS WebClient, TLC

CONSTANTS t1, t2, r1, r2

TwoTabs == {t1, t2}
TwoAndOne == (t1 :> {r1, r2}) @@ (t2 :> {r1})

=============================================================================

-------------------------- MODULE MCAdministration --------------------------
(* A small instance of Administration for TLC.                             *)
EXTENDS Administration, TLC

CONSTANTS w1, w2, ann

TwoWorkers == {w1, w2}
OneAccount == {ann}
OneCode == [r \in {"1-1-1"} |-> "1-1-1"]

Blank == [enabled |-> TRUE, shown |-> TRUE, token |-> 0, chats |-> TRUE,
          digest |-> {}, digestChats |-> FALSE]

(* Switching everything on with a token of usual length or of nine         *)
(* characters, saving the page as it is displayed, switching all off.      *)
FourForms ==
    {[Blank EXCEPT !.shown = FALSE, !.token = 46, !.digest = {TRUE}],
     [Blank EXCEPT !.shown = FALSE, !.token = 9],
     Blank,
     [Blank EXCEPT !.enabled = FALSE, !.shown = FALSE, !.chats = FALSE, !.digestChats = TRUE,
                   !.digest = {FALSE}]}

WorkerSymmetry == Permutations(Workers)

=============================================================================

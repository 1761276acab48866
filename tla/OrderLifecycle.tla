--------------------------- MODULE OrderLifecycle ---------------------------
(***************************************************************************)
(* What an order promises to its readers, whatever the requests behind it  *)
(* do: the life DRAFT -> CONFIRMED -> PICKING -> SHIPPED, left only by a   *)
(* cancellation and only before SHIPPED, and item lines that are negotiable*)
(* in DRAFT, fixed by the confirmation and never touched again.            *)
(***************************************************************************)
CONSTANTS
    Orders,         \* order documents
    Carts           \* item lists clients send

VARIABLES
    status,         \* status[o]; "NONE" before the order is created
    lines           \* lines[o]: the (product, requested quantity) lines of o

vars == <<status, lines>>

Init ==
    /\ status = [o \in Orders |-> "NONE"]
    /\ lines = [o \in Orders |-> <<>>]

Advance(o, from, to) ==
    /\ status[o] = from
    /\ status' = [status EXCEPT ![o] = to]

Agree(o) == \E c \in Carts : lines' = [lines EXCEPT ![o] = c]

Create(o) == Advance(o, "NONE", "DRAFT") /\ Agree(o)

Edit(o) == status[o] = "DRAFT" /\ Agree(o) /\ UNCHANGED status

(* The lines that are confirmed are those the confirming request read,     *)
(* which an edit may have replaced since.                                  *)
Confirm(o) == Advance(o, "DRAFT", "CONFIRMED") /\ Agree(o)

StartPick(o) == Advance(o, "CONFIRMED", "PICKING") /\ UNCHANGED lines

Ship(o) == Advance(o, "PICKING", "SHIPPED") /\ UNCHANGED lines

Cancel(o) ==
    /\ \E from \in {"DRAFT", "CONFIRMED", "PICKING"} : Advance(o, from, "CANCELLED")
    /\ UNCHANGED lines

Next == \E o \in Orders :
    Create(o) \/ Edit(o) \/ Confirm(o) \/ StartPick(o) \/ Ship(o) \/ Cancel(o)

Spec == Init /\ [][Next]_vars

=============================================================================

--------------------------- MODULE Administration ---------------------------
(***************************************************************************)
(* The goroutines that serve administrators: accounts, warehouses and      *)
(* their start-up and migrations (Access), and notifications (Alerts).     *)
(***************************************************************************)
EXTENDS Access, Alerts

vars == <<goroutines, documents, alerts>>

Init ==
    /\ GoroutinesInit
    /\ AccessInit
    /\ AlertsInit

Next ==
    \/ \E w \in Workers :
          \/ AccessNext(w) /\ UNCHANGED alerts
          \/ AlertsNext(w) /\ UNCHANGED documents
          \/ Abandon(w) /\ UNCHANGED <<documents, alerts>>
    \/ Background /\ UNCHANGED <<goroutines, documents>>
    \/ ServerEnds /\ UNCHANGED <<pc, loc, started, overlapped, documents>>

Spec == Init /\ [][Next]_vars

-----------------------------------------------------------------------------
(* The documents of both have their types, and a code or a default is not  *)
(* there twice (AccessWellFormed).                                         *)
AdministrationWellFormed == AccessWellFormed /\ AlertsTypeOK

=============================================================================

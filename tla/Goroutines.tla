----------------------------- MODULE Goroutines -----------------------------
(***************************************************************************)
(* The goroutines that run requests, start-ups, migrations and background  *)
(* checks.  Each runs one operation at a time, as a sequence of database   *)
(* calls that interleave with those of the others; pc names the next call. *)
(***************************************************************************)
EXTENDS Integers, Sequences, FiniteSetsExt

CONSTANTS
    Workers,        \* goroutines
    MayFail,        \* may a database call fail, or a process die
    MaxRequests,    \* bound: operations started
    MaxFaults       \* bound: failures

ASSUME GoroutineAssumption ==
    /\ MayFail \in BOOLEAN
    /\ MaxRequests \in Nat
    /\ MaxFaults \in Nat

VARIABLES
    pc,             \* pc[w]: next step of goroutine w
    loc,            \* loc[w]: what it read or was asked for
    started,        \* operations started, capped by MaxRequests
    faults,         \* failures, capped by MaxFaults
    overlapped      \* history: the kinds of check-then-write that were entered
                    \* by two goroutines at once

goroutines == <<pc, loc, started, faults, overlapped>>

Nothing == [kind |-> "none"]

GoroutinesInit ==
    /\ pc = [w \in Workers |-> "idle"]
    /\ loc = [w \in Workers |-> Nothing]
    /\ started = 0
    /\ faults = 0
    /\ overlapped = {}

At(w, label) == pc[w] = label

(* Go on with the next step; `kind' names the check that was made for it   *)
(* and `window' the steps that others may be about to take after the same. *)
Enter(w, label, l, kind, window) ==
    /\ pc' = [pc EXCEPT ![w] = label]
    /\ loc' = [loc EXCEPT ![w] = l]
    /\ overlapped' =
          IF \E v \in Workers \ {w} : pc[v] \in window THEN overlapped \cup {kind} ELSE overlapped

Goto(w, label, l) == Enter(w, label, l, "none", {})

Finish(w) == Goto(w, "idle", Nothing)

Starts(w) ==
    /\ At(w, "idle")
    /\ started < MaxRequests
    /\ started' = started + 1

Fails ==
    /\ MayFail
    /\ faults < MaxFaults
    /\ faults' = faults + 1

(* A goroutine ends between two calls: its process died, or a call failed  *)
(* and the operation gave up.                                              *)
Abandon(w) ==
    /\ ~At(w, "idle")
    /\ Fails
    /\ Finish(w)
    /\ UNCHANGED started

=============================================================================

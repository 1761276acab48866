------------------------- MODULE StockLedgerProofs -------------------------
(***************************************************************************)
(* For every set of workers, slots and quantities and every bound: the     *)
(* types are preserved, a record is reversed at most once, records are     *)
(* never lost or rewritten, the stock balances with the records, and what  *)
(* concurrent requests can overdraw is bounded.                            *)
(***************************************************************************)
EXTENDS StockLedger, Collections

(* A request that is about to mark or to undo a record names a record.     *)
DocsValid ==
    \A w \in Workers : pc[w] \in {"revMark", "revApply"} => req[w].doc \in DOMAIN ledger

IInv == TypeOK /\ DocsValid /\ ReversedOnce

-----------------------------------------------------------------------------
(* The two ways a request writes the ledger.                               *)

LEMMA AppendEntry ==
    ASSUME NEW L \in Seq(Entry), NEW e \in Entry
    PROVE  /\ Append(L, e) \in Seq(Entry)
           /\ DOMAIN Append(L, e) = 1..(Len(L) + 1)
           /\ DOMAIN L = 1..Len(L)
           /\ Len(L) \in Nat
           /\ \A d \in DOMAIN L : Append(L, e)[d] = L[d]
           /\ Append(L, e)[Len(L) + 1] = e
  BY AppendProperties, LenProperties

LEMMA ReplaceEntry ==
    ASSUME NEW L \in Seq(Entry), NEW i \in DOMAIN L, NEW e \in Entry
    PROVE  /\ [L EXCEPT ![i] = e] \in Seq(Entry)
           /\ DOMAIN [L EXCEPT ![i] = e] = DOMAIN L
           /\ \A d \in DOMAIN L : [L EXCEPT ![i] = e][d] = IF d = i THEN e ELSE L[d]
  BY ExceptSeq, LenProperties

LEMMA EntryAt ==
    ASSUME NEW L \in Seq(Entry), NEW i \in DOMAIN L
    PROVE  L[i] \in Entry
  BY ElementOfSeq, LenProperties

LEMMA NewEntryType ==
    ASSUME NEW s \in Slots, NEW q \in Int,
           NEW k \in {"inbound", "outbound", "adjustment"}
    PROVE  /\ NewEntry(k, s, q) \in Entry
           /\ NewEntry(k, s, q).undone = 0
           /\ NewEntry(k, s, q).status = "ACTIVE"
  BY DEF NewEntry, Entry

LEMMA NoRequestType == NoRequest \in Request
  BY LedgerAssumption DEF NoRequest, Request

LEMMA QtysInt == \A q \in Qtys : q \in Int /\ -q \in Int /\ q > 0
  BY LedgerAssumption

LEMMA PendingType ==
    ASSUME TypeOK, DocsValid, NEW w \in Workers
    PROVE  Pending(w) \in Int
  <1>1. req[w].qty \in Int
    BY DEF TypeOK, Request
  <1>2. CASE pc[w] = "revApply"
    <2>1. ledger[req[w].doc] \in Entry
      BY <1>2, EntryAt DEF TypeOK, DocsValid
    <2>2. UndoQty(ledger[req[w].doc]) \in Int
      BY <2>1 DEF UndoQty, Entry
    <2>. QED  BY <1>2, <2>2 DEF Pending
  <1>3. CASE pc[w] # "revApply"
    BY <1>1, <1>3 DEF Pending
  <1>. QED  BY <1>2, <1>3

(* The same after a step.                                                  *)
LEMMA PendingStays ==
    ASSUME TypeOK', DocsValid', NEW w \in Workers
    PROVE  Pending(w)' \in Int
  <1>1. req'[w].qty \in Int
    BY DEF TypeOK, Request
  <1>2. CASE pc'[w] = "revApply"
    <2>1. ledger'[req'[w].doc] \in Entry
      BY <1>2, EntryAt DEF TypeOK, DocsValid
    <2>2. UndoQty(ledger[req[w].doc])' \in Int
      BY <2>1 DEF UndoQty, Entry
    <2>. QED  BY <1>2, <2>2 DEF Pending
  <1>3. CASE pc'[w] # "revApply"
    BY <1>1, <1>3 DEF Pending
  <1>. QED  BY <1>2, <1>3

-----------------------------------------------------------------------------

LEMMA InitIInv == Init => IInv
  <1>. SUFFICES ASSUME Init PROVE IInv
    OBVIOUS
  <1>1. TypeOK
    BY LedgerAssumption, NoRequestType, EmptySeq DEF Init, TypeOK, Labels
  <1>2. DocsValid /\ ReversedOnce
    BY DEF Init, DocsValid, ReversedOnce
  <1>. QED  BY <1>1, <1>2 DEF IInv

(* A step that leaves the ledger alone, and no worker newly at the mark or *)
(* past it, keeps the last two conjuncts.                                  *)
LEMMA QuietStep ==
    ASSUME DocsValid, ReversedOnce, TypeOK, NEW w \in Workers, NEW label \in Labels,
           label \notin {"revMark", "revApply"},
           pc' = [pc EXCEPT ![w] = label],
           \A v \in Workers : v # w => req'[v] = req[v],
           UNCHANGED ledger
    PROVE  DocsValid' /\ ReversedOnce'
  BY DEF DocsValid, ReversedOnce, TypeOK

(* The same for a step that appends a fresh record.                        *)
LEMMA AppendStep ==
    ASSUME DocsValid, ReversedOnce, TypeOK, NEW w \in Workers, NEW label \in Labels,
           label \notin {"revMark", "revApply"},
           pc' = [pc EXCEPT ![w] = label],
           \A v \in Workers : v # w => req'[v] = req[v],
           NEW e \in Entry, e.undone = 0, ledger' = Append(ledger, e)
    PROVE  DocsValid' /\ ReversedOnce' /\ ledger' \in Seq(Entry)
  <1>1. /\ ledger' \in Seq(Entry)
        /\ DOMAIN ledger' = 1..(Len(ledger) + 1)
        /\ DOMAIN ledger = 1..Len(ledger)
        /\ Len(ledger) \in Nat
        /\ \A d \in DOMAIN ledger : ledger'[d] = ledger[d]
        /\ ledger'[Len(ledger) + 1] = e
    BY AppendEntry DEF TypeOK
  <1>2. \A v \in Workers : pc'[v] \in {"revMark", "revApply"} =>
            v # w /\ pc'[v] = pc[v] /\ req'[v] = req[v] /\ req[v].doc \in DOMAIN ledger
    BY DEF TypeOK, DocsValid
  <1>3. DocsValid'
    BY <1>1, <1>2 DEF DocsValid
  <1>4. \A d \in DOMAIN ledger' : d \in DOMAIN ledger \/ d = Len(ledger) + 1
    BY <1>1
  <1>5. ReversedOnce'
    BY <1>1, <1>2, <1>4 DEF ReversedOnce
  <1>. QED  BY <1>1, <1>3, <1>5

(* The type of what a request that gives up leaves behind.                 *)
LEMMA GiveUpStep ==
    ASSUME IInv, NEW w \in Workers, GiveUp(w)
    PROVE  IInv'
  <1>1. drift' \in [Slots -> Int]
    <2>1. Pending(w) \in Int
      BY PendingType DEF IInv
    <2>2. req[w].slot \in Slots
      BY DEF IInv, TypeOK, Request
    <2>. QED  BY <2>1, <2>2 DEF IInv, TypeOK, GiveUp
  <1>2. TypeOK'
    BY <1>1, NoRequestType DEF IInv, TypeOK, GiveUp, Finish, Labels
  <1>3. DocsValid' /\ ReversedOnce'
    BY QuietStep DEF IInv, TypeOK, GiveUp, Finish, Labels
  <1>. QED  BY <1>2, <1>3 DEF IInv

(* What a request that has just started knows is a Request.                *)
LEMMA ReqType ==
    ASSUME NEW s \in Slots, NEW q \in Int, NEW d \in Nat
    PROVE  [slot |-> s, qty |-> q, doc |-> d] \in Request
  BY DEF Request

LEMMA StepIInv == IInv /\ [Next]_vars => IInv'
  <1>. SUFFICES ASSUME IInv, [Next]_vars PROVE IInv'
    OBVIOUS
  <1>. USE DEF IInv
  <1>1. ASSUME NEW w \in Workers, NEW s \in Slots, NEW q \in Qtys, InboundInsert(w, s, q)
        PROVE  IInv'
    <2>1. NewEntry("inbound", s, q) \in Entry /\ NewEntry("inbound", s, q).undone = 0
      BY NewEntryType, QtysInt
    <2>2. DocsValid' /\ ReversedOnce' /\ ledger' \in Seq(Entry)
      BY <1>1, <2>1, AppendStep DEF InboundInsert, Start, TypeOK, Labels
    <2>3. TypeOK'
      BY <1>1, <2>2, QtysInt, ReqType, LedgerAssumption
      DEF InboundInsert, Start, TypeOK, Labels
    <2>. QED  BY <2>2, <2>3
  <1>2. ASSUME NEW w \in Workers, InboundApply(w)
        PROVE  IInv'
    <2>1. CASE GiveUp(w)
      BY <2>1, GiveUpStep
    <2>2. CASE Upsert(req[w].slot, req[w].qty) /\ Finish(w) /\ UNCHANGED <<ledger, drift>>
      <3>1. TypeOK'
        <4>1. req[w].slot \in Slots /\ req[w].qty \in Int
          BY DEF TypeOK, Request
        <4>2. stock' \in [Slots -> Int] /\ rows' \subseteq Slots
          BY <2>2, <4>1 DEF TypeOK, Upsert
        <4>3. pc' \in [Workers -> Labels] /\ req' \in [Workers -> Request]
          BY <2>2, NoRequestType DEF TypeOK, Finish, Labels
        <4>. QED  BY <2>2, <4>2, <4>3 DEF TypeOK, Finish
      <3>2. DocsValid' /\ ReversedOnce'
        BY <2>2, QuietStep DEF Finish, TypeOK, Labels
      <3>. QED  BY <3>1, <3>2
    <2>. QED  BY <1>2, <2>1, <2>2 DEF InboundApply
  <1>3. ASSUME NEW w \in Workers, NEW s \in Slots, NEW q \in Qtys, OutboundCheck(w, s, q)
        PROVE  IInv'
    <2>1. TypeOK'
      BY <1>3, QtysInt, ReqType, LedgerAssumption DEF OutboundCheck, Start, TypeOK, Labels
    <2>2. DocsValid' /\ ReversedOnce'
      BY <1>3, QuietStep DEF OutboundCheck, Start, TypeOK, Labels
    <2>. QED  BY <2>1, <2>2
  <1>4. ASSUME NEW w \in Workers, OutboundApply(w)
        PROVE  IInv'
    <2>1. TypeOK'
      BY <1>4 DEF OutboundApply, Goto, Upsert, TypeOK, Labels, Request
    <2>2. DocsValid' /\ ReversedOnce'
      BY <1>4, QuietStep DEF OutboundApply, Goto, TypeOK, Labels
    <2>. QED  BY <2>1, <2>2
  <1>5. ASSUME NEW w \in Workers, OutboundInsert(w)
        PROVE  IInv'
    <2>1. req[w].slot \in Slots /\ req[w].qty \in Int
      BY DEF TypeOK, Request
    <2>2. /\ NewEntry("outbound", req[w].slot, req[w].qty) \in Entry
          /\ NewEntry("outbound", req[w].slot, req[w].qty).undone = 0
      BY <2>1, NewEntryType
    <2>3. DocsValid' /\ ReversedOnce' /\ ledger' \in Seq(Entry)
      BY <1>5, <2>2, AppendStep DEF OutboundInsert, Finish, TypeOK, Labels
    <2>4. TypeOK'
      BY <1>5, <2>3, NoRequestType DEF OutboundInsert, Finish, TypeOK, Labels
    <2>. QED  BY <2>3, <2>4
  <1>6. ASSUME NEW w \in Workers, NEW s \in Slots, NEW d \in Int,
               AdjustCheck(w, s, d) \/ AdjustForce(w, s, d)
        PROVE  IInv'
    <2>1. /\ Start(w, "adjApply", [slot |-> s, qty |-> d, doc |-> 0])
          /\ UNCHANGED <<stock, rows, ledger, drift>>
      BY <1>6 DEF AdjustCheck, AdjustForce
    <2>2. [slot |-> s, qty |-> d, doc |-> 0] \in Request
      BY ReqType
    <2>3. TypeOK'
      BY <2>1, <2>2, LedgerAssumption DEF Start, TypeOK, Labels
    <2>4. DocsValid' /\ ReversedOnce'
      BY <2>1, QuietStep DEF Start, TypeOK, Labels
    <2>. QED  BY <2>3, <2>4
  <1>7. ASSUME NEW w \in Workers, AdjustApply(w)
        PROVE  IInv'
    <2>1. CASE GiveUp(w)
      BY <2>1, GiveUpStep
    <2>2. CASE Upsert(req[w].slot, req[w].qty) /\ Goto(w, "adjInsert") /\ UNCHANGED <<ledger, drift>>
      <3>1. TypeOK'
        BY <2>2 DEF TypeOK, Upsert, Goto, Labels, Request
      <3>2. DocsValid' /\ ReversedOnce'
        BY <2>2, QuietStep DEF Goto, TypeOK, Labels
      <3>. QED  BY <3>1, <3>2
    <2>. QED  BY <1>7, <2>1, <2>2 DEF AdjustApply
  <1>8. ASSUME NEW w \in Workers, AdjustInsert(w)
        PROVE  IInv'
    <2>1. req[w].slot \in Slots /\ req[w].qty \in Int
      BY DEF TypeOK, Request
    <2>2. /\ NewEntry("adjustment", req[w].slot, req[w].qty) \in Entry
          /\ NewEntry("adjustment", req[w].slot, req[w].qty).undone = 0
      BY <2>1, NewEntryType
    <2>3. DocsValid' /\ ReversedOnce' /\ ledger' \in Seq(Entry)
      BY <1>8, <2>2, AppendStep DEF AdjustInsert, Finish, TypeOK, Labels
    <2>4. TypeOK'
      BY <1>8, <2>3, NoRequestType DEF AdjustInsert, Finish, TypeOK, Labels
    <2>. QED  BY <2>3, <2>4
  <1>9. ASSUME NEW w \in Workers, NEW d \in DOMAIN ledger, ReverseRead(w, d)
        PROVE  IInv'
    <2>1. ledger[d] \in Entry /\ d \in Nat
      BY EntryAt, LenProperties DEF TypeOK
    <2>2. [slot |-> ledger[d].slot, qty |-> ledger[d].qty, doc |-> d] \in Request
      BY <2>1 DEF Entry, Request
    <2>3. TypeOK'
      BY <1>9, <2>2, LedgerAssumption DEF ReverseRead, Start, TypeOK, Labels
    <2>4. DocsValid'
      BY <1>9 DEF ReverseRead, Start, TypeOK, DocsValid, Labels
    <2>5. ReversedOnce'
      BY <1>9 DEF ReverseRead, Start, TypeOK, ReversedOnce, Labels
    <2>. QED  BY <2>3, <2>4, <2>5
  <1>10. ASSUME NEW w \in Workers, ReverseMark(w)
         PROVE  IInv'
    <2>. DEFINE d == req[w].doc
    <2>1. d \in DOMAIN ledger /\ ledger[d] \in Entry
      BY <1>10, EntryAt DEF ReverseMark, DocsValid, TypeOK
    <2>2. CASE /\ MarkMatches(d)
               /\ ledger' = [ledger EXCEPT ![d] = Marked(@)]
               /\ Goto(w, "revApply")
      <3>1. Marked(ledger[d]) \in Entry /\ Marked(ledger[d]).status = "REVERSED"
            /\ Marked(ledger[d]).undone = ledger[d].undone
        BY <2>1 DEF Marked, Entry
      <3>2. ledger' = [ledger EXCEPT ![d] = Marked(ledger[d])]
        BY <2>2
      <3>3. /\ ledger' \in Seq(Entry)
            /\ DOMAIN ledger' = DOMAIN ledger
            /\ \A i \in DOMAIN ledger : ledger'[i] = IF i = d THEN Marked(ledger[d]) ELSE ledger[i]
        BY <2>1, <3>1, <3>2, ReplaceEntry DEF TypeOK
      <3>4. TypeOK'
        BY <1>10, <2>2, <3>3 DEF ReverseMark, Goto, TypeOK, Labels
      <3>5. DocsValid'
        BY <2>1, <2>2, <3>3 DEF Goto, TypeOK, DocsValid
      <3>6. ledger[d].undone = 0
        BY <2>1, <2>2 DEF MarkMatches, ReversedOnce, Entry
      <3>7. \A v \in Workers : v # w /\ pc[v] = "revApply" => req[v].doc # d
        BY <2>2 DEF MarkMatches, ReversedOnce
      <3>8. pc' = [pc EXCEPT ![w] = "revApply"] /\ req' = req
        BY <2>2 DEF Goto
      <3>9. ReversedOnce'
        <4>1. \A i \in DOMAIN ledger' :
                 /\ ledger'[i].undone <= 1
                 /\ ledger'[i].undone = 1 => ledger'[i].status = "REVERSED"
          BY <2>1, <3>1, <3>3, <3>6 DEF ReversedOnce
        <4>2. \A v \in Workers : pc'[v] = "revApply" =>
                 /\ ledger'[req'[v].doc].status = "REVERSED"
                 /\ ledger'[req'[v].doc].undone = 0
          BY <2>1, <3>1, <3>3, <3>6, <3>8 DEF TypeOK, DocsValid, ReversedOnce
        <4>3. \A v, u \in Workers :
                 v # u /\ pc'[v] = "revApply" /\ pc'[u] = "revApply" => req'[v].doc # req'[u].doc
          BY <3>7, <3>8 DEF TypeOK, ReversedOnce
        <4>. QED  BY ONLY <4>1, <4>2, <4>3 DEF ReversedOnce
      <3>. QED  BY <3>4, <3>5, <3>9
    <2>3. CASE Finish(w) /\ UNCHANGED ledger
      <3>1. TypeOK'
        BY <1>10, <2>3, NoRequestType DEF ReverseMark, Finish, TypeOK, Labels
      <3>2. DocsValid' /\ ReversedOnce'
        BY <2>3, QuietStep DEF Finish, TypeOK, Labels
      <3>. QED  BY <3>1, <3>2
    <2>. QED  BY <1>10, <2>2, <2>3 DEF ReverseMark
  <1>11. ASSUME NEW w \in Workers, ReverseApply(w)
         PROVE  IInv'
    <2>1. CASE GiveUp(w)
      BY <2>1, GiveUpStep
    <2>2. CASE /\ Upsert(req[w].slot, UndoQty(ledger[req[w].doc]))
               /\ ledger' = [ledger EXCEPT ![req[w].doc].undone = @ + 1]
               /\ Finish(w)
               /\ UNCHANGED drift
      <3>. DEFINE d == req[w].doc
                  e == [ledger[d] EXCEPT !.undone = @ + 1]
      <3>1. d \in DOMAIN ledger /\ ledger[d] \in Entry /\ pc[w] = "revApply"
        BY <1>11, EntryAt DEF ReverseApply, DocsValid, TypeOK
      <3>2. /\ e \in Entry
            /\ e.status = ledger[d].status
            /\ e.undone = ledger[d].undone + 1
            /\ UndoQty(ledger[d]) \in Int
        BY <3>1 DEF Entry, UndoQty
      <3>3. ledger' = [ledger EXCEPT ![d] = e]
        BY <2>2
      <3>4. /\ ledger' \in Seq(Entry)
            /\ DOMAIN ledger' = DOMAIN ledger
            /\ \A i \in DOMAIN ledger : ledger'[i] = IF i = d THEN e ELSE ledger[i]
        BY <3>1, <3>2, <3>3, ReplaceEntry DEF TypeOK
      <3>5. TypeOK'
        <4>1. req[w].slot \in Slots
          BY DEF TypeOK, Request
        <4>. HIDE DEF d, e
        <4>2. stock' \in [Slots -> Int] /\ rows' \subseteq Slots
          BY <2>2, <3>2, <4>1 DEF Upsert, TypeOK, d
        <4>3. pc' \in [Workers -> Labels] /\ req' \in [Workers -> Request]
          BY <2>2, NoRequestType DEF Finish, TypeOK, Labels
        <4>4. drift' \in [Slots -> Int] /\ started' \in 0..MaxRequests
          BY <2>2 DEF Finish, TypeOK
        <4>. QED  BY <3>4, <4>2, <4>3, <4>4 DEF TypeOK
      <3>6. ledger[d].undone = 0 /\ ledger[d].status = "REVERSED"
        BY <3>1 DEF ReversedOnce
      <3>7. \A v \in Workers : v # w /\ pc[v] = "revApply" => req[v].doc # d
        BY <3>1 DEF ReversedOnce
      <3>8. /\ pc' = [pc EXCEPT ![w] = "idle"]
            /\ \A v \in Workers : v # w => req'[v] = req[v]
        BY <2>2 DEF Finish, TypeOK
      <3>9. DocsValid'
        BY <3>4, <3>8 DEF TypeOK, DocsValid
      <3>10. ReversedOnce'
        <4>. HIDE DEF e, d
        <4>1. \A i \in DOMAIN ledger' :
                /\ ledger'[i].undone <= 1
                /\ ledger'[i].undone = 1 => ledger'[i].status = "REVERSED"
          BY <3>2, <3>4, <3>6 DEF ReversedOnce
        <4>2. \A v \in Workers : pc'[v] = "revApply" =>
                v # w /\ pc[v] = "revApply" /\ req'[v] = req[v] /\ req[v].doc # d
          BY <3>7, <3>8 DEF TypeOK
        <4>3. \A v \in Workers : pc'[v] = "revApply" =>
                ledger'[req'[v].doc] = ledger[req[v].doc]
          BY <3>4, <4>2 DEF DocsValid
        <4>4. \A v \in Workers : pc'[v] = "revApply" =>
                /\ ledger'[req'[v].doc].status = "REVERSED"
                /\ ledger'[req'[v].doc].undone = 0
          BY <4>2, <4>3 DEF ReversedOnce
        <4>5. \A u, v \in Workers :
                u # v /\ pc'[u] = "revApply" /\ pc'[v] = "revApply" => req'[u].doc # req'[v].doc
          BY <4>2 DEF ReversedOnce
        <4>. QED  BY <4>1, <4>4, <4>5 DEF ReversedOnce
      <3>. QED  BY <3>5, <3>9, <3>10
    <2>. QED  BY <1>11, <2>1, <2>2 DEF ReverseApply
  <1>12. ASSUME NEW w \in Workers, Abandon(w)
         PROVE  IInv'
    BY <1>12, GiveUpStep DEF Abandon
  <1>13. CASE UNCHANGED vars
    BY <1>13 DEF vars, TypeOK, DocsValid, ReversedOnce
  <1>14. ASSUME NEW w \in Workers, Begin(w)
         PROVE  IInv'
    BY <1>14, <1>1, <1>3, <1>6, <1>9, QtysInt DEF Begin
  <1>15. ASSUME NEW w \in Workers, Continue(w)
         PROVE  IInv'
    BY <1>15, <1>2, <1>4, <1>5, <1>7, <1>8, <1>10, <1>11 DEF Continue
  <1>. QED
    BY <1>12, <1>13, <1>14, <1>15 DEF Next, Drained

(* No request, however it interleaves with others and wherever it is       *)
(* abandoned, takes a variable out of its type, and no record's effect on  *)
(* the stock is given back twice or without the record being REVERSED      *)
(* (inbound/service.go Reverse and outbound/service.go Reverse).           *)
THEOREM ReversalIsSafe == Spec => [](TypeOK /\ ReversedOnce)
  <1>1. IInv => TypeOK /\ ReversedOnce
    BY DEF IInv
  <1>. QED  BY <1>1, InitIInv, StepIInv, PTL DEF Spec

-----------------------------------------------------------------------------
(* What a step may do to the ledger.                                       *)
LedgerMove ==
    \/ UNCHANGED ledger
    \/ \E e \in Entry : ledger' = Append(ledger, e)
    \/ \E d \in DOMAIN ledger, e \in Entry :
          /\ ledger' = [ledger EXCEPT ![d] = e]
          /\ e.kind = ledger[d].kind /\ e.slot = ledger[d].slot /\ e.qty = ledger[d].qty
          /\ ledger[d].status = "REVERSED" => e.status = "REVERSED"

LEMMA StepLedgerMove == IInv /\ [Next]_vars => LedgerMove
  <1>. SUFFICES ASSUME IInv, [Next]_vars PROVE LedgerMove
    OBVIOUS
  <1>. USE DEF IInv
  <1>1. ASSUME NEW w \in Workers, NEW s \in Slots, NEW q \in Qtys, InboundInsert(w, s, q)
        PROVE  LedgerMove
    BY <1>1, NewEntryType, QtysInt DEF InboundInsert, LedgerMove
  <1>2. ASSUME NEW w \in Workers, OutboundInsert(w)
        PROVE  LedgerMove
    BY <1>2, NewEntryType DEF OutboundInsert, LedgerMove, TypeOK, Request
  <1>3. ASSUME NEW w \in Workers, AdjustInsert(w)
        PROVE  LedgerMove
    BY <1>3, NewEntryType DEF AdjustInsert, LedgerMove, TypeOK, Request
  <1>4. ASSUME NEW w \in Workers, ReverseMark(w)
        PROVE  LedgerMove
    <2>1. CASE UNCHANGED ledger
      BY <2>1 DEF LedgerMove
    <2>2. CASE ledger' = [ledger EXCEPT ![req[w].doc] = Marked(@)]
      <3>1. req[w].doc \in DOMAIN ledger /\ ledger[req[w].doc] \in Entry
        BY <1>4, EntryAt DEF ReverseMark, DocsValid, TypeOK
      <3>2. /\ Marked(ledger[req[w].doc]) \in Entry
            /\ Marked(ledger[req[w].doc]).kind = ledger[req[w].doc].kind
            /\ Marked(ledger[req[w].doc]).slot = ledger[req[w].doc].slot
            /\ Marked(ledger[req[w].doc]).qty = ledger[req[w].doc].qty
            /\ Marked(ledger[req[w].doc]).status = "REVERSED"
        BY <3>1 DEF Marked, Entry
      <3>. QED  BY <2>2, <3>1, <3>2 DEF LedgerMove
    <2>. QED  BY <1>4, <2>1, <2>2 DEF ReverseMark
  <1>5. ASSUME NEW w \in Workers, ReverseApply(w)
        PROVE  LedgerMove
    <2>1. CASE UNCHANGED ledger
      BY <2>1 DEF LedgerMove
    <2>2. CASE ledger' = [ledger EXCEPT ![req[w].doc].undone = @ + 1]
      <3>. DEFINE e == [ledger[req[w].doc] EXCEPT !.undone = @ + 1]
      <3>1. req[w].doc \in DOMAIN ledger /\ ledger[req[w].doc] \in Entry
        BY <1>5, EntryAt DEF ReverseApply, DocsValid, TypeOK
      <3>2. /\ e \in Entry
            /\ e.kind = ledger[req[w].doc].kind
            /\ e.slot = ledger[req[w].doc].slot
            /\ e.qty = ledger[req[w].doc].qty
            /\ e.status = ledger[req[w].doc].status
        BY <3>1 DEF Entry
      <3>3. ledger' = [ledger EXCEPT ![req[w].doc] = e]
        BY <2>2
      <3>. HIDE DEF e
      <3>. QED  BY <3>1, <3>2, <3>3 DEF LedgerMove
    <2>. QED  BY <1>5, <2>1, <2>2 DEF ReverseApply, GiveUp
  <1>6. ASSUME NEW w \in Workers, NEW s \in Slots, NEW d \in Int,
               \/ InboundApply(w) \/ OutboundApply(w) \/ AdjustApply(w) \/ Abandon(w)
               \/ OutboundCheck(w, s, d) \/ AdjustCheck(w, s, d) \/ AdjustForce(w, s, d)
        PROVE  UNCHANGED ledger
    BY <1>6 DEF InboundApply, OutboundApply, AdjustApply, Abandon, OutboundCheck, AdjustCheck,
                AdjustForce, GiveUp
  <1>7. ASSUME NEW w \in Workers, Begin(w)
        PROVE  LedgerMove
    <2>1. ASSUME NEW d \in DOMAIN ledger, ReverseRead(w, d)
          PROVE  LedgerMove
      BY <2>1 DEF ReverseRead, LedgerMove
    <2>. QED  BY <1>1, <1>6, <1>7, <2>1, QtysInt DEF Begin, LedgerMove
  <1>8. ASSUME NEW w \in Workers, Continue(w) \/ Abandon(w)
        PROVE  LedgerMove
    BY <1>2, <1>3, <1>4, <1>5, <1>6, <1>8, LedgerAssumption DEF Continue, LedgerMove
  <1>. QED  BY <1>7, <1>8 DEF Next, Drained, vars, LedgerMove

(* Whatever the step, the records that were there are there and are what   *)
(* they were, up to their status and the history field.                    *)
Kept ==
    \A d \in DOMAIN ledger :
        /\ d \in DOMAIN ledger'
        /\ ledger'[d].kind = ledger[d].kind
        /\ ledger'[d].slot = ledger[d].slot
        /\ ledger'[d].qty = ledger[d].qty
        /\ ledger[d].status = "REVERSED" => ledger'[d].status = "REVERSED"

LEMMA StepKept == IInv /\ [Next]_vars => Kept
  <1>1. ASSUME IInv, LedgerMove PROVE Kept
    <2>1. CASE UNCHANGED ledger
      BY <2>1 DEF Kept
    <2>2. ASSUME NEW e \in Entry, ledger' = Append(ledger, e) PROVE Kept
      BY <1>1, <2>2, AppendEntry DEF IInv, TypeOK, Kept
    <2>3. ASSUME NEW d \in DOMAIN ledger, NEW e \in Entry,
                 ledger' = [ledger EXCEPT ![d] = e],
                 e.kind = ledger[d].kind, e.slot = ledger[d].slot, e.qty = ledger[d].qty,
                 ledger[d].status = "REVERSED" => e.status = "REVERSED"
          PROVE  Kept
      BY <1>1, <2>3, ReplaceEntry DEF IInv, TypeOK, Kept
    <2>. QED  BY <1>1, <2>1, <2>2, <2>3 DEF LedgerMove
  <1>. QED  BY <1>1, StepLedgerMove

(* The audit trail of every configuration: a record, once inserted, keeps  *)
(* its kind, slot and quantity for ever, and REVERSED is final.            *)
THEOREM HistoryIsKept == Spec => RecordsKept
  <1>1. IInv /\ [Next]_vars => [Kept]_vars
    BY StepKept
  <1>2. Spec => [][Kept]_vars
    BY <1>1, InitIInv, StepIInv, PTL DEF Spec
  <1>. QED  BY <1>2 DEF RecordsKept, Kept

-----------------------------------------------------------------------------
(* The balance.  A request past the mark of a reversal moves the stock of  *)
(* the slot of its record, and only inbounds and outbounds are reversed.   *)
ReversalKnows ==
    \A w \in Workers : pc[w] \in {"revMark", "revApply"} =>
        /\ req[w].slot = ledger[req[w].doc].slot
        /\ ledger[req[w].doc].kind \in {"inbound", "outbound"}

BInv == IInv /\ ReversalKnows /\ LedgerBalance

(* How far a step moves the two sides.                                     *)
LEMMA EffectType ==
    ASSUME NEW s \in Slots, NEW e \in Entry
    PROVE  EffectOn(s, e) \in Int /\ Effect(e) \in Int /\ UndoQty(e) \in Int
  BY DEF EffectOn, Effect, UndoQty, Entry

LEMMA UndoneWeighsNothing ==
    ASSUME NEW s, NEW e, e.status = "REVERSED"
    PROVE  EffectOn(s, e) = 0
  BY DEF EffectOn, Effect

LEMMA BookedType ==
    ASSUME TypeOK, NEW s \in Slots
    PROVE  /\ Booked(s) \in Int
           /\ IsFiniteSet(DOMAIN ledger)
           /\ [i \in DOMAIN ledger |-> EffectOn(s, ledger[i])] \in [DOMAIN ledger -> Int]
  <1>1. IsFiniteSet(DOMAIN ledger)
    BY Positions DEF TypeOK
  <1>2. \A i \in DOMAIN ledger : EffectOn(s, ledger[i]) \in Int
    BY EntryAt, EffectType DEF TypeOK
  <1>. QED  BY <1>1, <1>2, SumFunctionType DEF Booked

LEMMA BookedAppend ==
    ASSUME TypeOK, NEW e \in Entry, ledger' = Append(ledger, e), NEW s \in Slots
    PROVE  Booked(s)' = Booked(s) + EffectOn(s, e)
  <1>. DEFINE f == [i \in DOMAIN ledger |-> EffectOn(s, ledger[i])]
              g == [i \in DOMAIN ledger' |-> EffectOn(s, ledger'[i])]
  <1>1. PICK x \in Nat : x = Len(ledger) + 1
    BY LenProperties DEF TypeOK
  <1>2. /\ DOMAIN ledger = 1..Len(ledger)
        /\ DOMAIN ledger' = 1..(Len(ledger) + 1)
        /\ Len(ledger) \in Nat
        /\ \A d \in DOMAIN ledger : ledger'[d] = ledger[d]
        /\ ledger'[x] = e
    BY <1>1, AppendEntry DEF TypeOK
  <1>3. x \notin DOMAIN ledger /\ DOMAIN ledger' = DOMAIN ledger \cup {x}
    BY <1>1, <1>2
  <1>4. IsFiniteSet(DOMAIN ledger) /\ f \in [DOMAIN ledger -> Int]
    BY BookedType
  <1>5. \A d \in DOMAIN ledger : g[d] = f[d]
    BY <1>2, <1>3
  <1>6. g[x] = EffectOn(s, e) /\ EffectOn(s, e) \in Int
    BY <1>2, <1>3, EffectType
  <1>7. g \in [DOMAIN ledger \cup {x} -> Int]
    BY <1>3, <1>4, <1>5, <1>6
  <1>8. Booked(s) = SumFunction(f) /\ Booked(s)' = SumFunction(g)
    BY DEF Booked, EffectOn, Effect
  <1>. HIDE DEF f, g
  <1>9. SumFunction(g) = SumFunction(f) + g[x]
    BY ONLY <1>3, <1>4, <1>5, <1>7, SumFunctionExtend
  <1>. QED  BY <1>6, <1>8, <1>9

LEMMA BookedReplace ==
    ASSUME TypeOK, NEW d \in DOMAIN ledger, NEW e \in Entry,
           ledger' = [ledger EXCEPT ![d] = e], NEW s \in Slots
    PROVE  Booked(s)' = Booked(s) - EffectOn(s, ledger[d]) + EffectOn(s, e)
  <1>. DEFINE f == [i \in DOMAIN ledger |-> EffectOn(s, ledger[i])]
              g == [i \in DOMAIN ledger' |-> EffectOn(s, ledger'[i])]
  <1>1. /\ DOMAIN ledger' = DOMAIN ledger
        /\ \A i \in DOMAIN ledger : ledger'[i] = IF i = d THEN e ELSE ledger[i]
    BY ReplaceEntry DEF TypeOK
  <1>2. IsFiniteSet(DOMAIN ledger) /\ f \in [DOMAIN ledger -> Int]
    BY BookedType
  <1>3. \A i \in DOMAIN ledger : i # d => g[i] = f[i]
    BY <1>1
  <1>4. g[d] = EffectOn(s, e) /\ f[d] = EffectOn(s, ledger[d]) /\ EffectOn(s, e) \in Int
    BY <1>1, EffectType
  <1>5. g \in [DOMAIN ledger -> Int]
    BY <1>1, <1>2, <1>3, <1>4
  <1>6. Booked(s) = SumFunction(f) /\ Booked(s)' = SumFunction(g)
    BY DEF Booked, EffectOn, Effect
  <1>. HIDE DEF f, g
  <1>7. SumFunction(g) = SumFunction(f) - f[d] + g[d]
    BY <1>2, <1>3, <1>5, SumFunctionChange
  <1>. QED  BY <1>4, <1>6, <1>7

(* The requests of the others weigh what they did: a step changes neither  *)
(* the kind nor the quantity of a record.                                  *)
LEMMA InFlightMoves ==
    ASSUME IInv, IInv', NEW w \in Workers, NEW s \in Slots,
           \A v \in Workers : v # w => pc'[v] = pc[v] /\ req'[v] = req[v],
           \A d \in DOMAIN ledger : /\ ledger'[d].kind = ledger[d].kind
                                     /\ ledger'[d].qty = ledger[d].qty
    PROVE  /\ InFlight(s)' = InFlight(s) - PendingOn(s, w) + PendingOn(s, w)'
           /\ InFlight(s) \in Int
           /\ PendingOn(s, w) \in Int /\ PendingOn(s, w)' \in Int
  <1>. DEFINE f == [v \in Workers |-> PendingOn(s, v)]
              g == [v \in Workers |-> PendingOn(s, v)']
  <1>1. IsFiniteSet(Workers)
    BY LedgerAssumption
  <1>2. \A v \in Workers : PendingOn(s, v) \in Int
    BY PendingType DEF PendingOn, IInv
  <1>3. \A v \in Workers : PendingOn(s, v)' \in Int
    BY PendingStays DEF PendingOn, IInv
  <1>4. ASSUME NEW v \in Workers, v # w PROVE PendingOn(s, v)' = PendingOn(s, v)
    <2>1. pc'[v] = pc[v] /\ req'[v] = req[v]
      BY <1>4
    <2>2. pc[v] = "revApply" => UndoQty(ledger[req[v].doc])' = UndoQty(ledger[req[v].doc])
      BY <2>1 DEF UndoQty, IInv, DocsValid
    <2>. QED  BY <2>1, <2>2 DEF PendingOn, Pending
  <1>5. InFlight(s) = SumFunction(f) /\ InFlight(s)' = SumFunction(g)
    BY DEF InFlight
  <1>6. /\ f \in [Workers -> Int] /\ g \in [Workers -> Int]
        /\ f[w] = PendingOn(s, w) /\ g[w] = PendingOn(s, w)'
        /\ \A v \in Workers : v # w => g[v] = f[v]
    BY <1>2, <1>3, <1>4
  <1>. HIDE DEF f, g
  <1>7. SumFunction(g) = SumFunction(f) - f[w] + g[w] /\ SumFunction(f) \in Int
    BY <1>1, <1>6, SumFunctionChange, SumFunctionType
  <1>. QED  BY <1>2, <1>3, <1>5, <1>6, <1>7

(* The part of a step that a balance can see: worker w moves, the others   *)
(* stay where they are, and the records keep what they weigh by.           *)
Moves(w) ==
    /\ \A v \in Workers : v # w => pc'[v] = pc[v] /\ req'[v] = req[v]
    /\ Kept

LEMMA GiveUpBalance ==
    ASSUME BInv, IInv', NEW w \in Workers, Moves(w), GiveUp(w)
    PROVE  LedgerBalance'
  <1>. SUFFICES ASSUME NEW s \in Slots
                PROVE  stock'[s] = Booked(s)' + InFlight(s)' + drift'[s]
    BY DEF LedgerBalance
  <1>1. /\ InFlight(s)' = InFlight(s) - PendingOn(s, w) + PendingOn(s, w)'
        /\ InFlight(s) \in Int /\ PendingOn(s, w) \in Int
    BY InFlightMoves DEF BInv, Moves, Kept
  <1>2. PendingOn(s, w)' = 0
    BY DEF BInv, IInv, TypeOK, GiveUp, Finish, PendingOn, Pending
  <1>3. Booked(s)' = Booked(s) /\ Booked(s) \in Int
    BY BookedType DEF GiveUp, Booked, EffectOn, Effect, BInv, IInv
  <1>4. stock'[s] = stock[s] /\ stock[s] \in Int /\ drift[s] \in Int
    BY DEF GiveUp, BInv, IInv, TypeOK
  <1>5. drift'[s] = drift[s] + PendingOn(s, w)
    BY <1>4, PendingType DEF GiveUp, PendingOn, BInv, IInv, TypeOK
  <1>6. stock[s] = Booked(s) + InFlight(s) + drift[s]
    BY DEF BInv, LedgerBalance
  <1>. QED  BY <1>1, <1>2, <1>3, <1>4, <1>5, <1>6

(* A step that moves the stock of slot x by d and the records of that slot *)
(* by b; what its request has pending there makes up for the difference.   *)
Shifts(w, x, d, b) ==
    /\ Moves(w) /\ UNCHANGED drift
    /\ x \in Slots /\ d \in Int /\ b \in Int
    /\ \A s \in Slots : /\ stock'[s] = stock[s] + (IF s = x THEN d ELSE 0)
                        /\ Booked(s)' = Booked(s) + (IF s = x THEN b ELSE 0)
                        /\ PendingOn(s, w)' - PendingOn(s, w) = IF s = x THEN d - b ELSE 0

LEMMA MoveBalance ==
    ASSUME BInv, IInv', NEW w \in Workers, NEW x, NEW d, NEW b, Shifts(w, x, d, b)
    PROVE  LedgerBalance'
  <1>. SUFFICES ASSUME NEW s \in Slots
                PROVE  stock'[s] = Booked(s)' + InFlight(s)' + drift'[s]
    BY DEF LedgerBalance
  <1>1. /\ InFlight(s)' = InFlight(s) - PendingOn(s, w) + PendingOn(s, w)'
        /\ InFlight(s) \in Int /\ PendingOn(s, w) \in Int /\ PendingOn(s, w)' \in Int
    BY InFlightMoves DEF BInv, Shifts, Moves, Kept
  <1>2. Booked(s) \in Int /\ stock[s] \in Int /\ drift'[s] = drift[s] /\ drift[s] \in Int
    BY BookedType DEF BInv, IInv, TypeOK, Shifts
  <1>3. stock[s] = Booked(s) + InFlight(s) + drift[s]
    BY DEF BInv, LedgerBalance
  <1>4. /\ stock'[s] = stock[s] + (IF s = x THEN d ELSE 0)
        /\ Booked(s)' = Booked(s) + (IF s = x THEN b ELSE 0)
        /\ PendingOn(s, w)' - PendingOn(s, w) = IF s = x THEN d - b ELSE 0
        /\ d \in Int /\ b \in Int
    BY DEF Shifts
  <1>. QED  BY ONLY <1>1, <1>2, <1>3, <1>4

LEMMA BookedSame ==
    ASSUME BInv, UNCHANGED ledger
    PROVE  \A s \in Slots : Booked(s)' = Booked(s) /\ Booked(s) \in Int
  BY BookedType DEF Booked, EffectOn, Effect, BInv, IInv

(* Requests that begin: an inbound has its record before its stock, the    *)
(* others have moved nothing yet.                                          *)
LEMMA BeginBalance ==
    ASSUME BInv, IInv', NEW w \in Workers, Begin(w)
    PROVE  LedgerBalance'
  <1>. USE DEF BInv
  <1>0. Kept /\ pc[w] = "idle"
    <2>1. [Next]_vars
      BY DEF Next
    <2>2. pc[w] = "idle"
      BY DEF Begin, InboundInsert, OutboundCheck, AdjustCheck, AdjustForce, ReverseRead, Start
    <2>. QED  BY <2>1, <2>2, StepKept
  <1>1. \A s \in Slots : PendingOn(s, w) = 0
    BY <1>0 DEF PendingOn, Pending
  <1>2. \A s \in Slots : stock[s] \in Int /\ Booked(s) \in Int
    BY BookedType DEF IInv, TypeOK
  <1>3. ASSUME NEW s \in Slots, NEW q \in Qtys, InboundInsert(w, s, q)
        PROVE  LedgerBalance'
    <2>1. /\ Moves(w) /\ UNCHANGED <<stock, drift>>
          /\ pc'[w] = "inApply" /\ req'[w] = [slot |-> s, qty |-> q, doc |-> 0]
      BY <1>0, <1>3 DEF InboundInsert, Start, Moves, IInv, TypeOK
    <2>2. NewEntry("inbound", s, q) \in Entry /\ q \in Int /\ -q \in Int
      BY NewEntryType, QtysInt
    <2>3. \A t \in Slots : EffectOn(t, NewEntry("inbound", s, q)) = IF t = s THEN q ELSE 0
      BY DEF EffectOn, Effect, NewEntry
    <2>4. \A t \in Slots : Booked(t)' = Booked(t) + (IF t = s THEN q ELSE 0)
      BY <1>3, <2>2, <2>3, BookedAppend DEF InboundInsert, IInv
    <2>5. \A t \in Slots : PendingOn(t, w)' = IF t = s THEN -q ELSE 0
      BY <2>1 DEF PendingOn, Pending
    <2>6. \A t \in Slots : /\ stock'[t] = stock[t] + (IF t = s THEN 0 ELSE 0)
                           /\ PendingOn(t, w)' - PendingOn(t, w) = IF t = s THEN 0 - q ELSE 0
      BY <1>1, <1>2, <2>1, <2>2, <2>5
    <2>m. Shifts(w, s, 0, q)
      BY <2>1, <2>2, <2>4, <2>6 DEF Shifts
    <2>. QED  BY Zenon, <2>m, MoveBalance
  <1>4. ASSUME Moves(w), UNCHANGED <<stock, ledger, drift>>,
               pc'[w] \in {"outApply", "adjApply", "revMark"}
        PROVE  LedgerBalance'
    <2>1. \A s \in Slots : PendingOn(s, w)' = 0
      BY <1>4 DEF PendingOn, Pending
    <2>2. PICK x \in Slots : x \in Slots
      BY LedgerAssumption
    <2>3. \A s \in Slots : /\ stock'[s] = stock[s] + (IF s = x THEN 0 ELSE 0)
                           /\ Booked(s)' = Booked(s) + (IF s = x THEN 0 ELSE 0)
                           /\ PendingOn(s, w)' - PendingOn(s, w) = IF s = x THEN 0 - 0 ELSE 0
      BY <1>1, <1>2, <1>4, <2>1, BookedSame
    <2>m. Shifts(w, x, 0, 0)
      BY <1>4, <2>2, <2>3 DEF Shifts
    <2>. QED  BY Zenon, <2>m, MoveBalance
  <1>5. ASSUME NEW s \in Slots, NEW d \in Int,
               OutboundCheck(w, s, d) \/ AdjustCheck(w, s, d) \/ AdjustForce(w, s, d)
        PROVE  LedgerBalance'
    BY <1>0, <1>4, <1>5 DEF OutboundCheck, AdjustCheck, AdjustForce, Start, Moves, IInv, TypeOK
  <1>6. ASSUME NEW d \in DOMAIN ledger, ReverseRead(w, d)
        PROVE  LedgerBalance'
    BY <1>0, <1>4, <1>6 DEF ReverseRead, Start, Moves, IInv, TypeOK
  <1>. QED  BY <1>3, <1>5, <1>6, QtysInt DEF Begin

(* Requests that go on.                                                    *)
LEMMA ContinueBalance ==
    ASSUME BInv, IInv', NEW w \in Workers, Continue(w)
    PROVE  LedgerBalance'
  <1>. USE DEF BInv
  <1>. DEFINE x == req[w].slot
              q == req[w].qty
              d == req[w].doc
  <1>0. /\ Kept /\ x \in Slots /\ q \in Int /\ -q \in Int
        /\ \A s \in Slots : stock[s] \in Int /\ Booked(s) \in Int
    <2>1. Kept
      BY StepKept DEF Next
    <2>2. x \in Slots /\ q \in Int /\ -q \in Int
      <3>1. req[w] \in Request
        BY DEF IInv, TypeOK
      <3>. QED  BY ONLY <3>1 DEF Request
    <2>3. \A s \in Slots : stock[s] \in Int
      BY DEF IInv, TypeOK
    <2>4. \A s \in Slots : Booked(s) \in Int
      BY BookedType DEF IInv
    <2>. QED  BY <2>1, <2>2, <2>3, <2>4
  <1>1. ASSUME GiveUp(w) PROVE LedgerBalance'
    <2>1. Moves(w)
      BY <1>0, <1>1 DEF GiveUp, Finish, Moves, IInv, TypeOK
    <2>. QED  BY Zenon, <1>1, <2>1, GiveUpBalance
  (* The request ends or goes on to a label at which it has moved p.       *)
  <1>2. ASSUME NEW l \in Labels, (Finish(w) /\ l = "idle") \/ Goto(w, l)
        PROVE  /\ Moves(w) /\ pc'[w] = l
               /\ l # "idle" => req'[w] = req[w]
               /\ l = "idle" => \A s \in Slots : PendingOn(s, w)' = 0
    BY <1>0, <1>2 DEF Finish, Goto, Moves, IInv, TypeOK, PendingOn, Pending
  <1>3. ASSUME InboundApply(w) PROVE LedgerBalance'
    <2>1. CASE Upsert(x, q) /\ Finish(w) /\ UNCHANGED <<ledger, drift>>
      <3>1. \A s \in Slots : /\ stock'[s] = stock[s] + (IF s = x THEN q ELSE 0)
                             /\ Booked(s)' = Booked(s) + (IF s = x THEN 0 ELSE 0)
        <4>1. \A s \in Slots : /\ Booked(s)' = Booked(s)
                               /\ Booked(s) \in Int
          BY <1>0, <2>1, BookedSame
        <4>2. \A s \in Slots : stock'[s] = stock[s] + (IF s = x THEN q ELSE 0)
          BY <1>0, <2>1 DEF Upsert, IInv, TypeOK
        <4>. QED  BY ONLY <4>1, <4>2
      <3>2. \A s \in Slots : PendingOn(s, w)' - PendingOn(s, w) = IF s = x THEN q - 0 ELSE 0
        BY <1>0, <1>2, <1>3, <2>1 DEF InboundApply, PendingOn, Pending, Labels
      <3>3. Moves(w)
        BY <1>2, <2>1 DEF Labels
      <3>m. Shifts(w, x, q, 0)
        BY <1>0, <2>1, <3>1, <3>2, <3>3 DEF Shifts
      <3>. QED  BY Zenon, <3>m, MoveBalance
    <2>. QED  BY <1>1, <1>3, <2>1 DEF InboundApply
  <1>4. ASSUME OutboundApply(w) PROVE LedgerBalance'
    <2>. HIDE DEF x, q
    <2>0. Upsert(x, -q) /\ UNCHANGED ledger /\ stock \in [Slots -> Int]
      BY <1>4 DEF OutboundApply, x, q, IInv, TypeOK
    <2>1. \A s \in Slots : /\ stock'[s] = stock[s] + (IF s = x THEN -q ELSE 0)
                           /\ Booked(s)' = Booked(s) + (IF s = x THEN 0 ELSE 0)
      <3>1. \A s \in Slots : stock'[s] = stock[s] + (IF s = x THEN -q ELSE 0)
        BY ONLY <1>0, <2>0 DEF Upsert
      <3>2. \A s \in Slots : Booked(s)' = Booked(s) /\ Booked(s) \in Int
        BY <2>0, BookedSame
      <3>. QED  BY ONLY <3>1, <3>2
    <2>. USE DEF x, q
    <2>2. Moves(w) /\ pc'[w] = "outInsert" /\ req'[w] = req[w]
      BY <1>2, <1>4 DEF OutboundApply, Labels
    <2>3. \A s \in Slots : PendingOn(s, w)' - PendingOn(s, w) = IF s = x THEN -q - 0 ELSE 0
      BY <1>0, <1>4, <2>2 DEF OutboundApply, PendingOn, Pending
    <2>4. UNCHANGED drift
      BY <1>4 DEF OutboundApply
    <2>m. Shifts(w, x, -q, 0)
      BY <1>0, <2>1, <2>2, <2>3, <2>4 DEF Shifts
    <2>. QED  BY Zenon, <2>m, MoveBalance
  <1>5. ASSUME AdjustApply(w) PROVE LedgerBalance'
    <2>1. CASE Upsert(x, q) /\ Goto(w, "adjInsert") /\ UNCHANGED <<ledger, drift>>
      <3>1. \A s \in Slots : /\ stock'[s] = stock[s] + (IF s = x THEN q ELSE 0)
                             /\ Booked(s)' = Booked(s) + (IF s = x THEN 0 ELSE 0)
        BY <1>0, <2>1, BookedSame DEF Upsert, IInv, TypeOK
      <3>2. Moves(w) /\ pc'[w] = "adjInsert" /\ req'[w] = req[w]
        BY <1>2, <2>1 DEF Labels
      <3>3. \A s \in Slots : PendingOn(s, w)' - PendingOn(s, w) = IF s = x THEN q - 0 ELSE 0
        BY <1>0, <1>5, <3>2 DEF AdjustApply, PendingOn, Pending
      <3>m. Shifts(w, x, q, 0)
        BY <1>0, <2>1, <3>1, <3>2, <3>3 DEF Shifts
      <3>. QED  BY Zenon, <3>m, MoveBalance
    <2>. QED  BY <1>1, <1>5, <2>1 DEF AdjustApply
  (* A record of what was moved.                                           *)
  <1>6. ASSUME NEW k \in {"outbound", "adjustment"}, NEW b \in Int,
               ledger' = Append(ledger, NewEntry(k, x, q)), Finish(w), UNCHANGED <<stock, drift>>,
               b = IF k = "outbound" THEN -q ELSE q,
               \A s \in Slots : PendingOn(s, w) = IF s = x THEN b ELSE 0
        PROVE  LedgerBalance'
    <2>1. NewEntry(k, x, q) \in Entry
      BY <1>0, NewEntryType
    <2>2. \A s \in Slots : EffectOn(s, NewEntry(k, x, q)) = IF s = x THEN b ELSE 0
      BY <1>6 DEF EffectOn, Effect, NewEntry
    <2>. HIDE DEF x, q
    <2>3. \A s \in Slots : Booked(s)' = Booked(s) + (IF s = x THEN b ELSE 0)
      BY <1>6, <2>1, <2>2, BookedAppend DEF IInv
    <2>4. Moves(w) /\ \A s \in Slots : PendingOn(s, w)' = 0
      BY <1>2, <1>6 DEF Labels
    <2>5. \A s \in Slots : /\ stock'[s] = stock[s] + (IF s = x THEN 0 ELSE 0)
                           /\ PendingOn(s, w)' - PendingOn(s, w) = IF s = x THEN 0 - b ELSE 0
      BY <1>0, <1>6, <2>4
    <2>m. Shifts(w, x, 0, b)
      BY <1>0, <1>6, <2>3, <2>4, <2>5 DEF Shifts
    <2>. QED  BY Zenon, <2>m, MoveBalance
  <1>7. ASSUME OutboundInsert(w) PROVE LedgerBalance'
    <2>1. \A s \in Slots : PendingOn(s, w) = IF s = x THEN -q ELSE 0
      BY <1>7 DEF OutboundInsert, PendingOn, Pending
    <2>. QED  BY <1>0, <1>6, <1>7, <2>1 DEF OutboundInsert
  <1>8. ASSUME AdjustInsert(w) PROVE LedgerBalance'
    <2>1. \A s \in Slots : PendingOn(s, w) = IF s = x THEN q ELSE 0
      BY <1>8 DEF AdjustInsert, PendingOn, Pending
    <2>. QED  BY <1>0, <1>6, <1>8, <2>1 DEF AdjustInsert
  (* The mark takes the record out of the balance, the apply follows.      *)
  <1>9. ASSUME ReverseMark(w) \/ ReverseApply(w)
        PROVE  /\ d \in DOMAIN ledger /\ ledger[d] \in Entry /\ UndoQty(ledger[d]) \in Int
               /\ x = ledger[d].slot /\ ledger[d].kind \in {"inbound", "outbound"}
    BY <1>9, EntryAt, EffectType, <1>0
    DEF ReverseMark, ReverseApply, ReversalKnows, IInv, DocsValid, TypeOK
  <1>10. ASSUME ReverseMark(w) PROVE LedgerBalance'
    <2>1. CASE /\ MarkMatches(d) /\ Goto(w, "revApply")
               /\ ledger' = [ledger EXCEPT ![d] = Marked(@)] /\ UNCHANGED <<stock, drift>>
      <3>. DEFINE e == Marked(ledger[d])
                  u == UndoQty(ledger[d])
      <3>1. /\ e \in Entry /\ e.status = "REVERSED" /\ e.kind = ledger[d].kind
            /\ e.slot = x /\ e.qty = ledger[d].qty
        BY <1>9, <1>10 DEF Marked, Entry
      <3>2. UndoQty(e) = u
        BY <3>1 DEF UndoQty
      <3>3. /\ \A s \in Slots : EffectOn(s, e) = 0
            /\ \A s \in Slots : EffectOn(s, ledger[d]) = IF s = x THEN -u ELSE 0
        <4>1. ledger[d].status # "REVERSED" /\ ledger[d].qty \in Int
          BY <1>9, <1>10, <2>1 DEF MarkMatches, Entry
        <4>2. \A s \in Slots : EffectOn(s, e) = 0
          BY <3>1, UndoneWeighsNothing
        <4>3. Effect(ledger[d]) = -u
          BY ONLY <1>9, <1>10, <4>1 DEF Effect, UndoQty
        <4>. QED  BY <1>9, <1>10, <4>2, <4>3 DEF EffectOn
      <3>4. ledger' = [ledger EXCEPT ![d] = e]
        BY <2>1
      <3>5. ledger'[d] = e
        BY <1>9, <1>10, <3>1, <3>4, ReplaceEntry DEF IInv, TypeOK
      <3>6. u \in Int /\ -u \in Int
        BY <1>9, <1>10
      <3>7. Moves(w) /\ pc'[w] = "revApply" /\ req'[w] = req[w]
        BY <1>2, <2>1 DEF Labels
      <3>8. \A s \in Slots : /\ PendingOn(s, w) = 0
                             /\ PendingOn(s, w)' = IF s = x THEN -u ELSE 0
        BY <1>10, <3>2, <3>5, <3>7 DEF ReverseMark, PendingOn, Pending
      <3>. HIDE DEF d, e, u, x
      <3>9. \A s \in Slots : Booked(s)' = Booked(s) - EffectOn(s, ledger[d]) + EffectOn(s, e)
        BY <1>9, <1>10, <3>1, <3>4, BookedReplace DEF IInv
      <3>10. \A s \in Slots : Booked(s)' = Booked(s) + (IF s = x THEN u ELSE 0)
        BY <1>0, <3>3, <3>6, <3>9
      <3>11. \A s \in Slots : /\ stock'[s] = stock[s] + (IF s = x THEN 0 ELSE 0)
                              /\ PendingOn(s, w)' - PendingOn(s, w) = IF s = x THEN 0 - u ELSE 0
        BY <1>0, <2>1, <3>6, <3>8
      <3>m. Shifts(w, x, 0, u)
        BY <1>0, <2>1, <3>6, <3>7, <3>10, <3>11 DEF Shifts
      <3>. QED  BY Zenon, <3>m, MoveBalance
    <2>2. CASE Finish(w) /\ UNCHANGED <<stock, ledger, drift>>
      <3>1. Moves(w) /\ \A s \in Slots : PendingOn(s, w)' = 0
        BY <1>2, <2>2 DEF Labels
      <3>2. \A s \in Slots : PendingOn(s, w) = 0
        BY <1>10 DEF ReverseMark, PendingOn, Pending
      <3>3. \A s \in Slots : /\ stock'[s] = stock[s] + (IF s = x THEN 0 ELSE 0)
                             /\ Booked(s)' = Booked(s) + (IF s = x THEN 0 ELSE 0)
                             /\ PendingOn(s, w)' - PendingOn(s, w) = IF s = x THEN 0 - 0 ELSE 0
        BY <1>0, <2>2, <3>1, <3>2, BookedSame
      <3>m. Shifts(w, x, 0, 0)
        BY <1>0, <2>2, <3>1, <3>3 DEF Shifts
      <3>. QED  BY Zenon, <3>m, MoveBalance
    <2>. QED  BY <1>10, <2>1, <2>2 DEF ReverseMark
  <1>11. ASSUME ReverseApply(w) PROVE LedgerBalance'
    <2>1. CASE /\ Upsert(x, UndoQty(ledger[d])) /\ Finish(w) /\ UNCHANGED drift
               /\ ledger' = [ledger EXCEPT ![d].undone = @ + 1]
      <3>. DEFINE e == [ledger[d] EXCEPT !.undone = @ + 1]
                  u == UndoQty(ledger[d])
      <3>1. ledger[d].status = "REVERSED" /\ pc[w] = "revApply"
        BY <1>11 DEF ReverseApply, IInv, ReversedOnce
      <3>2. e \in Entry /\ e.status = "REVERSED"
        BY <1>9, <1>11, <3>1 DEF Entry
      <3>3. \A s \in Slots : EffectOn(s, e) = 0 /\ EffectOn(s, ledger[d]) = 0
        BY <3>1, <3>2, UndoneWeighsNothing
      <3>4. ledger' = [ledger EXCEPT ![d] = e]
        BY <2>1
      <3>5. u \in Int /\ -u \in Int
        BY <1>9, <1>11
      <3>6. \A s \in Slots : stock'[s] = stock[s] + (IF s = x THEN u ELSE 0)
        <4>1. stock \in [Slots -> Int] /\ stock' = [stock EXCEPT ![x] = @ + u]
          BY <2>1 DEF Upsert, IInv, TypeOK
        <4>. QED  BY ONLY <1>0, <3>5, <4>1
      <3>7. Moves(w) /\ \A s \in Slots : PendingOn(s, w)' = 0
        BY <1>2, <2>1 DEF Labels
      <3>8. \A s \in Slots : PendingOn(s, w) = IF s = x THEN -u ELSE 0
        BY <3>1 DEF PendingOn, Pending
      <3>. HIDE DEF d, e, u, x
      <3>9. \A s \in Slots : Booked(s)' = Booked(s) - EffectOn(s, ledger[d]) + EffectOn(s, e)
        BY <1>9, <1>11, <3>2, <3>4, BookedReplace DEF IInv
      <3>10. \A s \in Slots : Booked(s)' = Booked(s) + (IF s = x THEN 0 ELSE 0)
        BY <1>0, <3>3, <3>9
      <3>11. \A s \in Slots : PendingOn(s, w)' - PendingOn(s, w) = IF s = x THEN u - 0 ELSE 0
        BY <3>5, <3>7, <3>8
      <3>m. Shifts(w, x, u, 0)
        BY <1>0, <2>1, <3>5, <3>6, <3>7, <3>10, <3>11 DEF Shifts
      <3>. QED  BY Zenon, <3>m, MoveBalance
    <2>. QED  BY <1>1, <1>11, <2>1 DEF ReverseApply
  <1>. QED  BY <1>3, <1>4, <1>5, <1>7, <1>8, <1>10, <1>11 DEF Continue

LEMMA StepReversalKnows ==
    ASSUME BInv, IInv', [Next]_vars
    PROVE  ReversalKnows'
  <1>. USE DEF BInv
  <1>1. Kept
    BY StepKept
  <1>2. ASSUME NEW v \in Workers, pc[v] \in {"revMark", "revApply"}, req'[v] = req[v]
        PROVE  /\ req'[v].slot = ledger'[req'[v].doc].slot
               /\ ledger'[req'[v].doc].kind \in {"inbound", "outbound"}
    BY <1>1, <1>2 DEF Kept, ReversalKnows, IInv, DocsValid
  <1>3. ASSUME NEW w \in Workers, NEW d \in DOMAIN ledger, ReverseRead(w, d)
        PROVE  ReversalKnows'
    <2>1. /\ req'[w].slot = ledger'[d].slot /\ req'[w].doc = d
          /\ ledger'[d].kind \in {"inbound", "outbound"}
          /\ \A v \in Workers : v # w => pc'[v] = pc[v] /\ req'[v] = req[v]
      BY <1>1, <1>3 DEF ReverseRead, Start, IInv, TypeOK
    <2>. QED  BY <1>2, <2>1 DEF ReversalKnows
  <1>4. ASSUME NEW w \in Workers, ReverseMark(w)
        PROVE  ReversalKnows'
    <2>1. \A v \in Workers : pc'[v] \in {"revMark", "revApply"} =>
              pc[v] \in {"revMark", "revApply"} /\ req'[v] = req[v]
      BY <1>4 DEF ReverseMark, Goto, Finish, IInv, TypeOK
    <2>. QED  BY <1>2, <2>1 DEF ReversalKnows
  <1>5. ASSUME NEW w \in Workers, pc'[w] \notin {"revMark", "revApply"},
               \A v \in Workers : v # w => pc'[v] = pc[v] /\ req'[v] = req[v]
        PROVE  ReversalKnows'
    BY <1>2, <1>5 DEF ReversalKnows
  <1>6. ASSUME NEW w \in Workers, NEW s \in Slots, NEW q \in Int,
               \/ InboundInsert(w, s, q) \/ OutboundCheck(w, s, q)
               \/ AdjustCheck(w, s, q) \/ AdjustForce(w, s, q)
        PROVE  ReversalKnows'
    BY <1>5, <1>6 DEF InboundInsert, OutboundCheck, AdjustCheck, AdjustForce, Start, IInv, TypeOK
  <1>7. ASSUME NEW w \in Workers,
               \/ InboundApply(w) \/ OutboundApply(w) \/ OutboundInsert(w)
               \/ AdjustApply(w) \/ AdjustInsert(w) \/ ReverseApply(w) \/ Abandon(w)
        PROVE  ReversalKnows'
    BY <1>5, <1>7 DEF InboundApply, OutboundApply, OutboundInsert, AdjustApply, AdjustInsert,
                      ReverseApply, Abandon, GiveUp, Goto, Finish, IInv, TypeOK
  <1>8. CASE UNCHANGED vars
    BY <1>8 DEF vars, ReversalKnows
  <1>9. ASSUME NEW w \in Workers, Begin(w) PROVE ReversalKnows'
    BY <1>3, <1>6, <1>9, QtysInt DEF Begin
  <1>10. ASSUME NEW w \in Workers, Continue(w) PROVE ReversalKnows'
    BY <1>4, <1>7, <1>10 DEF Continue
  <1>. QED  BY <1>7, <1>8, <1>9, <1>10 DEF Next, Drained

LEMMA InitBInv == Init => BInv
  <1>. SUFFICES ASSUME Init PROVE BInv
    OBVIOUS
  <1>1. ReversalKnows
    BY DEF Init, ReversalKnows
  <1>2. \A s \in Slots : Booked(s) = 0
    BY SumFunctionEmpty, EmptySeq DEF Init, Booked
  <1>3. \A s \in Slots : InFlight(s) = 0
    <2>1. \A s \in Slots, w \in Workers : PendingOn(s, w) = 0
      BY DEF Init, PendingOn, Pending
    <2>. QED  BY <2>1, SumFunctionZero, LedgerAssumption DEF InFlight
  <1>4. \A s \in Slots : stock[s] = 0 /\ drift[s] = 0
    BY DEF Init
  <1>. QED  BY <1>1, <1>2, <1>3, <1>4, InitIInv DEF BInv, LedgerBalance

LEMMA BalanceStays ==
    ASSUME LedgerBalance, UNCHANGED <<stock, ledger, pc, req, drift>>
    PROVE  LedgerBalance'
  <1>1. \A s \in Slots : Booked(s)' = Booked(s)
    BY DEF Booked, EffectOn, Effect
  <1>2. \A v \in Workers : Pending(v)' = Pending(v)
    BY DEF Pending, UndoQty
  <1>3. \A s \in Slots : InFlight(s)' = InFlight(s)
    BY <1>2 DEF InFlight, PendingOn
  <1>. QED  BY <1>1, <1>3 DEF LedgerBalance

LEMMA StepBInv == BInv /\ [Next]_vars => BInv'
  <1>. SUFFICES ASSUME BInv, [Next]_vars PROVE BInv'
    OBVIOUS
  <1>1. IInv' /\ Kept
    BY StepIInv, StepKept DEF BInv
  <1>2. ReversalKnows'
    BY <1>1, StepReversalKnows
  <1>3. ASSUME NEW w \in Workers, Abandon(w) PROVE LedgerBalance'
    BY <1>1, <1>3, GiveUpBalance DEF Abandon, GiveUp, Finish, Moves, BInv, IInv, TypeOK
  <1>4. ASSUME UNCHANGED vars PROVE LedgerBalance'
    BY <1>4, BalanceStays DEF vars, BInv
  <1>5. LedgerBalance'
    <2>1. UNCHANGED vars \/ \E w \in Workers : Begin(w) \/ Continue(w) \/ Abandon(w)
      BY DEF Next, Drained
    <2>. QED  BY <1>1, <1>3, <1>4, <2>1, BeginBalance, ContinueBalance
  <1>. QED  BY <1>1, <1>2, <1>5 DEF BInv

(* However many requests of whatever kind are under way, wherever they are *)
(* abandoned and whichever upserts the index rejects: the stock of a slot  *)
(* is the sum of its active records, of the halves of the requests under   *)
(* way, and of what requests that ended half way left behind.  No call     *)
(* moves stock or writes a record that no other call makes up for.         *)
THEOREM LedgerBalances == Spec => []LedgerBalance
  <1>1. BInv => LedgerBalance
    BY DEF BInv
  <1>. QED  BY <1>1, InitBInv, StepBInv, PTL DEF Spec

-----------------------------------------------------------------------------
(* How far a slot can be overdrawn.                                        *)

TakenBackIn(s, L) == SumFunction([i \in DOMAIN L |-> TakenBackOn(s, L[i])])

Sized(e) == e \in Entry /\ (e.kind \in {"inbound", "outbound"} => e.qty \in Nat)

LEMMA TakenBackOnType ==
    ASSUME NEW e, Sized(e), NEW s
    PROVE  TakenBackOn(s, e) \in Nat
  BY DEF Sized, TakenBackOn

SizedLedger(L) == L \in Seq(Entry) /\ \A d \in DOMAIN L : Sized(L[d])

LEMMA TakenBackType ==
    ASSUME NEW L \in Seq(Entry), \A d \in DOMAIN L : Sized(L[d]), NEW s
    PROVE  /\ TakenBackIn(s, L) \in Nat
           /\ IsFiniteSet(DOMAIN L)
           /\ [i \in DOMAIN L |-> TakenBackOn(s, L[i])] \in [DOMAIN L -> Nat]
  <1>. DEFINE f == [i \in DOMAIN L |-> TakenBackOn(s, L[i])]
  <1>1. IsFiniteSet(DOMAIN L)
    BY Positions
  <1>2. f \in [DOMAIN L -> Nat]
    BY TakenBackOnType
  <1>3. TakenBackIn(s, L) = SumFunction(f)
    BY DEF TakenBackIn
  <1>. HIDE DEF f
  <1>4. SumFunction(f) \in Nat
    BY <1>1, <1>2, SumFunctionNat
  <1>. QED  BY <1>1, <1>2, <1>3, <1>4 DEF f

(* A new record has not been undone.                                       *)
LEMMA TakenBackAppend ==
    ASSUME NEW L \in Seq(Entry), \A d \in DOMAIN L : Sized(L[d]),
           NEW e \in Entry, e.undone = 0, NEW s
    PROVE  TakenBackIn(s, Append(L, e)) = TakenBackIn(s, L)
  <1>. DEFINE M == Append(L, e)
              f == [i \in DOMAIN L |-> TakenBackOn(s, L[i])]
              g == [i \in DOMAIN M |-> TakenBackOn(s, M[i])]
  <1>1. PICK x \in Nat : x = Len(L) + 1
    BY LenProperties
  <1>2. /\ DOMAIN L = 1..Len(L) /\ DOMAIN M = 1..(Len(L) + 1) /\ Len(L) \in Nat
        /\ \A d \in DOMAIN L : M[d] = L[d]
        /\ M[x] = e
    BY <1>1, AppendEntry
  <1>3. x \notin DOMAIN L /\ DOMAIN M = DOMAIN L \cup {x}
    BY <1>1, <1>2
  <1>4. IsFiniteSet(DOMAIN L) /\ f \in [DOMAIN L -> Nat] /\ TakenBackIn(s, L) \in Nat
    BY TakenBackType
  <1>5. g[x] = 0
    BY <1>2, <1>3 DEF TakenBackOn
  <1>6. \A d \in DOMAIN L : g[d] = f[d]
    BY <1>2, <1>3
  <1>7. f \in [DOMAIN L -> Int]
    <2>. HIDE DEF f
    <2>. QED  BY <1>4
  <1>8. g \in [DOMAIN M -> Int]
    <2>1. \A i \in DOMAIN M : g[i] \in Int
      <3>1. \A i \in DOMAIN M : i = x \/ i \in DOMAIN L
        BY <1>3
      <3>. HIDE DEF f, g
      <3>. QED  BY <1>5, <1>6, <1>7, <3>1
    <2>. QED  BY <2>1
  <1>9. TakenBackIn(s, L) = SumFunction(f) /\ TakenBackIn(s, M) = SumFunction(g)
    BY DEF TakenBackIn
  <1>. HIDE DEF M, f, g
  <1>10. Extends(DOMAIN L, x, DOMAIN M, f, g)
    BY <1>3, <1>4, <1>6, <1>7, <1>8 DEF Extends
  <1>11. SumFunction(g) = SumFunction(f) + g[x]
    BY ONLY <1>10, SumExtends
  <1>. QED  BY <1>4, <1>5, <1>9, <1>11 DEF M

(* M is L with e in the place of its record d.                             *)
Replaces(L, d, e, M) ==
    SizedLedger(L) /\ d \in DOMAIN L /\ Sized(e) /\ M = [L EXCEPT ![d] = e]

LEMMA TakenBackReplace ==
    ASSUME NEW L, NEW d, NEW e, NEW M, Replaces(L, d, e, M), NEW s
    PROVE  /\ TakenBackIn(s, M) = TakenBackIn(s, L) - TakenBackOn(s, L[d]) + TakenBackOn(s, e)
           /\ TakenBackOn(s, L[d]) \in Nat /\ TakenBackOn(s, e) \in Nat
  <1>. DEFINE f == [i \in DOMAIN L |-> TakenBackOn(s, L[i])]
              g == [i \in DOMAIN M |-> TakenBackOn(s, M[i])]
  <1>0. /\ e \in Entry /\ L \in Seq(Entry) /\ \A i \in DOMAIN L : Sized(L[i])
        /\ d \in DOMAIN L /\ Sized(e) /\ M = [L EXCEPT ![d] = e]
    BY DEF Sized, SizedLedger, Replaces
  <1>1. /\ DOMAIN M = DOMAIN L
        /\ \A i \in DOMAIN L : M[i] = IF i = d THEN e ELSE L[i]
    BY <1>0, ReplaceEntry
  <1>2. IsFiniteSet(DOMAIN L) /\ f \in [DOMAIN L -> Nat]
    BY <1>0, TakenBackType
  <1>3. TakenBackOn(s, L[d]) \in Nat /\ TakenBackOn(s, e) \in Nat
    BY <1>0, TakenBackOnType
  <1>4. /\ f[d] = TakenBackOn(s, L[d]) /\ g[d] = TakenBackOn(s, e)
        /\ \A i \in DOMAIN L : i # d => g[i] = f[i]
    BY <1>0, <1>1
  <1>5. f \in [DOMAIN L -> Int]
    <2>. HIDE DEF f
    <2>. QED  BY <1>2
  <1>6. g \in [DOMAIN L -> Int]
    <2>1. \A i \in DOMAIN L : g[i] \in Int
      <3>. HIDE DEF f, g
      <3>. QED  BY <1>3, <1>4, <1>5
    <2>. QED  BY <1>1, <2>1
  <1>7. TakenBackIn(s, L) = SumFunction(f) /\ TakenBackIn(s, M) = SumFunction(g)
    BY DEF TakenBackIn
  <1>. HIDE DEF f, g
  <1>8. SumFunction(g) = SumFunction(f) - f[d] + g[d]
    BY ZenonT(40), <1>0, <1>2, <1>4, <1>5, <1>6, SumFunctionChange
  <1>. QED  BY <1>3, <1>4, <1>7, <1>8

(* What a request asks for, and what it is about to remove from slot s     *)
(* because it has found it there.                                          *)
Asks(p, r) ==
    /\ p \in {"inApply", "outApply", "outInsert"} => r.qty \in Qtys
    /\ p = "adjApply" => r.qty \in Qtys \/ -r.qty \in Qtys

Withdrawal(p, r, s) ==
    IF r.slot # s THEN 0
    ELSE IF p = "outApply" THEN r.qty
    ELSE IF p = "adjApply" /\ -r.qty \in Qtys THEN -r.qty ELSE 0

Awaited(s) == SumFunction([w \in Workers |-> Withdrawal(pc[w], req[w], s)])

AllSized ==
    /\ \A d \in DOMAIN ledger : Sized(ledger[d])
    /\ \A w \in Workers : Asks(pc[w], req[w])

(* Even if every request takes what it is about to take.                   *)
Room(m) == \A s \in Slots : stock[s] + TakenBack(s) - Awaited(s) + m >= 0

LEMMA WithdrawalType ==
    ASSUME NEW p, NEW r \in Request, Asks(p, r), NEW s
    PROVE  /\ Withdrawal(p, r, s) \in Int /\ Withdrawal(p, r, s) >= 0
           /\ \A k \in Int : k >= 0 /\ (\A q \in Qtys : q <= k) => Withdrawal(p, r, s) <= k
           /\ p \notin {"outApply", "adjApply"} => Withdrawal(p, r, s) = 0
  BY QtysInt DEF Asks, Withdrawal, Request

LEMMA AwaitedType ==
    ASSUME TypeOK, AllSized, NEW s
    PROVE  /\ Awaited(s) \in Int /\ Awaited(s) >= 0
           /\ [w \in Workers |-> Withdrawal(pc[w], req[w], s)] \in [Workers -> Int]
  <1>. DEFINE f == [w \in Workers |-> Withdrawal(pc[w], req[w], s)]
  <1>1. \A w \in Workers : Withdrawal(pc[w], req[w], s) \in Nat
    <2>. TAKE w \in Workers
    <2>1. req[w] \in Request /\ Asks(pc[w], req[w])
      BY DEF TypeOK, AllSized
    <2>. QED  BY <2>1, WithdrawalType
  <1>2. f \in [Workers -> Nat] /\ f \in [Workers -> Int]
    BY <1>1
  <1>3. IsFiniteSet(Workers)
    BY LedgerAssumption
  <1>4. Awaited(s) = SumFunction(f)
    BY DEF Awaited
  <1>. HIDE DEF f
  <1>5. SumFunction(f) \in Nat
    BY <1>2, <1>3, SumFunctionNat
  <1>. QED  BY <1>2, <1>4, <1>5 DEF f

LEMMA InitAllSized == Init => AllSized
  BY EmptySeq DEF Init, AllSized, Asks

(* What the requests ask for, and the quantities of the records.           *)
LEMMA SizedMoves ==
    ASSUME IInv, IInv', AllSized, NEW w \in Workers, Moves(w), Asks(pc'[w], req'[w]),
           \A d \in DOMAIN ledger' : d \in DOMAIN ledger \/ Sized(ledger'[d])
    PROVE  AllSized'
  <1>1. \A d \in DOMAIN ledger' : Sized(ledger'[d])
    <2>. TAKE d \in DOMAIN ledger'
    <2>1. CASE d \in DOMAIN ledger
      <3>1. ledger'[d] \in Entry
        BY EntryAt DEF IInv, TypeOK
      <3>. QED  BY <2>1, <3>1 DEF AllSized, Sized, Moves, Kept
    <2>. QED  BY <2>1
  <1>2. \A v \in Workers : Asks(pc'[v], req'[v])
    BY DEF AllSized, Moves
  <1>. QED  BY <1>1, <1>2 DEF AllSized

LEMMA OneWorkerMoves ==
    ASSUME IInv, NEW w \in Workers, Begin(w) \/ Continue(w) \/ Abandon(w)
    PROVE  Moves(w)
  <1>1. Kept
    BY StepKept DEF Next
  <1>2. \A v \in Workers : v # w => pc'[v] = pc[v] /\ req'[v] = req[v]
    <2>1. CASE Begin(w)
      <3>1. PICK label, r : Start(w, label, r)
        BY <2>1 DEF Begin, InboundInsert, OutboundCheck, AdjustCheck, AdjustForce, ReverseRead
      <3>. QED  BY <3>1 DEF Start, IInv, TypeOK
    <2>2. CASE Continue(w) \/ Abandon(w)
      <3>1. Finish(w) \/ \E label : Goto(w, label)
        BY <2>2 DEF Continue, Abandon, GiveUp, InboundApply, OutboundApply, OutboundInsert,
                    AdjustApply, AdjustInsert, ReverseMark, ReverseApply
      <3>. QED  BY <3>1 DEF Finish, Goto, IInv, TypeOK
    <2>. QED  BY <2>1, <2>2
  <1>. QED  BY <1>1, <1>2 DEF Moves

LEMMA StepAllSized ==
    ASSUME IInv, IInv', AllSized, [Next]_vars
    PROVE  AllSized'
  <1>0. ASSUME NEW w \in Workers, Begin(w) \/ Continue(w) \/ Abandon(w),
               Asks(pc'[w], req'[w]),
               \A d \in DOMAIN ledger' : d \in DOMAIN ledger \/ Sized(ledger'[d])
        PROVE  AllSized'
    BY <1>0, OneWorkerMoves, SizedMoves
  <1>1. ASSUME NEW w \in Workers, NEW k \in {"inbound", "outbound", "adjustment"},
               NEW s \in Slots, NEW q \in Int, k # "adjustment" => q \in Qtys,
               ledger' = Append(ledger, NewEntry(k, s, q))
        PROVE  \A d \in DOMAIN ledger' : d \in DOMAIN ledger \/ Sized(ledger'[d])
    <2>1. NewEntry(k, s, q) \in Entry
      BY NewEntryType
    <2>2. Sized(NewEntry(k, s, q))
      BY <1>1, <2>1, QtysInt DEF Sized, NewEntry
    <2>. QED  BY <1>1, <2>1, <2>2, AppendEntry DEF IInv, TypeOK
  <1>2. ASSUME NEW w \in Workers
        PROVE  req[w].slot \in Slots /\ req[w].qty \in Int
    BY DEF IInv, TypeOK, Request
  <1>3. ASSUME NEW w \in Workers, Begin(w) PROVE AllSized'
    <2>1. ASSUME NEW s \in Slots, NEW q \in Qtys, InboundInsert(w, s, q) PROVE AllSized'
      <3>1. Asks(pc'[w], req'[w])
        BY <2>1 DEF InboundInsert, Start, Asks, IInv, TypeOK
      <3>2. q \in Int /\ ledger' = Append(ledger, NewEntry("inbound", s, q))
        BY <2>1, QtysInt DEF InboundInsert
      <3>. QED  BY <1>0, <1>1, <1>3, <3>1, <3>2
    <2>2. ASSUME NEW s \in Slots, NEW q \in Qtys,
                 \/ OutboundCheck(w, s, q) \/ AdjustCheck(w, s, q)
                 \/ AdjustCheck(w, s, -q) \/ AdjustForce(w, s, -q)
          PROVE  AllSized'
      <3>1. -(-q) = q
        BY QtysInt
      <3>2. Asks(pc'[w], req'[w])
        BY <2>2, <3>1 DEF OutboundCheck, AdjustCheck, AdjustForce, Start, Asks, IInv, TypeOK
      <3>3. ledger' = ledger
        BY <2>2 DEF OutboundCheck, AdjustCheck, AdjustForce
      <3>. QED  BY <1>0, <1>3, <3>2, <3>3
    <2>3. ASSUME NEW d \in DOMAIN ledger, ReverseRead(w, d) PROVE AllSized'
      <3>1. Asks(pc'[w], req'[w]) /\ ledger' = ledger
        BY <2>3 DEF ReverseRead, Start, Asks, IInv, TypeOK
      <3>. QED  BY <1>0, <1>3, <3>1
    <2>. QED  BY <1>3, <2>1, <2>2, <2>3 DEF Begin
  <1>4. ASSUME NEW w \in Workers, Continue(w) \/ Abandon(w) PROVE AllSized'
    <2>1. ASSUME pc'[w] \in {"idle", "adjInsert", "revApply"} PROVE Asks(pc'[w], req'[w])
      BY <2>1 DEF Asks
    <2>2. CASE OutboundApply(w)
      <3>1. Asks(pc'[w], req'[w]) /\ ledger' = ledger
        BY <2>2 DEF OutboundApply, Goto, Asks, AllSized, IInv, TypeOK
      <3>. QED  BY <1>0, <1>4, <3>1
    <2>3. CASE OutboundInsert(w)
      <3>1. req[w].qty \in Qtys /\ pc'[w] = "idle"
        BY <2>3 DEF OutboundInsert, Finish, Asks, AllSized, IInv, TypeOK
      <3>2. ledger' = Append(ledger, NewEntry("outbound", req[w].slot, req[w].qty))
        BY <2>3 DEF OutboundInsert
      <3>3. \A d \in DOMAIN ledger' : d \in DOMAIN ledger \/ Sized(ledger'[d])
        <4>1. PICK x \in Slots, q \in Int : x = req[w].slot /\ q = req[w].qty
          BY <1>2
        <4>. QED  BY <1>1, <3>1, <3>2, <4>1
      <3>. QED  BY <1>0, <1>4, <2>1, <3>1, <3>3
    <2>4. CASE AdjustInsert(w)
      <3>1. pc'[w] = "idle"
        BY <2>4 DEF AdjustInsert, Finish, IInv, TypeOK
      <3>2. ledger' = Append(ledger, NewEntry("adjustment", req[w].slot, req[w].qty))
        BY <2>4 DEF AdjustInsert
      <3>3. \A d \in DOMAIN ledger' : d \in DOMAIN ledger \/ Sized(ledger'[d])
        <4>1. PICK x \in Slots, q \in Int : x = req[w].slot /\ q = req[w].qty
          BY <1>2
        <4>. QED  BY <1>1, <3>2, <4>1
      <3>. QED  BY <1>0, <1>4, <2>1, <3>1, <3>3
    <2>5. CASE InboundApply(w) \/ AdjustApply(w) \/ Abandon(w)
      <3>1. ledger' = ledger /\ pc'[w] \in {"idle", "adjInsert"}
        BY <2>5 DEF InboundApply, AdjustApply, Abandon, GiveUp, Finish, Goto, IInv, TypeOK
      <3>. QED  BY <1>0, <1>4, <2>1, <3>1
    <2>6. CASE ReverseMark(w) \/ ReverseApply(w)
      <3>1. pc'[w] \in {"idle", "revApply"}
        BY <2>6 DEF ReverseMark, ReverseApply, GiveUp, Finish, Goto, IInv, TypeOK
      <3>2. DOMAIN ledger' = DOMAIN ledger
        BY <2>6 DEF ReverseMark, ReverseApply, GiveUp
      <3>. QED  BY <1>0, <1>4, <2>1, <3>1, <3>2
    <2>. QED  BY <1>4, <2>2, <2>3, <2>4, <2>5, <2>6 DEF Continue
  <1>5. CASE UNCHANGED vars
    BY <1>5 DEF vars, AllSized
  <1>. QED  BY <1>3, <1>4, <1>5 DEF Next, Drained

(* The sum over the records, before and after a step.                      *)
LEMMA TakenBackInt ==
    ASSUME IInv, AllSized, NEW s
    PROVE  TakenBack(s) \in Nat
  <1>1. TakenBack(s) = TakenBackIn(s, ledger)
    BY DEF TakenBack, TakenBackIn
  <1>2. TakenBackIn(s, ledger) \in Nat
    BY TakenBackType DEF IInv, TypeOK, AllSized
  <1>. QED  BY <1>1, <1>2

LEMMA TakenBackInts ==
    ASSUME IInv', AllSized', NEW s
    PROVE  TakenBack(s)' \in Nat
  <1>1. TakenBack(s)' = TakenBackIn(s, ledger')
    BY DEF TakenBack, TakenBackIn, TakenBackOn
  <1>2. TakenBackIn(s, ledger') \in Nat
    BY TakenBackType DEF IInv, TypeOK, AllSized
  <1>. QED  BY <1>1, <1>2

(* A step that takes no more than its request was about to take.           *)
LEMMA RoomMoves ==
    ASSUME IInv, IInv', AllSized, AllSized', NEW w \in Workers, Moves(w),
           NEW m \in Int, Room(m), NEW s \in Slots,
           stock'[s] + TakenBack(s)' - Withdrawal(pc'[w], req'[w], s)
               >= stock[s] + TakenBack(s) - Withdrawal(pc[w], req[w], s)
    PROVE  stock'[s] + TakenBack(s)' - Awaited(s)' + m >= 0
  <1>. DEFINE f == [v \in Workers |-> Withdrawal(pc[v], req[v], s)]
              g == [v \in Workers |-> Withdrawal(pc'[v], req'[v], s)]
  <1>1. Awaited(s) = SumFunction(f) /\ Awaited(s)' = SumFunction(g)
    BY DEF Awaited
  <1>2. \A v \in Workers : v # w => g[v] = f[v]
    BY DEF Moves
  <1>3. \A v \in Workers : f[v] \in Int /\ g[v] \in Int
    <2>. TAKE v \in Workers
    <2>1. req[v] \in Request /\ req'[v] \in Request /\ Asks(pc[v], req[v]) /\ Asks(pc'[v], req'[v])
      BY DEF IInv, TypeOK, AllSized
    <2>. QED  BY <2>1, WithdrawalType
  <1>4. f \in [Workers -> Int] /\ g \in [Workers -> Int] /\ IsFiniteSet(Workers)
    BY <1>3, LedgerAssumption
  <1>5. f[w] = Withdrawal(pc[w], req[w], s) /\ g[w] = Withdrawal(pc'[w], req'[w], s)
    OBVIOUS
  <1>. HIDE DEF f, g
  <1>6. SumFunction(g) = SumFunction(f) - f[w] + g[w] /\ SumFunction(f) \in Int
    BY <1>2, <1>4, SumFunctionChange, SumFunctionType
  <1>7. TakenBack(s) \in Int /\ TakenBack(s)' \in Int
    BY TakenBackInt, TakenBackInts
  <1>8. stock[s] \in Int /\ stock'[s] \in Int
    BY DEF IInv, TypeOK
  <1>9. stock[s] + TakenBack(s) - Awaited(s) + m >= 0
    BY DEF Room
  <1>. QED  BY <1>1, <1>3, <1>5, <1>6, <1>7, <1>8, <1>9

(* A request that has found what it will take: the others may each take    *)
(* the largest quantity before it does.                                    *)
Largest(m) == \E k \in Qtys : /\ \A q \in Qtys : q <= k
                              /\ m = (Cardinality(Workers) - 1) * k

LEMMA RoomFound ==
    ASSUME IInv', AllSized', NEW w \in Workers, NEW m \in Int, Largest(m), NEW s \in Slots,
           stock'[s] >= Withdrawal(pc'[w], req'[w], s)
    PROVE  stock'[s] + TakenBack(s)' - Awaited(s)' + m >= 0
  <1>. DEFINE g == [v \in Workers |-> Withdrawal(pc'[v], req'[v], s)]
  <1>1. Awaited(s)' = SumFunction(g)
    BY DEF Awaited
  <1>2. PICK k \in Qtys : (\A q \in Qtys : q <= k) /\ m = (Cardinality(Workers) - 1) * k
    BY DEF Largest
  <1>3. k \in Int /\ k >= 0
    BY QtysInt
  <1>4. \A v \in Workers : g[v] \in Int /\ g[v] <= k
    <2>. TAKE v \in Workers
    <2>1. req'[v] \in Request /\ Asks(pc'[v], req'[v])
      BY DEF IInv, TypeOK, AllSized
    <2>. QED  BY <1>2, <1>3, <2>1, WithdrawalType
  <1>5. g \in [Workers -> Int] /\ IsFiniteSet(Workers) /\ g[w] = Withdrawal(pc'[w], req'[w], s)
    BY <1>4, LedgerAssumption
  <1>. HIDE DEF g
  <1>6. SumFunction(g) <= g[w] + (Cardinality(Workers) - 1) * k /\ SumFunction(g) \in Int
    BY <1>3, <1>4, <1>5, SumFunctionOthers, SumFunctionType
  <1>7. TakenBack(s)' \in Nat
    BY TakenBackInts
  <1>8. stock'[s] \in Int
    BY DEF IInv, TypeOK
  <1>. QED  BY <1>1, <1>2, <1>4, <1>5, <1>6, <1>7, <1>8

(* What a step leaves of the sum over the records.                         *)
LEMMA TakenBackStays ==
    ASSUME IInv, AllSized, NEW s,
           \/ UNCHANGED ledger
           \/ \E e \in Entry : e.undone = 0 /\ ledger' = Append(ledger, e)
           \/ \E d \in DOMAIN ledger : ledger' = [ledger EXCEPT ![d] = Marked(@)]
    PROVE  TakenBack(s)' = TakenBack(s) /\ TakenBack(s) \in Int
  <1>1. TakenBack(s) = TakenBackIn(s, ledger) /\ TakenBack(s)' = TakenBackIn(s, ledger')
    BY DEF TakenBack, TakenBackIn, TakenBackOn
  <1>2. ledger \in Seq(Entry) /\ \A d \in DOMAIN ledger : Sized(ledger[d])
    BY DEF IInv, TypeOK, AllSized
  <1>3. TakenBackIn(s, ledger) \in Int
    BY <1>2, TakenBackType
  <1>4. ASSUME NEW e \in Entry, e.undone = 0, ledger' = Append(ledger, e)
        PROVE  TakenBackIn(s, ledger') = TakenBackIn(s, ledger)
    BY <1>2, <1>4, TakenBackAppend
  <1>5. ASSUME NEW d \in DOMAIN ledger, ledger' = [ledger EXCEPT ![d] = Marked(@)]
        PROVE  TakenBackIn(s, ledger') = TakenBackIn(s, ledger)
    <2>1. PICK e : e = Marked(ledger[d])
      OBVIOUS
    <2>2. Sized(ledger[d]) /\ ledger[d] \in Entry
      BY <1>2 DEF Sized
    <2>3. Sized(e) /\ TakenBackOn(s, e) = TakenBackOn(s, ledger[d])
      BY <2>1, <2>2 DEF Marked, Sized, Entry, TakenBackOn
    <2>4. ledger' = [ledger EXCEPT ![d] = e]
      BY <1>5, <2>1
    <2>5. /\ TakenBackIn(s, ledger') = TakenBackIn(s, ledger) - TakenBackOn(s, ledger[d]) + TakenBackOn(s, e)
          /\ TakenBackOn(s, ledger[d]) \in Nat
      <3>1. Replaces(ledger, d, e, ledger')
        BY <1>2, <2>3, <2>4 DEF Replaces, SizedLedger
      <3>. QED  BY ONLY <3>1, TakenBackReplace
    <2>. QED  BY <1>3, <2>3, <2>5
  <1>. QED  BY <1>1, <1>3, <1>4, <1>5

(* Giving an inbound back moves its quantity from the stock to the sum.    *)
LEMMA TakenBackUndone ==
    ASSUME IInv, ReversalKnows, AllSized, NEW w \in Workers, pc[w] = "revApply",
           ledger' = [ledger EXCEPT ![req[w].doc].undone = @ + 1], NEW s
    PROVE  /\ TakenBack(s) \in Int
           /\ UndoQty(ledger[req[w].doc]) \in Int
           /\ s # req[w].slot => TakenBack(s)' = TakenBack(s)
           /\ s = req[w].slot
                => TakenBack(s)' + UndoQty(ledger[req[w].doc]) >= TakenBack(s)
  <1>. DEFINE d == req[w].doc
              e == [ledger[d] EXCEPT !.undone = @ + 1]
  <1>1. TakenBack(s) = TakenBackIn(s, ledger) /\ TakenBack(s)' = TakenBackIn(s, ledger')
    BY DEF TakenBack, TakenBackIn, TakenBackOn
  <1>2. ledger \in Seq(Entry) /\ \A i \in DOMAIN ledger : Sized(ledger[i])
    BY DEF IInv, TypeOK, AllSized
  <1>3. TakenBackIn(s, ledger) \in Int
    BY <1>2, TakenBackType
  <1>4. /\ d \in DOMAIN ledger /\ Sized(ledger[d]) /\ ledger[d] \in Entry
        /\ ledger[d].undone = 0 /\ ledger[d].slot = req[w].slot
        /\ ledger[d].kind \in {"inbound", "outbound"}
        /\ ledger[d].qty \in Nat
    BY <1>2 DEF IInv, DocsValid, ReversedOnce, ReversalKnows, Sized
  <1>5. /\ Sized(e) /\ e.kind = ledger[d].kind /\ e.slot = ledger[d].slot
        /\ e.qty = ledger[d].qty /\ e.undone = 1
    BY <1>4 DEF Sized, Entry
  <1>6. ledger' = [ledger EXCEPT ![d] = e]
    OBVIOUS
  <1>7. /\ TakenBackOn(s, ledger[d]) = 0
        /\ s # req[w].slot => TakenBackOn(s, e) = 0
        /\ s = req[w].slot => TakenBackOn(s, e) + UndoQty(ledger[d]) >= 0
        /\ UndoQty(ledger[d]) \in Int /\ TakenBackOn(s, e) \in Int
    <2>. HIDE DEF d, e
    <2>. QED  BY <1>4, <1>5 DEF TakenBackOn, UndoQty
  <1>8. TakenBackIn(s, ledger') = TakenBackIn(s, ledger) - TakenBackOn(s, ledger[d]) + TakenBackOn(s, e)
    <2>. HIDE DEF d, e
    <2>1. Replaces(ledger, d, e, ledger')
      BY <1>2, <1>4, <1>5, <1>6 DEF Replaces, SizedLedger
    <2>. QED  BY ONLY <2>1, TakenBackReplace
  <1>9. UndoQty(ledger[req[w].doc]) = UndoQty(ledger[d])
    OBVIOUS
  <1>. HIDE DEF d, e
  <1>. QED  BY <1>1, <1>3, <1>7, <1>8, <1>9

(* What a step of worker w does to the room slot s leaves: it takes no     *)
(* more than w was about to take, or w has just found there what it will   *)
(* take.                                                                   *)
Yields(w, s) ==
    \/ stock'[s] + TakenBack(s)' - Withdrawal(pc'[w], req'[w], s)
           >= stock[s] + TakenBack(s) - Withdrawal(pc[w], req[w], s)
    \/ stock'[s] >= Withdrawal(pc'[w], req'[w], s)

LEMMA YieldsRoom ==
    ASSUME IInv, IInv', AllSized, AllSized', NEW w \in Workers, Moves(w),
           NEW m \in Int, Largest(m), Room(m), \A s \in Slots : Yields(w, s)
    PROVE  Room(m)'
  <1>1. ASSUME NEW s \in Slots PROVE stock'[s] + TakenBack(s)' - Awaited(s)' + m >= 0
    BY <1>1, RoomMoves, RoomFound DEF Yields
  <1>. QED  BY <1>1 DEF Room

(* The withdrawals of a worker before and after its step.                  *)
LEMMA WithdrawalMoves ==
    ASSUME IInv, IInv', AllSized, AllSized', NEW w \in Workers, NEW s \in Slots
    PROVE  /\ stock[s] \in Int /\ stock'[s] \in Int
           /\ Withdrawal(pc[w], req[w], s) \in Int /\ Withdrawal(pc[w], req[w], s) >= 0
           /\ Withdrawal(pc'[w], req'[w], s) \in Int /\ Withdrawal(pc'[w], req'[w], s) >= 0
           /\ pc[w] \notin {"outApply", "adjApply"} => Withdrawal(pc[w], req[w], s) = 0
           /\ pc'[w] \notin {"outApply", "adjApply"} => Withdrawal(pc'[w], req'[w], s) = 0
  <1>1. /\ req[w] \in Request /\ req'[w] \in Request
        /\ Asks(pc[w], req[w]) /\ Asks(pc'[w], req'[w])
        /\ stock[s] \in Int /\ stock'[s] \in Int
    BY DEF IInv, TypeOK, AllSized
  <1>. QED  BY <1>1, WithdrawalType

(* A step that adds no undone record and takes out nothing but what w was  *)
(* about to take.                                                          *)
LEMMA TakingYields ==
    ASSUME IInv, IInv', AllSized, AllSized', NEW w \in Workers, NEW s \in Slots,
           pc'[w] \notin {"outApply", "adjApply"},
           stock'[s] >= stock[s] - Withdrawal(pc[w], req[w], s),
           TakenBack(s)' = TakenBack(s), TakenBack(s) \in Int
    PROVE  Yields(w, s)
  BY WithdrawalMoves DEF Yields

LEMMA BeginYields ==
    ASSUME IInv, IInv', AllSized, AllSized', "forceAdjust" \notin Ops,
           NEW w \in Workers, Begin(w), NEW s \in Slots
    PROVE  Yields(w, s)
  <1>0. pc[w] = "idle" /\ stock' = stock
    BY DEF Begin, InboundInsert, OutboundCheck, AdjustCheck, AdjustForce, ReverseRead, Start
  <1>1. stock'[s] = stock[s] /\ stock[s] \in Int /\ Withdrawal(pc[w], req[w], s) = 0
    BY <1>0, WithdrawalMoves
  <1>2. ASSUME NEW x \in Slots, NEW q \in Qtys, InboundInsert(w, x, q) PROVE Yields(w, s)
    <2>1. PICK e \in Entry : e = NewEntry("inbound", x, q) /\ e.undone = 0
      BY NewEntryType, QtysInt
    <2>2. ledger' = Append(ledger, e) /\ pc'[w] = "inApply"
      BY <1>2, <2>1 DEF InboundInsert, Start, IInv, TypeOK
    <2>3. TakenBack(s)' = TakenBack(s) /\ TakenBack(s) \in Int
      BY <2>1, <2>2, TakenBackStays
    <2>. QED  BY <1>1, <2>2, <2>3, TakingYields
  <1>3. ASSUME NEW d \in DOMAIN ledger, ReverseRead(w, d) PROVE Yields(w, s)
    <2>1. ledger' = ledger /\ pc'[w] = "revMark"
      BY <1>3 DEF ReverseRead, Start, IInv, TypeOK
    <2>2. TakenBack(s)' = TakenBack(s) /\ TakenBack(s) \in Int
      BY <2>1, TakenBackStays
    <2>. QED  BY <1>1, <2>1, <2>2, TakingYields
  <1>4. ASSUME NEW x \in Slots, NEW q \in Qtys, OutboundCheck(w, x, q) PROVE Yields(w, s)
    <2>1. /\ ledger' = ledger /\ pc'[w] = "outApply" /\ stock[x] >= q
          /\ req'[w].slot = x /\ req'[w].qty = q
      BY <1>4 DEF OutboundCheck, Enough, Start, IInv, TypeOK
    <2>2. TakenBack(s)' = TakenBack(s) /\ TakenBack(s) \in Int
      BY <2>1, TakenBackStays
    <2>3. Withdrawal(pc'[w], req'[w], s) = IF s = x THEN q ELSE 0
      BY <2>1 DEF Withdrawal
    <2>4. CASE s = x
      BY <1>1, <2>1, <2>3, <2>4 DEF Yields
    <2>5. CASE s # x
      BY <1>1, <2>2, <2>3, <2>5 DEF Yields
    <2>. QED  BY <2>4, <2>5
  <1>5. ASSUME NEW x \in Slots, NEW d \in Int, AdjustCheck(w, x, d) PROVE Yields(w, s)
    <2>1. /\ ledger' = ledger /\ pc'[w] = "adjApply" /\ (d < 0 => stock[x] >= -d)
          /\ req'[w].slot = x /\ req'[w].qty = d
      BY <1>5 DEF AdjustCheck, Enough, Start, IInv, TypeOK
    <2>2. TakenBack(s)' = TakenBack(s) /\ TakenBack(s) \in Int
      BY <2>1, TakenBackStays
    <2>3. Withdrawal(pc'[w], req'[w], s) = IF s = x /\ -d \in Qtys THEN -d ELSE 0
      BY <2>1 DEF Withdrawal
    <2>4. CASE s = x /\ -d \in Qtys
      <3>1. d < 0
        BY <2>4, QtysInt
      <3>. QED  BY <1>1, <2>1, <2>3, <2>4, <3>1 DEF Yields
    <2>5. CASE ~(s = x /\ -d \in Qtys)
      BY <1>1, <2>2, <2>3, <2>5 DEF Yields
    <2>. QED  BY <2>4, <2>5
  <1>6. ASSUME NEW x \in Slots, NEW d, AdjustForce(w, x, d) PROVE FALSE
    BY <1>6 DEF AdjustForce
  <1>. QED  BY <1>2, <1>3, <1>4, <1>5, <1>6, QtysInt DEF Begin

LEMMA ContinueYields ==
    ASSUME IInv, IInv', ReversalKnows, AllSized, AllSized',
           NEW w \in Workers, Continue(w) \/ Abandon(w), NEW s \in Slots
    PROVE  Yields(w, s)
  <1>0. /\ stock[s] \in Int /\ stock'[s] \in Int /\ stock \in [Slots -> Int]
        /\ Withdrawal(pc[w], req[w], s) \in Int /\ Withdrawal(pc[w], req[w], s) >= 0
        /\ req[w].slot \in Slots /\ req[w].qty \in Int
        /\ Asks(pc[w], req[w])
    BY WithdrawalMoves DEF IInv, TypeOK, Request, AllSized
  <1>1. ASSUME NEW x \in Slots, NEW d \in Int, Upsert(x, d)
        PROVE  stock'[s] = stock[s] + (IF s = x THEN d ELSE 0)
    BY <1>0, <1>1 DEF Upsert
  <1>2. ASSUME GiveUp(w) PROVE Yields(w, s)
    <2>1. stock' = stock /\ ledger' = ledger /\ pc'[w] = "idle"
      BY <1>2 DEF GiveUp, Finish, IInv, TypeOK
    <2>2. TakenBack(s)' = TakenBack(s) /\ TakenBack(s) \in Int
      BY <2>1, TakenBackStays
    <2>. QED  BY <1>0, <2>1, <2>2, TakingYields
  <1>3. CASE InboundApply(w)
    <2>1. CASE Upsert(req[w].slot, req[w].qty) /\ Finish(w) /\ UNCHANGED <<ledger, drift>>
      <3>1. ledger' = ledger /\ pc'[w] = "idle" /\ req[w].qty \in Qtys
        BY <1>0, <1>3, <2>1 DEF InboundApply, Finish, IInv, TypeOK, Asks
      <3>2. TakenBack(s)' = TakenBack(s) /\ TakenBack(s) \in Int
        BY <3>1, TakenBackStays
      <3>3. stock'[s] >= stock[s]
        BY <1>0, <1>1, <2>1, <3>1, QtysInt
      <3>4. stock'[s] >= stock[s] - Withdrawal(pc[w], req[w], s)
        BY <1>0, <3>3
      <3>. QED  BY <3>1, <3>2, <3>4, TakingYields
    <2>. QED  BY <1>2, <1>3, <2>1 DEF InboundApply
  <1>4. CASE OutboundApply(w)
    <2>1. /\ ledger' = ledger /\ pc'[w] = "outInsert" /\ pc[w] = "outApply"
          /\ Upsert(req[w].slot, -req[w].qty)
      BY <1>4 DEF OutboundApply, Goto, IInv, TypeOK
    <2>2. TakenBack(s)' = TakenBack(s) /\ TakenBack(s) \in Int
      BY <2>1, TakenBackStays
    <2>3. stock'[s] = stock[s] + (IF s = req[w].slot THEN -req[w].qty ELSE 0)
      BY <1>0, <1>1, <2>1
    <2>4. Withdrawal(pc[w], req[w], s) = IF s = req[w].slot THEN req[w].qty ELSE 0
      BY <2>1 DEF Withdrawal
    <2>5. stock'[s] >= stock[s] - Withdrawal(pc[w], req[w], s)
      BY <1>0, <2>3, <2>4
    <2>. QED  BY <2>1, <2>2, <2>5, TakingYields
  <1>5. CASE AdjustApply(w)
    <2>1. CASE Upsert(req[w].slot, req[w].qty) /\ Goto(w, "adjInsert") /\ UNCHANGED <<ledger, drift>>
      <3>1. /\ ledger' = ledger /\ pc'[w] = "adjInsert" /\ pc[w] = "adjApply"
            /\ (req[w].qty \in Qtys \/ -req[w].qty \in Qtys)
        BY <1>0, <1>5, <2>1 DEF AdjustApply, Goto, IInv, TypeOK, Asks
      <3>2. TakenBack(s)' = TakenBack(s) /\ TakenBack(s) \in Int
        BY <3>1, TakenBackStays
      <3>3. stock'[s] = stock[s] + (IF s = req[w].slot THEN req[w].qty ELSE 0)
        BY <1>0, <1>1, <2>1
      <3>4. stock'[s] >= stock[s] - Withdrawal(pc[w], req[w], s)
        <4>1. CASE s = req[w].slot /\ -req[w].qty \in Qtys
          <5>1. Withdrawal(pc[w], req[w], s) = -req[w].qty
            BY <3>1, <4>1 DEF Withdrawal
          <5>. QED  BY <1>0, <3>3, <4>1, <5>1
        <4>2. CASE s = req[w].slot /\ req[w].qty \in Qtys
          <5>1. req[w].qty > 0
            BY <4>2, QtysInt
          <5>. QED  BY <1>0, <3>3, <4>2, <5>1
        <4>3. CASE s # req[w].slot
          BY <1>0, <3>3, <4>3
        <4>. QED  BY <3>1, <4>1, <4>2, <4>3
      <3>. QED  BY <3>1, <3>2, <3>4, TakingYields
    <2>. QED  BY <1>2, <1>5, <2>1 DEF AdjustApply
  <1>6. CASE OutboundInsert(w) \/ AdjustInsert(w)
    <2>1. PICK k \in {"outbound", "adjustment"} :
              ledger' = Append(ledger, NewEntry(k, req[w].slot, req[w].qty))
      BY <1>6 DEF OutboundInsert, AdjustInsert
    <2>2. PICK e \in Entry : e = NewEntry(k, req[w].slot, req[w].qty) /\ e.undone = 0
      BY <1>0, NewEntryType
    <2>3. stock' = stock /\ pc'[w] = "idle"
      BY <1>6 DEF OutboundInsert, AdjustInsert, Finish, IInv, TypeOK
    <2>4. TakenBack(s)' = TakenBack(s) /\ TakenBack(s) \in Int
      BY <2>1, <2>2, TakenBackStays
    <2>5. stock'[s] >= stock[s] - Withdrawal(pc[w], req[w], s)
      BY <1>0, <2>3
    <2>. QED  BY <2>3, <2>4, <2>5, TakingYields
  <1>7. CASE ReverseMark(w)
    <2>1. stock' = stock /\ pc'[w] \in {"idle", "revApply"} /\ req[w].doc \in DOMAIN ledger
      BY <1>7 DEF ReverseMark, Goto, Finish, IInv, TypeOK, DocsValid
    <2>2. \/ UNCHANGED ledger
          \/ \E d \in DOMAIN ledger : ledger' = [ledger EXCEPT ![d] = Marked(@)]
      BY <1>7, <2>1 DEF ReverseMark
    <2>3. TakenBack(s)' = TakenBack(s) /\ TakenBack(s) \in Int
      BY <2>2, TakenBackStays
    <2>4. stock'[s] >= stock[s] - Withdrawal(pc[w], req[w], s)
      BY <1>0, <2>1
    <2>. QED  BY <2>1, <2>3, <2>4, TakingYields
  <1>8. CASE ReverseApply(w)
    <2>1. CASE /\ Upsert(req[w].slot, UndoQty(ledger[req[w].doc]))
               /\ ledger' = [ledger EXCEPT ![req[w].doc].undone = @ + 1]
               /\ Finish(w)
      <3>1. pc[w] = "revApply" /\ pc'[w] = "idle"
        BY <1>8, <2>1 DEF ReverseApply, Finish, IInv, TypeOK
      <3>2. PICK u : u = UndoQty(ledger[req[w].doc])
        OBVIOUS
      <3>3. /\ TakenBack(s) \in Int /\ u \in Int
            /\ s # req[w].slot => TakenBack(s)' = TakenBack(s)
            /\ s = req[w].slot => TakenBack(s)' + u >= TakenBack(s)
        BY <2>1, <3>1, <3>2, TakenBackUndone
      <3>4. stock'[s] = stock[s] + (IF s = req[w].slot THEN u ELSE 0)
        BY <1>0, <1>1, <2>1, <3>2, <3>3
      <3>5. TakenBack(s)' \in Int
        BY TakenBackInts
      <3>6. /\ Withdrawal(pc[w], req[w], s) = 0
            /\ Withdrawal(pc'[w], req'[w], s) = 0
        BY <3>1, WithdrawalMoves
      <3>. QED  BY <1>0, <3>3, <3>4, <3>5, <3>6 DEF Yields
    <2>. QED  BY <1>2, <1>8, <2>1 DEF ReverseApply
  <1>9. CASE Abandon(w)
    BY <1>2, <1>9 DEF Abandon
  <1>. QED  BY <1>3, <1>4, <1>5, <1>6, <1>7, <1>8, <1>9 DEF Continue

RoomInv == AllSized /\ \A m \in Int : Largest(m) => Room(m)

LEMMA InitRoomInv == Init => RoomInv
  <1>. SUFFICES ASSUME Init PROVE RoomInv
    OBVIOUS
  <1>1. TypeOK /\ AllSized
    BY InitIInv, InitAllSized DEF IInv
  <1>2. ASSUME NEW m \in Int, Largest(m) PROVE m >= 0
    <2>1. PICK k \in Qtys : m = (Cardinality(Workers) - 1) * k
      BY <1>2 DEF Largest
    <2>2. k \in Nat
      BY QtysInt
    <2>3. Cardinality(Workers) \in Nat /\ Cardinality(Workers) # 0
      BY LedgerAssumption, FS_CardinalityType, FS_EmptySet
    <2>. QED  BY <2>1, <2>2, <2>3
  <1>3. ASSUME NEW s \in Slots PROVE stock[s] = 0 /\ TakenBack(s) = 0 /\ Awaited(s) = 0
    <2>1. TakenBack(s) = 0
      BY SumFunctionEmpty, EmptySeq DEF Init, TakenBack
    <2>2. \A w \in Workers : Withdrawal(pc[w], req[w], s) = 0
      BY DEF Init, Withdrawal
    <2>3. Awaited(s) = 0
      BY <2>2, SumFunctionZero, LedgerAssumption DEF Awaited
    <2>. QED  BY <2>1, <2>3 DEF Init
  <1>4. ASSUME NEW m \in Int, Largest(m) PROVE Room(m)
    BY <1>2, <1>3, <1>4 DEF Room
  <1>. QED  BY <1>1, <1>4 DEF RoomInv

LEMMA RoomStays ==
    ASSUME NEW m \in Int, Room(m), UNCHANGED vars
    PROVE  Room(m)'
  <1>1. \A s \in Slots : TakenBack(s)' = TakenBack(s) /\ Awaited(s)' = Awaited(s)
    BY DEF vars, TakenBack, TakenBackOn, Awaited
  <1>. QED  BY <1>1 DEF Room, vars

LEMMA StepRoomInv ==
    ASSUME "forceAdjust" \notin Ops
    PROVE  BInv /\ RoomInv /\ [Next]_vars => RoomInv'
  <1>. SUFFICES ASSUME BInv, RoomInv, [Next]_vars PROVE RoomInv'
    OBVIOUS
  <1>1. IInv /\ ReversalKnows /\ AllSized /\ IInv'
    BY StepIInv DEF BInv, RoomInv
  <1>2. AllSized'
    BY <1>1, StepAllSized
  <1>3. ASSUME NEW m \in Int, Largest(m) PROVE Room(m)'
    <2>1. Room(m)
      BY <1>3 DEF RoomInv
    <2>2. ASSUME NEW w \in Workers, Begin(w) \/ Continue(w) \/ Abandon(w) PROVE Room(m)'
      <3>1. Moves(w)
        BY <1>1, <2>2, OneWorkerMoves
      <3>2. \A s \in Slots : Yields(w, s)
        BY <1>1, <1>2, <2>2, BeginYields, ContinueYields
      <3>. QED  BY <1>1, <1>2, <1>3, <2>1, <3>1, <3>2, YieldsRoom
    <2>. QED  BY <2>1, <2>2, RoomStays DEF Next, Drained
  <1>4. \A m \in Int : Largest(m)' <=> Largest(m)
    BY DEF Largest
  <1>. QED  BY <1>2, <1>3, <1>4 DEF RoomInv

(* Unless an adjustment is forced, the requests under way overdraw a slot  *)
(* by no more than what all of them but one may ask for, however they      *)
(* interleave, wherever they are abandoned and whichever upserts the index *)
(* rejects.  Only a reversed inbound, which looks at no stock, takes out   *)
(* more.  One worker and no reversed inbound: no slot is ever negative.    *)
THEOREM OverdraftIsBounded ==
    ASSUME "forceAdjust" \notin Ops
    PROVE  Spec => []OverdraftBounded
  <1>1. BInv /\ RoomInv => OverdraftBounded
    <2>. SUFFICES ASSUME BInv, RoomInv, NEW s \in Slots, NEW q \in Qtys, \A r \in Qtys : r <= q
                  PROVE  stock[s] + TakenBack(s) + (Cardinality(Workers) - 1) * q >= 0
      BY DEF OverdraftBounded
    <2>1. PICK m \in Int : m = (Cardinality(Workers) - 1) * q
      BY QtysInt, LedgerAssumption, FS_CardinalityType
    <2>2. Largest(m)
      BY <2>1 DEF Largest
    <2>3. stock[s] + TakenBack(s) - Awaited(s) + m >= 0
      BY <2>2 DEF RoomInv, Room
    <2>4. Awaited(s) \in Int /\ Awaited(s) >= 0 /\ stock[s] \in Int
      BY AwaitedType DEF BInv, RoomInv, IInv, TypeOK
    <2>5. TakenBack(s) \in Int
      BY TakenBackInt DEF BInv, RoomInv
    <2>. QED  BY <2>1, <2>3, <2>4, <2>5
  <1>. QED  BY <1>1, InitBInv, StepBInv, InitRoomInv, StepRoomInv, PTL DEF Spec

=============================================================================

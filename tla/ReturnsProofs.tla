--------------------------- MODULE ReturnsProofs ---------------------------
(***************************************************************************)
(* For every set of workers, orders, products and quantities and every     *)
(* bound: the documents keep their types and two returns never share an    *)
(* RMA number; a closed return is never written again and gets no more     *)
(* late items than there are workers; every item has the effect of its     *)
(* disposition once; and concurrent requests return no more than the       *)
(* shipped quantity and one request for each of the other workers.         *)
(***************************************************************************)
EXTENDS Returns, Collections

(* A request that adds an item stands at a return that exists.             *)
LocsValid ==
    \A w \in Workers : pc[w] \in {"openReturns", "sum", "insertItem", "effect"} =>
        loc[w].ret \in DOMAIN returns /\ loc[w].qty # 0

(* The counter is ahead of every number in use, and a number that waits to *)
(* be inserted is used neither by a return nor by another request.         *)
Waiting(w) == pc[w] = "insertReturn"

NumbersTaken ==
    /\ \A r \in DOMAIN returns : returns[r].no <= seq
    /\ \A w \in Workers : Waiting(w) =>
          /\ loc[w].no \in 1..seq
          /\ \A r \in DOMAIN returns : returns[r].no # loc[w].no
    /\ \A v, w \in Workers : Waiting(v) /\ Waiting(w) /\ loc[v].no = loc[w].no => v = w
    /\ \A r1, r2 \in DOMAIN returns : returns[r1].no = returns[r2].no => r1 = r2

IInv == TypeOK /\ LocsValid /\ NumbersTaken

-----------------------------------------------------------------------------
(* Requests that move.                                                     *)

LEMMA NoLocalsType == NoLocals \in Locals
  <1>1. (CHOOSE o \in Orders : TRUE) \in Orders
    BY ReturnsAssumption
  <1>2. (CHOOSE p \in Products : TRUE) \in Products
    BY ReturnsAssumption
  <1>. QED  BY <1>1, <1>2 DEF NoLocals, Locals, AllDispositions

(* Where a request goes, and what it knows there, is typed.                *)
LEMMA GotoType ==
    ASSUME TypeOK, NEW w \in Workers, NEW label \in Labels, NEW l \in Locals,
           Goto(w, label, l)
    PROVE  /\ pc' \in [Workers -> Labels]
           /\ loc' \in [Workers -> Locals]
           /\ pc'[w] = label
           /\ label # "idle" => loc'[w] = l
           /\ \A v \in Workers : v # w => pc'[v] = pc[v] /\ loc'[v] = loc[v]
  BY NoLocalsType DEF TypeOK, Goto

-----------------------------------------------------------------------------
(* A step that moves one worker, not to a number that waits, and writes    *)
(* neither a return nor an item nor the counter.                           *)
LEMMA QuietStep ==
    ASSUME IInv, NEW w \in Workers, NEW label \in Labels, NEW l \in Locals,
           Goto(w, label, l),
           label # "insertReturn",
           label \in {"openReturns", "sum", "insertItem", "effect"} =>
               l.ret \in DOMAIN returns /\ l.qty # 0,
           UNCHANGED <<seq, returns>>
    PROVE  LocsValid' /\ NumbersTaken' /\ pc' \in [Workers -> Labels] /\ loc' \in [Workers -> Locals]
  <1>1. /\ pc' \in [Workers -> Labels]
        /\ loc' \in [Workers -> Locals]
        /\ pc'[w] = label
        /\ label # "idle" => loc'[w] = l
        /\ \A v \in Workers : v # w => pc'[v] = pc[v] /\ loc'[v] = loc[v]
    BY GotoType DEF IInv
  <1>2. LocsValid'
    BY <1>1 DEF IInv, LocsValid
  <1>3. \A v \in Workers : Waiting(v)' => Waiting(v) /\ loc'[v] = loc[v]
    BY <1>1 DEF Waiting
  <1>4. NumbersTaken'
    BY <1>3 DEF IInv, NumbersTaken
  <1>. QED  BY <1>1, <1>2, <1>4

LEMMA InitIInv == Init => IInv
  <1>. SUFFICES ASSUME Init PROVE IInv
    OBVIOUS
  <1>1. TypeOK
    BY NoLocalsType, EmptySeq DEF Init, TypeOK, Labels
  <1>2. LocsValid /\ NumbersTaken
    BY EmptySeq DEF Init, LocsValid, NumbersTaken, Waiting
  <1>. QED  BY <1>1, <1>2 DEF IInv

LEMMA ShipStep ==
    ASSUME IInv, NEW o \in Orders, ShipOrder(o)
    PROVE  IInv'
  <1>1. TypeOK'
    BY DEF IInv, TypeOK, ShipOrder
  <1>2. LocsValid' /\ NumbersTaken'
    BY DEF IInv, LocsValid, NumbersTaken, Waiting, ShipOrder
  <1>. QED  BY <1>1, <1>2 DEF IInv

LEMMA CreateReadStep ==
    ASSUME IInv, NEW w \in Workers, NEW o \in Orders, CreateRead(w, o)
    PROVE  IInv'
  <1>1. [NoLocals EXCEPT !.order = o] \in Locals
    BY NoLocalsType DEF Locals
  <1>2. LocsValid' /\ NumbersTaken' /\ pc' \in [Workers -> Labels] /\ loc' \in [Workers -> Locals]
    BY <1>1, QuietStep DEF CreateRead, Labels
  <1>. QED  BY <1>2 DEF IInv, TypeOK, CreateRead

(* The number handed out is larger than every other one.                   *)
LEMMA CreateNumberStep ==
    ASSUME IInv, NEW w \in Workers, CreateNumber(w)
    PROVE  IInv'
  <1>0. seq' = seq + 1 /\ seq \in Nat /\ loc[w] \in Locals
    BY DEF IInv, TypeOK, CreateNumber, NextSeq
  <1>1. [loc[w] EXCEPT !.no = seq'] \in Locals /\ [loc[w] EXCEPT !.no = seq'].no = seq + 1
    BY <1>0 DEF Locals
  <1>2. /\ pc' \in [Workers -> Labels]
        /\ loc' \in [Workers -> Locals]
        /\ pc'[w] = "insertReturn"
        /\ loc'[w].no = seq + 1
        /\ \A v \in Workers : v # w => pc'[v] = pc[v] /\ loc'[v] = loc[v]
    BY <1>1, GotoType DEF IInv, CreateNumber, Labels
  <1>3. TypeOK'
    BY <1>0, <1>2 DEF IInv, TypeOK, CreateNumber
  <1>4. LocsValid'
    BY <1>2 DEF IInv, LocsValid, CreateNumber
  <1>5. \A r \in DOMAIN returns : returns[r].no \in Nat /\ returns[r].no <= seq
    <2>1. \A r \in DOMAIN returns : returns[r] \in Return
      BY DocumentAt DEF IInv, TypeOK
    <2>. QED  BY <2>1 DEF IInv, NumbersTaken, Return
  <1>6. \A v \in Workers : v # w /\ Waiting(v)' => Waiting(v) /\ loc'[v] = loc[v] /\ loc[v].no \in 1..seq
    BY <1>2 DEF IInv, NumbersTaken, Waiting
  <1>7. returns' = returns
    BY DEF CreateNumber
  <1>8. NumbersTaken'
    <2>1. \A r \in DOMAIN returns' : returns'[r].no <= seq'
      BY <1>0, <1>5, <1>7
    <2>2. \A v \in Workers : Waiting(v)' => loc'[v].no \in 1..seq'
                                /\ \A r \in DOMAIN returns' : returns'[r].no # loc'[v].no
      <3>. SUFFICES ASSUME NEW v \in Workers, Waiting(v)'
                    PROVE  loc'[v].no \in 1..seq' /\ \A r \in DOMAIN returns' : returns'[r].no # loc'[v].no
        OBVIOUS
      <3>1. CASE v = w
        BY <1>0, <1>2, <1>5, <1>7, <3>1
      <3>2. CASE v # w
        BY <1>0, <1>6, <1>7, <3>2 DEF IInv, NumbersTaken
      <3>. QED  BY <3>1, <3>2
    <2>3. \A u, v \in Workers : Waiting(u)' /\ Waiting(v)' /\ loc'[u].no = loc'[v].no => u = v
      BY <1>0, <1>2, <1>6 DEF IInv, NumbersTaken
    <2>4. \A r1, r2 \in DOMAIN returns' : returns'[r1].no = returns'[r2].no => r1 = r2
      BY <1>7 DEF IInv, NumbersTaken
    <2>. QED  BY <2>1, <2>2, <2>3, <2>4 DEF NumbersTaken, Waiting
  <1>. QED  BY <1>3, <1>4, <1>8 DEF IInv

LEMMA CreateInsertStep ==
    ASSUME IInv, NEW w \in Workers, CreateInsert(w)
    PROVE  IInv'
  <1>. DEFINE new == NewReturn(loc[w].order, loc[w].no)
              last == Len(returns) + 1
  <1>1. /\ pc[w] = "insertReturn"
        /\ returns' = Append(returns, new)
        /\ seq' = seq
    BY DEF CreateInsert
  <1>2. loc[w] \in Locals /\ loc[w].no \in 1..seq /\ seq \in Nat
    BY <1>1 DEF IInv, TypeOK, NumbersTaken, Waiting
  <1>3. new \in Return /\ new.no = loc[w].no
    BY <1>2 DEF NewReturn, Return, Locals, ReturnStatuses
  <1>4. /\ returns' \in Seq(Return)
        /\ DOMAIN returns' = 1..last
        /\ DOMAIN returns = 1..Len(returns)
        /\ Len(returns) \in Nat
        /\ \A d \in DOMAIN returns : returns'[d] = returns[d]
        /\ returns'[last] = new
    BY <1>1, <1>3, AppendDocument DEF IInv, TypeOK
  <1>5. /\ pc' \in [Workers -> Labels]
        /\ loc' \in [Workers -> Locals]
        /\ pc'[w] = "idle"
        /\ \A v \in Workers : v # w => pc'[v] = pc[v] /\ loc'[v] = loc[v]
    BY NoLocalsType, GotoType DEF IInv, CreateInsert, Finish, Labels
  <1>6. TypeOK'
    BY <1>4, <1>5 DEF IInv, TypeOK, CreateInsert
  <1>7. LocsValid'
    BY <1>4, <1>5 DEF IInv, LocsValid
  <1>8. \A r \in DOMAIN returns' : r \in DOMAIN returns \/ r = last
    BY <1>4
  <1>9. \A v \in Workers : Waiting(v)' => v # w /\ Waiting(v) /\ loc'[v] = loc[v] /\ loc[v].no # loc[w].no
    BY <1>1, <1>5 DEF IInv, NumbersTaken, Waiting
  <1>10. NumbersTaken'
    <2>1. \A r \in DOMAIN returns' : returns'[r].no <= seq'
      BY <1>1, <1>2, <1>3, <1>4, <1>8 DEF IInv, NumbersTaken
    <2>2. \A v \in Workers : Waiting(v)' => loc'[v].no \in 1..seq'
                                /\ \A r \in DOMAIN returns' : returns'[r].no # loc'[v].no
      BY <1>1, <1>3, <1>4, <1>8, <1>9 DEF IInv, NumbersTaken
    <2>3. \A u, v \in Workers : Waiting(u)' /\ Waiting(v)' /\ loc'[u].no = loc'[v].no => u = v
      BY <1>9 DEF IInv, NumbersTaken
    <2>4. \A r \in DOMAIN returns : returns'[r].no # returns'[last].no
      BY <1>1, <1>3, <1>4 DEF IInv, NumbersTaken, Waiting
    <2>5. \A r1, r2 \in DOMAIN returns' : returns'[r1].no = returns'[r2].no => r1 = r2
      BY <1>4, <1>8, <2>4 DEF IInv, NumbersTaken
    <2>. QED  BY <2>1, <2>2, <2>3, <2>5 DEF NumbersTaken, Waiting
  <1>. QED  BY <1>6, <1>7, <1>10 DEF IInv

LEMMA AddItemReadStep ==
    ASSUME IInv, NEW w \in Workers, NEW r \in DOMAIN returns, NEW p \in Products,
           NEW q \in Qtys, NEW d \in Dispositions, AddItemRead(w, r, p, q, d)
    PROVE  IInv'
  <1>. DEFINE l == [NoLocals EXCEPT !.order = returns[r].order, !.ret = r,
                                    !.product = p, !.qty = q, !.disp = d]
  <1>1. returns[r] \in Return /\ r \in Nat
    BY DocumentAt, LenProperties DEF IInv, TypeOK
  <1>2. q \in Nat \ {0} /\ d \in AllDispositions
    BY ReturnsAssumption
  <1>3. l \in Locals /\ l.ret = r /\ l.qty = q
    BY <1>1, <1>2, NoLocalsType DEF Locals, Return
  <1>4. LocsValid' /\ NumbersTaken' /\ pc' \in [Workers -> Labels] /\ loc' \in [Workers -> Locals]
    BY <1>2, <1>3, QuietStep DEF AddItemRead, Labels
  <1>. QED  BY <1>4 DEF IInv, TypeOK, AddItemRead

LEMMA AddItemReturnsStep ==
    ASSUME IInv, NEW w \in Workers, AddItemReturns(w)
    PROVE  IInv'
  <1>. DEFINE l == [loc[w] EXCEPT !.ids = LiveReturns(loc[w].order)]
  <1>1. loc[w] \in Locals /\ loc[w].ret \in DOMAIN returns /\ loc[w].qty # 0
    BY DEF IInv, TypeOK, LocsValid, AddItemReturns
  <1>2. LiveReturns(loc[w].order) \in SUBSET Nat
    BY LenProperties DEF IInv, TypeOK, LiveReturns, ReturnsOf
  <1>3. l \in Locals /\ l.ret = loc[w].ret /\ l.qty = loc[w].qty
    BY <1>1, <1>2 DEF Locals
  <1>4. LocsValid' /\ NumbersTaken' /\ pc' \in [Workers -> Labels] /\ loc' \in [Workers -> Locals]
    BY <1>1, <1>3, QuietStep DEF AddItemReturns, Labels
  <1>. QED  BY <1>4 DEF IInv, TypeOK, AddItemReturns

LEMMA AddItemSumStep ==
    ASSUME IInv, NEW w \in Workers, AddItemSum(w)
    PROVE  IInv'
  <1>1. loc[w] \in Locals /\ loc[w].ret \in DOMAIN returns /\ loc[w].qty # 0
    BY DEF IInv, TypeOK, LocsValid, AddItemSum
  <1>2. Goto(w, "idle", NoLocals) \/ Goto(w, "insertItem", loc[w])
    BY DEF AddItemSum, Finish
  <1>3. LocsValid' /\ NumbersTaken' /\ pc' \in [Workers -> Labels] /\ loc' \in [Workers -> Locals]
    BY <1>1, <1>2, NoLocalsType, QuietStep DEF AddItemSum, Labels
  <1>. QED  BY <1>3 DEF IInv, TypeOK, AddItemSum

LEMMA AddItemInsertStep ==
    ASSUME IInv, NEW w \in Workers, AddItemInsert(w)
    PROVE  IInv'
  <1>. DEFINE new == [ret |-> loc[w].ret, product |-> loc[w].product,
                      qty |-> loc[w].qty, disp |-> loc[w].disp,
                      late |-> returns[loc[w].ret].status # "OPEN"]
  <1>1. loc[w] \in Locals /\ loc[w].ret \in DOMAIN returns /\ loc[w].qty # 0
    BY DEF IInv, TypeOK, LocsValid, AddItemInsert
  <1>2. loc[w].ret \in Nat \ {0}
    BY <1>1, LenProperties DEF IInv, TypeOK
  <1>3. new \in ReturnItem /\ new.ret = loc[w].ret
    BY <1>1, <1>2 DEF ReturnItem, Locals
  <1>4. /\ Append(items, new) \in Seq(ReturnItem)
        /\ DOMAIN Append(items, new) = 1..(Len(items) + 1)
        /\ DOMAIN items = 1..Len(items)
        /\ Len(items) \in Nat
        /\ \A i \in DOMAIN items : Append(items, new)[i] = items[i]
        /\ Append(items, new)[Len(items) + 1] = new
    BY <1>3, AppendDocument DEF IInv, TypeOK
  <1>5. items' = Append(items, new)
    BY DEF AddItemInsert
  <1>6. \A i \in DOMAIN items' : items'[i].ret \in DOMAIN returns'
    <2>1. \A i \in DOMAIN items' : i \in DOMAIN items \/ i = Len(items) + 1
      BY <1>4, <1>5
    <2>2. \A i \in DOMAIN items : items'[i].ret \in DOMAIN returns
      BY <1>4, <1>5 DEF IInv, TypeOK
    <2>3. items'[Len(items) + 1].ret \in DOMAIN returns
      BY <1>1, <1>3, <1>4, <1>5
    <2>4. returns' = returns
      BY DEF AddItemInsert
    <2>. QED  BY <2>1, <2>2, <2>3, <2>4
  <1>7. \E label \in {"effect", "idle"} : Goto(w, label, loc[w])
    BY DEF AddItemInsert
  <1>8. LocsValid' /\ NumbersTaken' /\ pc' \in [Workers -> Labels] /\ loc' \in [Workers -> Locals]
    BY <1>1, <1>7, QuietStep DEF AddItemInsert, Labels
  <1>. QED  BY <1>4, <1>5, <1>6, <1>8 DEF IInv, TypeOK, AddItemInsert

LEMMA AddItemEffectStep ==
    ASSUME IInv, NEW w \in Workers, AddItemEffect(w)
    PROVE  IInv'
  <1>1. loc[w].qty \in Nat /\ loc[w].product \in Products
    BY DEF IInv, TypeOK, Locals
  <1>2. restocked' \in [Products -> Nat] /\ held' \in [Products -> Nat]
    <2>1. restocked \in [Products -> Nat] /\ held \in [Products -> Nat]
      BY DEF IInv, TypeOK
    <2>2. CASE restocked' = [restocked EXCEPT ![loc[w].product] = @ + loc[w].qty] /\ held' = held
      BY <1>1, <2>1, <2>2
    <2>3. CASE held' = [held EXCEPT ![loc[w].product] = @ + loc[w].qty] /\ restocked' = restocked
      BY <1>1, <2>1, <2>3
    <2>. QED  BY <2>2, <2>3 DEF AddItemEffect
  <1>3. LocsValid' /\ NumbersTaken' /\ pc' \in [Workers -> Labels] /\ loc' \in [Workers -> Locals]
    BY NoLocalsType, QuietStep DEF AddItemEffect, Finish, Labels
  <1>. QED  BY <1>2, <1>3 DEF IInv, TypeOK, AddItemEffect

(* A status changes: neither a number nor the domain does.                 *)
LEMMA UpdateStatusStep ==
    ASSUME IInv, NEW r \in DOMAIN returns, NEW to \in ReturnStatuses,
           UpdateStatus(r, "OPEN", to)
    PROVE  IInv'
  <1>1. returns[r] \in Return
    BY DocumentAt DEF IInv, TypeOK
  <1>2. [returns[r] EXCEPT !.status = to] \in Return
    BY <1>1 DEF Return
  <1>3. returns' = [returns EXCEPT ![r] = [returns[r] EXCEPT !.status = to]]
    BY DEF UpdateStatus
  <1>4. /\ returns' \in Seq(Return)
        /\ DOMAIN returns' = DOMAIN returns
        /\ \A d \in DOMAIN returns :
              returns'[d] = IF d = r THEN [returns[r] EXCEPT !.status = to] ELSE returns[d]
    BY <1>2, <1>3, ReplaceDocument DEF IInv, TypeOK
  <1>5. \A d \in DOMAIN returns : returns'[d].no = returns[d].no
    BY <1>1, <1>4 DEF Return
  <1>6. TypeOK'
    BY <1>4 DEF IInv, TypeOK, UpdateStatus
  <1>7. LocsValid'
    BY <1>4 DEF IInv, LocsValid, UpdateStatus
  <1>8. seq' = seq /\ pc' = pc /\ loc' = loc
    BY DEF UpdateStatus
  <1>9. NumbersTaken'
    BY <1>4, <1>5, <1>8 DEF IInv, NumbersTaken, Waiting
  <1>. QED  BY <1>6, <1>7, <1>9 DEF IInv

LEMMA AbandonStep ==
    ASSUME IInv, NEW w \in Workers, Abandon(w)
    PROVE  IInv'
  <1>1. loc[w].qty \in Nat /\ loc[w].product \in Products /\ loc[w].disp \in AllDispositions
    BY DEF IInv, TypeOK, Locals
  <1>2. stranded' \in [AllDispositions -> [Products -> Nat]]
    <2>1. stranded \in [AllDispositions -> [Products -> Nat]]
      BY DEF IInv, TypeOK
    <2>2. [stranded[loc[w].disp] EXCEPT ![loc[w].product] = @ + loc[w].qty] \in [Products -> Nat]
      BY <1>1, <2>1
    <2>3. [stranded EXCEPT ![loc[w].disp][loc[w].product] = @ + loc[w].qty]
              \in [AllDispositions -> [Products -> Nat]]
      BY <1>1, <2>1, <2>2
    <2>. QED  BY <2>1, <2>3 DEF Abandon
  <1>3. LocsValid' /\ NumbersTaken' /\ pc' \in [Workers -> Labels] /\ loc' \in [Workers -> Locals]
    BY NoLocalsType, QuietStep DEF Abandon, Finish, Labels
  <1>. QED  BY <1>2, <1>3 DEF IInv, TypeOK, Abandon

LEMMA StepIInv == IInv /\ [Next]_vars => IInv'
  <1>. SUFFICES ASSUME IInv, [Next]_vars PROVE IInv'
    OBVIOUS
  <1>1. ASSUME NEW o \in Orders, ShipOrder(o) PROVE IInv'
    BY <1>1, ShipStep
  <1>2. ASSUME NEW w \in Workers, WorkerStep(w) PROVE IInv'
    BY <1>2, CreateReadStep, CreateNumberStep, CreateInsertStep, AddItemReadStep,
       AddItemReturnsStep, AddItemSumStep, AddItemInsertStep, AddItemEffectStep,
       AbandonStep DEF WorkerStep
  <1>3. ASSUME NEW r \in DOMAIN returns, Receive(r) \/ Cancel(r) PROVE IInv'
    BY <1>3, UpdateStatusStep DEF Receive, Cancel, ReturnStatuses
  <1>4. CASE UNCHANGED vars
    BY <1>4 DEF vars, IInv, TypeOK, LocsValid, NumbersTaken, Waiting
  <1>. QED  BY <1>1, <1>2, <1>3, <1>4 DEF Next

LEMMA Invariance == Spec => []IInv
  BY InitIInv, StepIInv, PTL DEF Spec

(* The documents keep their types and two returns never share an RMA       *)
(* number: $inc hands out every number once, and nobody inserts a number   *)
(* that was not handed out to him.                                         *)
THEOREM NumbersAreUnique == Spec => []ReturnsWellFormed
  <1>1. IInv => ReturnsWellFormed
    BY DEF IInv, NumbersTaken, ReturnsWellFormed
  <1>. QED  BY <1>1, Invariance, PTL

-----------------------------------------------------------------------------
(* What any step does to the collection of returns.                        *)
LEMMA ReturnsStep ==
    ASSUME IInv, [Next]_vars
    PROVE  \/ UNCHANGED returns
           \/ \E e \in Return : returns' = Append(returns, e)
           \/ \E r \in DOMAIN returns, to \in ReturnStatuses :
                 returns[r].status = "OPEN" /\ returns' = [returns EXCEPT ![r].status = to]
  <1>1. ASSUME NEW o \in Orders, ShipOrder(o) PROVE UNCHANGED returns
    BY <1>1 DEF ShipOrder
  <1>2. ASSUME NEW w \in Workers, WorkerStep(w)
        PROVE  UNCHANGED returns \/ \E e \in Return : returns' = Append(returns, e)
    <2>1. ASSUME CreateInsert(w) PROVE \E e \in Return : returns' = Append(returns, e)
      <3>1. loc[w] \in Locals /\ loc[w].no \in 1..seq /\ seq \in Nat
        BY <2>1 DEF IInv, TypeOK, NumbersTaken, Waiting, CreateInsert
      <3>2. NewReturn(loc[w].order, loc[w].no) \in Return
        BY <3>1 DEF NewReturn, Return, Locals, ReturnStatuses
      <3>. QED  BY <2>1, <3>2 DEF CreateInsert
    <2>2. ASSUME ~CreateInsert(w) PROVE UNCHANGED returns
      BY <1>2, <2>2 DEF WorkerStep, CreateRead, CreateNumber, AddItemRead, AddItemReturns,
         AddItemSum, AddItemInsert, AddItemEffect, Abandon
    <2>. QED  BY <2>1, <2>2
  <1>3. ASSUME NEW r \in DOMAIN returns, Receive(r) \/ Cancel(r)
        PROVE  \E to \in ReturnStatuses :
                  returns[r].status = "OPEN" /\ returns' = [returns EXCEPT ![r].status = to]
    BY <1>3 DEF Receive, Cancel, UpdateStatus, CasMatches, ReturnStatuses
  <1>4. CASE UNCHANGED vars
    BY <1>4 DEF vars
  <1>. QED  BY <1>1, <1>2, <1>3, <1>4 DEF Next

LEMMA StepClosedOnce ==
    ASSUME IInv, [Next]_vars, NEW r \in DOMAIN returns
    PROVE  /\ r \in DOMAIN returns'
           /\ returns[r].status # "OPEN" => returns'[r] = returns[r]
           /\ [returns'[r] EXCEPT !.status = "OPEN"] = [returns[r] EXCEPT !.status = "OPEN"]
  <1>0. returns \in Seq(Return) /\ returns[r] \in Return
    BY DocumentAt DEF IInv, TypeOK
  <1>1. CASE UNCHANGED returns
    BY <1>1
  <1>2. ASSUME NEW e \in Return, returns' = Append(returns, e)
        PROVE  r \in DOMAIN returns' /\ returns'[r] = returns[r]
    BY <1>0, <1>2, AppendDocument
  <1>3. ASSUME NEW s \in DOMAIN returns, NEW to \in ReturnStatuses,
               returns[s].status = "OPEN", returns' = [returns EXCEPT ![s].status = to]
        PROVE  /\ r \in DOMAIN returns'
               /\ returns[r].status # "OPEN" => returns'[r] = returns[r]
               /\ [returns'[r] EXCEPT !.status = "OPEN"] = [returns[r] EXCEPT !.status = "OPEN"]
    <2>1. DOMAIN returns' = DOMAIN returns
      BY <1>3
    <2>2. returns'[r] = IF r = s THEN [returns[r] EXCEPT !.status = to] ELSE returns[r]
      BY <1>0, <1>3
    <2>3. [[returns[r] EXCEPT !.status = to] EXCEPT !.status = "OPEN"]
              = [returns[r] EXCEPT !.status = "OPEN"]
      BY <1>0 DEF Return
    <2>. QED  BY <1>3, <2>1, <2>2, <2>3
  <1>. QED  BY <1>1, <1>2, <1>3, ReturnsStep

(* A return that was received or cancelled is never written again, and its *)
(* number and order never change, whoever else is at work: the filter of   *)
(* UpdateStatus is what the argument rests on.                             *)
THEOREM ClosedStaysClosed == Spec => ClosedOnce
  <1>1. IInv /\ [Next]_vars =>
            [\A r \in DOMAIN returns :
                /\ r \in DOMAIN returns'
                /\ returns[r].status # "OPEN" => returns'[r] = returns[r]
                /\ [returns'[r] EXCEPT !.status = "OPEN"] = [returns[r] EXCEPT !.status = "OPEN"]]_vars
    BY StepClosedOnce
  <1>. QED  BY <1>1, Invariance, PTL DEF Spec, ClosedOnce

-----------------------------------------------------------------------------
(* The bound on late items.  A worker is at a closed return only if it was *)
(* there when the return was closed; it leaves when its item goes in.      *)

LateOf(r) == {i \in DOMAIN items : items[i].ret = r /\ items[i].late}

StandingAt(r) ==
    {w \in Workers : loc[w].ret = r /\ pc[w] # "effect" /\ returns[r].status # "OPEN"}

LateInv ==
    /\ \A w \in Workers : pc[w] \in {"idle", "nextNo", "insertReturn"} => loc[w].ret = 0
    /\ \A r \in DOMAIN returns : returns[r].status = "OPEN" => LateOf(r) = {}
    /\ LateItemsBounded

LEMMA BoundAt ==
    LateItemsBounded <=>
        \A r \in DOMAIN returns :
            Cardinality(LateOf(r)) + Cardinality(StandingAt(r)) <= Cardinality(Workers)
  BY DEF LateItemsBounded, LateOf, StandingAt

LEMMA BoundAtPrime ==
    LateItemsBounded' <=>
        \A r \in DOMAIN returns' :
            Cardinality(LateOf(r)') + Cardinality(StandingAt(r)') <= Cardinality(Workers)
  BY DEF LateItemsBounded, LateOf, StandingAt

LEMMA SmallSets ==
    ASSUME TypeOK, NEW r
    PROVE  /\ IsFiniteSet(LateOf(r)) /\ Cardinality(LateOf(r)) \in Nat
           /\ IsFiniteSet(StandingAt(r)) /\ Cardinality(StandingAt(r)) \in Nat
           /\ IsFiniteSet(Workers) /\ Cardinality(Workers) \in Nat
  <1>1. Len(items) \in Nat /\ DOMAIN items = 1..Len(items)
    BY LenProperties DEF TypeOK
  <1>2. IsFiniteSet(DOMAIN items)
    BY <1>1, FS_Interval
  <1>3. LateOf(r) \in SUBSET DOMAIN items
    BY DEF LateOf
  <1>4. IsFiniteSet(LateOf(r))
    BY <1>2, <1>3, FS_Subset
  <1>5. IsFiniteSet(Workers)
    BY ReturnsAssumption
  <1>6. StandingAt(r) \in SUBSET Workers
    BY DEF StandingAt
  <1>7. IsFiniteSet(StandingAt(r))
    BY <1>5, <1>6, FS_Subset
  <1>. QED  BY <1>4, <1>5, <1>7, FS_CardinalityType

(* A step that adds no late item and sends nobody new to return r.         *)
LEMMA FewerStanding ==
    ASSUME TypeOK, NEW r, NEW S \in SUBSET StandingAt(r),
           Cardinality(LateOf(r)) + Cardinality(StandingAt(r)) <= Cardinality(Workers)
    PROVE  Cardinality(LateOf(r)) + Cardinality(S) <= Cardinality(Workers)
  <1>1. Cardinality(S) <= Cardinality(StandingAt(r)) /\ IsFiniteSet(S)
    BY SmallSets, FS_Subset
  <1>2. Cardinality(S) \in Nat
    BY <1>1, FS_CardinalityType
  <1>. QED  BY <1>1, <1>2, SmallSets

LEMMA NobodyLate ==
    ASSUME TypeOK, NEW S \in SUBSET Workers
    PROVE  Cardinality({}) + Cardinality(S) <= Cardinality(Workers)
  <1>1. Cardinality(S) <= Cardinality(Workers) /\ IsFiniteSet(S)
    BY SmallSets, FS_Subset
  <1>2. Cardinality(S) \in Nat
    BY <1>1, FS_CardinalityType
  <1>. QED  BY <1>1, <1>2, FS_EmptySet

(* One late item more, and one worker less at the return.                  *)
LEMMA WorkerForItem ==
    ASSUME TypeOK, NEW r, NEW w \in StandingAt(r), NEW i, i \notin LateOf(r),
           NEW S \in SUBSET (StandingAt(r) \ {w}),
           Cardinality(LateOf(r)) + Cardinality(StandingAt(r)) <= Cardinality(Workers)
    PROVE  Cardinality(LateOf(r) \cup {i}) + Cardinality(S) <= Cardinality(Workers)
  <1>1. Cardinality(LateOf(r) \cup {i}) = Cardinality(LateOf(r)) + 1
    BY SmallSets, FS_AddElement
  <1>2. /\ IsFiniteSet(StandingAt(r) \ {w})
        /\ Cardinality(StandingAt(r) \ {w}) = Cardinality(StandingAt(r)) - 1
    BY SmallSets, FS_RemoveElement
  <1>3. Cardinality(S) <= Cardinality(StandingAt(r) \ {w}) /\ IsFiniteSet(S)
    BY <1>2, FS_Subset
  <1>4. Cardinality(S) \in Nat
    BY <1>3, FS_CardinalityType
  <1>. QED  BY <1>1, <1>2, <1>3, <1>4, SmallSets

LEMMA InitLateInv == Init => LateInv
  <1>. SUFFICES ASSUME Init PROVE LateInv
    OBVIOUS
  <1>1. DOMAIN returns = {}
    BY DEF Init
  <1>2. \A w \in Workers : loc[w].ret = 0
    BY DEF Init, NoLocals
  <1>. QED  BY <1>1, <1>2 DEF LateInv, LateItemsBounded

(* A step of one worker that writes neither returns nor items, and takes   *)
(* the worker to no closed return it is not at already.                    *)
LEMMA MoveStep ==
    ASSUME IInv, LateInv, NEW w \in Workers, NEW label \in Labels, NEW l \in Locals,
           Goto(w, label, l), UNCHANGED <<returns, items>>,
           \/ label = "idle"
           \/ label \in {"nextNo", "insertReturn"} /\ l.ret = 0
           \/ /\ label \in {"openReturns", "sum", "insertItem"}
              /\ \/ l.ret = loc[w].ret /\ pc[w] # "effect"
                 \/ returns[l.ret].status = "OPEN"
    PROVE  LateInv'
  <1>1. /\ pc'[w] = label
        /\ label # "idle" => loc'[w] = l
        /\ \A v \in Workers : v # w => pc'[v] = pc[v] /\ loc'[v] = loc[v]
    BY GotoType DEF IInv
  <1>2. label = "idle" => loc'[w].ret = 0
    BY DEF Goto, IInv, TypeOK, NoLocals
  <1>3. \A v \in Workers : pc'[v] \in {"idle", "nextNo", "insertReturn"} => loc'[v].ret = 0
    BY <1>1, <1>2 DEF LateInv
  <1>4. \A r : LateOf(r)' = LateOf(r)
    BY DEF LateOf
  <1>5. ASSUME NEW r \in DOMAIN returns
        PROVE  StandingAt(r)' \in SUBSET StandingAt(r)
    <2>1. r # 0
      BY LenProperties DEF IInv, TypeOK
    <2>2. ASSUME NEW v \in Workers, loc'[v].ret = r, pc'[v] # "effect", returns[r].status # "OPEN"
          PROVE  loc[v].ret = r /\ pc[v] # "effect"
      BY <1>1, <1>2, <2>1, <2>2
    <2>. QED  BY <2>2 DEF StandingAt
  <1>6. LateItemsBounded'
    BY <1>4, <1>5, BoundAt, BoundAtPrime, FewerStanding DEF IInv, LateInv
  <1>. QED  BY <1>3, <1>4, <1>6 DEF LateInv

LEMMA CreateInsertLate ==
    ASSUME IInv, LateInv, NEW w \in Workers, CreateInsert(w)
    PROVE  LateInv'
  <1>. DEFINE new == NewReturn(loc[w].order, loc[w].no)
  <1>0. PICK last \in Nat : last = Len(returns) + 1
    BY LenProperties DEF IInv, TypeOK
  <1>1. loc[w] \in Locals /\ loc[w].no \in 1..seq /\ seq \in Nat
    BY DEF IInv, TypeOK, NumbersTaken, Waiting, CreateInsert
  <1>2. new \in Return /\ new.status = "OPEN"
    BY <1>1 DEF NewReturn, Return, Locals, ReturnStatuses
  <1>3. /\ DOMAIN returns' = 1..last
        /\ DOMAIN returns = 1..Len(returns)
        /\ Len(returns) \in Nat
        /\ \A d \in DOMAIN returns : returns'[d] = returns[d]
        /\ returns'[last] = new
    BY <1>0, <1>2, AppendDocument DEF IInv, TypeOK, CreateInsert
  <1>4. /\ pc'[w] = "idle"
        /\ loc'[w].ret = 0
        /\ \A v \in Workers : v # w => pc'[v] = pc[v] /\ loc'[v] = loc[v]
    BY DEF Goto, Finish, CreateInsert, IInv, TypeOK, NoLocals
  <1>5. \A v \in Workers : pc'[v] \in {"idle", "nextNo", "insertReturn"} => loc'[v].ret = 0
    BY <1>4 DEF LateInv
  <1>6. \A r : LateOf(r)' = LateOf(r)
    BY DEF LateOf, CreateInsert
  <1>7. LateOf(last) = {}
    <2>1. last \notin DOMAIN returns
      BY <1>0, <1>3
    <2>. QED  BY <2>1 DEF LateOf, IInv, TypeOK
  <1>8. ASSUME NEW r \in DOMAIN returns
        PROVE  StandingAt(r)' \in SUBSET StandingAt(r)
    <2>1. r # 0 /\ returns'[r] = returns[r]
      BY <1>3
    <2>2. ASSUME NEW v \in Workers, loc'[v].ret = r
          PROVE  loc[v] = loc'[v] /\ pc[v] = pc'[v]
      BY <1>4, <2>1, <2>2
    <2>. QED  BY <2>1, <2>2 DEF StandingAt
  <1>9. StandingAt(last)' \in SUBSET Workers
    BY DEF StandingAt
  <1>10. \A r \in DOMAIN returns' : r \in DOMAIN returns \/ r = last
    BY <1>0, <1>3
  <1>11. LateItemsBounded'
    <2>1. ASSUME NEW r \in DOMAIN returns
          PROVE  Cardinality(LateOf(r)') + Cardinality(StandingAt(r)') <= Cardinality(Workers)
      BY <1>6, <1>8, BoundAt, FewerStanding DEF IInv, LateInv
    <2>2. Cardinality(LateOf(last)') + Cardinality(StandingAt(last)') <= Cardinality(Workers)
      BY <1>6, <1>7, <1>9, NobodyLate DEF IInv
    <2>. QED  BY <1>10, <2>1, <2>2, BoundAtPrime
  <1>12. \A r \in DOMAIN returns' : returns'[r].status = "OPEN" => LateOf(r)' = {}
    BY <1>3, <1>6, <1>7, <1>10 DEF LateInv
  <1>. QED  BY <1>5, <1>11, <1>12 DEF LateInv

LEMMA AddItemInsertLate ==
    ASSUME IInv, LateInv, NEW w \in Workers, AddItemInsert(w)
    PROVE  LateInv'
  <1>. DEFINE closed == returns[loc[w].ret].status # "OPEN"
              new == [ret |-> loc[w].ret, product |-> loc[w].product,
                      qty |-> loc[w].qty, disp |-> loc[w].disp, late |-> closed]
              last == Len(items) + 1
  <1>1. /\ pc[w] = "insertItem" /\ returns' = returns
        /\ loc[w] \in Locals /\ loc[w].ret \in DOMAIN returns /\ loc[w].qty # 0
    BY DEF IInv, TypeOK, LocsValid, AddItemInsert
  <1>2. loc[w].ret \in Nat \ {0}
    BY <1>1, LenProperties DEF IInv, TypeOK
  <1>3. new \in ReturnItem
    BY <1>1, <1>2 DEF ReturnItem, Locals
  <1>4. /\ DOMAIN items' = 1..last
        /\ DOMAIN items = 1..Len(items)
        /\ Len(items) \in Nat
        /\ \A i \in DOMAIN items : items'[i] = items[i]
        /\ items'[last] = new
    BY <1>3, AppendDocument DEF IInv, TypeOK, AddItemInsert
  <1>5. PICK label \in {"effect", "idle"} : Goto(w, label, loc[w])
    BY DEF AddItemInsert
  <1>6. /\ pc'[w] \in {"effect", "idle"}
        /\ pc'[w] = "idle" => loc'[w].ret = 0
        /\ \A v \in Workers : v # w => pc'[v] = pc[v] /\ loc'[v] = loc[v]
    BY <1>5 DEF Goto, IInv, TypeOK, NoLocals
  <1>7. \A v \in Workers : pc'[v] \in {"idle", "nextNo", "insertReturn"} => loc'[v].ret = 0
    BY <1>6 DEF LateInv
  <1>8. \A r : LateOf(r)' = IF closed /\ r = loc[w].ret THEN LateOf(r) \cup {last} ELSE LateOf(r)
    <2>1. \A i : i \in DOMAIN items' <=> i \in DOMAIN items \/ i = last
      BY <1>4
    <2>2. last \notin DOMAIN items
      BY <1>4
    <2>3. new.ret = loc[w].ret /\ new.late = closed
      OBVIOUS
    <2>4. items'[last].ret = loc[w].ret /\ items'[last].late = closed
      BY <1>4, <2>3
    <2>5. \A i \in DOMAIN items : items'[i].ret = items[i].ret /\ items'[i].late = items[i].late
      BY <1>4
    <2>6. \A r : LateOf(r)' = {i \in DOMAIN items' : items'[i].ret = r /\ items'[i].late}
      BY DEF LateOf
    <2>. QED  BY ONLY <2>1, <2>2, <2>4, <2>5, <2>6 DEF LateOf
  <1>9. ASSUME NEW r \in DOMAIN returns
        PROVE  StandingAt(r)' \in SUBSET (StandingAt(r) \ {w})
    <2>1. r # 0
      BY LenProperties DEF IInv, TypeOK
    <2>2. w \notin StandingAt(r)'
      BY <1>6, <2>1 DEF StandingAt
    <2>3. StandingAt(r)' \in SUBSET (StandingAt(r) \cup {w})
      BY <1>1, <1>6 DEF StandingAt
    <2>. QED  BY <2>2, <2>3
  <1>10. LateItemsBounded'
    <2>1. ASSUME NEW r \in DOMAIN returns
          PROVE  Cardinality(LateOf(r)') + Cardinality(StandingAt(r)') <= Cardinality(Workers)
      <3>1. TypeOK /\ Cardinality(LateOf(r)) + Cardinality(StandingAt(r)) <= Cardinality(Workers)
        BY BoundAt DEF IInv, LateInv
      <3>2. CASE closed /\ r = loc[w].ret
        <4>1. w \in StandingAt(r)
          BY <1>1, <3>2 DEF StandingAt
        <4>2. last \notin LateOf(r)
          BY <1>4 DEF LateOf
        <4>3. LateOf(r)' = LateOf(r) \cup {last}
          BY <1>8, <3>2
        <4>. QED  BY <1>9, <3>1, <4>1, <4>2, <4>3, WorkerForItem
      <3>3. CASE ~(closed /\ r = loc[w].ret)
        <4>1. LateOf(r)' = LateOf(r)
          BY <1>8, <3>3
        <4>2. StandingAt(r)' \in SUBSET StandingAt(r)
          BY <1>9
        <4>. QED  BY <3>1, <4>1, <4>2, FewerStanding
      <3>. QED  BY <3>2, <3>3
    <2>. QED  BY <1>1, <2>1, BoundAtPrime
  <1>11. \A r \in DOMAIN returns' : returns'[r].status = "OPEN" => LateOf(r)' = {}
    BY <1>1, <1>8 DEF LateInv
  <1>. QED  BY <1>7, <1>10, <1>11 DEF LateInv

(* Closing a return makes everybody who is at it late.                     *)
LEMMA UpdateStatusLate ==
    ASSUME IInv, LateInv, NEW r \in DOMAIN returns, NEW to \in {"RECEIVED", "CANCELLED"},
           UpdateStatus(r, "OPEN", to)
    PROVE  LateInv'
  <1>1. returns[r] \in Return
    BY DocumentAt DEF IInv, TypeOK
  <1>2. /\ DOMAIN returns' = DOMAIN returns
        /\ returns'[r].status = to
        /\ \A d \in DOMAIN returns : d # r => returns'[d] = returns[d]
    BY <1>1, LenProperties DEF UpdateStatus, IInv, TypeOK, Return
  <1>3. \A d : LateOf(d)' = LateOf(d)
    BY DEF LateOf, UpdateStatus
  <1>4. LateOf(r) = {}
    BY DEF LateInv, UpdateStatus, CasMatches
  <1>5. ASSUME NEW d \in DOMAIN returns, d # r
        PROVE  StandingAt(d)' \in SUBSET StandingAt(d)
    BY <1>2, <1>5 DEF StandingAt, UpdateStatus
  <1>6. StandingAt(r)' \in SUBSET Workers
    BY DEF StandingAt
  <1>7. LateItemsBounded'
    <2>1. ASSUME NEW d \in DOMAIN returns, d # r
          PROVE  Cardinality(LateOf(d)') + Cardinality(StandingAt(d)') <= Cardinality(Workers)
      BY <1>3, <1>5, <2>1, BoundAt, FewerStanding DEF IInv, LateInv
    <2>2. Cardinality(LateOf(r)') + Cardinality(StandingAt(r)') <= Cardinality(Workers)
      BY <1>3, <1>4, <1>6, NobodyLate DEF IInv
    <2>. QED  BY <1>2, <2>1, <2>2, BoundAtPrime
  <1>8. \A d \in DOMAIN returns' : returns'[d].status = "OPEN" => LateOf(d)' = {}
    BY <1>2, <1>3, <1>4 DEF LateInv
  <1>9. \A v \in Workers : pc'[v] \in {"idle", "nextNo", "insertReturn"} => loc'[v].ret = 0
    BY DEF LateInv, UpdateStatus
  <1>. QED  BY <1>7, <1>8, <1>9 DEF LateInv

LEMMA WorkerLate ==
    ASSUME IInv, LateInv, NEW w \in Workers, WorkerStep(w)
    PROVE  LateInv'
  <1>0. loc[w] \in Locals /\ NoLocals \in Locals
    BY NoLocalsType DEF IInv, TypeOK
  <1>1. ASSUME NEW o \in Orders, CreateRead(w, o) PROVE LateInv'
    <2>1. [NoLocals EXCEPT !.order = o] \in Locals /\ [NoLocals EXCEPT !.order = o].ret = 0
      BY <1>0 DEF Locals, NoLocals
    <2>. QED  BY <1>1, <2>1, MoveStep DEF CreateRead, Labels
  <1>2. CASE CreateNumber(w)
    <2>1. loc[w].ret = 0 /\ seq' \in Nat
      BY <1>2 DEF LateInv, CreateNumber, NextSeq, IInv, TypeOK
    <2>2. [loc[w] EXCEPT !.no = seq'] \in Locals /\ [loc[w] EXCEPT !.no = seq'].ret = 0
      BY <1>0, <2>1 DEF Locals
    <2>. QED  BY <1>2, <2>2, MoveStep DEF CreateNumber, Labels
  <1>3. CASE CreateInsert(w)
    BY <1>3, CreateInsertLate
  <1>4. ASSUME NEW r \in DOMAIN returns, NEW p \in Products, NEW q \in Qtys,
               NEW d \in Dispositions, AddItemRead(w, r, p, q, d)
        PROVE  LateInv'
    <2>. DEFINE l == [NoLocals EXCEPT !.order = returns[r].order, !.ret = r,
                                      !.product = p, !.qty = q, !.disp = d]
    <2>1. returns[r] \in Return /\ r \in Nat
      BY DocumentAt, LenProperties DEF IInv, TypeOK
    <2>2. q \in Nat \ {0} /\ d \in AllDispositions
      BY ReturnsAssumption
    <2>3. l \in Locals /\ l.ret = r
      BY <1>0, <2>1, <2>2 DEF Locals, Return
    <2>4. Goto(w, "openReturns", l) /\ UNCHANGED <<returns, items>> /\ returns[l.ret].status = "OPEN"
      BY <1>4, <2>3 DEF AddItemRead, Addable
    <2>. QED  BY <2>3, <2>4, MoveStep DEF Labels
  <1>5. CASE AddItemReturns(w)
    <2>. DEFINE l == [loc[w] EXCEPT !.ids = LiveReturns(loc[w].order)]
    <2>1. LiveReturns(loc[w].order) \in SUBSET Nat
      BY LenProperties DEF IInv, TypeOK, LiveReturns, ReturnsOf
    <2>2. l \in Locals /\ l.ret = loc[w].ret
      BY <1>0, <2>1 DEF Locals
    <2>3. pc[w] # "effect" /\ Goto(w, "sum", l) /\ UNCHANGED <<returns, items>>
      BY <1>5 DEF AddItemReturns
    <2>. QED  BY <2>2, <2>3, MoveStep DEF Labels
  <1>6. CASE AddItemSum(w)
    <2>1. Goto(w, "idle", NoLocals) \/ Goto(w, "insertItem", loc[w])
      BY <1>6 DEF AddItemSum, Finish
    <2>2. pc[w] # "effect" /\ UNCHANGED <<returns, items>>
      BY <1>6 DEF AddItemSum
    <2>. QED  BY <1>0, <2>1, <2>2, MoveStep DEF Labels
  <1>7. CASE AddItemInsert(w)
    BY <1>7, AddItemInsertLate
  <1>8. CASE AddItemEffect(w) \/ Abandon(w)
    <2>1. Goto(w, "idle", NoLocals) /\ UNCHANGED <<returns, items>>
      BY <1>8 DEF AddItemEffect, Abandon, Finish
    <2>. QED  BY <1>0, <2>1, MoveStep DEF Labels
  <1>. QED  BY <1>1, <1>2, <1>3, <1>4, <1>5, <1>6, <1>7, <1>8 DEF WorkerStep

LEMMA StepLateInv == IInv /\ LateInv /\ [Next]_vars => LateInv'
  <1>. SUFFICES ASSUME IInv, LateInv, [Next]_vars PROVE LateInv'
    OBVIOUS
  <1>1. ASSUME NEW o \in Orders, ShipOrder(o) PROVE LateInv'
    BY <1>1 DEF ShipOrder, LateInv, LateItemsBounded, LateOf
  <1>2. ASSUME NEW w \in Workers, WorkerStep(w) PROVE LateInv'
    BY <1>2, WorkerLate
  <1>3. ASSUME NEW r \in DOMAIN returns, Receive(r) \/ Cancel(r) PROVE LateInv'
    BY <1>3, UpdateStatusLate DEF Receive, Cancel
  <1>4. CASE UNCHANGED vars
    BY <1>4 DEF vars, LateInv, LateItemsBounded, LateOf
  <1>. QED  BY <1>1, <1>2, <1>3, <1>4 DEF Next

(* However many requests add items to a return, after it was closed it     *)
(* gets one late item per worker at most: the status is looked at once, so *)
(* only a request that was past the look when the return was closed can    *)
(* still insert.                                                           *)
THEOREM LateItemsAreFew == Spec => []LateItemsBounded
  <1>1. LateInv => LateItemsBounded
    BY DEF LateInv
  <1>. QED  BY <1>1, InitLateInv, StepLateInv, Invariance, PTL DEF Spec

-----------------------------------------------------------------------------
(* Quantities of items, as sums.                                           *)
Units(L, I) == SumFunction([i \in I |-> L[i].qty])

LEMMA UnitsType ==
    ASSUME NEW L \in Seq(ReturnItem), NEW I \in SUBSET DOMAIN L
    PROVE  /\ IsFiniteSet(I)
           /\ [i \in I |-> L[i].qty] \in [I -> Nat]
           /\ Units(L, I) \in Nat
  <1>1. IsFiniteSet(I)
    BY Positions, FS_Subset
  <1>2. \A i \in I : L[i].qty \in Nat
    <2>1. \A i \in I : L[i] \in ReturnItem
      BY DocumentAt
    <2>. QED  BY <2>1 DEF ReturnItem
  <1>3. [i \in I |-> L[i].qty] \in [I -> Nat]
    BY <1>2
  <1>. QED  BY <1>1, <1>3, SumFunctionNat DEF Units

(* An inserted item counts where it belongs and nowhere else.              *)
LEMMA UnitsAppend ==
    ASSUME NEW L \in Seq(ReturnItem), NEW e \in ReturnItem, NEW I \in SUBSET DOMAIN L
    PROVE  /\ Units(Append(L, e), I) = Units(L, I)
           /\ Units(Append(L, e), I \cup {Len(L) + 1}) = Units(L, I) + e.qty
  <1>. DEFINE M == Append(L, e)
              x == Len(L) + 1
              f == [i \in I |-> L[i].qty]
              g == [i \in I \cup {x} |-> M[i].qty]
  <1>1. /\ M \in Seq(ReturnItem) /\ DOMAIN M = 1..x /\ DOMAIN L = 1..Len(L) /\ Len(L) \in Nat
        /\ M[x] = e /\ \A i \in DOMAIN L : M[i] = L[i]
    BY AppendDocument
  <1>2. x \notin I /\ I \cup {x} \in SUBSET DOMAIN M
    BY <1>1
  <1>. HIDE DEF M, x
  <1>3. [i \in I |-> M[i].qty] = f
    BY <1>1
  <1>4. IsFiniteSet(I) /\ f \in [I -> Int] /\ g \in [I \cup {x} -> Int]
    <2>1. IsFiniteSet(I) /\ f \in [I -> Nat]
      BY UnitsType
    <2>2. g \in [I \cup {x} -> Nat]
      BY <1>1, <1>2, UnitsType
    <2>3. \A i \in I \cup {x} : g[i] \in Int
      <3>. HIDE DEF g
      <3>. QED  BY <2>2
    <2>4. \A i \in I : f[i] \in Int
      <3>. HIDE DEF f
      <3>. QED  BY <2>1
    <2>. QED  BY <2>1, <2>3, <2>4
  <1>5. g[x] = e.qty /\ \A i \in I : g[i] = f[i]
    BY <1>1
  <1>6. SumFunction(g) = SumFunction(f) + g[x]
    <2>. HIDE DEF f, g
    <2>1. Extends(I, x, I \cup {x}, f, g)
      BY <1>2, <1>4, <1>5 DEF Extends
    <2>. QED  BY ONLY <2>1, SumExtends
  <1>7. Units(M, I) = Units(L, I) /\ Units(L, I) = SumFunction(f)
    BY <1>3 DEF Units
  <1>8. Units(M, I \cup {x}) = SumFunction(g)
    BY DEF Units
  <1>9. Units(M, I \cup {x}) = Units(L, I) + e.qty
    BY <1>5, <1>6, <1>7, <1>8
  <1>. QED  BY <1>7, <1>9 DEF M, x

-----------------------------------------------------------------------------
(* What becomes of the items.                                              *)

Got(d, p) == IF d = "RESTOCK" THEN restocked[p] ELSE held[p]

Accounted(d, p) ==
    Units(items, ItemsWith(d, p)) = Got(d, p) + Awaiting(d, p) + stranded[d][p]

EInv == IInv /\ EffectsAccounted

LEMMA AccountedIs ==
    /\ EffectsAccounted <=>
          \A p \in Products : Accounted("RESTOCK", p) /\ Accounted("QC_HOLD", p)
    /\ EffectsAccounted' <=>
          \A p \in Products : Accounted("RESTOCK", p)' /\ Accounted("QC_HOLD", p)'
  <1>1. "QC_HOLD" # "RESTOCK"
    OBVIOUS
  <1>. QED  BY <1>1 DEF EffectsAccounted, Accounted, Got, QtyOf, Units

LEMMA AwaitingMoves ==
    ASSUME IInv, IInv', NEW w \in Workers, NEW d, NEW p,
           \A v \in Workers : v # w => pc'[v] = pc[v] /\ loc'[v] = loc[v]
    PROVE  /\ Awaiting(d, p)' = Awaiting(d, p) - Owed(w, d, p) + Owed(w, d, p)'
           /\ Awaiting(d, p) \in Int /\ Owed(w, d, p) \in Int /\ Owed(w, d, p)' \in Int
  <1>. DEFINE f == [v \in Workers |-> Owed(v, d, p)]
              g == [v \in Workers |-> Owed(v, d, p)']
  <1>1. IsFiniteSet(Workers)
    BY ReturnsAssumption
  <1>2. /\ f \in [Workers -> Int] /\ g \in [Workers -> Int]
        /\ f[w] = Owed(w, d, p) /\ g[w] = Owed(w, d, p)'
        /\ \A v \in Workers : v # w => g[v] = f[v]
    <2>1. \A v \in Workers : Owed(v, d, p) \in Int /\ Owed(v, d, p)' \in Int
      <3>1. \A v \in Workers : loc[v].qty \in Nat /\ loc'[v].qty \in Nat
        BY DEF IInv, TypeOK, Locals
      <3>. QED  BY <3>1 DEF Owed
    <2>2. \A v \in Workers : v # w => Owed(v, d, p)' = Owed(v, d, p)
      BY DEF Owed
    <2>. QED  BY <2>1, <2>2
  <1>3. Awaiting(d, p) = SumFunction(f) /\ Awaiting(d, p)' = SumFunction(g)
    BY DEF Awaiting
  <1>. HIDE DEF f, g
  <1>4. SumFunction(g) = SumFunction(f) - f[w] + g[w] /\ SumFunction(f) \in Int
    BY <1>1, <1>2, SumFunctionChange, SumFunctionType
  <1>5. f[w] \in Int /\ g[w] \in Int
    BY <1>2
  <1>. QED  BY <1>2, <1>3, <1>4, <1>5

(* The types of the terms.                                                 *)
LEMMA EffectTypes ==
    ASSUME IInv, NEW d \in AllDispositions, NEW p \in Products
    PROVE  /\ Units(items, ItemsWith(d, p)) \in Nat
           /\ Got(d, p) \in Nat /\ stranded[d][p] \in Nat
  BY UnitsType DEF IInv, TypeOK, ItemsWith, Got

(* Worker w moves, n more units are in the items and m more are settled.   *)
Moves(w, d, p, n, m) ==
    /\ n \in Int /\ m \in Int
    /\ Units(items, ItemsWith(d, p))' = Units(items, ItemsWith(d, p)) + n
    /\ (Got(d, p) + stranded[d][p])' = Got(d, p) + stranded[d][p] + m
    /\ Owed(w, d, p)' = Owed(w, d, p) + n - m

LEMMA AccountedMoves ==
    ASSUME IInv, IInv', NEW w \in Workers, NEW d \in AllDispositions, NEW p \in Products,
           \A v \in Workers : v # w => pc'[v] = pc[v] /\ loc'[v] = loc[v],
           Accounted(d, p), NEW n, NEW m, Moves(w, d, p, n, m)
    PROVE  Accounted(d, p)'
  <1>0. /\ n \in Int /\ m \in Int
        /\ Units(items, ItemsWith(d, p))' = Units(items, ItemsWith(d, p)) + n
        /\ (Got(d, p) + stranded[d][p])' = Got(d, p) + stranded[d][p] + m
        /\ Owed(w, d, p)' = Owed(w, d, p) + n - m
    BY DEF Moves
  <1>1. /\ Awaiting(d, p)' = Awaiting(d, p) - Owed(w, d, p) + Owed(w, d, p)'
        /\ Awaiting(d, p) \in Int /\ Owed(w, d, p) \in Int /\ Owed(w, d, p)' \in Int
    BY AwaitingMoves
  <1>2. /\ Units(items, ItemsWith(d, p)) \in Nat
        /\ Got(d, p) \in Nat /\ stranded[d][p] \in Nat
        /\ Got(d, p)' \in Nat /\ stranded'[d][p] \in Nat
    BY EffectTypes DEF IInv, TypeOK, Got
  <1>. QED  BY <1>0, <1>1, <1>2 DEF Accounted

(* A step that leaves items and effects alone and owes nothing new.        *)
LEMMA NothingOwed ==
    ASSUME EInv, IInv', NEW w \in Workers,
           \A v \in Workers : v # w => pc'[v] = pc[v] /\ loc'[v] = loc[v],
           pc[w] # "effect", pc'[w] # "effect",
           UNCHANGED <<items, restocked, held, stranded>>
    PROVE  EffectsAccounted'
  <1>1. ASSUME NEW d \in AllDispositions, NEW p \in Products, Accounted(d, p)
        PROVE  Accounted(d, p)'
    <2>1. Units(items, ItemsWith(d, p))' = Units(items, ItemsWith(d, p)) + 0
      BY EffectTypes DEF Units, ItemsWith, EInv
    <2>2. (Got(d, p) + stranded[d][p])' = Got(d, p) + stranded[d][p] + 0
      BY EffectTypes DEF Got, EInv
    <2>3. Owed(w, d, p)' = Owed(w, d, p) + 0 - 0
      BY DEF Owed
    <2>4. Moves(w, d, p, 0, 0)
      BY <2>1, <2>2, <2>3 DEF Moves
    <2>. QED  BY <1>1, <2>4, AccountedMoves DEF EInv
  <1>. QED  BY <1>1, AccountedIs DEF EInv, AllDispositions

LEMMA InsertAccounted ==
    ASSUME EInv, IInv', NEW w \in Workers, AddItemInsert(w)
    PROVE  EffectsAccounted'
  <1>. DEFINE e == [ret |-> loc[w].ret, product |-> loc[w].product,
                    qty |-> loc[w].qty, disp |-> loc[w].disp,
                    late |-> returns[loc[w].ret].status # "OPEN"]
  <1>1. loc[w] \in Locals /\ loc[w].ret \in Nat \ {0} /\ loc[w].qty \in Nat \ {0}
    <2>1. loc[w].ret \in DOMAIN returns /\ loc[w].qty # 0
      BY DEF EInv, IInv, LocsValid, AddItemInsert
    <2>2. loc[w].ret \in Nat \ {0}
      BY <2>1, Positions DEF EInv, IInv, TypeOK
    <2>. QED  BY <2>1, <2>2 DEF EInv, IInv, TypeOK, Locals
  <1>2. /\ e \in ReturnItem /\ e.qty = loc[w].qty /\ e.disp = loc[w].disp
        /\ e.product = loc[w].product
    BY <1>1 DEF ReturnItem, Locals
  <1>3. items' = Append(items, e)
    BY DEF AddItemInsert
  <1>. HIDE DEF e
  <1>4. PICK x \in Nat : x = Len(items) + 1
    BY LenProperties DEF EInv, IInv, TypeOK
  <1>5. /\ DOMAIN items' = DOMAIN items \cup {x} /\ x \notin DOMAIN items /\ items'[x] = e
        /\ \A i \in DOMAIN items : items'[i] = items[i]
    BY <1>2, <1>3, <1>4, AppendDocument DEF EInv, IInv, TypeOK
  <1>6. /\ \A v \in Workers : v # w => pc'[v] = pc[v] /\ loc'[v] = loc[v]
        /\ pc[w] = "insertItem"
        /\ HasEffect(loc[w].disp) => pc'[w] = "effect" /\ loc'[w] = loc[w]
        /\ ~HasEffect(loc[w].disp) => pc'[w] = "idle"
    BY DEF AddItemInsert, Goto, EInv, IInv, TypeOK
  <1>7. ASSUME NEW d \in {"RESTOCK", "QC_HOLD"}, NEW p \in Products, Accounted(d, p)
        PROVE  Accounted(d, p)'
    <2>1. (Got(d, p) + stranded[d][p])' = Got(d, p) + stranded[d][p] + 0
      BY EffectTypes DEF Got, EInv, AllDispositions, AddItemInsert
    <2>2. PICK I \in SUBSET DOMAIN items : I = ItemsWith(d, p)
      BY DEF ItemsWith
    <2>5. /\ Units(Append(items, e), I) = Units(items, I)
          /\ Units(Append(items, e), I \cup {Len(items) + 1}) = Units(items, I) + e.qty
      <3>1. items \in Seq(ReturnItem)
        BY DEF EInv, IInv, TypeOK
      <3>. QED  BY <1>2, <3>1, UnitsAppend
    <2>6. IInv /\ IInv' /\ d \in AllDispositions
      BY DEF EInv, AllDispositions
    <2>3. CASE loc[w].disp = d /\ loc[w].product = p
      <3>1. ItemsWith(d, p)' = I \cup {x}
        BY <1>2, <1>5, <2>2, <2>3 DEF ItemsWith
      <3>2. Units(items, ItemsWith(d, p))' = Units(items, ItemsWith(d, p)) + loc[w].qty
        <4>1. Units(items, ItemsWith(d, p))' = Units(Append(items, e), I \cup {Len(items) + 1})
          BY <1>3, <1>4, <3>1 DEF Units
        <4>. QED  BY <1>2, <2>2, <2>5, <4>1
      <3>3. Owed(w, d, p) = 0 /\ Owed(w, d, p)' = loc[w].qty
        BY <1>6, <2>3 DEF Owed, HasEffect
      <3>4. Owed(w, d, p)' = Owed(w, d, p) + loc[w].qty - 0
        BY <1>1, <3>3
      <3>5. PICK n : n = loc[w].qty
        OBVIOUS
      <3>6. Moves(w, d, p, n, 0)
        BY <1>1, <2>1, <3>2, <3>4, <3>5 DEF Moves
      <3>. QED  BY <1>6, <1>7, <2>6, <3>6, AccountedMoves
    <2>4. CASE ~(loc[w].disp = d /\ loc[w].product = p)
      <3>1. ItemsWith(d, p)' = I
        BY <1>2, <1>5, <2>2, <2>4 DEF ItemsWith
      <3>2. Units(items, ItemsWith(d, p))' = Units(items, ItemsWith(d, p))
        <4>1. Units(items, ItemsWith(d, p))' = Units(Append(items, e), I)
          BY <1>3, <3>1 DEF Units
        <4>. QED  BY <2>2, <2>5, <4>1
      <3>3. Owed(w, d, p) = 0 /\ Owed(w, d, p)' = 0
        BY <1>6, <2>4 DEF Owed
      <3>4. Owed(w, d, p)' = Owed(w, d, p) + 0 - 0
        BY <3>3
      <3>5. Units(items, ItemsWith(d, p))' = Units(items, ItemsWith(d, p)) + 0
        BY <3>2, EffectTypes DEF EInv, AllDispositions
      <3>6. Moves(w, d, p, 0, 0)
        BY <2>1, <3>4, <3>5 DEF Moves
      <3>. QED  BY <1>6, <1>7, <2>6, <3>6, AccountedMoves
    <2>. QED  BY <2>3, <2>4
  <1>. QED  BY <1>7, AccountedIs DEF EInv

(* The effect settles what the request owes, or its request dies owing it. *)
LEMMA SettledAccounted ==
    ASSUME EInv, IInv', NEW w \in Workers, AddItemEffect(w) \/ Abandon(w), pc[w] = "effect"
    PROVE  EffectsAccounted'
  <1>1. loc[w].qty \in Nat /\ loc[w].product \in Products /\ loc[w].disp \in AllDispositions
    BY DEF EInv, IInv, TypeOK, Locals
  <1>2. /\ \A v \in Workers : v # w => pc'[v] = pc[v] /\ loc'[v] = loc[v]
        /\ pc'[w] = "idle" /\ items' = items
    BY DEF AddItemEffect, Abandon, Finish, Goto, EInv, IInv, TypeOK
  <1>3. ASSUME NEW d \in {"RESTOCK", "QC_HOLD"}, NEW p \in Products, Accounted(d, p)
        PROVE  Accounted(d, p)'
    <2>1. Units(items, ItemsWith(d, p))' = Units(items, ItemsWith(d, p)) + 0
      BY <1>2, EffectTypes DEF Units, ItemsWith, EInv, AllDispositions
    <2>2. Owed(w, d, p)' = 0
      BY <1>2 DEF Owed
    <2>3. PICK n \in Int : n = Owed(w, d, p)
      BY <1>1 DEF Owed
    <2>4. (Got(d, p) + stranded[d][p])' = Got(d, p) + stranded[d][p] + n
      <3>1. /\ restocked \in [Products -> Nat] /\ held \in [Products -> Nat]
            /\ stranded \in [AllDispositions -> [Products -> Nat]]
        BY DEF EInv, IInv, TypeOK
      <3>2. CASE AddItemEffect(w)
        BY <1>1, <2>3, <3>1, <3>2 DEF AddItemEffect, Got, Owed, AllDispositions
      <3>3. CASE Abandon(w)
        BY <1>1, <2>3, <3>1, <3>3 DEF Abandon, Got, Owed, AllDispositions
      <3>. QED  BY <3>2, <3>3
    <2>5. Owed(w, d, p)' = Owed(w, d, p) + 0 - n
      BY <2>2, <2>3
    <2>6. Moves(w, d, p, 0, n)
      BY <2>1, <2>3, <2>4, <2>5 DEF Moves
    <2>7. IInv /\ IInv' /\ d \in AllDispositions
      BY DEF EInv, AllDispositions
    <2>. QED  BY <1>2, <1>3, <2>6, <2>7, AccountedMoves
  <1>. QED  BY <1>3, AccountedIs DEF EInv

LEMMA InitEInv == Init => EInv
  <1>. SUFFICES ASSUME Init PROVE EInv
    OBVIOUS
  <1>1. ASSUME NEW d \in AllDispositions, NEW p \in Products PROVE Accounted(d, p)
    <2>1. Units(items, ItemsWith(d, p)) = 0
      BY SumFunctionEmpty, EmptySeq DEF Init, ItemsWith, Units
    <2>2. Awaiting(d, p) = 0
      <3>1. \A w \in Workers : Owed(w, d, p) = 0
        BY DEF Init, Owed
      <3>. QED  BY <3>1, SumFunctionZero, ReturnsAssumption DEF Awaiting
    <2>3. Got(d, p) = 0 /\ stranded[d][p] = 0
      BY DEF Init, Got
    <2>. QED  BY <2>1, <2>2, <2>3 DEF Accounted
  <1>. QED  BY <1>1, InitIInv, AccountedIs DEF EInv, AllDispositions

LEMMA StepEInv == EInv /\ [Next]_vars => EInv'
  <1>. SUFFICES ASSUME EInv, [Next]_vars PROVE EInv'
    OBVIOUS
  <1>1. IInv'
    BY StepIInv DEF EInv
  <1>2. ASSUME NEW w \in Workers, AddItemInsert(w) PROVE EffectsAccounted'
    BY <1>1, <1>2, InsertAccounted
  <1>3. ASSUME NEW w \in Workers, AddItemEffect(w) PROVE EffectsAccounted'
    BY <1>1, <1>3, SettledAccounted DEF AddItemEffect
  <1>4. ASSUME NEW w \in Workers, Abandon(w) PROVE EffectsAccounted'
    <2>1. CASE pc[w] = "effect"
      BY <1>1, <1>4, <2>1, SettledAccounted
    <2>2. CASE pc[w] # "effect"
      BY <1>1, <1>4, <2>2, NothingOwed DEF Abandon, Finish, Goto, EInv, IInv, TypeOK
    <2>. QED  BY <2>1, <2>2
  <1>5. ASSUME NEW w \in Workers, NEW o \in Orders, CreateRead(w, o) PROVE EffectsAccounted'
    BY <1>1, <1>5, NothingOwed DEF CreateRead, Goto, EInv, IInv, TypeOK
  <1>6. ASSUME NEW w \in Workers, CreateNumber(w) \/ CreateInsert(w) PROVE EffectsAccounted'
    BY <1>1, <1>6, NothingOwed DEF CreateNumber, CreateInsert, Finish, Goto, EInv, IInv, TypeOK
  <1>7. ASSUME NEW w \in Workers, NEW r \in DOMAIN returns, NEW p \in Products,
               NEW q \in Qtys, NEW d \in Dispositions, AddItemRead(w, r, p, q, d)
        PROVE  EffectsAccounted'
    BY <1>1, <1>7, NothingOwed DEF AddItemRead, Goto, EInv, IInv, TypeOK
  <1>8. ASSUME NEW w \in Workers, AddItemReturns(w) \/ AddItemSum(w) PROVE EffectsAccounted'
    BY <1>1, <1>8, NothingOwed DEF AddItemReturns, AddItemSum, Finish, Goto, EInv, IInv, TypeOK
  <1>9. ASSUME UNCHANGED <<items, restocked, held, stranded, pc, loc>> PROVE EffectsAccounted'
    BY <1>9 DEF EInv, EffectsAccounted, QtyOf, ItemsWith, Awaiting, Owed
  <1>10. ASSUME NEW w \in Workers, WorkerStep(w) PROVE EffectsAccounted'
    BY <1>2, <1>3, <1>4, <1>5, <1>6, <1>7, <1>8, <1>10 DEF WorkerStep
  <1>11. EffectsAccounted'
    BY <1>9, <1>10 DEF Next, vars, ShipOrder, Receive, Cancel, UpdateStatus
  <1>. QED  BY <1>1, <1>11 DEF EInv

(* With any number of concurrent requests, and wherever they die: the      *)
(* units of restocked items are in the stock, those of QC items in holds,  *)
(* or a request still owes them, or died owing them.  No effect comes      *)
(* twice, none without its item (returns/service.go AddItem).              *)
THEOREM EffectsAreAccounted == Spec => []EffectsAccounted
  <1>1. EInv => EffectsAccounted
    BY DEF EInv
  <1>. QED  BY <1>1, InitEInv, StepEInv, PTL DEF Spec

-----------------------------------------------------------------------------
(* What comes back for a line of an order.                                 *)

Live(o, p) == Units(items, ItemsOf(LiveReturns(o), p))

(* A request that will insert: past the guard, or at the guard with a list *)
(* of returns whose items leave room for it.                               *)
Passes(w, o, p) ==
    /\ loc[w].order = o /\ loc[w].product = p
    /\ \/ pc[w] = "insertItem"
       \/ pc[w] = "sum" /\ Units(items, ItemsOf(loc[w].ids, p)) + loc[w].qty <= ShippedLine(o, p)

Promise(w, o, p) == IF Passes(w, o, p) THEN loc[w].qty ELSE 0

Promised(o, p) == SumFunction([w \in Workers |-> Promise(w, o, p)])

Excess == (Cardinality(Workers) - 1) * Max(Qtys)

Taken(o, p) == Live(o, p) + Promised(o, p)

OverAt(o, p) == Taken(o, p) = 0 \/ Taken(o, p) <= ShippedLine(o, p) + Excess

LocsOrdered ==
    \A w \in Workers : pc[w] \in {"openReturns", "sum", "insertItem"} =>
        returns[loc[w].ret].order = loc[w].order /\ loc[w].qty \in Qtys

OInv == IInv /\ LocsOrdered /\ \A o \in Orders, p \in Products : OverAt(o, p)

LEMMA PartOfItems ==
    ASSUME TypeOK, NEW R, NEW p
    PROVE  ItemsOf(R, p) \in SUBSET DOMAIN items /\ Units(items, ItemsOf(R, p)) \in Nat
  <1>1. ItemsOf(R, p) \in SUBSET DOMAIN items
    BY DEF ItemsOf
  <1>2. items \in Seq(ReturnItem)
    BY DEF TypeOK
  <1>. QED  BY <1>1, <1>2, UnitsType

LEMMA PromiseType ==
    ASSUME IInv, NEW o, NEW p
    PROVE  /\ IsFiniteSet(Workers)
           /\ [v \in Workers |-> Promise(v, o, p)] \in [Workers -> Nat]
           /\ [v \in Workers |-> Promise(v, o, p)] \in [Workers -> Int]
           /\ \A v \in Workers : Promise(v, o, p) \in Nat
           /\ Promised(o, p) \in Nat
  <1>1. \A v \in Workers : loc[v].qty \in Nat
    BY DEF IInv, TypeOK, Locals
  <1>2. \A v \in Workers : Promise(v, o, p) \in Nat
    BY <1>1 DEF Promise
  <1>3. IsFiniteSet(Workers)
    BY ReturnsAssumption
  <1>. QED  BY <1>2, <1>3, SumFunctionNat DEF Promised

(* The same for the terms, before and after a step.                        *)
LEMMA TermTypes ==
    ASSUME NEW o, NEW p
    PROVE  /\ IInv => /\ Live(o, p) \in Nat /\ Promised(o, p) \in Nat
                      /\ \A v \in Workers : Promise(v, o, p) \in Nat
           /\ IInv' => /\ Live(o, p)' \in Nat /\ Promised(o, p)' \in Nat
                       /\ \A v \in Workers : Promise(v, o, p)' \in Nat
  <1>1. IInv => /\ Live(o, p) \in Nat /\ Promised(o, p) \in Nat
                /\ \A v \in Workers : Promise(v, o, p) \in Nat
    BY PartOfItems, PromiseType DEF Live, IInv
  <1>2. (IInv => /\ Live(o, p) \in Nat /\ Promised(o, p) \in Nat
                 /\ \A v \in Workers : Promise(v, o, p) \in Nat)'
    BY <1>1, PTL
  <1>. QED  BY <1>1, <1>2

LEMMA BoundsAreNumbers ==
    ASSUME NEW o \in Orders, NEW p \in Products
    PROVE  /\ ShippedLine(o, p) \in Nat /\ Excess \in Int
           /\ Max(Qtys) \in Nat /\ \A q \in Qtys : q \in Nat /\ q <= Max(Qtys)
  <1>1. Lines[o] \in Seq([product: Products, shipped: Nat])
    BY ReturnsAssumption
  <1>2. ASSUME NEW T, T = {i \in DOMAIN Lines[o] : Lines[o][i].product = p}, T # {}
        PROVE  Lines[o][Min(T)].shipped \in Nat
    <2>1. DOMAIN Lines[o] \subseteq Nat
      BY <1>1, Positions
    <2>2. Min(T) \in T
      BY <1>2, <2>1, MinIsLeast
    <2>3. Lines[o][Min(T)] \in [product: Products, shipped: Nat]
      BY <1>1, <1>2, <2>2, DocumentAt
    <2>. QED  BY <2>3
  <1>3. ShippedLine(o, p) \in Nat
    BY <1>2 DEF ShippedLine
  <1>4. Qtys \subseteq Nat /\ \E m \in Qtys : \A q \in Qtys : q <= m
    BY ReturnsAssumption
  <1>5. Max(Qtys) \in Qtys /\ \A q \in Qtys : q <= Max(Qtys)
    BY <1>4, MaxIsLargest
  <1>6. Cardinality(Workers) \in Nat
    BY ReturnsAssumption, FS_CardinalityType
  <1>7. Excess \in Int
    <2>1. PICK n \in Nat, m \in Nat : n = Cardinality(Workers) /\ m = Max(Qtys)
      BY <1>4, <1>5, <1>6
    <2>2. (n - 1) * m \in Int
      BY <2>1
    <2>. QED  BY <2>1, <2>2 DEF Excess
  <1>. QED  BY <1>3, <1>4, <1>5, <1>7

(* Neither the items that came back nor the promises grow.                 *)
LEMMA TakenStays ==
    ASSUME IInv, IInv', NEW o \in Orders, NEW p \in Products, OverAt(o, p),
           Live(o, p)' <= Live(o, p),
           \A v \in Workers : Promise(v, o, p)' <= Promise(v, o, p)
    PROVE  OverAt(o, p)'
  <1>. DEFINE f == [v \in Workers |-> Promise(v, o, p)]
              g == [v \in Workers |-> Promise(v, o, p)']
  <1>1. /\ IsFiniteSet(Workers) /\ f \in [Workers -> Int] /\ Promised(o, p) \in Nat
    BY PromiseType
  <1>2. (\A v \in Workers : Promise(v, o, p)' \in Nat) /\ Promised(o, p)' \in Nat
    BY TermTypes
  <1>3. Live(o, p) \in Nat /\ Live(o, p)' \in Nat
    BY TermTypes
  <1>4. Promised(o, p) = SumFunction(f) /\ Promised(o, p)' = SumFunction(g)
    BY DEF Promised
  <1>5. \A v \in Workers : g[v] <= f[v]
    OBVIOUS
  <1>6. g \in [Workers -> Int]
    BY <1>2
  <1>. HIDE DEF f, g
  <1>7. Promised(o, p)' <= Promised(o, p)
    BY <1>1, <1>4, <1>5, <1>6, SumFunctionMonotone
  <1>8. ShippedLine(o, p)' = ShippedLine(o, p) /\ Excess' = Excess
    BY DEF ShippedLine, Excess
  <1>9. ShippedLine(o, p) \in Nat /\ Excess \in Int
    BY BoundsAreNumbers
  <1>. QED  BY <1>1, <1>2, <1>3, <1>7, <1>8, <1>9 DEF OverAt, Taken

(* One request moves and the items stay.                                   *)
LEMMA QuietTaken ==
    ASSUME IInv, IInv', NEW o \in Orders, NEW p \in Products, OverAt(o, p),
           NEW w \in Workers, items' = items,
           \A v \in Workers : v # w => pc'[v] = pc[v] /\ loc'[v] = loc[v],
           Live(o, p)' <= Live(o, p),
           Promise(w, o, p)' <= Promise(w, o, p)
    PROVE  OverAt(o, p)'
  <1>1. ASSUME NEW v \in Workers, v # w PROVE Promise(v, o, p)' <= Promise(v, o, p)
    <2>1. Promise(v, o, p)' = Promise(v, o, p)
      BY <1>1 DEF Promise, Passes, ItemsOf, Units, ShippedLine
    <2>. QED  BY <2>1, TermTypes
  <1>. QED  BY <1>1, TakenStays

(* What an insertion adds to the items of a set of returns.                *)
LEMMA ItemsInserted ==
    ASSUME IInv, NEW w \in Workers, AddItemInsert(w), NEW R, NEW p
    PROVE  Units(items, ItemsOf(R, p))' = Units(items, ItemsOf(R, p)) +
              (IF loc[w].ret \in R /\ loc[w].product = p THEN loc[w].qty ELSE 0)
  <1>. DEFINE e == [ret |-> loc[w].ret, product |-> loc[w].product,
                    qty |-> loc[w].qty, disp |-> loc[w].disp,
                    late |-> returns[loc[w].ret].status # "OPEN"]
  <1>1. loc[w] \in Locals /\ loc[w].ret \in Nat \ {0} /\ loc[w].qty \in Nat \ {0}
    <2>1. loc[w].ret \in DOMAIN returns /\ loc[w].qty # 0
      BY DEF IInv, LocsValid, AddItemInsert
    <2>2. loc[w].ret \in Nat \ {0}
      BY <2>1, Positions DEF IInv, TypeOK
    <2>. QED  BY <2>1, <2>2 DEF IInv, TypeOK, Locals
  <1>2. e \in ReturnItem /\ e.qty = loc[w].qty /\ e.ret = loc[w].ret /\ e.product = loc[w].product
    BY <1>1 DEF ReturnItem, Locals
  <1>3. items' = Append(items, e) /\ items \in Seq(ReturnItem)
    BY DEF AddItemInsert, IInv, TypeOK
  <1>. HIDE DEF e
  <1>4. PICK x \in Nat : x = Len(items) + 1
    BY <1>3, LenProperties
  <1>5. /\ DOMAIN items' = DOMAIN items \cup {x} /\ x \notin DOMAIN items /\ items'[x] = e
        /\ \A i \in DOMAIN items : items'[i] = items[i]
    BY <1>2, <1>3, <1>4, AppendDocument
  <1>6. PICK I \in SUBSET DOMAIN items : I = ItemsOf(R, p)
    BY DEF ItemsOf
  <1>7. /\ Units(Append(items, e), I) = Units(items, I)
        /\ Units(Append(items, e), I \cup {Len(items) + 1}) = Units(items, I) + e.qty
        /\ Units(items, I) \in Nat
    BY <1>2, <1>3, UnitsAppend, UnitsType
  <1>8. CASE loc[w].ret \in R /\ loc[w].product = p
    <2>1. ItemsOf(R, p)' = I \cup {x}
      BY <1>2, <1>5, <1>6, <1>8 DEF ItemsOf
    <2>2. Units(items, ItemsOf(R, p))' = Units(Append(items, e), I \cup {Len(items) + 1})
      BY <1>3, <1>4, <2>1 DEF Units
    <2>. QED  BY <1>2, <1>6, <1>7, <1>8, <2>2
  <1>9. CASE ~(loc[w].ret \in R /\ loc[w].product = p)
    <2>1. ItemsOf(R, p)' = I
      BY <1>2, <1>5, <1>6, <1>9 DEF ItemsOf
    <2>2. Units(items, ItemsOf(R, p))' = Units(Append(items, e), I)
      BY <1>3, <2>1 DEF Units
    <2>. QED  BY <1>6, <1>7, <1>9, <2>2
  <1>. QED  BY <1>8, <1>9

(* An insertion turns a promise into an item; it makes no other request    *)
(* pass.                                                                   *)
LEMMA InsertTaken ==
    ASSUME OInv, IInv', NEW w \in Workers, AddItemInsert(w), NEW o \in Orders, NEW p \in Products
    PROVE  OverAt(o, p)'
  <1>1. /\ IInv /\ OverAt(o, p) /\ loc[w] \in Locals /\ pc[w] = "insertItem"
        /\ loc[w].qty \in Nat /\ returns' = returns
        /\ returns[loc[w].ret].order = loc[w].order
    BY DEF OInv, IInv, TypeOK, Locals, AddItemInsert, LocsOrdered
  <1>2. /\ \A v \in Workers : v # w => pc'[v] = pc[v] /\ loc'[v] = loc[v]
        /\ pc'[w] \in {"effect", "idle"}
    BY DEF AddItemInsert, Goto, OInv, IInv, TypeOK
  <1>3. Promise(w, o, p)' = 0
    BY <1>2 DEF Promise, Passes
  <1>4. ASSUME NEW v \in Workers, v # w PROVE Promise(v, o, p)' <= Promise(v, o, p)
    <2>1. PICK R : R = loc[v].ids
      OBVIOUS
    <2>2. /\ Units(items, ItemsOf(R, p)) \in Nat /\ loc[v].qty \in Nat
          /\ ShippedLine(o, p) \in Nat
      BY <1>1, PartOfItems, BoundsAreNumbers DEF IInv, TypeOK, Locals
    <2>3. Units(items, ItemsOf(R, p)) <= Units(items, ItemsOf(R, p))'
          /\ Units(items, ItemsOf(R, p))' \in Nat
      BY <1>1, <2>2, ItemsInserted
    <2>4. Units(items, ItemsOf(loc[v].ids, p))' = Units(items, ItemsOf(R, p))'
      BY <1>2, <1>4, <2>1
    <2>5. ShippedLine(o, p)' = ShippedLine(o, p)
      BY DEF ShippedLine
    <2>6. Passes(v, o, p)' => Passes(v, o, p)
      BY <1>2, <1>4, <2>1, <2>2, <2>3, <2>4, <2>5 DEF Passes
    <2>. QED  BY <1>2, <1>4, <2>2, <2>6 DEF Promise
  <1>5. Live(o, p)' = Live(o, p) +
            (IF loc[w].ret \in LiveReturns(o) /\ loc[w].product = p THEN loc[w].qty ELSE 0)
    <2>1. PICK R : R = LiveReturns(o)
      OBVIOUS
    <2>2. LiveReturns(o)' = R
      BY <1>1, <2>1 DEF LiveReturns, ReturnsOf
    <2>3. Live(o, p)' = Units(items, ItemsOf(R, p))' /\ Live(o, p) = Units(items, ItemsOf(R, p))
      BY <2>1, <2>2 DEF Live
    <2>. QED  BY <1>1, <2>1, <2>3, ItemsInserted
  <1>6. CASE loc[w].order = o /\ loc[w].product = p
    <2>. DEFINE f == [v \in Workers |-> Promise(v, o, p)]
                g == [v \in Workers |-> Promise(v, o, p)']
    <2>1. /\ IsFiniteSet(Workers) /\ f \in [Workers -> Int] /\ g \in [Workers -> Int]
          /\ f[w] = loc[w].qty /\ g[w] = 0
          /\ \A v \in Workers : v # w => g[v] <= f[v]
      <3>1. f \in [Workers -> Int] /\ g \in [Workers -> Int]
        <4>1. \A v \in Workers : Promise(v, o, p) \in Nat /\ Promise(v, o, p)' \in Nat
          BY <1>1, TermTypes
        <4>. QED  BY <4>1
      <3>2. Promise(w, o, p) = loc[w].qty
        BY <1>1, <1>6 DEF Promise, Passes
      <3>. QED  BY <1>3, <1>4, <3>1, <3>2, ReturnsAssumption
    <2>2. Promised(o, p) = SumFunction(f) /\ Promised(o, p)' = SumFunction(g)
      BY DEF Promised
    <2>. HIDE DEF f, g
    <2>3. SumFunction(g) <= SumFunction(f) - f[w] + g[w]
      BY <2>1, SumFunctionLower
    <2>4. Promised(o, p)' <= Promised(o, p) - loc[w].qty
      BY <1>1, <2>1, <2>2, <2>3, TermTypes
    <2>5. Live(o, p)' <= Live(o, p) + loc[w].qty
      BY <1>1, <1>5, TermTypes
    <2>6. ShippedLine(o, p)' = ShippedLine(o, p) /\ Excess' = Excess
      BY DEF ShippedLine, Excess
    <2>7. /\ Live(o, p) \in Nat /\ Promised(o, p) \in Nat
          /\ Live(o, p)' \in Nat /\ Promised(o, p)' \in Nat
          /\ ShippedLine(o, p) \in Nat /\ Excess \in Int
      BY <1>1, TermTypes, BoundsAreNumbers
    <2>. QED  BY <1>1, <2>4, <2>5, <2>6, <2>7 DEF OverAt, Taken
  <1>7. CASE ~(loc[w].order = o /\ loc[w].product = p)
    <2>1. ~(loc[w].ret \in LiveReturns(o) /\ loc[w].product = p)
      BY <1>1, <1>7 DEF LiveReturns, ReturnsOf
    <2>2. Live(o, p)' <= Live(o, p) /\ 0 <= Promise(w, o, p)
      BY <1>1, <1>5, <2>1, TermTypes
    <2>. QED  BY <1>1, <1>3, <1>4, <2>2, TakenStays
  <1>. QED  BY <1>6, <1>7

(* A request that lists the returns either does not pass, or leaves room   *)
(* for its own quantity; each of the others promises no more than the      *)
(* largest one.                                                            *)
LEMMA ReturnsTaken ==
    ASSUME OInv, IInv', LocsOrdered', NEW w \in Workers, AddItemReturns(w),
           NEW o \in Orders, NEW p \in Products
    PROVE  OverAt(o, p)'
  <1>1. /\ IInv /\ OverAt(o, p) /\ loc[w] \in Locals /\ loc[w].qty \in Nat
        /\ returns' = returns /\ items' = items
    BY DEF OInv, IInv, TypeOK, Locals, AddItemReturns
  <1>2. /\ \A v \in Workers : v # w => pc'[v] = pc[v] /\ loc'[v] = loc[v]
        /\ pc'[w] = "sum" /\ loc'[w] = [loc[w] EXCEPT !.ids = LiveReturns(loc[w].order)]
    BY DEF AddItemReturns, Goto, OInv, IInv, TypeOK
  <1>3. /\ loc'[w].order = loc[w].order /\ loc'[w].product = loc[w].product
        /\ loc'[w].qty = loc[w].qty /\ loc'[w].ids = LiveReturns(loc[w].order)
    BY <1>1, <1>2 DEF Locals
  <1>4. Live(o, p)' = Live(o, p) /\ Live(o, p) \in Nat /\ ShippedLine(o, p)' = ShippedLine(o, p)
        /\ Excess' = Excess
    <2>1. Live(o, p) \in Nat
      BY <1>1, TermTypes
    <2>2. Live(o, p)' = Live(o, p)
      BY <1>1 DEF Live, Units, ItemsOf, LiveReturns, ReturnsOf
    <2>3. ShippedLine(o, p)' = ShippedLine(o, p) /\ Excess' = Excess
      BY DEF ShippedLine, Excess
    <2>. QED  BY <2>1, <2>2, <2>3
  <1>5. CASE ~Passes(w, o, p)'
    <2>1. Promise(w, o, p)' <= Promise(w, o, p)
      BY <1>1, <1>5, TermTypes DEF Promise
    <2>2. Live(o, p)' <= Live(o, p)
      BY <1>4
    <2>. QED  BY <1>1, <1>2, <2>1, <2>2, QuietTaken
  <1>6. CASE Passes(w, o, p)'
    <2>1. Live(o, p) + loc[w].qty <= ShippedLine(o, p)
      <3>1. loc[w].order = o /\ loc[w].product = p
        BY <1>3, <1>6 DEF Passes
      <3>2. Units(items, ItemsOf(loc[w].ids, p))' + loc'[w].qty <= ShippedLine(o, p)'
        BY <1>2, <1>6 DEF Passes
      <3>3. Units(items, ItemsOf(loc[w].ids, p))' = Live(o, p)
        BY <1>1, <1>3, <3>1 DEF Live, Units, ItemsOf
      <3>. QED  BY <1>3, <1>4, <3>2, <3>3
    <2>. DEFINE g == [v \in Workers |-> Promise(v, o, p)']
    <2>2. g \in [Workers -> Int] /\ IsFiniteSet(Workers) /\ Promised(o, p)' \in Nat
      <3>1. Promised(o, p)' \in Nat /\ \A v \in Workers : Promise(v, o, p)' \in Nat
        BY TermTypes
      <3>. QED  BY <3>1, ReturnsAssumption
    <2>3. Max(Qtys) \in Int /\ \A v \in Workers : g[v] <= Max(Qtys)
      <3>1. Max(Qtys) \in Nat /\ \A q \in Qtys : q \in Nat /\ q <= Max(Qtys)
        BY BoundsAreNumbers
      <3>2. \A v \in Workers : Passes(v, o, p)' => loc'[v].qty \in Qtys
        BY DEF Passes, LocsOrdered
      <3>. QED  BY <3>1, <3>2 DEF Promise
    <2>4. g[w] = loc[w].qty /\ Promised(o, p)' = SumFunction(g)
      BY <1>3, <1>6 DEF Promise, Promised
    <2>. HIDE DEF g
    <2>5. SumFunction(g) <= g[w] + (Cardinality(Workers) - 1) * Max(Qtys)
      BY <2>2, <2>3, SumFunctionOthers
    <2>6. Promised(o, p)' <= loc[w].qty + Excess /\ Excess \in Int /\ ShippedLine(o, p) \in Nat
      BY <2>4, <2>5, BoundsAreNumbers DEF Excess
    <2>7. Taken(o, p)' <= ShippedLine(o, p) + Excess
      BY <1>1, <1>4, <2>1, <2>2, <2>6 DEF Taken
    <2>. QED  BY <1>4, <2>7 DEF OverAt
  <1>. QED  BY <1>5, <1>6

(* The status of a return changes: what was cancelled no longer counts.    *)
LEMMA StatusTaken ==
    ASSUME OInv, IInv', NEW r \in DOMAIN returns, NEW to \in ReturnStatuses,
           UpdateStatus(r, "OPEN", to)
    PROVE  LocsOrdered' /\ \A o \in Orders, p \in Products : OverAt(o, p)'
  <1>1. IInv /\ returns[r] \in Return /\ returns[r].status = "OPEN"
    BY DocumentAt DEF OInv, IInv, TypeOK, UpdateStatus, CasMatches
  <1>2. [returns[r] EXCEPT !.status = to] \in Return
    BY <1>1 DEF Return
  <1>3. returns' = [returns EXCEPT ![r] = [returns[r] EXCEPT !.status = to]]
    BY DEF UpdateStatus
  <1>4. /\ DOMAIN returns' = DOMAIN returns
        /\ \A d \in DOMAIN returns :
              returns'[d] = IF d = r THEN [returns[r] EXCEPT !.status = to] ELSE returns[d]
    BY <1>2, <1>3, ReplaceDocument DEF OInv, IInv, TypeOK
  <1>5. \A d \in DOMAIN returns : returns'[d].order = returns[d].order
    BY <1>1, <1>4 DEF Return
  <1>6. items' = items /\ pc' = pc /\ loc' = loc
    BY DEF UpdateStatus
  <1>7. LocsOrdered'
    BY <1>5, <1>6 DEF OInv, LocsOrdered, IInv, LocsValid
  <1>8. ASSUME NEW o \in Orders, NEW p \in Products PROVE OverAt(o, p)'
    <2>1. LiveReturns(o)' \subseteq LiveReturns(o)
      BY <1>1, <1>4, <1>5 DEF LiveReturns, ReturnsOf
    <2>2. PICK S, T : S = ItemsOf(LiveReturns(o), p) /\ T = ItemsOf(LiveReturns(o), p)'
      OBVIOUS
    <2>3. S \in SUBSET DOMAIN items /\ T \subseteq S /\ items \in Seq(ReturnItem)
      BY <1>1, <1>6, <2>1, <2>2 DEF ItemsOf, IInv, TypeOK
    <2>. DEFINE f == [i \in S |-> items[i].qty]
                g == [i \in T |-> items[i].qty]
    <2>4. IsFiniteSet(S) /\ f \in [S -> Nat] /\ g \in [T -> Nat] /\ \A i \in T : g[i] = f[i]
      <3>1. IsFiniteSet(S) /\ f \in [S -> Nat]
        BY <2>3, UnitsType
      <3>2. g \in [T -> Nat]
        BY <2>3, UnitsType
      <3>. QED  BY <2>3, <3>1, <3>2
    <2>5. Live(o, p) = SumFunction(f) /\ Live(o, p)' = SumFunction(g)
      BY <1>6, <2>2 DEF Live, Units
    <2>. HIDE DEF f, g
    <2>6. Live(o, p)' <= Live(o, p)
      <3>1. T \subseteq S
        BY <2>3
      <3>2. SumFunction(g) <= SumFunction(f)
        BY ONLY <2>4, <3>1, SumFunctionPart
      <3>. QED  BY <2>5, <3>2
    <2>7. ASSUME NEW v \in Workers PROVE Promise(v, o, p)' <= Promise(v, o, p)
      <3>1. Promise(v, o, p)' = Promise(v, o, p)
        BY <1>6 DEF Promise, Passes, ItemsOf, Units, ShippedLine
      <3>2. Promise(v, o, p) \in Nat
        BY <1>1, TermTypes
      <3>. QED  BY <3>1, <3>2
    <2>. QED  BY <1>1, <2>6, <2>7, TakenStays DEF OInv
  <1>. QED  BY <1>7, <1>8

(* A new return has no items: it adds nothing to what came back.           *)
LEMMA CreateTaken ==
    ASSUME OInv, IInv', NEW w \in Workers, CreateInsert(w)
    PROVE  LocsOrdered' /\ \A o \in Orders, p \in Products : OverAt(o, p)'
  <1>1. IInv /\ loc[w] \in Locals /\ loc[w].no \in 1..seq /\ seq \in Nat
    BY DEF OInv, IInv, TypeOK, NumbersTaken, Waiting, CreateInsert
  <1>2. NewReturn(loc[w].order, loc[w].no) \in Return
    BY <1>1 DEF NewReturn, Return, Locals, ReturnStatuses
  <1>3. PICK x \in Nat : x = Len(returns) + 1
    BY LenProperties DEF OInv, IInv, TypeOK
  <1>4. /\ DOMAIN returns' = DOMAIN returns \cup {x} /\ x \notin DOMAIN returns
        /\ \A d \in DOMAIN returns : returns'[d] = returns[d]
    BY <1>2, <1>3, AppendDocument DEF OInv, IInv, TypeOK, CreateInsert
  <1>5. /\ items' = items
        /\ \A v \in Workers : v # w => pc'[v] = pc[v] /\ loc'[v] = loc[v]
        /\ pc'[w] = "idle"
    BY DEF CreateInsert, Finish, Goto, OInv, IInv, TypeOK
  <1>6. LocsOrdered'
    BY <1>4, <1>5 DEF OInv, LocsOrdered, IInv, LocsValid
  <1>7. ASSUME NEW o \in Orders, NEW p \in Products PROVE OverAt(o, p)'
    <2>1. ItemsOf(LiveReturns(o), p)' = ItemsOf(LiveReturns(o), p)
      <3>1. \A d \in DOMAIN returns : d \in LiveReturns(o)' <=> d \in LiveReturns(o)
        BY <1>4 DEF LiveReturns, ReturnsOf
      <3>2. \A i \in DOMAIN items : items[i].ret \in DOMAIN returns
        BY <1>1 DEF IInv, TypeOK
      <3>. QED  BY <1>5, <3>1, <3>2 DEF ItemsOf
    <2>2. Live(o, p)' = Live(o, p)
      BY <1>5, <2>1 DEF Live, Units
    <2>3. Live(o, p)' <= Live(o, p)
      BY <1>1, <2>2, TermTypes
    <2>4. Promise(w, o, p)' <= Promise(w, o, p)
      <3>1. Promise(w, o, p)' = 0
        BY <1>5 DEF Promise, Passes
      <3>. QED  BY <1>1, <3>1, TermTypes
    <2>. QED  BY <1>1, <1>5, <2>3, <2>4, QuietTaken DEF OInv
  <1>. QED  BY <1>6, <1>7

(* A step that writes no return and no item and promises nothing new.      *)
LEMMA MoveTaken ==
    ASSUME OInv, IInv', NEW w \in Workers, UNCHANGED <<returns, items>>,
           \A v \in Workers : v # w => pc'[v] = pc[v] /\ loc'[v] = loc[v],
           \/ pc'[w] \notin {"openReturns", "sum", "insertItem"}
           \/ /\ pc'[w] = "openReturns"
              /\ returns[loc'[w].ret].order = loc'[w].order /\ loc'[w].qty \in Qtys
           \/ /\ pc[w] = "sum" /\ pc'[w] = "insertItem" /\ loc'[w] = loc[w]
              /\ \A o \in Orders, p \in Products :
                    loc[w].order = o /\ loc[w].product = p => Passes(w, o, p)
    PROVE  LocsOrdered' /\ \A o \in Orders, p \in Products : OverAt(o, p)'
  <1>1. LocsOrdered'
    BY DEF OInv, LocsOrdered
  <1>2. ASSUME NEW o \in Orders, NEW p \in Products PROVE OverAt(o, p)'
    <2>1. Live(o, p)' <= Live(o, p)
      <3>1. Live(o, p)' = Live(o, p)
        BY DEF Live, Units, ItemsOf, LiveReturns, ReturnsOf
      <3>. QED  BY <3>1, TermTypes DEF OInv
    <2>2. Promise(w, o, p) \in Nat
      BY TermTypes DEF OInv
    <2>3. Promise(w, o, p)' <= Promise(w, o, p)
      <3>1. CASE pc'[w] \notin {"sum", "insertItem"}
        BY <2>2, <3>1 DEF Promise, Passes
      <3>2. CASE /\ pc[w] = "sum" /\ pc'[w] = "insertItem" /\ loc'[w] = loc[w]
                 /\ loc[w].order = o /\ loc[w].product = p => Passes(w, o, p)
        <4>1. Passes(w, o, p)' => Passes(w, o, p)
          BY <3>2 DEF Passes
        <4>. QED  BY <2>2, <3>2, <4>1 DEF Promise
      <3>. QED  BY <3>1, <3>2
    <2>. QED  BY <2>1, <2>3, QuietTaken DEF OInv
  <1>. QED  BY <1>1, <1>2

LEMMA WorkerTaken ==
    ASSUME OInv, IInv', NEW w \in Workers, WorkerStep(w)
    PROVE  OInv'
  <1>0. loc[w] \in Locals /\ NoLocals \in Locals /\ pc \in [Workers -> Labels]
        /\ loc \in [Workers -> Locals]
    BY NoLocalsType DEF OInv, IInv, TypeOK
  <1>1. CASE CreateInsert(w)
    BY <1>1, CreateTaken DEF OInv
  <1>2. ASSUME NEW r \in DOMAIN returns, NEW p \in Products, NEW q \in Qtys,
               NEW d \in Dispositions, AddItemRead(w, r, p, q, d)
        PROVE OInv'
    <2>. DEFINE l == [NoLocals EXCEPT !.order = returns[r].order, !.ret = r,
                                      !.product = p, !.qty = q, !.disp = d]
    <2>1. l.order = returns[r].order /\ l.ret = r /\ l.qty = q
      BY <1>0 DEF Locals
    <2>2. /\ \A v \in Workers : v # w => pc'[v] = pc[v] /\ loc'[v] = loc[v]
          /\ pc'[w] = "openReturns" /\ loc'[w] = l /\ returns' = returns /\ items' = items
      BY <1>0, <1>2 DEF AddItemRead, Goto
    <2>. HIDE DEF l
    <2>. QED  BY <2>1, <2>2, MoveTaken DEF OInv
  <1>3. CASE AddItemReturns(w)
    <2>1. /\ returns' = returns /\ pc[w] = "openReturns"
          /\ \A v \in Workers : v # w => pc'[v] = pc[v] /\ loc'[v] = loc[v]
          /\ loc'[w] = [loc[w] EXCEPT !.ids = LiveReturns(loc[w].order)]
      BY <1>0, <1>3 DEF AddItemReturns, Goto
    <2>2. loc'[w].order = loc[w].order /\ loc'[w].ret = loc[w].ret /\ loc'[w].qty = loc[w].qty
      BY <1>0, <2>1 DEF Locals
    <2>3. LocsOrdered'
      <3>1. LocsOrdered
        BY DEF OInv
      <3>2. ASSUME NEW v \in Workers, pc'[v] \in {"openReturns", "sum", "insertItem"}
            PROVE  returns'[loc'[v].ret].order = loc'[v].order /\ loc'[v].qty \in Qtys
        <4>1. CASE v = w
          BY <2>1, <2>2, <3>1, <4>1 DEF LocsOrdered
        <4>2. CASE v # w
          BY <2>1, <3>1, <3>2, <4>2 DEF LocsOrdered
        <4>. QED  BY <4>1, <4>2
      <3>. QED  BY <3>2 DEF LocsOrdered
    <2>. QED  BY <1>3, <2>3, ReturnsTaken DEF OInv
  <1>4. CASE AddItemSum(w)
    <2>1. /\ returns' = returns /\ items' = items /\ pc[w] = "sum"
          /\ \A v \in Workers : v # w => pc'[v] = pc[v] /\ loc'[v] = loc[v]
      BY <1>0, <1>4 DEF AddItemSum, Finish, Goto
    <2>2. CASE SumReturned(loc[w].ids, loc[w].product) + loc[w].qty
                   > ShippedLine(loc[w].order, loc[w].product)
      <3>1. pc'[w] = "idle"
        BY <1>0, <1>4, <2>2 DEF AddItemSum, Finish, Goto
      <3>. QED  BY <2>1, <3>1, MoveTaken DEF OInv
    <2>3. CASE ~(SumReturned(loc[w].ids, loc[w].product) + loc[w].qty
                   > ShippedLine(loc[w].order, loc[w].product))
      <3>1. pc'[w] = "insertItem" /\ loc'[w] = loc[w]
        BY <1>0, <1>4, <2>3 DEF AddItemSum, Finish, Goto
      <3>2. ASSUME NEW o \in Orders, NEW p \in Products, loc[w].order = o, loc[w].product = p
            PROVE  Passes(w, o, p)
        <4>1. /\ Units(items, ItemsOf(loc[w].ids, p)) \in Nat /\ loc[w].qty \in Nat
              /\ ShippedLine(o, p) \in Nat
          BY <1>0, PartOfItems, BoundsAreNumbers DEF OInv, IInv, Locals
        <4>2. SumReturned(loc[w].ids, p) = Units(items, ItemsOf(loc[w].ids, p))
          BY DEF SumReturned, QtyOf, Units
        <4>. QED  BY <2>1, <2>3, <3>2, <4>1, <4>2 DEF Passes
      <3>. QED  BY <2>1, <3>1, <3>2, MoveTaken DEF OInv
    <2>. QED  BY <2>2, <2>3
  <1>5. CASE AddItemInsert(w)
    <2>1. \A o \in Orders, p \in Products : OverAt(o, p)'
      BY <1>5, InsertTaken
    <2>2. LocsOrdered'
      BY <1>0, <1>5 DEF AddItemInsert, Goto, OInv, LocsOrdered
    <2>. QED  BY <2>1, <2>2 DEF OInv
  <1>6. CASE \/ \E o \in Orders : CreateRead(w, o)
             \/ CreateNumber(w) \/ AddItemEffect(w) \/ Abandon(w)
    <2>1. /\ returns' = returns /\ items' = items
          /\ \A v \in Workers : v # w => pc'[v] = pc[v] /\ loc'[v] = loc[v]
          /\ pc'[w] \in {"nextNo", "insertReturn", "idle"}
      BY <1>0, <1>6 DEF CreateRead, CreateNumber, AddItemEffect, Abandon, Finish, Goto
    <2>. QED  BY <2>1, MoveTaken DEF OInv
  <1>. QED  BY <1>1, <1>2, <1>3, <1>4, <1>5, <1>6 DEF WorkerStep

LEMMA InitOInv == Init => OInv
  <1>. SUFFICES ASSUME Init PROVE OInv
    OBVIOUS
  <1>1. IInv
    BY InitIInv
  <1>2. LocsOrdered
    BY DEF Init, LocsOrdered
  <1>3. ASSUME NEW o \in Orders, NEW p \in Products PROVE OverAt(o, p)
    <2>1. \A v \in Workers : Promise(v, o, p) = 0
      BY DEF Init, Promise, Passes
    <2>. DEFINE f == [v \in Workers |-> Promise(v, o, p)]
                g == [i \in ItemsOf(LiveReturns(o), p) |-> items[i].qty]
    <2>2. f \in [Workers -> Int] /\ \A v \in Workers : f[v] = 0
      BY <2>1
    <2>3. SumFunction(f) = 0
      <3>. HIDE DEF f
      <3>. QED  BY <2>2, SumFunctionZero, ReturnsAssumption
    <2>4. ItemsOf(LiveReturns(o), p) = {}
      BY EmptySeq DEF Init, ItemsOf
    <2>5. PICK S : S = ItemsOf(LiveReturns(o), p)
      OBVIOUS
    <2>6. IsFiniteSet(S) /\ [i \in S |-> items[i].qty] \in [S -> Int]
          /\ \A x \in S : [i \in S |-> items[i].qty][x] = 0
      BY <2>4, <2>5, FS_EmptySet
    <2>7. SumFunction([i \in S |-> items[i].qty]) = 0
      BY <2>6, SumFunctionZero
    <2>. QED  BY <2>3, <2>5, <2>7 DEF OverAt, Taken, Live, Units, Promised
  <1>. QED  BY <1>1, <1>2, <1>3 DEF OInv

LEMMA StepOInv == OInv /\ [Next]_vars => OInv'
  <1>. SUFFICES ASSUME OInv, [Next]_vars PROVE OInv'
    OBVIOUS
  <1>1. IInv'
    BY StepIInv DEF OInv
  <1>2. ASSUME NEW w \in Workers, WorkerStep(w) PROVE OInv'
    BY <1>1, <1>2, WorkerTaken
  <1>3. ASSUME NEW r \in DOMAIN returns, Receive(r) \/ Cancel(r) PROVE OInv'
    BY <1>1, <1>3, StatusTaken DEF OInv, Receive, Cancel, ReturnStatuses
  <1>4. ASSUME UNCHANGED <<returns, items, pc, loc>> PROVE OInv'
    <2>1. LocsOrdered'
      BY <1>4 DEF OInv, LocsOrdered
    <2>2. ASSUME NEW o \in Orders, NEW p \in Products PROVE OverAt(o, p)'
      <3>1. Live(o, p)' = Live(o, p) /\ \A v \in Workers : Promise(v, o, p)' = Promise(v, o, p)
        BY <1>4 DEF Live, Promise, Passes, Units, ItemsOf, LiveReturns, ReturnsOf, ShippedLine
      <3>2. Live(o, p) \in Nat /\ \A v \in Workers : Promise(v, o, p) \in Nat
        BY TermTypes DEF OInv
      <3>3. Live(o, p)' <= Live(o, p) /\ \A v \in Workers : Promise(v, o, p)' <= Promise(v, o, p)
        BY <3>1, <3>2
      <3>. QED  BY <1>1, <3>3, TakenStays DEF OInv
    <2>. QED  BY <1>1, <2>1, <2>2 DEF OInv
  <1>5. ASSUME NEW o \in Orders, ShipOrder(o) PROVE OInv'
    BY <1>4, <1>5 DEF ShipOrder
  <1>6. CASE UNCHANGED vars
    BY <1>4, <1>6 DEF vars
  <1>. QED  BY <1>2, <1>3, <1>5, <1>6 DEF Next

(* However many requests add items at once, and whatever is received,      *)
(* cancelled or opened between their reads and their inserts: what comes   *)
(* back of a product exceeds the shipped quantity by less than one request *)
(* a worker.  What counts are the promises: the quantities of the requests *)
(* that the guard has let through, or would let through.                   *)
THEOREM OverReturnIsBounded == Spec => []OverReturnBounded
  <1>1. OInv => OverReturnBounded
    <2>. SUFFICES ASSUME OInv, NEW o \in Orders, NEW p \in Products
                  PROVE  Live(o, p) = 0 \/ Live(o, p) <= ShippedLine(o, p) + Excess
      BY DEF OverReturnBounded, Live, LiveReturns, SumReturned, QtyOf, Units, Excess
    <2>1. Live(o, p) \in Nat /\ Promised(o, p) \in Nat
      BY TermTypes DEF OInv
    <2>2. ShippedLine(o, p) \in Nat /\ Excess \in Int
      BY BoundsAreNumbers
    <2>. QED  BY <2>1, <2>2 DEF OInv, OverAt, Taken
  <1>. QED  BY <1>1, InitOInv, StepOInv, PTL DEF Spec

=============================================================================

------------------------ MODULE AdministrationProofs ------------------------
(***************************************************************************)
(* For every set of goroutines, accounts, codes, places and forms, every   *)
(* size of the queue and number of attempts, with or without failures: the *)
(* types and the uniqueness of the defaults, the deletion of warehouses,   *)
(* the default of an account, the agreement of the list that administrators*)
(* are shown with WarehouseContext, the repetition of alerts and the       *)
(* Telegram token.                                                         *)
(***************************************************************************)
EXTENDS Administration, Collections

-----------------------------------------------------------------------------
(* What a goroutine carries to each of its steps; dom are the ids of the   *)
(* warehouses.                                                             *)

Carries(label, l, dom) ==
    /\ label \in {"ensureAdmin", "insertAdmin", "updateAdmin", "backfillLocations"} =>
           l.id \in WarehouseIds
    /\ label \in {"backfillUsers", "backfillWarehouses"} => l.id \in Nat
    /\ label = "insertWarehouse" => l.code \in Codes /\ l.tenant \in Nat
    /\ label = "setCode" => l.id \in dom /\ l.code \in Codes
    /\ label = "deleteWarehouse" => l.id \in dom
    /\ label = "insertLocation" => l.doc \in Location
    /\ label = "insertUser" =>
           /\ l.name \in Accounts /\ l.doc \in User
           /\ l.doc.state = "live" /\ l.doc.default = 0
    /\ label = "updateUser" => l.name \in Names /\ l.update.doc \in User
    /\ label = "writeSettings" => l.doc \in Settings /\ l.typed \in Nat
    /\ label \in {"digestSend", "digestMark"} => l.day \in Days /\ l.cli \in BOOLEAN

Runs ==
    /\ pc = [w \in Workers |-> pc[w]]
    /\ loc = [w \in Workers |-> loc[w]]
    /\ faults \in Nat
    /\ \A w \in Workers : Carries(pc[w], loc[w], DOMAIN warehouses)

AlertsTyped ==
    /\ AlertsTypeOK
    /\ lastTyped \in Nat
    /\ lowSent \in Nat
    /\ digests \in [Days -> [forced: Nat, sent: Nat, delivered: Nat]]

Typing == Runs /\ AccessTypeOK /\ AlertsTyped

-----------------------------------------------------------------------------
(* Steps of a goroutine.                                                   *)

LEMMA Entering ==
    ASSUME Runs, NEW w \in Workers, NEW label, NEW l, NEW kind, NEW window,
           Enter(w, label, l, kind, window)
    PROVE  /\ pc' = [v \in Workers |-> pc'[v]]
           /\ loc' = [v \in Workers |-> loc'[v]]
           /\ pc'[w] = label /\ loc'[w] = l
           /\ \A v \in Workers : v # w => pc'[v] = pc[v] /\ loc'[v] = loc[v]
           /\ \A k : k \in overlapped' <=>
                 (k \in overlapped \/ (k = kind /\ \E v \in Workers \ {w} : pc[v] \in window))
  BY DEF Runs, Enter

(* Going on without a check.                                               *)
LEMMA GoingOn ==
    ASSUME Runs, NEW w \in Workers, NEW label, NEW l, Goto(w, label, l)
    PROVE  /\ pc' = [v \in Workers |-> pc'[v]]
           /\ loc' = [v \in Workers |-> loc'[v]]
           /\ pc'[w] = label /\ loc'[w] = l
           /\ \A v \in Workers : v # w => pc'[v] = pc[v] /\ loc'[v] = loc[v]
           /\ overlapped' = overlapped
  BY Entering DEF Goto, Runs, Enter

LEMMA EnteringRuns ==
    ASSUME Runs, NEW w \in Workers, NEW label, NEW l, NEW kind, NEW window,
           Enter(w, label, l, kind, window), faults' \in Nat,
           DOMAIN warehouses \subseteq DOMAIN warehouses',
           Carries(label, l, DOMAIN warehouses')
    PROVE  Runs'
  <1>1. /\ pc' = [v \in Workers |-> pc'[v]]
        /\ loc' = [v \in Workers |-> loc'[v]]
        /\ pc'[w] = label /\ loc'[w] = l
        /\ \A v \in Workers : v # w => pc'[v] = pc[v] /\ loc'[v] = loc[v]
    BY Entering
  <1>2. ASSUME NEW v \in Workers PROVE Carries(pc'[v], loc'[v], DOMAIN warehouses')
    BY <1>1 DEF Runs, Carries
  <1>. QED  BY <1>1, <1>2 DEF Runs

LEMMA GoingOnRuns ==
    ASSUME Runs, NEW w \in Workers, NEW label, NEW l, Goto(w, label, l), faults' \in Nat,
           DOMAIN warehouses \subseteq DOMAIN warehouses',
           Carries(label, l, DOMAIN warehouses')
    PROVE  Runs'
  BY EnteringRuns DEF Goto

LEMMA FinishingRuns ==
    ASSUME Runs, NEW w \in Workers, Finish(w), faults' \in Nat,
           DOMAIN warehouses \subseteq DOMAIN warehouses'
    PROVE  Runs'
  <1>1. Carries("idle", Nothing, DOMAIN warehouses')
    BY DEF Carries
  <1>. QED  BY <1>1, GoingOnRuns DEF Finish

LEMMA FaultsGrow ==
    ASSUME faults \in Nat, UNCHANGED faults \/ Fails
    PROVE  faults' \in Nat /\ faults <= faults'
  BY DEF Fails

-----------------------------------------------------------------------------
(* Documents.                                                              *)

LEMMA Ids ==
    ASSUME AccessTypeOK
    PROVE  /\ DOMAIN warehouses = 1..Len(warehouses)
           /\ Len(warehouses) \in Nat /\ Len(warehouses) <= MaxWarehouses
           /\ DOMAIN warehouses \subseteq WarehouseIds
           /\ DOMAIN warehouses \subseteq 1 .. MaxWarehouses
           /\ DOMAIN tenants = 1..Len(tenants) /\ Len(tenants) \in Nat
           /\ \A i \in DOMAIN warehouses : warehouses[i] \in Warehouse
           /\ 0 \in WarehouseIds /\ Len(warehouses) \in WarehouseIds
  <1>1. /\ DOMAIN warehouses = 1..Len(warehouses) /\ Len(warehouses) \in Nat
        /\ DOMAIN tenants = 1..Len(tenants) /\ Len(tenants) \in Nat
    BY Positions DEF AccessTypeOK
  <1>2. \A i \in DOMAIN warehouses : warehouses[i] \in Warehouse
    BY DocumentAt DEF AccessTypeOK
  <1>. QED  BY <1>1, <1>2, AccessAssumption DEF AccessTypeOK, WarehouseIds

LEMMA FirstOfIds ==
    ASSUME NEW T, T \subseteq Nat
    PROVE  /\ FirstOf(T) = 0 => T = {} \/ 0 \in T
           /\ FirstOf(T) # 0 => FirstOf(T) \in T
           /\ T = {} => FirstOf(T) = 0
           /\ T # {} => FirstOf(T) \in T
  BY MinIsLeast DEF FirstOf

LEMMA InsertedWarehouse ==
    ASSUME AccessTypeOK, NEW doc \in Warehouse, InsertWarehouse(doc)
    PROVE  /\ warehouses' \in Seq(Warehouse)
           /\ Len(warehouses') <= MaxWarehouses
           /\ Len(warehouses') = Len(warehouses) + 1
           /\ Len(warehouses') \in WarehouseIds
           /\ DOMAIN warehouses \subseteq DOMAIN warehouses'
           /\ DOMAIN warehouses' = DOMAIN warehouses \cup {Len(warehouses')}
           /\ \A i \in DOMAIN warehouses : warehouses'[i] = warehouses[i]
           /\ warehouses'[Len(warehouses')] = doc
  <1>1. PICK n \in Nat : n = Len(warehouses)
    BY Ids
  <1>2. warehouses \in Seq(Warehouse) /\ warehouses' = Append(warehouses, doc) /\ n < MaxWarehouses
    BY <1>1 DEF AccessTypeOK, InsertWarehouse
  <1>3. /\ warehouses' \in Seq(Warehouse)
        /\ DOMAIN warehouses' = 1..(n + 1)
        /\ DOMAIN warehouses = 1..n
        /\ \A i \in DOMAIN warehouses : warehouses'[i] = warehouses[i]
        /\ warehouses'[n + 1] = doc
    BY <1>1, <1>2, AppendDocument
  <1>4. Len(warehouses') = n + 1
    BY <1>1, <1>2, <1>3, AppendProperties
  <1>. QED  BY <1>1, <1>2, <1>3, <1>4, AccessAssumption DEF WarehouseIds

LEMMA ChangedWarehouse ==
    ASSUME AccessTypeOK, NEW i \in DOMAIN warehouses, NEW doc \in Warehouse,
           warehouses' = [warehouses EXCEPT ![i] = doc]
    PROVE  /\ warehouses' \in Seq(Warehouse)
           /\ Len(warehouses') = Len(warehouses)
           /\ DOMAIN warehouses' = DOMAIN warehouses
           /\ \A j \in DOMAIN warehouses : warehouses'[j] = IF j = i THEN doc ELSE warehouses[j]
  <1>1. warehouses \in Seq(Warehouse)
    BY DEF AccessTypeOK
  <1>2. i \in 1..Len(warehouses)
    BY <1>1, LenProperties
  <1>. QED  BY <1>1, <1>2, ReplaceDocument, ExceptSeq
-----------------------------------------------------------------------------
(* The types of the documents.                                             *)

AccessState == Runs /\ AccessTypeOK

LEMMA SameDocuments ==
    ASSUME AccessTypeOK, UNCHANGED documents
    PROVE  /\ AccessTypeOK'
           /\ DOMAIN warehouses' = DOMAIN warehouses
           /\ DOMAIN warehouses \subseteq DOMAIN warehouses'
  BY DEF AccessTypeOK, documents

LEMMA StartUpTyping ==
    ASSUME AccessState, NEW w \in Workers, StartUp(w)
    PROVE  AccessState'
  <1>0. /\ Runs /\ AccessTypeOK /\ faults \in Nat
        /\ Carries(pc[w], loc[w], DOMAIN warehouses)
    BY DEF AccessState, Runs
  <1>1. CASE StartProcess(w)
    <2>1. Carries("findTenant", Nothing, DOMAIN warehouses')
      BY DEF Carries
    <2>. QED  BY <1>0, <1>1, <2>1, SameDocuments, GoingOnRuns DEF StartProcess, AccessState
  <1>2. CASE FindTenant(w)
    <2>1. /\ Carries("insertTenant", Nothing, DOMAIN warehouses')
          /\ Carries("findWarehouse", Nothing, DOMAIN warehouses')
      BY DEF Carries
    <2>2. faults' \in Nat
      BY <1>0, <1>2, FaultsGrow DEF FindTenant, Found
    <2>3. UNCHANGED documents
      BY <1>2 DEF FindTenant
    <2>4. \/ Enter(w, "insertTenant", Nothing, "tenant", TenantInserts)
          \/ Goto(w, "findWarehouse", Nothing)
      BY <1>2 DEF FindTenant
    <2>. QED  BY <1>0, <2>1, <2>2, <2>3, <2>4, SameDocuments, EnteringRuns, GoingOnRuns DEF AccessState
  <1>3. CASE InsertTenant(w)
    <2>1. Carries("findWarehouse", Nothing, DOMAIN warehouses')
      BY DEF Carries
    <2>2. faults' \in Nat
      BY <1>0, <1>3, FaultsGrow DEF InsertTenant
    <2>3. tenants' \in Seq(TenantCodes)
      <3>1. tenants \in Seq(TenantCodes) /\ "TEN-DEFAULT" \in TenantCodes
        BY <1>0 DEF AccessTypeOK, TenantCodes
      <3>. QED  BY <1>3, <3>1, AppendDocument DEF InsertTenant
    <2>4. AccessTypeOK' /\ DOMAIN warehouses \subseteq DOMAIN warehouses'
      BY <1>0, <1>3, <2>3 DEF InsertTenant, AccessTypeOK
    <2>. QED  BY <1>0, <1>3, <2>1, <2>2, <2>4, GoingOnRuns DEF InsertTenant, AccessState
  <1>4. CASE FindWarehouse(w)
    <2>1. PICK i \in WarehouseIds :
             /\ Found(DefaultWarehouse, i)
             /\ IF i = 0
                THEN Enter(w, "insertDefault", Nothing, "warehouse", DefaultInserts)
                ELSE Goto(w, "ensureAdmin", [kind |-> "id", id |-> i])
      BY <1>4 DEF FindWarehouse
    <2>2. /\ Carries("insertDefault", Nothing, DOMAIN warehouses')
          /\ Carries("ensureAdmin", [kind |-> "id", id |-> i], DOMAIN warehouses')
      BY DEF Carries
    <2>3. faults' \in Nat
      BY <1>0, <2>1, FaultsGrow DEF Found
    <2>4. UNCHANGED documents
      BY <1>4 DEF FindWarehouse
    <2>. QED  BY <1>0, <2>1, <2>2, <2>3, <2>4, SameDocuments, EnteringRuns, GoingOnRuns DEF AccessState
  <1>5. CASE InsertDefault(w)
    <2>1. CASE /\ InsertWarehouse(NewWarehouse("WH-DEFAULT", 0, TRUE))
               /\ Goto(w, "ensureAdmin", [kind |-> "id", id |-> Len(warehouses')])
               /\ UNCHANGED faults
      <3>1. NewWarehouse("WH-DEFAULT", 0, TRUE) \in Warehouse
        BY DEF NewWarehouse, Warehouse
      <3>2. /\ warehouses' \in Seq(Warehouse) /\ Len(warehouses') <= MaxWarehouses
            /\ Len(warehouses') \in WarehouseIds
            /\ DOMAIN warehouses \subseteq DOMAIN warehouses'
        BY <1>0, <2>1, <3>1, InsertedWarehouse
      <3>3. AccessTypeOK'
        BY <1>0, <1>5, <3>2 DEF InsertDefault, AccessTypeOK
      <3>4. PICK n \in WarehouseIds : n = Len(warehouses')
        BY <3>2
      <3>5. Carries("ensureAdmin", [kind |-> "id", id |-> n], DOMAIN warehouses')
        BY DEF Carries
      <3>6. Goto(w, "ensureAdmin", [kind |-> "id", id |-> n])
        BY <2>1, <3>4
      <3>7. faults' \in Nat
        BY <1>0, <2>1
      <3>. QED  BY <1>0, <3>2, <3>3, <3>5, <3>6, <3>7, GoingOnRuns DEF AccessState
    <2>2. CASE /\ Fails
               /\ Goto(w, "ensureAdmin", [kind |-> "id", id |-> 0])
               /\ UNCHANGED warehouses
      <3>1. Carries("ensureAdmin", [kind |-> "id", id |-> 0], DOMAIN warehouses')
        BY <1>0, Ids DEF Carries
      <3>2. UNCHANGED documents /\ faults' \in Nat
        BY <1>0, <1>5, <2>2, FaultsGrow DEF InsertDefault, documents
      <3>. QED  BY <1>0, <2>2, <3>1, <3>2, SameDocuments, GoingOnRuns DEF AccessState
    <2>. QED  BY <1>5, <2>1, <2>2 DEF InsertDefault
  <1>6. CASE EnsureSuperAdmin(w)
    <2>1. PICK l : l = loc[w]
      OBVIOUS
    <2>2. UNCHANGED documents /\ faults' \in Nat
      BY <1>0, <1>6 DEF EnsureSuperAdmin
    <2>3. /\ Carries("insertAdmin", l, DOMAIN warehouses')
          /\ Carries("updateAdmin", l, DOMAIN warehouses')
      BY <1>0, <1>6, <2>1 DEF EnsureSuperAdmin, Carries, At
    <2>4. Goto(w, "insertAdmin", l) \/ Goto(w, "updateAdmin", l) \/ Finish(w)
      BY <1>6, <2>1 DEF EnsureSuperAdmin
    <2>. QED  BY <1>0, <2>2, <2>3, <2>4, SameDocuments, GoingOnRuns, FinishingRuns DEF AccessState
  <1>7. CASE InsertSuperAdmin(w) \/ UpdateSuperAdmin(w)
    <2>1. loc[w].id \in WarehouseIds
      BY <1>0, <1>7 DEF InsertSuperAdmin, UpdateSuperAdmin, Carries, At
    <2>2. users \in [Names -> User] /\ "superadmin" \in Names
      BY <1>0 DEF AccessTypeOK, Names
    <2>3. [state |-> "live", role |-> "superadmin", tenant |-> 0,
           allowed |-> {}, default |-> loc[w].id] \in User
      BY <2>1 DEF User, Roles
    <2>4. [users["superadmin"] EXCEPT !.default = loc[w].id] \in User
      BY <2>1, <2>2 DEF User
    <2>5. users' \in [Names -> User]
      BY <1>7, <2>2, <2>3, <2>4 DEF InsertSuperAdmin, UpdateSuperAdmin
    <2>6. AccessTypeOK' /\ DOMAIN warehouses \subseteq DOMAIN warehouses' /\ faults' \in Nat
      BY <1>0, <1>7, <2>5 DEF InsertSuperAdmin, UpdateSuperAdmin, AccessTypeOK
    <2>. QED  BY <1>0, <1>7, <2>6, FinishingRuns DEF InsertSuperAdmin, UpdateSuperAdmin, AccessState
  <1>. QED  BY <1>1, <1>2, <1>3, <1>4, <1>5, <1>6, <1>7 DEF StartUp
LEMMA InsertionTyping ==
    ASSUME AccessState, NEW doc \in Warehouse, InsertWarehouse(doc),
           UNCHANGED <<tenants, locations, users>>
    PROVE  /\ AccessTypeOK'
           /\ Len(warehouses') \in WarehouseIds
           /\ DOMAIN warehouses \subseteq DOMAIN warehouses'
  BY InsertedWarehouse DEF AccessState, AccessTypeOK

LEMMA MigrationTyping ==
    ASSUME AccessState, NEW w \in Workers, Migration(w)
    PROVE  AccessState'
  <1>0. /\ Runs /\ AccessTypeOK /\ faults \in Nat
        /\ Carries(pc[w], loc[w], DOMAIN warehouses)
    BY DEF AccessState, Runs
  <1>1. PICK l : l = loc[w]
    OBVIOUS
  <1>2. CASE MigrateTenant(w)
    <2>1. Carries("migrationFindTenant", Nothing, DOMAIN warehouses')
      BY DEF Carries
    <2>. QED  BY <1>0, <1>2, <2>1, SameDocuments, GoingOnRuns DEF MigrateTenant, AccessState
  <1>3. CASE MigrationFindTenant(w)
    <2>1. PICK t \in 0 .. Len(tenants) :
             /\ Found(DefaultTenant, t)
             /\ IF t = 0
                THEN Enter(w, "migrationInsertTenant", Nothing, "tenant", TenantInserts)
                ELSE Goto(w, "backfillUsers", [kind |-> "id", id |-> t])
      BY <1>3 DEF MigrationFindTenant
    <2>2. t \in Nat
      BY <1>0, Ids
    <2>3. /\ Carries("migrationInsertTenant", Nothing, DOMAIN warehouses')
          /\ Carries("backfillUsers", [kind |-> "id", id |-> t], DOMAIN warehouses')
      BY <2>2 DEF Carries
    <2>4. faults' \in Nat
      BY <1>0, <2>1, FaultsGrow DEF Found
    <2>5. UNCHANGED documents
      BY <1>3 DEF MigrationFindTenant
    <2>. QED  BY <1>0, <2>1, <2>3, <2>4, <2>5, SameDocuments, EnteringRuns, GoingOnRuns DEF AccessState
  <1>4. CASE MigrationInsertTenant(w)
    <2>1. /\ tenants \in Seq(TenantCodes) /\ "TEN-DEFAULT" \in TenantCodes
          /\ tenants' = Append(tenants, "TEN-DEFAULT")
      BY <1>0, <1>4 DEF AccessTypeOK, TenantCodes, MigrationInsertTenant
    <2>2. tenants' \in Seq(TenantCodes)
      BY <2>1, AppendDocument
    <2>3. PICK n \in Nat : n = Len(tenants')
      BY <2>2, LenProperties
    <2>4. Carries("backfillUsers", [kind |-> "id", id |-> n], DOMAIN warehouses')
      BY DEF Carries
    <2>5. AccessTypeOK' /\ DOMAIN warehouses \subseteq DOMAIN warehouses' /\ faults' \in Nat
      BY <1>0, <1>4, <2>2 DEF MigrationInsertTenant, AccessTypeOK
    <2>6. Goto(w, "backfillUsers", [kind |-> "id", id |-> n])
      BY <1>4, <2>3 DEF MigrationInsertTenant
    <2>. QED  BY <1>0, <2>4, <2>5, <2>6, GoingOnRuns DEF AccessState
  <1>5. CASE BackfillUsers(w)
    <2>1. l.id \in Nat /\ users \in [Names -> User]
      BY <1>0, <1>1, <1>5 DEF BackfillUsers, Carries, At, AccessTypeOK
    <2>2. \A n \in Names : OwnedBy(users[n], l.id) \in User
      BY <2>1 DEF OwnedBy, User
    <2>3. users' \in [Names -> User]
      BY <1>1, <1>5, <2>1, <2>2 DEF BackfillUsers
    <2>4. faults' \in Nat
      BY <1>0, <1>5, FaultsGrow DEF BackfillUsers
    <2>5. AccessTypeOK' /\ DOMAIN warehouses \subseteq DOMAIN warehouses'
      BY <1>0, <1>5, <2>3 DEF BackfillUsers, AccessTypeOK
    <2>6. Carries("backfillWarehouses", l, DOMAIN warehouses')
      BY <2>1 DEF Carries
    <2>7. Goto(w, "backfillWarehouses", l)
      BY <1>1, <1>5 DEF BackfillUsers
    <2>. QED  BY <1>0, <2>4, <2>5, <2>6, <2>7, GoingOnRuns DEF AccessState
  <1>6. CASE BackfillWarehouses(w)
    <2>1. l.id \in Nat
      BY <1>0, <1>1, <1>6 DEF BackfillWarehouses, Carries, At
    <2>2. \A i \in DOMAIN warehouses : OwnedBy(warehouses[i], l.id) \in Warehouse
      <3>1. \A i \in DOMAIN warehouses : warehouses[i] \in Warehouse
        BY <1>0, Ids
      <3>. QED  BY <2>1, <3>1 DEF OwnedBy, Warehouse
    <2>3. PICK n \in Nat : n = Len(warehouses) /\ DOMAIN warehouses = 1..n /\ n <= MaxWarehouses
      BY <1>0, Ids
    <2>4. warehouses' = [i \in 1..n |-> OwnedBy(warehouses[i], l.id)]
      BY <1>1, <1>6, <2>3 DEF BackfillWarehouses
    <2>5. warehouses' \in Seq(Warehouse)
      BY <2>2, <2>3, <2>4, IsASeq
    <2>6. DOMAIN warehouses' = 1..n /\ Len(warehouses') = n
      BY <2>4, <2>5, LenProperties
    <2>7. AccessTypeOK'
      BY <1>0, <1>6, <2>3, <2>5, <2>6 DEF BackfillWarehouses, AccessTypeOK
    <2>. QED  BY <1>0, <1>6, <2>3, <2>6, <2>7, FinishingRuns DEF BackfillWarehouses, AccessState
  <1>7. ASSUME NEW apply \in BOOLEAN, MigrateWarehouse(w, apply) PROVE AccessState'
    <2>1. Carries("migrationFindDefault", [kind |-> "apply", apply |-> apply], DOMAIN warehouses')
      BY DEF Carries
    <2>. QED  BY <1>0, <1>7, <2>1, SameDocuments, GoingOnRuns DEF MigrateWarehouse, AccessState
  <1>8. ASSUME NEW i \in WarehouseIds, ToBackfill(w, i, l.apply), faults' \in Nat,
               DOMAIN warehouses \subseteq DOMAIN warehouses'
        PROVE  Runs'
    <2>1. Carries("backfillLocations", [kind |-> "id", id |-> i], DOMAIN warehouses')
      BY DEF Carries
    <2>. QED  BY <1>0, <1>8, <2>1, GoingOnRuns, FinishingRuns DEF ToBackfill
  <1>9. CASE MigrationFindDefault(w)
    <2>1. PICK i \in WarehouseIds :
             /\ Found(MigrationDefault, i)
             /\ IF i = 0
                THEN Enter(w, "migrationInsertDefault", l, "warehouse", DefaultInserts)
                ELSE ToBackfill(w, i, l.apply)
      BY <1>1, <1>9 DEF MigrationFindDefault
    <2>2. Carries("migrationInsertDefault", l, DOMAIN warehouses')
      BY DEF Carries
    <2>3. faults' \in Nat
      BY <1>0, <2>1, FaultsGrow DEF Found
    <2>4. UNCHANGED documents
      BY <1>9 DEF MigrationFindDefault
    <2>. QED  BY <1>0, <1>8, <2>1, <2>2, <2>3, <2>4, SameDocuments, EnteringRuns DEF AccessState
  <1>10. CASE MigrationInsertDefault(w)
    <2>1. NewWarehouse("DEFAULT", 0, TRUE) \in Warehouse
      BY DEF NewWarehouse, Warehouse
    <2>2. /\ AccessTypeOK' /\ Len(warehouses') \in WarehouseIds
          /\ DOMAIN warehouses \subseteq DOMAIN warehouses'
      BY <1>10, <2>1, InsertionTyping DEF MigrationInsertDefault
    <2>3. PICK n \in WarehouseIds : n = Len(warehouses')
      BY <2>2
    <2>4. ToBackfill(w, n, l.apply) /\ faults' \in Nat
      BY <1>0, <1>1, <1>10, <2>3 DEF MigrationInsertDefault
    <2>. QED  BY <1>8, <2>2, <2>4 DEF AccessState
  <1>11. CASE BackfillLocations(w)
    <2>1. l.id \in WarehouseIds
      BY <1>0, <1>1, <1>11 DEF BackfillLocations, Carries, At
    <2>2. \A x \in Location : [x EXCEPT !.warehouse = IF Missing(@) THEN l.id ELSE @] \in Location
      BY <2>1 DEF Location
    <2>3. locations' \subseteq Location
      BY <1>0, <1>1, <1>11, <2>2 DEF BackfillLocations, AccessTypeOK
    <2>4. AccessTypeOK' /\ DOMAIN warehouses \subseteq DOMAIN warehouses' /\ faults' \in Nat
      BY <1>0, <1>11, <2>3 DEF BackfillLocations, AccessTypeOK
    <2>. QED  BY <1>0, <1>11, <2>4, FinishingRuns DEF BackfillLocations, AccessState
  <1>. QED  BY <1>2, <1>3, <1>4, <1>5, <1>6, <1>7, <1>9, <1>10, <1>11 DEF Migration
(* Requests that have been let in and go on.                               *)
LEMMA RequestTyping ==
    ASSUME AccessState, NEW w \in Workers, NEW label, NEW l, NEW kind, NEW window,
           Enter(w, label, l, kind, window), UNCHANGED documents, UNCHANGED faults \/ Fails,
           Carries(label, l, DOMAIN warehouses)
    PROVE  AccessState'
  <1>1. DOMAIN warehouses' = DOMAIN warehouses /\ AccessTypeOK' /\ Runs /\ faults' \in Nat
    BY SameDocuments, FaultsGrow DEF AccessState, Runs
  <1>2. Carries(label, l, DOMAIN warehouses')
    BY <1>1
  <1>. QED  BY <1>1, <1>2, EnteringRuns DEF AccessState

(* Of the requests only a look-up fails.                                   *)
LEMMA RequestFails ==
    ASSUME NEW w \in Workers, WarehouseRequests(w) \/ LocationRequests(w) \/ UserRequests(w)
    PROVE  UNCHANGED faults \/ Fails
  <1>1. CASE WarehouseRequests(w)
    BY <1>1 DEF WarehouseRequests, CreateTenant, CreateWarehouse, UpdateWarehouse, DeleteWarehouse,
                Absent
  <1>2. CASE LocationRequests(w)
    BY <1>2 DEF LocationRequests, CreateLocation, ImportLocation, DeleteLocation, UpdateLocation,
                Absent
  <1>3. CASE UserRequests(w)
    BY <1>3 DEF UserRequests, Register, UpdateUser, DeleteUser, Absent
  <1>. QED  BY <1>1, <1>2, <1>3

LEMMA WarehouseRequestTyping ==
    ASSUME AccessState, NEW w \in Workers, Request(w), WarehouseRequests(w)
    PROVE  AccessState'
  <1>0. UNCHANGED faults \/ Fails
    BY RequestFails
  <1>1. CASE CreateTenant(w)
    BY <1>0, <1>1, RequestTyping DEF CreateTenant, Carries
  <1>2. ASSUME NEW code \in Codes, NEW t \in 0 .. Len(tenants), CreateWarehouse(w, code, t)
        PROVE  AccessState'
    <2>1. t \in Nat
      BY Ids DEF AccessState
    <2>. QED  BY <1>0, <1>2, <2>1, RequestTyping DEF CreateWarehouse, Carries
  <1>3. ASSUME NEW code \in Codes, NEW i \in DOMAIN warehouses, UpdateWarehouse(w, i, code)
        PROVE  AccessState'
    BY <1>0, <1>3, RequestTyping DEF UpdateWarehouse, Carries
  <1>4. ASSUME NEW i \in DOMAIN warehouses, DeleteWarehouse(w, i)
        PROVE  AccessState'
    BY <1>0, <1>4, RequestTyping DEF DeleteWarehouse, Carries
  <1>. QED  BY <1>1, <1>2, <1>3, <1>4 DEF WarehouseRequests

LEMMA ContextIds ==
    ASSUME AccessTypeOK, NEW user \in User, NEW header \in Headers
    PROVE  /\ Chosen(user, header) \in WarehouseIds \cup {AllMode}
           /\ ContextWarehouse(user, header) \in WarehouseIds
  <1>1. 0 .. Len(warehouses) \subseteq WarehouseIds
    BY Ids, AccessAssumption DEF WarehouseIds
  <1>2. /\ header \in WarehouseIds \cup {AllMode}
        /\ header # AllMode => header \in WarehouseIds
    BY <1>1 DEF Headers
  <1>3. user.default \in WarehouseIds
    BY DEF User
  <1>4. FirstOf({i \in DOMAIN warehouses : Live(i)}) \in WarehouseIds
    <2>1. DOMAIN warehouses \subseteq Nat /\ DOMAIN warehouses \subseteq WarehouseIds
      BY Ids DEF WarehouseIds
    <2>2. {i \in DOMAIN warehouses : Live(i)} \subseteq Nat
      BY <2>1
    <2>. QED  BY <2>1, <2>2, FirstOfIds, Ids
  <1>5. header = 0 => Chosen(user, header) \in WarehouseIds
    BY <1>3, <1>4, Ids DEF Chosen
  <1>6. header # 0 => Chosen(user, header) = header
    BY DEF Chosen
  <1>7. CASE header = AllMode
    <2>1. header # 0 /\ 0 \in WarehouseIds
      BY <1>7, Ids DEF AllMode
    <2>. QED  BY <1>6, <1>7, <2>1 DEF ContextWarehouse
  <1>8. CASE header # AllMode
    <2>1. Chosen(user, header) \in WarehouseIds
      BY <1>2, <1>5, <1>6, <1>8
    <2>. QED  BY <1>8, <2>1 DEF ContextWarehouse
  <1>. QED  BY <1>7, <1>8

LEMMA LocationRequestTyping ==
    ASSUME AccessState, NEW w \in Workers, Request(w), LocationRequests(w)
    PROVE  AccessState'
  <1>0. /\ UNCHANGED faults \/ Fails
        /\ Runs /\ AccessTypeOK /\ faults \in Nat
    BY RequestFails DEF AccessState, Runs
  <1>1. ASSUME NEW n \in Names, NEW header \in Headers, NEW place \in Places,
               NEW rack \in Racks \cup {"none"}, CreateLocation(w, n, header, place, rack)
        PROVE  AccessState'
    <2> DEFINE user == users[n]
               doc == [place |-> place, rack |-> rack, warehouse |-> ContextWarehouse(user, header),
                       checked |-> header # AllMode /\ user.role # "superadmin" /\ user.tenant # 0]
               l == [kind |-> "location", doc |-> doc]
    <2>1. user \in User
      BY <1>0 DEF AccessTypeOK
    <2>2. ContextWarehouse(user, header) \in WarehouseIds
      BY <1>0, <2>1, ContextIds
    <2>3. doc \in Location
      BY <2>2 DEF Location
    <2>4. Carries("insertLocation", l, DOMAIN warehouses)
      BY <2>3 DEF Carries
    <2>5. Enter(w, "insertLocation", l, "data", {"deleteWarehouse"}) /\ UNCHANGED documents
      BY <1>1 DEF CreateLocation
    <2> HIDE DEF l
    <2>. QED  BY <1>0, <2>4, <2>5, RequestTyping
  <1>2. ASSUME NEW rack \in Racks, ImportLocation(w, rack) PROVE AccessState'
    <2>1. [place |-> CodeOf[rack], rack |-> rack, warehouse |-> 0, checked |-> FALSE] \in Location
      BY <1>0, Ids, AccessAssumption DEF Location
    <2>. QED  BY <1>0, <1>2, <2>1, RequestTyping DEF ImportLocation, Goto, Carries
  <1>3. ASSUME NEW x \in locations, DeleteLocation(w, x) PROVE AccessState'
    <2>1. AccessTypeOK' /\ DOMAIN warehouses \subseteq DOMAIN warehouses'
      BY <1>0, <1>3 DEF DeleteLocation, AccessTypeOK
    <2>. QED  BY <1>0, <1>3, <2>1, FaultsGrow, FinishingRuns DEF DeleteLocation, AccessState
  <1>4. ASSUME NEW x \in locations, NEW rack \in Racks, UpdateLocation(w, x, rack)
        PROVE  AccessState'
    <2>1. [x EXCEPT !.rack = rack] \in Location
      BY <1>0 DEF AccessTypeOK, Location
    <2>2. AccessTypeOK' /\ DOMAIN warehouses \subseteq DOMAIN warehouses'
      BY <1>0, <1>4, <2>1 DEF UpdateLocation, AccessTypeOK
    <2>. QED  BY <1>0, <1>4, <2>2, FaultsGrow, FinishingRuns DEF UpdateLocation, AccessState
  <1>. QED  BY <1>1, <1>2, <1>3, <1>4 DEF LocationRequests

LEMMA UnknownTyped ==
    /\ Unknown \in User
    /\ Unknown.default = 0 /\ Unknown.allowed = {}
    /\ \A u \in User :
          /\ \A s \in {"unknown", "live", "deleted"} : [u EXCEPT !.state = s] \in User
          /\ \A r \in Roles : [u EXCEPT !.role = r] \in User
          /\ \A t \in Nat : [u EXCEPT !.tenant = t] \in User
          /\ \A a \in SUBSET (1 .. MaxWarehouses) : [u EXCEPT !.allowed = a] \in User
          /\ \A d \in WarehouseIds : [u EXCEPT !.default = d] \in User
  BY AccessAssumption DEF Unknown, User, Roles, WarehouseIds

LEMMA UnknownChanged ==
    /\ \A r \in Roles : [Unknown EXCEPT !.role = r] \in User
    /\ \A t \in Nat : [Unknown EXCEPT !.tenant = t] \in User
    /\ \A a \in SUBSET (1 .. MaxWarehouses) : [Unknown EXCEPT !.allowed = a] \in User
    /\ \A d \in WarehouseIds : [Unknown EXCEPT !.default = d] \in User
  <1>1. PICK u \in User : u = Unknown
    BY UnknownTyped
  <1>2. /\ \A r \in Roles : [u EXCEPT !.role = r] \in User
        /\ \A t \in Nat : [u EXCEPT !.tenant = t] \in User
        /\ \A a \in SUBSET (1 .. MaxWarehouses) : [u EXCEPT !.allowed = a] \in User
        /\ \A d \in WarehouseIds : [u EXCEPT !.default = d] \in User
    BY UnknownTyped, Zenon
  <1>. QED  BY ONLY <1>1, <1>2, Zenon

LEMMA UpdatesTyped ==
    ASSUME AccessTypeOK, NEW update \in Updates
    PROVE  update.doc \in User
  <1>1. \A i \in DOMAIN warehouses : i \in WarehouseIds /\ {i} \in SUBSET (1 .. MaxWarehouses)
    BY Ids
  <1>2. \A a \in SUBSET DOMAIN warehouses : a \in SUBSET (1 .. MaxWarehouses)
    BY Ids
  <1>3. \A t \in DOMAIN tenants : t \in Nat
    BY Ids
  <1>4. \A i \in DOMAIN warehouses : [Unknown EXCEPT !.allowed = {i}, !.default = i] \in User
    BY <1>1, UnknownTyped
  <1>5. CASE \E r \in Roles :
                update = [fields |-> {"role"}, doc |-> [Unknown EXCEPT !.role = r]]
    <2>1. PICK r \in Roles :
             update = [fields |-> {"role"}, doc |-> [Unknown EXCEPT !.role = r]]
      BY <1>5
    <2>2. update.doc = [Unknown EXCEPT !.role = r]
      BY <2>1
    <2>. QED  BY <2>2, UnknownChanged
  <1>6. CASE \E t \in DOMAIN tenants :
                update = [fields |-> {"tenant"}, doc |-> [Unknown EXCEPT !.tenant = t]]
    <2>1. PICK t \in DOMAIN tenants :
             update = [fields |-> {"tenant"}, doc |-> [Unknown EXCEPT !.tenant = t]]
      BY <1>6
    <2>2. update.doc = [Unknown EXCEPT !.tenant = t]
      BY <2>1
    <2>. QED  BY <1>3, <2>2, UnknownChanged
  <1>7. CASE \E i \in DOMAIN warehouses :
                update = [fields |-> {"default"}, doc |-> [Unknown EXCEPT !.default = i]]
    <2>1. PICK i \in DOMAIN warehouses :
             update = [fields |-> {"default"}, doc |-> [Unknown EXCEPT !.default = i]]
      BY <1>7
    <2>2. update.doc = [Unknown EXCEPT !.default = i]
      BY <2>1
    <2>3. i \in WarehouseIds
      BY <1>1
    <2>4. \A d \in WarehouseIds : [Unknown EXCEPT !.default = d] \in User
      BY UnknownChanged
    <2>. QED  BY <2>2, <2>3, <2>4
  <1>8. CASE \E a \in SUBSET DOMAIN warehouses :
                update = [fields |-> {"allowed"}, doc |-> [Unknown EXCEPT !.allowed = a]]
    <2>1. PICK a \in SUBSET DOMAIN warehouses :
             update = [fields |-> {"allowed"}, doc |-> [Unknown EXCEPT !.allowed = a]]
      BY <1>8
    <2>2. update.doc = [Unknown EXCEPT !.allowed = a]
      BY <2>1
    <2>. QED  BY <1>2, <2>2, UnknownChanged
  <1>9. CASE \E i \in DOMAIN warehouses :
                update = [fields |-> {"allowed", "default"},
                          doc |-> [Unknown EXCEPT !.allowed = {i}, !.default = i]]
    <2>1. PICK i \in DOMAIN warehouses :
             update = [fields |-> {"allowed", "default"},
                       doc |-> [Unknown EXCEPT !.allowed = {i}, !.default = i]]
      BY <1>9
    <2>2. update.doc = [Unknown EXCEPT !.allowed = {i}, !.default = i]
      BY <2>1
    <2>. QED  BY <1>4, <2>2
  <1>. QED  BY ONLY <1>5, <1>6, <1>7, <1>8, <1>9, update \in Updates DEF Updates

LEMMA UserRequestTyping ==
    ASSUME AccessState, NEW w \in Workers, Request(w), UserRequests(w)
    PROVE  AccessState'
  <1>0. /\ UNCHANGED faults \/ Fails
        /\ Runs /\ AccessTypeOK /\ faults \in Nat
    BY RequestFails DEF AccessState, Runs
  <1>1. ASSUME NEW n \in Accounts, NEW role \in Roles, NEW t \in 0 .. Len(tenants),
               Register(w, n, role, t)
        PROVE  AccessState'
    <2> DEFINE doc == [Unknown EXCEPT !.state = "live", !.role = role, !.tenant = t]
    <2>1. t \in Nat
      BY <1>0, Ids
    <2>2. doc \in User /\ doc.state = "live" /\ doc.default = 0
      <3>1. PICK r \in Roles : r = role
        BY DEF Roles
      <3>2. [[[Unknown EXCEPT !.state = "live"] EXCEPT !.role = r] EXCEPT !.tenant = t] \in User
        BY <2>1, UnknownTyped
      <3>3. doc = [[[Unknown EXCEPT !.state = "live"] EXCEPT !.role = r] EXCEPT !.tenant = t]
        BY <3>1 DEF Unknown
      <3>. QED  BY <3>2, <3>3 DEF Unknown
    <2> HIDE DEF doc
    <2>3. Carries("insertUser", [kind |-> "user", name |-> n, doc |-> doc], DOMAIN warehouses)
      BY <2>2 DEF Carries
    <2>4. Goto(w, "insertUser", [kind |-> "user", name |-> n, doc |-> doc]) /\ UNCHANGED documents
      BY <1>1 DEF Register, doc
    <2>. QED  BY <1>0, <2>3, <2>4, RequestTyping DEF Goto
  <1>2. ASSUME NEW n \in Names, NEW update \in Updates, UpdateUser(w, n, update)
        PROVE  AccessState'
    <2>1. update.doc \in User
      BY <1>0, UpdatesTyped
    <2>2. Carries("updateUser", [kind |-> "update", name |-> n, update |-> update], DOMAIN warehouses)
      BY <2>1 DEF Carries
    <2>. QED  BY <1>0, <1>2, <2>2, RequestTyping DEF UpdateUser
  <1>3. ASSUME NEW n \in Accounts, DeleteUser(w, n) PROVE AccessState'
    <2>1. [Unknown EXCEPT !.state = "deleted"] \in User
      BY UnknownTyped
    <2>2. AccessTypeOK' /\ DOMAIN warehouses \subseteq DOMAIN warehouses'
      BY <1>0, <1>3, <2>1 DEF DeleteUser, AccessTypeOK
    <2>. QED  BY <1>0, <1>3, <2>2, FaultsGrow, FinishingRuns DEF DeleteUser, AccessState
  <1>. QED  BY <1>1, <1>2, <1>3 DEF UserRequests

LEMMA WriteTyping ==
    ASSUME AccessState, NEW w \in Workers,
           WarehouseWrites(w) \/ InsertLocation(w) \/ InsertUser(w) \/ WriteUser(w)
    PROVE  AccessState'
  <1>0. /\ Runs /\ AccessTypeOK /\ faults \in Nat
        /\ Carries(pc[w], loc[w], DOMAIN warehouses)
    BY DEF AccessState, Runs
  <1>1. PICK l : l = loc[w]
    OBVIOUS
  <1>2. CASE InsertOtherTenant(w)
    <2>1. tenants \in Seq(TenantCodes) /\ "T2" \in TenantCodes
      BY <1>0 DEF AccessTypeOK, TenantCodes
    <2>2. tenants' \in Seq(TenantCodes)
      BY <1>2, <2>1, AppendDocument DEF InsertOtherTenant
    <2>3. AccessTypeOK' /\ DOMAIN warehouses \subseteq DOMAIN warehouses' /\ faults' \in Nat
      BY <1>0, <1>2, <2>2 DEF InsertOtherTenant, AccessTypeOK
    <2>. QED  BY <1>0, <1>2, <2>3, FinishingRuns DEF InsertOtherTenant, AccessState
  <1>3. CASE InsertNewWarehouse(w)
    <2>1. l.code \in Codes /\ l.tenant \in Nat
      BY <1>0, <1>1, <1>3 DEF InsertNewWarehouse, Carries, At
    <2>2. NewWarehouse(l.code, l.tenant, FALSE) \in Warehouse
      BY <2>1 DEF NewWarehouse, Warehouse
    <2>3. /\ InsertWarehouse(NewWarehouse(l.code, l.tenant, FALSE))
          /\ UNCHANGED <<tenants, locations, users>> /\ Finish(w) /\ faults' \in Nat
      BY <1>0, <1>1, <1>3 DEF InsertNewWarehouse
    <2>4. AccessTypeOK' /\ DOMAIN warehouses \subseteq DOMAIN warehouses'
      BY <2>2, <2>3, InsertionTyping
    <2>. QED  BY <1>0, <2>3, <2>4, FinishingRuns DEF AccessState
  <1>4. ASSUME NEW i \in DOMAIN warehouses, NEW doc \in Warehouse,
               warehouses' = [warehouses EXCEPT ![i] = doc],
               UNCHANGED <<tenants, locations, users, faults>>, Finish(w)
        PROVE  AccessState'
    <2>1. /\ warehouses' \in Seq(Warehouse)
          /\ Len(warehouses') = Len(warehouses)
          /\ DOMAIN warehouses' = DOMAIN warehouses
      BY <1>0, <1>4, ChangedWarehouse
    <2>2. AccessTypeOK' /\ DOMAIN warehouses \subseteq DOMAIN warehouses' /\ faults' \in Nat
      BY <1>0, <1>4, <2>1 DEF AccessTypeOK
    <2>. QED  BY <1>0, <1>4, <2>2, FinishingRuns DEF AccessState
  <1>5. CASE SetCode(w)
    <2>1. l.id \in DOMAIN warehouses /\ l.code \in Codes
      BY <1>0, <1>1, <1>5 DEF SetCode, Carries, At
    <2>2. warehouses[l.id] \in Warehouse
      BY <1>0, <2>1, Ids
    <2>3. [warehouses[l.id] EXCEPT !.code = l.code] \in Warehouse
      BY <2>1, <2>2 DEF Warehouse
    <2>4. warehouses' = [warehouses EXCEPT ![l.id] = [warehouses[l.id] EXCEPT !.code = l.code]]
      BY <1>1, <1>5 DEF SetCode
    <2>. QED  BY <1>4, <1>5, <2>1, <2>3, <2>4 DEF SetCode
  <1>6. CASE RemoveWarehouse(w)
    <2>1. l.id \in DOMAIN warehouses
      BY <1>0, <1>1, <1>6 DEF RemoveWarehouse, Carries, At
    <2>2. warehouses[l.id] \in Warehouse
      BY <1>0, <2>1, Ids
    <2>3. [warehouses[l.id] EXCEPT !.exists = FALSE] \in Warehouse
      BY <2>1, <2>2 DEF Warehouse
    <2>4. warehouses' = [warehouses EXCEPT ![l.id] = [warehouses[l.id] EXCEPT !.exists = FALSE]]
      BY <1>1, <1>6 DEF RemoveWarehouse
    <2>. QED  BY <1>4, <1>6, <2>1, <2>3, <2>4 DEF RemoveWarehouse
  <1>7. CASE InsertLocation(w)
    <2>1. l.doc \in Location
      BY <1>0, <1>1, <1>7 DEF InsertLocation, Carries, At
    <2>2. locations' \subseteq Location
      BY <1>0, <1>1, <1>7, <2>1 DEF InsertLocation, AccessTypeOK
    <2>3. AccessTypeOK' /\ DOMAIN warehouses \subseteq DOMAIN warehouses' /\ faults' \in Nat
      BY <1>0, <1>7, <2>2 DEF InsertLocation, AccessTypeOK
    <2>. QED  BY <1>0, <1>7, <2>3, FinishingRuns DEF InsertLocation, AccessState
  <1>8. ASSUME users' \in [Names -> User], UNCHANGED <<tenants, warehouses, locations, faults>>,
               Finish(w)
        PROVE  AccessState'
    <2>1. AccessTypeOK' /\ DOMAIN warehouses \subseteq DOMAIN warehouses' /\ faults' \in Nat
      BY <1>0, <1>8 DEF AccessTypeOK
    <2>. QED  BY <1>0, <1>8, <2>1, FinishingRuns DEF AccessState
  <1>9. users \in [Names -> User] /\ Accounts \subseteq Names
    BY <1>0 DEF AccessTypeOK, Names
  <1>10. CASE InsertUser(w)
    <2>1. l.name \in Names /\ l.doc \in User
      BY <1>0, <1>1, <1>9, <1>10 DEF InsertUser, Carries, At
    <2>2. users' \in [Names -> User]
      BY <1>1, <1>9, <1>10, <2>1 DEF InsertUser
    <2>. QED  BY <1>8, <1>10, <2>2 DEF InsertUser
  <1>11. CASE WriteUser(w)
    <2>1. l.name \in Names /\ l.update.doc \in User
      BY <1>0, <1>1, <1>11 DEF WriteUser, Carries, At
    <2>2. \A u \in User : With(u, l.update.fields, l.update.doc) \in User
      BY <2>1 DEF With, User
    <2>3. users' \in [Names -> User]
      BY <1>1, <1>9, <1>11, <2>1, <2>2 DEF WriteUser
    <2>. QED  BY <1>8, <1>11, <2>3 DEF WriteUser
  <1>. QED  BY <1>2, <1>3, <1>5, <1>6, <1>7, <1>10, <1>11 DEF WarehouseWrites

LEMMA AccessTyping ==
    ASSUME AccessState, NEW w \in Workers, AccessNext(w)
    PROVE  AccessState'
  BY StartUpTyping, MigrationTyping, WarehouseRequestTyping, LocationRequestTyping,
     UserRequestTyping, WriteTyping DEF AccessNext

-----------------------------------------------------------------------------
(* The types of the notifications.                                         *)

LEMMA SameAlerts ==
    ASSUME AlertsTyped, UNCHANGED alerts
    PROVE  AlertsTyped'
  BY DEF AlertsTyped, AlertsTypeOK, alerts

LEMMA MergedTyped ==
    ASSUME NEW form \in Form, NEW text \in Int, NEW existing \in Settings
    PROVE  Merged(form, text, existing) \in Settings
  <1>3. (IF text = 0 \/ LooksMasked(text) THEN existing.token ELSE text) \in Int
    BY DEF Settings
  <1>4. (IF form.digest = {} THEN existing.digest ELSE TRUE \in form.digest) \in BOOLEAN
    <2>1. existing.digest \in BOOLEAN
      BY DEF Settings
    <2>2. \A x, y \in BOOLEAN : (IF form.digest = {} THEN x ELSE y) \in BOOLEAN
      OBVIOUS
    <2>3. (TRUE \in form.digest) \in BOOLEAN
      OBVIOUS
    <2>. QED  BY ONLY <2>1, <2>2, <2>3, Zenon
  <1>5. (form.digestChats \/ existing.digestChats) \in BOOLEAN
    OBVIOUS
  <1>6. form.enabled \in BOOLEAN /\ form.chats \in BOOLEAN
    BY DEF Form
  <1>. QED  BY <1>3, <1>4, <1>5, <1>6 DEF Merged, Settings

LEMMA TypedTyped ==
    ASSUME NEW form \in Form, NEW token \in Int
    PROVE  Typed(form, token) \in Int
  BY DEF Typed, Shown, Form

LEMMA QueuedTyped ==
    ASSUME queue \in Seq(Message), Len(queue) <= QueueSize, NEW about \in Message
    PROVE  Queued(about) \in Seq(Message) /\ Len(Queued(about)) <= QueueSize
  <1>1. CASE Len(queue) < QueueSize
    <2>1. /\ Append(queue, about) \in Seq(Message) /\ Len(Append(queue, about)) = Len(queue) + 1
          /\ Len(queue) \in Nat
      BY AppendDocument, AppendProperties, LenProperties
    <2>. QED  BY <1>1, <2>1, AlertsAssumption DEF Queued
  <1>2. CASE ~ Len(queue) < QueueSize
    BY <1>2 DEF Queued
  <1>. QED  BY <1>1, <1>2

LEMMA DeliveredTyped ==
    ASSUME NEW D, D = [Days -> [forced: Nat, sent: Nat, delivered: Nat]], digests \in D,
           NEW about \in Message
    PROVE  Delivered(about) \in D
  <1>1. about # 0 => about \in Days
    BY AlertsAssumption DEF Message, Days
  <1>. QED  BY <1>1 DEF Delivered

LEMMA BackgroundTyping ==
    ASSUME AlertsTyped, Background
    PROVE  AlertsTyped'
  <1> DEFINE D == [Days -> [forced: Nat, sent: Nat, delivered: Nat]]
  <1>0. /\ queue \in Seq(Message) /\ Len(queue) <= QueueSize
        /\ sending \in [about: Message, attempt: 0 .. MaxRetries]
        /\ digests \in D
    BY DEF AlertsTyped, AlertsTypeOK
  <1>1. NotSending \in [about: Message, attempt: 0 .. MaxRetries]
    BY AlertsAssumption DEF NotSending, Message
  <1>2. CASE TakeMessage
    <2>1. /\ Head(queue) \in Message /\ Tail(queue) \in Seq(Message)
          /\ Len(Tail(queue)) = Len(queue) - 1 /\ Len(queue) \in Nat
      BY <1>0, <1>2, HeadTailProperties, LenProperties DEF TakeMessage
    <2>2. sending' \in [about: Message, attempt: 0 .. MaxRetries]
      BY <1>2, <2>1, AlertsAssumption DEF TakeMessage
    <2>3. queue' \in Seq(Message) /\ Len(queue') <= QueueSize
      BY <1>0, <1>2, <2>1, AlertsAssumption DEF TakeMessage
    <2>. QED  BY <1>2, <2>2, <2>3 DEF TakeMessage, AlertsTyped, AlertsTypeOK
  <1>3. Delivered(sending.about) \in D
    BY <1>0, DeliveredTyped
  <1>4. CASE SendingEnds
    <2>1. digests' \in D
      BY <1>0, <1>3, <1>4 DEF SendingEnds
    <2> HIDE DEF D
    <2>. QED  BY <1>1, <1>4, <2>1 DEF SendingEnds, AlertsTyped, AlertsTypeOK, D
  <1>5. CASE SendingFails
    <2>1. digests' \in D
      BY <1>0, <1>3, <1>5 DEF SendingFails
    <2>2. sending' \in [about: Message, attempt: 0 .. MaxRetries]
      BY <1>0, <1>5, AlertsAssumption DEF SendingFails
    <2>. QED  BY <1>5, <2>1, <2>2 DEF SendingFails, AlertsTyped, AlertsTypeOK
  <1>6. CASE NextDay
    BY <1>6, AlertsAssumption DEF NextDay, AlertsTyped, AlertsTypeOK, Days
  <1>7. CASE SixHoursPass
    BY <1>7 DEF SixHoursPass, AlertsTyped, AlertsTypeOK
  <1>8. CASE DisplaySettings
    <2>1. displayed' \subseteq Int
      BY <1>8 DEF DisplaySettings, AlertsTyped, AlertsTypeOK, Settings
    <2>. QED  BY <1>8, <2>1 DEF DisplaySettings, AlertsTyped, AlertsTypeOK
  <1>. QED  BY <1>2, <1>4, <1>5, <1>6, <1>7, <1>8 DEF Background

(* What a subcommand gets out, and the server's run at once.               *)
LEMMA DeliveriesOut ==
    ASSUME NEW cli, NEW out \in (IF cli THEN 0 .. MaxRetries ELSE {0})
    PROVE  /\ out \in 0 .. MaxRetries
           /\ out # 0 => cli
  BY AlertsAssumption

LEMMA AlertsNextTyping ==
    ASSUME Typing, NEW w \in Workers, AlertsNext(w), UNCHANGED documents
    PROVE  Runs' /\ AlertsTyped'
  <1> DEFINE D == [Days -> [forced: Nat, sent: Nat, delivered: Nat]]
  <1>0. /\ Runs /\ AccessTypeOK /\ AlertsTyped /\ faults \in Nat
        /\ Carries(pc[w], loc[w], DOMAIN warehouses)
        /\ queue \in Seq(Message) /\ Len(queue) <= QueueSize
        /\ digests \in D
        /\ settings \in Settings /\ today \in Days /\ lowSent \in Nat /\ lastTyped \in Nat
        /\ displayed \subseteq Int
    BY DEF Typing, Runs, AlertsTyped, AlertsTypeOK
  <1>1. PICK l : l = loc[w]
    OBVIOUS
  <1>2. DOMAIN warehouses' = DOMAIN warehouses /\ DOMAIN warehouses \subseteq DOMAIN warehouses'
    BY <1>0, SameDocuments
  <1>3. 0 \in Message /\ Days \subseteq Message
    BY AlertsAssumption DEF Message, Days
  <1>4. \A about \in Message : Queued(about) \in Seq(Message) /\ Len(Queued(about)) <= QueueSize
    BY <1>0, QueuedTyped
  <1>5. ASSUME NEW form \in Forms, SaveSettings(w, form) PROVE Runs' /\ AlertsTyped'
    <2>1. form \in Form
      BY FormsAssumption
    <2>0. PICK token \in displayed :
             Enter(w, "writeSettings",
                   [kind |-> "settings", doc |-> Merged(form, Typed(form, token), settings),
                    typed |-> IF form.shown THEN 0 ELSE form.token],
                   "settings", {"writeSettings"})
      BY <1>5 DEF SaveSettings
    <2>2. Merged(form, Typed(form, token), settings) \in Settings
      BY <1>0, <2>1, MergedTyped, TypedTyped
    <2>3. (IF form.shown THEN 0 ELSE form.token) \in Nat
      BY <2>1 DEF Form
    <2>4. Carries("writeSettings",
                  [kind |-> "settings", doc |-> Merged(form, Typed(form, token), settings),
                   typed |-> IF form.shown THEN 0 ELSE form.token], DOMAIN warehouses')
      BY <2>2, <2>3 DEF Carries
    <2>. QED  BY <1>0, <1>2, <1>5, <2>0, <2>4, EnteringRuns, SameAlerts DEF SaveSettings
  <1>6. CASE WriteSettings(w)
    <2>1. l.doc \in Settings /\ l.typed \in Nat
      BY <1>0, <1>1, <1>6 DEF WriteSettings, Carries, At
    <2>2. settings' \in Settings /\ lastTyped' \in Nat
      BY <1>0, <1>1, <1>6, <2>1 DEF WriteSettings
    <2>3. AlertsTyped'
      BY <1>0, <1>6, <2>2 DEF WriteSettings, AlertsTyped, AlertsTypeOK
    <2>. QED  BY <1>0, <1>2, <1>6, <2>3, FinishingRuns DEF WriteSettings
  <1>7. CASE Announce(w)
    <2>1. queue' \in Seq(Message) /\ Len(queue') <= QueueSize
      BY <1>3, <1>4, <1>7 DEF Announce
    <2>2. AlertsTyped'
      BY <1>0, <1>7, <2>1 DEF Announce, AlertsTyped, AlertsTypeOK
    <2>. QED  BY <1>0, <1>2, <1>7, <2>2, FinishingRuns DEF Announce
  <1>8. CASE CheckLowStock(w)
    <2>1. Carries("lowSend", Nothing, DOMAIN warehouses')
      BY DEF Carries
    <2>. QED  BY <1>0, <1>2, <1>8, <2>1, EnteringRuns, SameAlerts DEF CheckLowStock
  <1>9. CASE SendLowStock(w)
    <2>1. queue' \in Seq(Message) /\ Len(queue') <= QueueSize /\ lowSent' \in Nat
      BY <1>0, <1>3, <1>4, <1>9 DEF SendLowStock
    <2>2. AlertsTyped'
      BY <1>0, <1>9, <2>1 DEF SendLowStock, AlertsTyped, AlertsTypeOK
    <2>3. faults' \in Nat
      BY <1>0, <1>9, FaultsGrow DEF SendLowStock
    <2>4. Carries("lowMark", Nothing, DOMAIN warehouses')
      BY DEF Carries
    <2>. QED  BY <1>0, <1>2, <1>9, <2>2, <2>3, <2>4, GoingOnRuns DEF SendLowStock
  <1>10. CASE MarkLowStock(w)
    <2>1. AlertsTyped'
      BY <1>0, <1>10 DEF MarkLowStock, AlertsTyped, AlertsTypeOK
    <2>. QED  BY <1>0, <1>2, <1>10, <2>1, FinishingRuns DEF MarkLowStock
  <1>11. ASSUME NEW cli \in BOOLEAN, NEW force \in BOOLEAN, RunExpiryDigest(w, cli, force)
         PROVE  Runs' /\ AlertsTyped'
    <2>1. digests' \in D
      <3>1. digests[today] \in [forced: Nat, sent: Nat, delivered: Nat]
        BY <1>0
      <3>2. PICK n \in Nat : n = IF force THEN digests[today].forced + 1 ELSE digests[today].forced
        BY <3>1
      <3>3. digests' = [digests EXCEPT ![today].forced = n]
        BY <1>11, <3>2 DEF RunExpiryDigest
      <3>4. [digests[today] EXCEPT !.forced = n] \in [forced: Nat, sent: Nat, delivered: Nat]
        BY <3>1
      <3>. QED  BY <1>0, <3>3, <3>4
    <2>2. AlertsTyped'
      BY <1>0, <1>11, <2>1 DEF RunExpiryDigest, AlertsTyped, AlertsTypeOK
    <2>3. Carries("digestSend", [kind |-> "digest", day |-> today, cli |-> cli], DOMAIN warehouses')
      BY <1>0 DEF Carries
    <2>. QED  BY <1>0, <1>2, <1>11, <2>2, <2>3, EnteringRuns DEF RunExpiryDigest
  <1>12. CASE SendDigest(w)
    <2>1. l.day \in Days /\ l.cli \in BOOLEAN
      BY <1>0, <1>1, <1>12 DEF SendDigest, Carries, At
    <2>2. PICK out \in 0 .. MaxRetries :
             digests' = [digests EXCEPT ![l.day].sent = @ + 1, ![l.day].delivered = @ + out]
      BY <1>1, <1>12, DeliveriesOut DEF SendDigest
    <2>3. digests' \in D
      <3>1. digests[l.day] \in [forced: Nat, sent: Nat, delivered: Nat]
        BY <1>0, <2>1
      <3>2. \A r \in [forced: Nat, sent: Nat, delivered: Nat] :
               [r EXCEPT !.sent = @ + 1, !.delivered = @ + out]
                   \in [forced: Nat, sent: Nat, delivered: Nat]
        <4>1. out \in Nat
          OBVIOUS
        <4> TAKE r \in [forced: Nat, sent: Nat, delivered: Nat]
        <4>2. PICK s \in Nat, d \in Nat : s = r.sent + 1 /\ d = r.delivered + out
          BY <4>1
        <4>3. [r EXCEPT !.sent = s, !.delivered = d] \in [forced: Nat, sent: Nat, delivered: Nat]
          OBVIOUS
        <4>. QED  BY <4>2, <4>3
      <3>3. digests' = [digests EXCEPT ![l.day] =
                           [digests[l.day] EXCEPT !.sent = @ + 1, !.delivered = @ + out]]
        BY <1>0, <2>1, <2>2, <3>1
      <3>. QED  BY <1>0, <3>1, <3>2, <3>3
    <2>4. queue' \in Seq(Message) /\ Len(queue') <= QueueSize
      BY <1>0, <1>1, <1>3, <1>4, <1>12, <2>1 DEF SendDigest
    <2>5. AlertsTyped'
      BY <1>0, <1>12, <2>3, <2>4 DEF SendDigest, AlertsTyped, AlertsTypeOK
    <2>6. Carries("digestMark", l, DOMAIN warehouses')
      BY <2>1 DEF Carries
    <2>7. Goto(w, "digestMark", l) /\ faults' \in Nat
      BY <1>0, <1>1, <1>12 DEF SendDigest
    <2>. QED  BY <1>0, <1>2, <2>5, <2>6, <2>7, GoingOnRuns
  <1>13. CASE MarkDigest(w)
    <2>1. l.day \in Days
      BY <1>0, <1>1, <1>13 DEF MarkDigest, Carries, At
    <2>2. AlertsTyped'
      BY <1>0, <1>1, <1>13, <2>1 DEF MarkDigest, AlertsTyped, AlertsTypeOK
    <2>. QED  BY <1>0, <1>2, <1>13, <2>2, FinishingRuns DEF MarkDigest
  <1>. QED  BY <1>5, <1>6, <1>7, <1>8, <1>9, <1>10, <1>11, <1>12, <1>13 DEF AlertsNext

LEMMA InitTyping ==
    ASSUME Init PROVE Typing
  <1>1. Runs
    BY DEF Init, GoroutinesInit, Runs, Carries
  <1>2. AlertsTyped
    <2>1. <<>> \in Seq(Message) /\ Len(<<>>) = 0
      OBVIOUS
    <2>2. /\ NoSettings \in Settings
          /\ NotSending \in [about: Message, attempt: 0 .. MaxRetries]
          /\ 1 \in Days
      BY AlertsAssumption DEF NoSettings, Settings, NotSending, Message, Days
    <2>3. digests \in [Days -> [forced: Nat, sent: Nat, delivered: Nat]]
      BY DEF Init, AlertsInit
    <2>4. queue \in Seq(Message) /\ Len(queue) <= QueueSize
      BY <2>1, AlertsAssumption DEF Init, AlertsInit
    <2>5. displayed \subseteq Int
      BY DEF Init, AlertsInit
    <2>. QED  BY <2>2, <2>3, <2>4, <2>5 DEF Init, AlertsInit, AlertsTyped, AlertsTypeOK
  <1>3. AccessTypeOK
    <2>1. Unknown \in User
      BY UnknownTyped
    <2>2. CASE FreshDatabase
      <3>1. tenants \in Seq(TenantCodes)
        BY <2>2 DEF FreshDatabase
      <3>2. warehouses \in Seq(Warehouse) /\ Len(warehouses) = 0
        BY <2>2 DEF FreshDatabase
      <3>. QED  BY <2>1, <2>2, <3>1, <3>2, AccessAssumption DEF FreshDatabase, AccessTypeOK
    <2>3. CASE UsedDatabase
      <3>1. "TEN-DEFAULT" \in TenantCodes /\ "T2" \in TenantCodes
        BY DEF TenantCodes
      <3>2. tenants \in Seq(TenantCodes)
        BY <2>3, <3>1 DEF UsedDatabase
      <3>3. PICK d \in Warehouse, e \in Warehouse : warehouses = <<d, e>>
        <4>1. /\ NewWarehouse("WH-DEFAULT", 0, TRUE) \in Warehouse
              /\ NewWarehouse("C2", 2, FALSE) \in Warehouse
          BY AccessAssumption DEF NewWarehouse, Warehouse
        <4>. QED  BY <2>3, <4>1 DEF UsedDatabase
      <3>4. warehouses \in Seq(Warehouse) /\ Len(warehouses) = 2
        BY <3>3
      <3>5. 2 <= MaxWarehouses
        BY AccessAssumption
      <3>6. PICK t \in {0, 2} :
                users = [n \in Names |-> IF n = "superadmin"
                                   THEN [Unknown EXCEPT !.state = "live", !.role = "superadmin"]
                                   ELSE [state |-> "live", role |-> "operator", tenant |-> t,
                                         allowed |-> {1, 2}, default |-> 2]]
        BY <2>3 DEF UsedDatabase
      <3>7. [state |-> "live", role |-> "operator", tenant |-> t,
             allowed |-> {1, 2}, default |-> 2] \in User
        BY <3>5, AccessAssumption DEF User, Roles, WarehouseIds
      <3>8. [Unknown EXCEPT !.state = "live", !.role = "superadmin"] \in User
        BY <2>1 DEF Unknown, User, Roles
      <3>9. users \in [Names -> User]
        BY <3>6, <3>7, <3>8
      <3>. QED  BY <2>3, <3>2, <3>4, <3>5, <3>9 DEF UsedDatabase, AccessTypeOK
    <2>. QED  BY <2>2, <2>3 DEF Init, AccessInit
  <1>. QED  BY <1>1, <1>2, <1>3 DEF Typing

(* A step of one goroutine, of the worker, of the clock or of no one.      *)
LEMMA StepTyping ==
    ASSUME Typing, [Next]_vars PROVE Typing'
  <1>0. Runs /\ AccessTypeOK /\ AlertsTyped /\ AccessState /\ faults \in Nat
    BY DEF Typing, AccessState, Runs
  <1>1. ASSUME NEW w \in Workers, AccessNext(w), UNCHANGED alerts PROVE Typing'
    BY <1>0, <1>1, AccessTyping, SameAlerts DEF Typing, AccessState
  <1>2. ASSUME NEW w \in Workers, AlertsNext(w), UNCHANGED documents PROVE Typing'
    BY <1>0, <1>2, AlertsNextTyping, SameDocuments DEF Typing
  <1>3. ASSUME NEW w \in Workers, Abandon(w), UNCHANGED <<documents, alerts>> PROVE Typing'
    <2>1. faults' \in Nat
      BY <1>0, <1>3, FaultsGrow DEF Abandon
    <2>2. UNCHANGED documents /\ UNCHANGED alerts
      BY <1>3
    <2>. QED  BY <1>0, <1>3, <2>1, <2>2, FinishingRuns, SameDocuments, SameAlerts DEF Abandon, Typing
  <1>4. ASSUME UNCHANGED <<pc, loc, documents>>, faults' \in Nat, AlertsTyped' PROVE Typing'
    <2>1. UNCHANGED documents /\ UNCHANGED <<pc, loc>>
      BY <1>4
    <2>2. AccessTypeOK' /\ DOMAIN warehouses' = DOMAIN warehouses
      BY <1>0, <2>1, SameDocuments
    <2>3. Runs'
      BY <1>0, <1>4, <2>1, <2>2 DEF Runs
    <2>. QED  BY <1>4, <2>2, <2>3 DEF Typing
  <1>5. CASE Background /\ UNCHANGED <<goroutines, documents>>
    BY <1>0, <1>4, <1>5, BackgroundTyping DEF goroutines
  <1>6. CASE ServerEnds /\ UNCHANGED <<pc, loc, started, overlapped, documents>>
    <2>1. AlertsTyped'
      <3>1. <<>> \in Seq(Message) /\ Len(<<>>) = 0
        OBVIOUS
      <3>2. NotSending \in [about: Message, attempt: 0 .. MaxRetries]
        BY AlertsAssumption DEF NotSending, Message
      <3>3. queue' \in Seq(Message) /\ Len(queue') <= QueueSize
        BY <1>6, <3>1, AlertsAssumption DEF ServerEnds
      <3>. QED  BY <1>0, <1>6, <3>2, <3>3 DEF ServerEnds, AlertsTyped, AlertsTypeOK
    <2>2. faults' \in Nat
      BY <1>0, <1>6, FaultsGrow DEF ServerEnds
    <2>. QED  BY <1>4, <1>6, <2>1, <2>2
  <1>7. CASE UNCHANGED vars
    <2>1. UNCHANGED goroutines /\ UNCHANGED documents /\ UNCHANGED alerts
      BY <1>7 DEF vars
    <2>. QED  BY <1>0, <1>4, <2>1, SameAlerts DEF goroutines
  <1>. QED  BY <1>1, <1>2, <1>3, <1>5, <1>6, <1>7 DEF Next

LEMMA AlwaysTyping ==
    Spec => []Typing
  <1>1. Init => Typing
    BY InitTyping
  <1>2. Typing /\ [Next]_vars => Typing'
    BY StepTyping
  <1>. QED  BY <1>1, <1>2, PTL DEF Spec

-----------------------------------------------------------------------------
(* Where a step leads its goroutine.                                       *)

Moves(w, L) ==
    /\ pc'[w] \in L
    /\ \A v \in Workers : v # w => pc'[v] = pc[v] /\ loc'[v] = loc[v]
    /\ overlapped \subseteq overlapped'
    /\ faults' \in Nat /\ faults <= faults'

StartUpLabels == {"findTenant", "insertTenant", "findWarehouse", "insertDefault",
                  "ensureAdmin", "insertAdmin", "updateAdmin", "idle"}
MigrationLabels == {"migrationFindTenant", "migrationInsertTenant", "backfillUsers",
                    "backfillWarehouses", "migrationFindDefault", "migrationInsertDefault",
                    "backfillLocations", "idle"}
WarehouseLabels == {"insertOtherTenant", "insertWarehouse", "setCode", "deleteWarehouse"}
AlertsLabels == {"writeSettings", "lowSend", "lowMark", "digestSend", "digestMark", "idle"}

AccessLabels == StartUpLabels \cup MigrationLabels \cup WarehouseLabels
                    \cup {"insertLocation", "insertUser", "updateUser"}

LEMMA EnteringMoves ==
    ASSUME Runs, NEW w \in Workers, NEW label, NEW l, NEW kind, NEW window,
           Enter(w, label, l, kind, window), UNCHANGED faults \/ Fails
    PROVE  \A L : label \in L => Moves(w, L)
  <1>1. /\ pc'[w] = label
        /\ \A v \in Workers : v # w => pc'[v] = pc[v] /\ loc'[v] = loc[v]
        /\ overlapped \subseteq overlapped'
    BY Entering
  <1>2. faults' \in Nat /\ faults <= faults'
    BY FaultsGrow DEF Runs
  <1>. QED  BY <1>1, <1>2 DEF Moves

LEMMA GoingOnMoves ==
    ASSUME Runs, NEW w \in Workers, NEW label, NEW l, Goto(w, label, l), UNCHANGED faults \/ Fails
    PROVE  \A L : label \in L => Moves(w, L)
  BY EnteringMoves DEF Goto

LEMMA FinishingMoves ==
    ASSUME Runs, NEW w \in Workers, Finish(w), UNCHANGED faults \/ Fails
    PROVE  \A L : "idle" \in L => Moves(w, L)
  BY GoingOnMoves DEF Finish

LEMMA StartUpMoves ==
    ASSUME Runs, NEW w \in Workers, StartUp(w)
    PROVE  Moves(w, StartUpLabels)
  <1>1. CASE StartProcess(w)
    BY <1>1, GoingOnMoves DEF StartProcess, StartUpLabels
  <1>2. CASE FindTenant(w)
    <2>1. UNCHANGED faults \/ Fails
      BY <1>2 DEF FindTenant, Found
    <2>2. \/ Enter(w, "insertTenant", Nothing, "tenant", TenantInserts)
          \/ Goto(w, "findWarehouse", Nothing)
      BY <1>2 DEF FindTenant
    <2>. QED  BY <2>1, <2>2, EnteringMoves, GoingOnMoves DEF StartUpLabels
  <1>3. CASE InsertTenant(w)
    BY <1>3, GoingOnMoves DEF InsertTenant, StartUpLabels
  <1>4. CASE FindWarehouse(w)
    <2>1. UNCHANGED faults \/ Fails
      BY <1>4 DEF FindWarehouse, Found
    <2>2. \/ Enter(w, "insertDefault", Nothing, "warehouse", DefaultInserts)
          \/ \E l : Goto(w, "ensureAdmin", l)
      BY <1>4 DEF FindWarehouse
    <2>. QED  BY <2>1, <2>2, EnteringMoves, GoingOnMoves DEF StartUpLabels
  <1>5. CASE InsertDefault(w)
    <2>1. /\ UNCHANGED faults \/ Fails
          /\ \E l : Goto(w, "ensureAdmin", l)
      BY <1>5 DEF InsertDefault
    <2>. QED  BY <2>1, GoingOnMoves DEF StartUpLabels
  <1>6. CASE EnsureSuperAdmin(w)
    <2>1. \/ \E l : Goto(w, "insertAdmin", l)
          \/ \E l : Goto(w, "updateAdmin", l)
          \/ Finish(w)
      BY <1>6 DEF EnsureSuperAdmin
    <2>. QED  BY <1>6, <2>1, GoingOnMoves, FinishingMoves DEF EnsureSuperAdmin, StartUpLabels
  <1>7. CASE InsertSuperAdmin(w) \/ UpdateSuperAdmin(w)
    BY <1>7, FinishingMoves DEF InsertSuperAdmin, UpdateSuperAdmin, StartUpLabels
  <1>. QED  BY <1>1, <1>2, <1>3, <1>4, <1>5, <1>6, <1>7 DEF StartUp

LEMMA MigrationMoves ==
    ASSUME Runs, NEW w \in Workers, Migration(w)
    PROVE  Moves(w, MigrationLabels)
  <1>1. CASE MigrateTenant(w)
    BY <1>1, GoingOnMoves DEF MigrateTenant, MigrationLabels
  <1>2. CASE MigrationFindTenant(w)
    <2>1. UNCHANGED faults \/ Fails
      BY <1>2 DEF MigrationFindTenant, Found
    <2>2. \/ Enter(w, "migrationInsertTenant", Nothing, "tenant", TenantInserts)
          \/ \E l : Goto(w, "backfillUsers", l)
      BY <1>2 DEF MigrationFindTenant
    <2>. QED  BY <2>1, <2>2, EnteringMoves, GoingOnMoves DEF MigrationLabels
  <1>3. CASE MigrationInsertTenant(w)
    BY <1>3, GoingOnMoves DEF MigrationInsertTenant, MigrationLabels
  <1>4. CASE BackfillUsers(w)
    BY <1>4, GoingOnMoves DEF BackfillUsers, MigrationLabels
  <1>5. CASE BackfillWarehouses(w) \/ BackfillLocations(w)
    BY <1>5, FinishingMoves DEF BackfillWarehouses, BackfillLocations, MigrationLabels
  <1>6. ASSUME NEW apply, MigrateWarehouse(w, apply) PROVE Moves(w, MigrationLabels)
    <2>1. \E l : Goto(w, "migrationFindDefault", l)
      BY <1>6 DEF MigrateWarehouse
    <2>. QED  BY <1>6, <2>1, GoingOnMoves DEF MigrateWarehouse, MigrationLabels
  <1>7. CASE MigrationFindDefault(w)
    <2>1. UNCHANGED faults \/ Fails
      BY <1>7 DEF MigrationFindDefault, Found
    <2>2. \/ \E l : Enter(w, "migrationInsertDefault", l, "warehouse", DefaultInserts)
          \/ \E l : Goto(w, "backfillLocations", l)
          \/ Finish(w)
      BY <1>7 DEF MigrationFindDefault, ToBackfill
    <2>. QED  BY <2>1, <2>2, EnteringMoves, GoingOnMoves, FinishingMoves DEF MigrationLabels
  <1>8. CASE MigrationInsertDefault(w)
    <2>1. \/ \E l : Goto(w, "backfillLocations", l)
          \/ Finish(w)
      BY <1>8 DEF MigrationInsertDefault, ToBackfill
    <2>. QED  BY <1>8, <2>1, GoingOnMoves, FinishingMoves DEF MigrationInsertDefault, MigrationLabels
  <1>. QED  BY <1>1, <1>2, <1>3, <1>4, <1>5, <1>6, <1>7, <1>8 DEF Migration

LEMMA WarehouseRequestMoves ==
    ASSUME Runs, NEW w \in Workers, Request(w), WarehouseRequests(w)
    PROVE  Moves(w, WarehouseLabels)
  <1>0. UNCHANGED faults \/ Fails
    BY RequestFails
  <1>1. CASE CreateTenant(w)
    BY <1>0, <1>1, EnteringMoves DEF CreateTenant, WarehouseLabels
  <1>2. ASSUME NEW code, NEW t, CreateWarehouse(w, code, t) PROVE Moves(w, WarehouseLabels)
    <2>1. \E l : Enter(w, "insertWarehouse", l, "code", CodeWrites)
      BY <1>2 DEF CreateWarehouse
    <2>. QED  BY <1>0, <2>1, EnteringMoves DEF WarehouseLabels
  <1>3. ASSUME NEW code, NEW i, UpdateWarehouse(w, i, code) PROVE Moves(w, WarehouseLabels)
    <2>1. \E l : Enter(w, "setCode", l, "code", CodeWrites)
      BY <1>3 DEF UpdateWarehouse
    <2>. QED  BY <1>0, <2>1, EnteringMoves DEF WarehouseLabels
  <1>4. ASSUME NEW i, DeleteWarehouse(w, i) PROVE Moves(w, WarehouseLabels)
    <2>1. \E l : Enter(w, "deleteWarehouse", l, "data", {"insertLocation"})
      BY <1>4 DEF DeleteWarehouse
    <2>. QED  BY <1>0, <2>1, EnteringMoves DEF WarehouseLabels
  <1>. QED  BY <1>1, <1>2, <1>3, <1>4 DEF WarehouseRequests

LEMMA LocationRequestMoves ==
    ASSUME Runs, NEW w \in Workers, Request(w), LocationRequests(w)
    PROVE  Moves(w, {"insertLocation", "idle"})
  <1>0. UNCHANGED faults \/ Fails
    BY RequestFails
  <1>1. ASSUME NEW n, NEW header, NEW place, NEW rack, CreateLocation(w, n, header, place, rack)
        PROVE  Moves(w, {"insertLocation", "idle"})
    <2>1. \E l : Enter(w, "insertLocation", l, "data", {"deleteWarehouse"})
      BY <1>1 DEF CreateLocation
    <2>. QED  BY <1>0, <2>1, EnteringMoves
  <1>2. ASSUME NEW rack, ImportLocation(w, rack) PROVE Moves(w, {"insertLocation", "idle"})
    <2>1. \E l : Goto(w, "insertLocation", l)
      BY <1>2 DEF ImportLocation
    <2>. QED  BY <1>0, <2>1, GoingOnMoves
  <1>3. ASSUME NEW x, DeleteLocation(w, x) PROVE Moves(w, {"insertLocation", "idle"})
    BY <1>0, <1>3, FinishingMoves DEF DeleteLocation
  <1>4. ASSUME NEW x, NEW rack, UpdateLocation(w, x, rack)
        PROVE  Moves(w, {"insertLocation", "idle"})
    BY <1>0, <1>4, FinishingMoves DEF UpdateLocation
  <1>. QED  BY <1>1, <1>2, <1>3, <1>4 DEF LocationRequests

LEMMA UserRequestMoves ==
    ASSUME Runs, NEW w \in Workers, Request(w), UserRequests(w)
    PROVE  Moves(w, {"insertUser", "updateUser", "idle"})
  <1>0. UNCHANGED faults \/ Fails
    BY RequestFails
  <1>1. ASSUME NEW n, NEW role, NEW t, Register(w, n, role, t)
        PROVE  Moves(w, {"insertUser", "updateUser", "idle"})
    <2>1. \E l : Goto(w, "insertUser", l)
      BY <1>1 DEF Register
    <2>. QED  BY <1>0, <2>1, GoingOnMoves
  <1>2. ASSUME NEW n, NEW update, UpdateUser(w, n, update)
        PROVE  Moves(w, {"insertUser", "updateUser", "idle"})
    <2>1. \E l : Enter(w, "updateUser", l, n, {"updateUser"})
      BY <1>2 DEF UpdateUser
    <2>. QED  BY <1>0, <2>1, EnteringMoves
  <1>3. ASSUME NEW n, DeleteUser(w, n) PROVE Moves(w, {"insertUser", "updateUser", "idle"})
    BY <1>0, <1>3, FinishingMoves DEF DeleteUser
  <1>. QED  BY <1>1, <1>2, <1>3 DEF UserRequests

LEMMA WriteMoves ==
    ASSUME Runs, NEW w \in Workers,
           WarehouseWrites(w) \/ InsertLocation(w) \/ InsertUser(w) \/ WriteUser(w)
    PROVE  Moves(w, {"idle"})
  <1>1. Finish(w) /\ UNCHANGED faults
    BY DEF WarehouseWrites, InsertOtherTenant, InsertNewWarehouse, SetCode, RemoveWarehouse,
           InsertLocation, InsertUser, WriteUser
  <1>. QED  BY <1>1, FinishingMoves

LEMMA WiderMoves ==
    ASSUME NEW w, NEW L, NEW M, Moves(w, L), L \subseteq M
    PROVE  Moves(w, M)
  BY DEF Moves

LEMMA AccessMoves ==
    ASSUME Runs, NEW w \in Workers, AccessNext(w)
    PROVE  Moves(w, AccessLabels)
  <1>1. /\ StartUpLabels \subseteq AccessLabels
        /\ MigrationLabels \subseteq AccessLabels
        /\ WarehouseLabels \subseteq AccessLabels
        /\ {"insertLocation", "idle"} \subseteq AccessLabels
        /\ {"insertUser", "updateUser", "idle"} \subseteq AccessLabels
        /\ {"idle"} \subseteq AccessLabels
    BY DEF AccessLabels, StartUpLabels
  <1>. QED  BY <1>1, StartUpMoves, MigrationMoves, WarehouseRequestMoves, LocationRequestMoves,
               UserRequestMoves, WriteMoves, WiderMoves DEF AccessNext

LEMMA AlertsMoves ==
    ASSUME Runs, NEW w \in Workers, AlertsNext(w)
    PROVE  Moves(w, AlertsLabels)
  <1>1. ASSUME NEW form, SaveSettings(w, form) PROVE Moves(w, AlertsLabels)
    <2>1. \E l : Enter(w, "writeSettings", l, "settings", {"writeSettings"})
      BY <1>1 DEF SaveSettings
    <2>. QED  BY <1>1, <2>1, EnteringMoves DEF SaveSettings, AlertsLabels
  <1>2. CASE WriteSettings(w) \/ Announce(w) \/ MarkLowStock(w) \/ MarkDigest(w)
    BY <1>2, FinishingMoves DEF WriteSettings, Announce, MarkLowStock, MarkDigest, AlertsLabels
  <1>3. CASE CheckLowStock(w)
    BY <1>3, EnteringMoves DEF CheckLowStock, AlertsLabels
  <1>4. CASE SendLowStock(w)
    BY <1>4, GoingOnMoves DEF SendLowStock, AlertsLabels
  <1>5. ASSUME NEW cli, NEW force, RunExpiryDigest(w, cli, force) PROVE Moves(w, AlertsLabels)
    <2>1. \E l : Enter(w, "digestSend", l, "digest", {"digestSend", "digestMark"})
      BY <1>5 DEF RunExpiryDigest
    <2>. QED  BY <1>5, <2>1, EnteringMoves DEF RunExpiryDigest, AlertsLabels
  <1>6. CASE SendDigest(w)
    BY <1>6, GoingOnMoves DEF SendDigest, AlertsLabels
  <1>. QED  BY <1>1, <1>2, <1>3, <1>4, <1>5, <1>6 DEF AlertsNext

-----------------------------------------------------------------------------
(* The list of warehouses and WarehouseContext.                            *)

LEMMA ListAgrees ==
    ASSUME AccessTypeOK PROVE ListAgreesWithContext
  <1>1. ASSUME NEW n \in LiveUsers, NEW i \in DOMAIN warehouses,
               i \in ListedOf(users[n])
        PROVE  Granted(users[n], i)
    <2>1. i # 0
      BY Ids
    <2>. QED  BY <1>1, <2>1 DEF ListedOf, Administers, Granted, SameTenant
  <1>2. ASSUME NEW n \in LiveUsers, NEW i \in DOMAIN warehouses,
               Administers(users[n]), Granted(users[n], i), Live(i)
        PROVE  i \in ListedOf(users[n]) \/ (users[n].tenant # 0 /\ warehouses[i].tenant = 0)
    BY <1>2 DEF ListedOf, Administers, Granted, SameTenant
  <1>. QED  BY <1>1, <1>2 DEF ListAgreesWithContext

(* The list of warehouses and WarehouseContext are two pieces of code:     *)
(* whatever has been done to accounts and warehouses, an administrator is  *)
(* shown a warehouse of a tenant exactly when the context lets the         *)
(* administrator in.                                                       *)
THEOREM ListAlwaysAgrees == Spec => []ListAgreesWithContext
  <1>1. Typing => ListAgreesWithContext
    BY ListAgrees DEF Typing
  <1>. QED  BY <1>1, AlwaysTyping, PTL

-----------------------------------------------------------------------------
(* The Telegram token.  An update carries the token that was typed, or,    *)
(* when none was, the one it read.                                         *)

Exempt == {9, 10}

(* The last token, or the mask of a displayed one that shows too much.     *)
Kept(token, last, shown) == token = last \/ -token \in shown \cap Exempt

CarriesToken(label, l, last, shown) ==
    label = "writeSettings" =>
        IF l.typed = 0 THEN Kept(l.doc.token, last, shown) ELSE l.doc.token = l.typed

MasksKnown(shown) == \A t \in shown : t < 0 => -t \in shown \cap Exempt

Token ==
    \/ "settings" \in overlapped
    \/ /\ Kept(settings.token, lastTyped, displayed)
       /\ MasksKnown(displayed)
       /\ \A v, w \in Workers : (pc[v] = "writeSettings" /\ pc[w] = "writeSettings") => v = w
       /\ \A w \in Workers : CarriesToken(pc[w], loc[w], lastTyped, displayed)

LEMMA TokenStill ==
    ASSUME Token, UNCHANGED <<pc, loc, overlapped, settings, displayed, lastTyped>>
    PROVE  Token'
  BY DEF Token, CarriesToken, Kept, MasksKnown

LEMMA TokenDisplayed ==
    ASSUME Typing, Token, DisplaySettings, UNCHANGED <<pc, loc, overlapped>>
    PROVE  Token'
  <1>0. lastTyped \in Nat /\ settings.token \in Int /\ displayed \subseteq Int
    BY DEF Typing, AlertsTyped, AlertsTypeOK, Settings
  <1>1. /\ UNCHANGED <<settings, lastTyped>>
        /\ displayed' = displayed \cup {settings.token}
    BY DEF DisplaySettings
  <1>2. CASE "settings" \in overlapped
    BY <1>2 DEF Token
  <1>3. CASE "settings" \notin overlapped
    <2>1. \A token, last : Kept(token, last, displayed) => Kept(token, last, displayed')
      BY <1>1 DEF Kept
    <2>2. MasksKnown(displayed')
      <3>1. settings.token < 0 => -settings.token \in displayed \cap Exempt
        BY <1>0, <1>3 DEF Token, Kept
      <3>. QED  BY <1>1, <1>3, <3>1 DEF Token, MasksKnown
    <2>3. \A w \in Workers : CarriesToken(pc[w], loc[w], lastTyped, displayed')
      BY <1>3, <2>1 DEF Token, CarriesToken
    <2>4. Kept(settings.token, lastTyped, displayed')
      BY <1>3, <2>1 DEF Token
    <2>5. \A v, w \in Workers : (pc[v] = "writeSettings" /\ pc[w] = "writeSettings") => v = w
      BY <1>3 DEF Token
    <2>. QED  BY <1>1, <2>2, <2>3, <2>4, <2>5 DEF Token
  <1>. QED  BY <1>2, <1>3

LEMMA TokenElsewhere ==
    ASSUME Token, NEW w \in Workers, NEW L, Moves(w, L), "writeSettings" \notin L,
           UNCHANGED <<settings, displayed, lastTyped>>
    PROVE  Token'
  <1>1. CASE "settings" \in overlapped
    BY <1>1 DEF Moves, Token
  <1>2. CASE "settings" \notin overlapped
    <2>1. \A v \in Workers : CarriesToken(pc[v]', loc[v]', lastTyped, displayed)
      BY <1>2 DEF Token, Moves, CarriesToken
    <2>2. \A u, v \in Workers : (pc'[u] = "writeSettings" /\ pc'[v] = "writeSettings") => u = v
      BY <1>2 DEF Token, Moves
    <2>3. Kept(settings.token, lastTyped, displayed) /\ MasksKnown(displayed)
      BY <1>2 DEF Token
    <2>. QED  BY <1>2, <2>1, <2>2, <2>3 DEF Token
  <1>. QED  BY <1>1, <1>2

LEMMA MergedToken ==
    ASSUME NEW form \in Form, NEW existing \in Settings, NEW last \in Nat,
           NEW shown \in SUBSET Int, NEW t \in shown,
           Kept(existing.token, last, shown), MasksKnown(shown)
    PROVE  CarriesToken("writeSettings",
                        [kind |-> "settings", doc |-> Merged(form, Typed(form, t), existing),
                         typed |-> IF form.shown THEN 0 ELSE form.token], last, shown)
  <1>1. PICK typed \in Nat : typed = IF form.shown THEN 0 ELSE form.token
    BY DEF Form
  <1>3. PICK text \in Int : text = Typed(form, t)
    BY TypedTyped
  <1>2. PICK token \in Int : token = Merged(form, text, existing).token
    BY MergedTyped DEF Settings
  <1>4. token = IF text = 0 \/ LooksMasked(text) THEN existing.token ELSE text
    BY <1>2 DEF Merged
  <1>5. CASE form.shown
    <2>1. typed = 0
      BY <1>1, <1>5
    <2>2. CASE text # 0 /\ ~LooksMasked(text)
      <3>1. token = text
        BY <1>4, <2>2
      <3>2. text = IF t > 0 THEN -t ELSE t
        BY <1>3, <1>5 DEF Typed, Shown
      <3>3. text < 0 /\ -text \in Exempt
        BY <2>2, <3>2 DEF LooksMasked, Exempt
      <3>4. -text \in shown
        <4>1. CASE t > 0
          BY <3>2, <4>1
        <4>2. CASE ~(t > 0)
          BY <3>2, <3>3, <4>2 DEF MasksKnown
        <4>. QED  BY <4>1, <4>2
      <3>5. Kept(token, last, shown)
        BY <3>1, <3>3, <3>4 DEF Kept
      <3>. QED  BY <1>1, <1>2, <1>3, <2>1, <3>5 DEF CarriesToken
    <2>3. CASE text = 0 \/ LooksMasked(text)
      <3>1. Kept(token, last, shown)
        BY <1>4, <2>3
      <3>. QED  BY <1>1, <1>2, <1>3, <2>1, <3>1 DEF CarriesToken
    <2>. QED  BY <2>2, <2>3
  <1>6. CASE ~ form.shown
    <2>1. typed = form.token /\ text = form.token
      BY <1>1, <1>3, <1>6 DEF Typed
    <2>2. CASE typed = 0
      <3>1. Kept(token, last, shown)
        BY <1>4, <2>1, <2>2
      <3>. QED  BY <1>1, <1>2, <1>3, <2>2, <3>1 DEF CarriesToken
    <2>3. CASE typed # 0
      <3>1. token = typed
        BY <1>4, <2>1, <2>3 DEF LooksMasked
      <3>. QED  BY <1>1, <1>2, <1>3, <2>3, <3>1 DEF CarriesToken
    <2>. QED  BY <2>2, <2>3
  <1>. QED  BY <1>5, <1>6

LEMMA TokenSaved ==
    ASSUME Typing, Token, NEW w \in Workers, NEW form \in Forms, SaveSettings(w, form)
    PROVE  Token'
  <1>0. Runs /\ settings \in Settings /\ lastTyped \in Nat /\ displayed \in SUBSET Int
    BY DEF Typing, AlertsTyped, AlertsTypeOK
  <1>1. PICK t \in displayed :
           Enter(w, "writeSettings",
                 [kind |-> "settings", doc |-> Merged(form, Typed(form, t), settings),
                  typed |-> IF form.shown THEN 0 ELSE form.token],
                 "settings", {"writeSettings"})
    BY DEF SaveSettings
  <1> DEFINE l == [kind |-> "settings", doc |-> Merged(form, Typed(form, t), settings),
                   typed |-> IF form.shown THEN 0 ELSE form.token]
  <1>2. /\ pc'[w] = "writeSettings" /\ loc'[w] = l
        /\ \A v \in Workers : v # w => pc'[v] = pc[v] /\ loc'[v] = loc[v]
        /\ \A k : k \in overlapped' <=>
              (k \in overlapped
                  \/ (k = "settings" /\ \E v \in Workers \ {w} : pc[v] \in {"writeSettings"}))
    BY <1>0, <1>1, Entering
  <1>3. UNCHANGED <<settings, displayed, lastTyped>>
    BY DEF SaveSettings, alerts
  <1>4. CASE "settings" \in overlapped'
    BY <1>4 DEF Token
  <1>5. CASE "settings" \notin overlapped'
    <2>1. /\ "settings" \notin overlapped
          /\ \A v \in Workers \ {w} : pc[v] # "writeSettings"
      BY <1>2, <1>5
    <2>2. Kept(settings.token, lastTyped, displayed) /\ MasksKnown(displayed)
      BY <2>1 DEF Token
    <2>3. CarriesToken("writeSettings", l, lastTyped, displayed)
      BY <1>0, <2>2, MergedToken, FormsAssumption
    <2> HIDE DEF l
    <2>4. \A u \in Workers : CarriesToken(pc'[u], loc'[u], lastTyped, displayed)
      BY <1>2, <2>1, <2>3 DEF CarriesToken
    <2>5. \A u, v \in Workers : (pc'[u] = "writeSettings" /\ pc'[v] = "writeSettings") => u = v
      BY <1>2, <2>1
    <2>. QED  BY <1>3, <2>2, <2>4, <2>5 DEF Token
  <1>. QED  BY <1>4, <1>5

LEMMA TokenWritten ==
    ASSUME Typing, Token, NEW w \in Workers, WriteSettings(w)
    PROVE  Token'
  <1>1. PICK l : l = loc[w]
    OBVIOUS
  <1>2. PICK last : last = lastTyped
    OBVIOUS
  <1>3. /\ pc[w] = "writeSettings" /\ settings' = l.doc
        /\ lastTyped' = IF l.typed = 0 THEN last ELSE l.typed
        /\ displayed' = displayed
    BY <1>1, <1>2 DEF WriteSettings, At
  <1>4. /\ pc'[w] = "idle"
        /\ \A v \in Workers : v # w => pc'[v] = pc[v] /\ loc'[v] = loc[v]
        /\ overlapped' = overlapped
    BY GoingOn DEF Typing, WriteSettings, Finish
  <1>5. CASE "settings" \in overlapped
    BY <1>4, <1>5 DEF Token
  <1>6. CASE "settings" \notin overlapped
    <2>1. /\ \A v \in Workers : v # w => pc[v] # "writeSettings"
          /\ CarriesToken(pc[w], l, last, displayed)
          /\ MasksKnown(displayed)
      BY <1>1, <1>2, <1>3, <1>6 DEF Token
    <2>2. \A v \in Workers : pc'[v] # "writeSettings"
      BY <1>4, <2>1
    <2>3. Kept(settings'.token, lastTyped', displayed')
      BY <1>3, <2>1 DEF CarriesToken, Kept
    <2>4. \A v \in Workers : CarriesToken(pc'[v], loc'[v], lastTyped', displayed')
      BY <2>2 DEF CarriesToken
    <2>5. MasksKnown(displayed')
      BY <1>3, <2>1
    <2>. QED  BY <2>2, <2>3, <2>4, <2>5 DEF Token
  <1>. QED  BY <1>5, <1>6

LEMMA InitToken ==
    ASSUME Init PROVE Token
  BY DEF Init, GoroutinesInit, AlertsInit, NoSettings, Token, CarriesToken, Kept, MasksKnown

(* What every other step leaves alone.                                     *)
LEMMA StepToken ==
    ASSUME Typing, Token, [Next]_vars PROVE Token'
  <1>0. Runs
    BY DEF Typing
  <1>1. ASSUME NEW w \in Workers, AccessNext(w), UNCHANGED alerts PROVE Token'
    <2>1. "writeSettings" \notin AccessLabels
      BY DEF AccessLabels, StartUpLabels, MigrationLabels, WarehouseLabels
    <2>. QED  BY <1>0, <1>1, <2>1, AccessMoves, TokenElsewhere DEF alerts
  <1>2. ASSUME NEW w \in Workers, AlertsNext(w) PROVE Token'
    <2>1. ASSUME NEW L, Moves(w, L), "writeSettings" \notin L,
                 UNCHANGED <<settings, displayed, lastTyped>>
          PROVE  Token'
      BY <2>1, TokenElsewhere
    <2>2. CASE Announce(w) \/ MarkLowStock(w) \/ MarkDigest(w)
      <3>1. Moves(w, {"idle"})
        BY <1>0, <2>2, FinishingMoves DEF Announce, MarkLowStock, MarkDigest
      <3>. QED  BY <2>1, <2>2, <3>1 DEF Announce, MarkLowStock, MarkDigest
    <2>3. CASE CheckLowStock(w)
      <3>1. Moves(w, {"lowSend"})
        BY <1>0, <2>3, EnteringMoves DEF CheckLowStock
      <3>. QED  BY <2>1, <2>3, <3>1 DEF CheckLowStock, alerts
    <2>4. CASE SendLowStock(w)
      <3>1. Moves(w, {"lowMark"})
        BY <1>0, <2>4, GoingOnMoves DEF SendLowStock
      <3>. QED  BY <2>1, <2>4, <3>1 DEF SendLowStock
    <2>5. ASSUME NEW cli, NEW force, RunExpiryDigest(w, cli, force) PROVE Token'
      <3>1. \E l : Enter(w, "digestSend", l, "digest", {"digestSend", "digestMark"})
        BY <2>5 DEF RunExpiryDigest
      <3>2. Moves(w, {"digestSend"})
        BY <1>0, <2>5, <3>1, EnteringMoves DEF RunExpiryDigest
      <3>. QED  BY <2>1, <2>5, <3>2 DEF RunExpiryDigest
    <2>6. CASE SendDigest(w)
      <3>1. Moves(w, {"digestMark"})
        BY <1>0, <2>6, GoingOnMoves DEF SendDigest
      <3>. QED  BY <2>1, <2>6, <3>1 DEF SendDigest
    <2>. QED  BY <1>2, <2>2, <2>3, <2>4, <2>5, <2>6, TokenSaved, TokenWritten DEF AlertsNext
  <1>3. ASSUME NEW w \in Workers, Abandon(w), UNCHANGED alerts PROVE Token'
    <2>1. Moves(w, {"idle"})
      BY <1>0, <1>3, FinishingMoves DEF Abandon
    <2>. QED  BY <1>3, <2>1, TokenElsewhere DEF alerts
  <1>4. CASE Background /\ UNCHANGED <<goroutines, documents>>
    BY <1>4, TokenStill, TokenDisplayed
       DEF goroutines, Background, TakeMessage, SendingEnds, SendingFails, NextDay, SixHoursPass
  <1>5. CASE ServerEnds /\ UNCHANGED <<pc, loc, started, overlapped, documents>>
    BY <1>5, TokenStill DEF ServerEnds
  <1>6. CASE UNCHANGED vars
    BY <1>6, TokenStill DEF vars, goroutines, alerts
  <1>. QED  BY <1>1, <1>2, <1>3, <1>4, <1>5, <1>6 DEF Next

(* "If token looks masked, keep existing token": saving a page, however    *)
(* old what it displays, with the token as it is displayed or with none,   *)
(* never loses the token, but for overlapping updates and for the masks of *)
(* displayed tokens of nine or ten characters.                             *)
THEOREM TokenIsAlwaysKept == Spec => []TokenIsKept
  <1>1. Init => Token
    BY InitToken
  <1>2. Typing /\ Token /\ [Next]_vars => Token'
    BY StepToken
  <1>3. Token => TokenIsKept
    BY DEF Token, TokenIsKept, Kept, Exempt
  <1>. QED  BY <1>1, <1>2, <1>3, AlwaysTyping, PTL DEF Spec

-----------------------------------------------------------------------------
(* The low-stock alert: a fresh mark, no alert, or one that is about to be *)
(* marked.                                                                 *)

LowLabels == {"lowSend", "lowMark"}

LowStock ==
    \/ faults > 0
    \/ "low" \in overlapped
    \/ /\ \A v, w \in Workers : (pc[v] \in LowLabels /\ pc[w] \in LowLabels) => v = w
       /\ lowSent <= 1
       /\ lowFresh => \A w \in Workers : pc[w] \notin LowLabels
       /\ lowFresh \/ lowSent = 0 \/ \E w \in Workers : pc[w] = "lowMark"

LEMMA LowStockStill ==
    ASSUME LowStock, UNCHANGED <<pc, overlapped, faults, lowFresh, lowSent>>
    PROVE  LowStock'
  BY DEF LowStock

LEMMA LowStockElsewhere ==
    ASSUME Typing, LowStock, NEW w \in Workers, pc[w] \notin LowLabels,
           NEW L, Moves(w, L), L \cap LowLabels = {}, UNCHANGED <<lowFresh, lowSent>>
    PROVE  LowStock'
  <1>1. CASE faults > 0
    BY <1>1 DEF LowStock, Moves, Typing, Runs
  <1>2. CASE "low" \in overlapped
    BY <1>2 DEF LowStock, Moves
  <1>3. CASE faults' = 0 /\ "low" \notin overlapped
    <2>1. \A v \in Workers : \A x \in LowLabels : pc'[v] = x <=> pc[v] = x
      BY DEF Moves
    <2>2. ~ faults > 0
      BY <1>3 DEF Moves, Typing, Runs
    <2>3. "lowMark" \in LowLabels
      BY DEF LowLabels
    <2>. QED  BY <1>3, <2>1, <2>2, <2>3 DEF LowStock
  <1>4. faults' = 0 \/ faults' > 0
    BY DEF Moves
  <1>. QED  BY <1>1, <1>2, <1>3, <1>4 DEF LowStock

LEMMA LowStockChecked ==
    ASSUME Typing, LowStock, NEW w \in Workers, CheckLowStock(w)
    PROVE  LowStock'
  <1>0. Runs /\ lowSent \in Nat
    BY DEF Typing, AlertsTyped
  <1>1. /\ pc'[w] = "lowSend" /\ pc[w] = "idle"
        /\ \A v \in Workers : v # w => pc'[v] = pc[v]
        /\ \A k : k \in overlapped' <=>
              (k \in overlapped
                  \/ (k = "low" /\ \E v \in Workers \ {w} : pc[v] \in LowLabels))
    BY <1>0, Entering DEF CheckLowStock, Starts, At, LowLabels
  <1>2. UNCHANGED <<lowFresh, lowSent, faults>> /\ ~lowFresh
    BY DEF CheckLowStock, alerts
  <1>3. CASE faults > 0 \/ "low" \in overlapped'
    BY <1>2, <1>3 DEF LowStock
  <1>4. CASE ~ (faults > 0) /\ "low" \notin overlapped'
    <2>1. /\ "low" \notin overlapped
          /\ \A v \in Workers : v # w => pc[v] \notin LowLabels
      BY <1>1, <1>4
    <2>2. \A v \in Workers : pc[v] # "lowMark"
      BY <1>1, <2>1 DEF LowLabels
    <2>3. lowSent = 0
      BY <1>2, <1>4, <2>1, <2>2 DEF LowStock
    <2>4. \A v \in Workers : pc'[v] \in LowLabels => v = w
      BY <1>1, <2>1
    <2>. QED  BY <1>2, <2>3, <2>4 DEF LowStock
  <1>. QED  BY <1>3, <1>4

LEMMA LowStockSent ==
    ASSUME Typing, LowStock, NEW w \in Workers, SendLowStock(w)
    PROVE  LowStock'
  <1>0. Runs /\ lowSent \in Nat /\ faults \in Nat
    BY DEF Typing, AlertsTyped, Runs
  <1>1. /\ pc'[w] = "lowMark" /\ pc[w] = "lowSend"
        /\ \A v \in Workers : v # w => pc'[v] = pc[v]
        /\ overlapped' = overlapped
    BY <1>0, GoingOn DEF SendLowStock, At
  <1>2. CASE Fails
    <2>1. faults' > 0
      BY <1>0, <1>2 DEF Fails
    <2>. QED  BY <2>1 DEF LowStock
  <1>3. CASE ~ Fails
    <2>1. UNCHANGED <<faults, lowFresh>> /\ lowSent' \in {lowSent, lowSent + 1}
      BY <1>3 DEF SendLowStock
    <2>2. CASE faults > 0 \/ "low" \in overlapped
      BY <1>1, <2>1, <2>2 DEF LowStock
    <2>3. CASE ~ (faults > 0) /\ "low" \notin overlapped
      <3>1. /\ \A v \in Workers : v # w => pc[v] \notin LowLabels
            /\ ~lowFresh
        BY <1>1, <2>3 DEF LowStock, LowLabels
      <3>2. \A v \in Workers : pc[v] # "lowMark"
        BY <1>1, <3>1 DEF LowLabels
      <3>3. lowSent = 0
        BY <2>3, <3>1, <3>2 DEF LowStock
      <3>4. lowSent' <= 1 /\ ~lowFresh'
        BY <2>1, <3>1, <3>3
      <3>5. \A v \in Workers : pc'[v] \in LowLabels => v = w
        BY <1>1, <3>1
      <3>. QED  BY <1>1, <3>4, <3>5 DEF LowStock
    <2>. QED  BY <2>2, <2>3
  <1>. QED  BY <1>2, <1>3

LEMMA LowStockMarked ==
    ASSUME Typing, LowStock, NEW w \in Workers, MarkLowStock(w)
    PROVE  LowStock'
  <1>1. /\ pc'[w] = "idle" /\ pc[w] = "lowMark"
        /\ \A v \in Workers : v # w => pc'[v] = pc[v]
        /\ overlapped' = overlapped
    BY GoingOn DEF Typing, MarkLowStock, Finish, At
  <1>2. UNCHANGED <<faults, lowSent>> /\ lowFresh'
    BY DEF MarkLowStock
  <1>3. CASE faults > 0 \/ "low" \in overlapped
    BY <1>1, <1>2, <1>3 DEF LowStock
  <1>4. CASE ~ (faults > 0) /\ "low" \notin overlapped
    <2>1. \A v \in Workers : v # w => pc[v] \notin LowLabels
      BY <1>1, <1>4 DEF LowStock, LowLabels
    <2>2. \A v \in Workers : pc'[v] \notin LowLabels
      BY <1>1, <2>1 DEF LowLabels
    <2>. QED  BY <1>2, <1>4, <2>2 DEF LowStock
  <1>. QED  BY <1>3, <1>4

(* Where the other operations lead.                                        *)
LEMMA AlertsLead ==
    ASSUME Runs, NEW w \in Workers
    PROVE  /\ WriteSettings(w) \/ Announce(w) \/ MarkLowStock(w) \/ MarkDigest(w) \/ Abandon(w)
                  => Moves(w, {"idle"})
           /\ CheckLowStock(w) => Moves(w, {"lowSend"}) /\ pc[w] = "idle"
           /\ SendLowStock(w) => Moves(w, {"lowMark"}) /\ pc[w] = "lowSend"
           /\ MarkLowStock(w) => pc[w] = "lowMark"
           /\ \A form : SaveSettings(w, form) => Moves(w, {"writeSettings"}) /\ pc[w] = "idle"
           /\ WriteSettings(w) => pc[w] = "writeSettings"
           /\ Announce(w) => pc[w] = "idle"
           /\ \A cli, force : RunExpiryDigest(w, cli, force) =>
                  Moves(w, {"digestSend"}) /\ pc[w] = "idle"
           /\ SendDigest(w) => Moves(w, {"digestMark"}) /\ pc[w] = "digestSend"
           /\ MarkDigest(w) => pc[w] = "digestMark"
  <1>1. WriteSettings(w) \/ Announce(w) \/ MarkLowStock(w) \/ MarkDigest(w) \/ Abandon(w)
            => Moves(w, {"idle"})
    BY FinishingMoves DEF WriteSettings, Announce, MarkLowStock, MarkDigest, Abandon
  <1>2. CheckLowStock(w) => Moves(w, {"lowSend"})
    BY EnteringMoves DEF CheckLowStock
  <1>3. SendLowStock(w) => Moves(w, {"lowMark"})
    BY GoingOnMoves DEF SendLowStock
  <1>4. ASSUME NEW form, SaveSettings(w, form) PROVE Moves(w, {"writeSettings"}) /\ pc[w] = "idle"
    <2>1. \E l : Enter(w, "writeSettings", l, "settings", {"writeSettings"})
      BY <1>4 DEF SaveSettings
    <2>. QED  BY <1>4, <2>1, EnteringMoves DEF SaveSettings, Starts, At
  <1>5. ASSUME NEW cli, NEW force, RunExpiryDigest(w, cli, force)
        PROVE  Moves(w, {"digestSend"}) /\ pc[w] = "idle"
    <2>1. \E l : Enter(w, "digestSend", l, "digest", {"digestSend", "digestMark"})
      BY <1>5 DEF RunExpiryDigest
    <2>. QED  BY <1>5, <2>1, EnteringMoves DEF RunExpiryDigest, Starts, At
  <1>6. SendDigest(w) => Moves(w, {"digestMark"})
    BY GoingOnMoves DEF SendDigest
  <1>7. /\ CheckLowStock(w) \/ Announce(w) => pc[w] = "idle"
        /\ SendLowStock(w) => pc[w] = "lowSend"
        /\ MarkLowStock(w) => pc[w] = "lowMark"
        /\ WriteSettings(w) => pc[w] = "writeSettings"
        /\ SendDigest(w) => pc[w] = "digestSend"
        /\ MarkDigest(w) => pc[w] = "digestMark"
    BY DEF CheckLowStock, Announce, SendLowStock, MarkLowStock, WriteSettings, SendDigest,
           MarkDigest, Starts, At
  <1>. QED  BY <1>1, <1>2, <1>3, <1>4, <1>5, <1>6, <1>7

(* An operation of Access begins and ends among its own steps.             *)
LEMMA AccessFrom ==
    ASSUME NEW w \in Workers, AccessNext(w)
    PROVE  pc[w] \in AccessLabels
  <1>1. StartUp(w) => pc[w] \in AccessLabels
    BY DEF StartUp, StartProcess, FindTenant, InsertTenant, FindWarehouse, InsertDefault,
           EnsureSuperAdmin, InsertSuperAdmin, UpdateSuperAdmin, Starts, At,
           AccessLabels, StartUpLabels
  <1>2. Migration(w) => pc[w] \in AccessLabels
    BY DEF Migration, MigrateTenant, MigrationFindTenant, MigrationInsertTenant, BackfillUsers,
           BackfillWarehouses, MigrateWarehouse, MigrationFindDefault, MigrationInsertDefault,
           BackfillLocations, Starts, At, AccessLabels, MigrationLabels
  <1>3. Request(w) => pc[w] \in AccessLabels
    BY DEF Request, Starts, At, AccessLabels, StartUpLabels
  <1>4. WarehouseWrites(w) \/ InsertLocation(w) \/ InsertUser(w) \/ WriteUser(w)
            => pc[w] \in AccessLabels
    BY DEF WarehouseWrites, InsertOtherTenant, InsertNewWarehouse, SetCode, RemoveWarehouse,
           InsertLocation, InsertUser, WriteUser, At, AccessLabels, WarehouseLabels
  <1>. QED  BY <1>1, <1>2, <1>3, <1>4 DEF AccessNext

LEMMA Apart ==
    /\ AccessLabels \cap {"writeSettings", "lowSend", "lowMark", "digestSend", "digestMark"} = {}
    /\ AccessLabels \cap LowLabels = {}
  BY DEF AccessLabels, StartUpLabels, MigrationLabels, WarehouseLabels, LowLabels

LEMMA StepLowStock ==
    ASSUME Typing, LowStock, [Next]_vars PROVE LowStock'
  <1>0. Runs /\ faults \in Nat
    BY DEF Typing, Runs
  <1>1. ASSUME NEW w \in Workers, AccessNext(w), UNCHANGED alerts PROVE LowStock'
    <2>1. Moves(w, AccessLabels) /\ pc[w] \notin LowLabels
      BY <1>0, <1>1, AccessMoves, AccessFrom, Apart
    <2>. QED  BY <1>1, <2>1, LowStockElsewhere, Apart DEF alerts
  <1>2. ASSUME NEW w \in Workers, AlertsNext(w) PROVE LowStock'
    <2>1. ASSUME NEW L, Moves(w, L), pc[w] \notin LowLabels, L \cap LowLabels = {},
                 UNCHANGED <<lowFresh, lowSent>>
          PROVE  LowStock'
      BY <2>1, LowStockElsewhere
    <2>2. ASSUME NEW form, SaveSettings(w, form) PROVE LowStock'
      BY <1>0, <2>1, <2>2, AlertsLead DEF SaveSettings, alerts, LowLabels
    <2>3. CASE WriteSettings(w) \/ Announce(w) \/ MarkDigest(w)
      BY <1>0, <2>1, <2>3, AlertsLead DEF WriteSettings, Announce, MarkDigest, LowLabels
    <2>4. ASSUME NEW cli, NEW force, RunExpiryDigest(w, cli, force) PROVE LowStock'
      BY <1>0, <2>1, <2>4, AlertsLead DEF RunExpiryDigest, LowLabels
    <2>5. CASE SendDigest(w)
      BY <1>0, <2>1, <2>5, AlertsLead DEF SendDigest, LowLabels
    <2>. QED  BY <1>2, <2>2, <2>3, <2>4, <2>5, LowStockChecked, LowStockSent, LowStockMarked
                DEF AlertsNext
  <1>3. ASSUME faults' > 0 PROVE LowStock'
    BY <1>3 DEF LowStock
  <1>4. Fails => faults' > 0
    BY <1>0 DEF Fails
  <1>5. CASE Background /\ UNCHANGED <<goroutines, documents>>
    <2>1. CASE SixHoursPass
      BY <1>5, <2>1 DEF goroutines, SixHoursPass, LowStock
    <2>2. CASE ~ SixHoursPass
      BY <1>5, <2>2, LowStockStill DEF goroutines, Background, TakeMessage, SendingEnds,
                                       SendingFails, NextDay, DisplaySettings
    <2>. QED  BY <2>1, <2>2
  <1>6. CASE UNCHANGED vars
    BY <1>6, LowStockStill DEF vars, goroutines, alerts
  <1>. QED  BY <1>1, <1>2, <1>3, <1>4, <1>5, <1>6 DEF Next, Abandon, ServerEnds

-----------------------------------------------------------------------------
(* The digest: of a day that is not marked and that no run is about to     *)
(* mark, only forced ones were sent.                                       *)

DigestLabels == {"digestSend", "digestMark"}

AboutDigest(label, l, d) == label \in DigestLabels /\ l.day = d

Digest ==
    \/ faults > 0
    \/ "digest" \in overlapped
    \/ /\ \A v, w \in Workers : (pc[v] \in DigestLabels /\ pc[w] \in DigestLabels) => v = w
       /\ \A d \in Days :
             /\ digests[d].sent <= digests[d].forced + 1
             /\ \A w \in Workers : pc[w] = "digestSend" /\ loc[w].day = d =>
                   digests[d].sent <= digests[d].forced
             /\ \/ d \in marked
                \/ \E w \in Workers : AboutDigest(pc[w], loc[w], d)
                \/ digests[d].sent <= digests[d].forced

(* The history of a day, as far as Digest looks at it.                     *)
SameHistory == \A d \in Days : digests'[d].sent = digests[d].sent /\ digests'[d].forced = digests[d].forced

LEMMA DigestStill ==
    ASSUME Digest, UNCHANGED <<pc, loc, overlapped, faults, marked>>, SameHistory
    PROVE  Digest'
  BY DEF Digest, SameHistory, AboutDigest

LEMMA DigestElsewhere ==
    ASSUME Typing, Digest, NEW w \in Workers, pc[w] \notin DigestLabels,
           NEW L, Moves(w, L), L \cap DigestLabels = {}, UNCHANGED <<marked, digests>>
    PROVE  Digest'
  <1>1. CASE faults > 0
    BY <1>1 DEF Digest, Moves, Typing, Runs
  <1>2. CASE "digest" \in overlapped
    BY <1>2 DEF Digest, Moves
  <1>3. CASE faults' = 0 /\ "digest" \notin overlapped
    <2>1. \A v \in Workers : (pc'[v] \in DigestLabels <=> pc[v] \in DigestLabels)
      BY DEF Moves
    <2>2. \A v \in Workers : pc'[v] \in DigestLabels => pc'[v] = pc[v] /\ loc'[v] = loc[v]
      BY DEF Moves
    <2>3. ~ faults > 0
      BY <1>3 DEF Moves, Typing, Runs
    <2>4. "digestSend" \in DigestLabels
      BY DEF DigestLabels
    <2>5. \A v \in Workers : \A d : AboutDigest(pc'[v], loc'[v], d) <=> AboutDigest(pc[v], loc[v], d)
      BY <2>1, <2>2 DEF AboutDigest
    <2>6. \A v \in Workers : \A d : (pc'[v] = "digestSend" /\ loc'[v].day = d)
                                    => (pc[v] = "digestSend" /\ loc[v].day = d)
      BY <2>2, <2>4
    <2>. QED  BY <1>3, <2>1, <2>3, <2>5, <2>6 DEF Digest
  <1>4. faults' = 0 \/ faults' > 0
    BY DEF Moves
  <1>. QED  BY <1>1, <1>2, <1>3, <1>4 DEF Digest

(* The numbers of a day after one of them was changed.                     *)
LEMMA ForcedCounted ==
    ASSUME AlertsTyped, NEW day \in Days, NEW force \in BOOLEAN,
           digests' = [digests EXCEPT ![day].forced = IF force THEN @ + 1 ELSE @]
    PROVE  /\ \A d \in Days : digests'[d].sent = digests[d].sent
                              /\ digests'[d].delivered = digests[d].delivered
           /\ \A d \in Days : d # day => digests'[d].forced = digests[d].forced
           /\ digests'[day].forced = IF force THEN digests[day].forced + 1 ELSE digests[day].forced
  <1>1. digests \in [Days -> [forced: Nat, sent: Nat, delivered: Nat]]
    BY DEF AlertsTyped
  <1>2. PICK r \in [forced: Nat, sent: Nat, delivered: Nat] : r = digests[day]
    BY <1>1
  <1>3. PICK n : n = IF force THEN digests[day].forced + 1 ELSE digests[day].forced
    OBVIOUS
  <1>4. digests' = [digests EXCEPT ![day] = [r EXCEPT !.forced = n]]
    BY <1>1, <1>2, <1>3
  <1>5. /\ [r EXCEPT !.forced = n].forced = n
        /\ [r EXCEPT !.forced = n].sent = r.sent
        /\ [r EXCEPT !.forced = n].delivered = r.delivered
    OBVIOUS
  <1>6. PICK s : s = [r EXCEPT !.forced = n]
    OBVIOUS
  <1>7. digests' = [digests EXCEPT ![day] = s]
    BY <1>4, <1>6
  <1>8. s.forced = n /\ s.sent = r.sent /\ s.delivered = r.delivered
    BY <1>5, <1>6
  <1>. QED  BY ONLY <1>1, <1>2, <1>3, <1>7, <1>8

LEMMA SentCounted ==
    ASSUME AlertsTyped, NEW day \in Days, NEW out \in Nat,
           digests' = [digests EXCEPT ![day].sent = @ + 1, ![day].delivered = @ + out]
    PROVE  /\ \A d \in Days : digests'[d].forced = digests[d].forced
           /\ \A d \in Days : d # day => digests'[d].sent = digests[d].sent
                                         /\ digests'[d].delivered = digests[d].delivered
           /\ digests'[day].sent = digests[day].sent + 1
           /\ digests'[day].delivered = digests[day].delivered + out
  <1>1. digests \in [Days -> [forced: Nat, sent: Nat, delivered: Nat]]
    BY DEF AlertsTyped
  <1>2. PICK r \in [forced: Nat, sent: Nat, delivered: Nat] : r = digests[day]
    BY <1>1
  <1>3. PICK s \in [forced: Nat, sent: Nat, delivered: Nat] :
           /\ s.forced = r.forced /\ s.sent = r.sent + 1
           /\ s.delivered = r.delivered + out
           /\ s = [r EXCEPT !.sent = @ + 1, !.delivered = @ + out]
    <2>1. PICK n \in Nat, m \in Nat : n = r.sent + 1 /\ m = r.delivered + out
      OBVIOUS
    <2>2. [r EXCEPT !.sent = n, !.delivered = m] \in [forced: Nat, sent: Nat, delivered: Nat]
      OBVIOUS
    <2>. QED  BY <2>1, <2>2
  <1>4. digests' = [digests EXCEPT ![day] = s]
    BY <1>1, <1>2, <1>3
  <1>. QED  BY ONLY <1>1, <1>2, <1>3, <1>4, day \in Days

LEMMA DigestRun ==
    ASSUME Typing, Digest, NEW w \in Workers, NEW cli \in BOOLEAN, NEW force \in BOOLEAN,
           RunExpiryDigest(w, cli, force)
    PROVE  Digest'
  <1> DEFINE l == [kind |-> "digest", day |-> today, cli |-> cli]
  <1>0. /\ Runs /\ AlertsTyped /\ today \in Days
        /\ digests \in [Days -> [forced: Nat, sent: Nat, delivered: Nat]]
    BY DEF Typing, AlertsTyped, AlertsTypeOK
  <1>1. /\ pc'[w] = "digestSend" /\ loc'[w] = l
        /\ \A v \in Workers : v # w => pc'[v] = pc[v] /\ loc'[v] = loc[v]
        /\ \A k : k \in overlapped' <=>
              (k \in overlapped
                  \/ (k = "digest" /\ \E v \in Workers \ {w} : pc[v] \in DigestLabels))
    BY <1>0, Entering DEF RunExpiryDigest, DigestLabels
  <1>2. UNCHANGED <<marked, today, faults>>
    BY DEF RunExpiryDigest
  <1>3. CASE faults > 0 \/ "digest" \in overlapped'
    BY <1>2, <1>3 DEF Digest
  <1>4. CASE ~ (faults > 0) /\ "digest" \notin overlapped'
    <2>1. /\ "digest" \notin overlapped
          /\ \A v \in Workers : v # w => pc[v] \notin DigestLabels
          /\ pc[w] \notin DigestLabels
      BY <1>1, <1>4 DEF RunExpiryDigest, Starts, At, DigestLabels
    <2>2. \A v \in Workers : \A d : ~ AboutDigest(pc[v], loc[v], d)
      BY <2>1 DEF AboutDigest
    <2>3. \A d \in Days : /\ digests[d].sent <= digests[d].forced + 1
                          /\ d \in marked \/ digests[d].sent <= digests[d].forced
      BY <1>4, <2>1, <2>2 DEF Digest
    <2>4. digests' = [digests EXCEPT ![today].forced = IF force THEN @ + 1 ELSE @]
      BY DEF RunExpiryDigest
    <2>5. /\ \A d \in Days : digests'[d].sent = digests[d].sent
          /\ \A d \in Days : d # today => digests'[d].forced = digests[d].forced
          /\ digests'[today].forced = IF force THEN digests[today].forced + 1
                                               ELSE digests[today].forced
      BY <1>0, <2>4, ForcedCounted
    <2>6. digests[today].sent \in Nat /\ digests[today].forced \in Nat
      BY <1>0
    <2>7. digests'[today].sent <= digests'[today].forced
      <3>1. CASE force
        BY <1>0, <2>3, <2>5, <2>6, <3>1
      <3>2. CASE ~ force
        <4>1. today \notin marked
          BY <3>2 DEF RunExpiryDigest, AlreadySent
        <4>. QED  BY <1>0, <2>3, <2>5, <3>2, <4>1
      <3>. QED  BY <3>1, <3>2
    <2>8. digests'[today].forced \in Nat /\ digests'[today].sent \in Nat
      BY <1>0, <2>5, <2>6
    <2>9. \A d \in Days : /\ digests'[d].sent <= digests'[d].forced + 1
                          /\ d \in marked' \/ digests'[d].sent <= digests'[d].forced
      <3>1. ASSUME NEW d \in Days, d = today
            PROVE  /\ digests'[d].sent <= digests'[d].forced + 1
                   /\ digests'[d].sent <= digests'[d].forced
        BY <2>7, <2>8, <3>1
      <3>2. ASSUME NEW d \in Days, d # today
            PROVE  /\ digests'[d].sent <= digests'[d].forced + 1
                   /\ d \in marked' \/ digests'[d].sent <= digests'[d].forced
        BY <1>2, <2>3, <2>5, <3>2
      <3>. QED  BY <3>1, <3>2
    <2>10. \A v \in Workers : pc'[v] \in DigestLabels => v = w
      BY <1>1, <2>1
    <2>11. loc'[w].day = today /\ "digestSend" \in DigestLabels
      BY <1>1 DEF DigestLabels
    <2>. QED  BY <2>7, <2>9, <2>10, <2>11 DEF Digest
  <1>. QED  BY <1>3, <1>4

LEMMA DigestSent ==
    ASSUME Typing, Digest, NEW w \in Workers, SendDigest(w)
    PROVE  Digest'
  <1>1. PICK l : l = loc[w]
    OBVIOUS
  <1>2. /\ Runs /\ AlertsTyped
        /\ digests \in [Days -> [forced: Nat, sent: Nat, delivered: Nat]]
        /\ Carries(pc[w], loc[w], DOMAIN warehouses) /\ pc[w] = "digestSend"
    BY DEF Typing, AlertsTyped, Runs, SendDigest, At
  <1>3. PICK day \in Days : day = l.day
    BY <1>1, <1>2 DEF Carries
  <1>4. /\ pc'[w] = "digestMark" /\ loc'[w] = l
        /\ \A v \in Workers : v # w => pc'[v] = pc[v] /\ loc'[v] = loc[v]
        /\ overlapped' = overlapped
    BY <1>1, <1>2, GoingOn DEF SendDigest
  <1>5. UNCHANGED <<marked, faults>>
    BY DEF SendDigest
  <1>6. PICK out \in 0 .. MaxRetries :
           digests' = [digests EXCEPT ![day].sent = @ + 1, ![day].delivered = @ + out]
    BY <1>1, <1>3, DeliveriesOut DEF SendDigest
  <1>7. /\ \A d \in Days : digests'[d].forced = digests[d].forced
        /\ \A d \in Days : d # day => digests'[d].sent = digests[d].sent
        /\ digests'[day].sent = digests[day].sent + 1
    <2>1. out \in Nat
      BY <1>6, AlertsAssumption
    <2>. QED  BY <1>2, <1>6, <2>1, SentCounted
  <1>8. CASE faults > 0 \/ "digest" \in overlapped
    BY <1>4, <1>5, <1>8 DEF Digest
  <1>9. CASE ~ (faults > 0) /\ "digest" \notin overlapped
    <2>1. /\ \A v \in Workers : v # w => pc[v] \notin DigestLabels
          /\ digests[day].sent <= digests[day].forced
      BY <1>1, <1>2, <1>3, <1>9 DEF Digest, DigestLabels
    <2>2. \A v \in Workers : pc'[v] \in DigestLabels => v = w
      BY <1>4, <2>1
    <2>3. \A v \in Workers : pc'[v] # "digestSend"
      BY <1>4, <2>2 DEF DigestLabels
    <2>4. \A v \in Workers, d \in Days : AboutDigest(pc[v], loc[v], d) => v = w /\ d = day
      BY <1>1, <1>3, <2>1 DEF AboutDigest
    <2>5. AboutDigest(pc'[w], loc'[w], day)
      BY <1>3, <1>4 DEF AboutDigest, DigestLabels
    <2>6. ASSUME NEW d \in Days, d = day PROVE digests'[d].sent <= digests'[d].forced + 1
      <3>1. digests[day].sent \in Nat /\ digests[day].forced \in Nat
        BY <1>2
      <3>. QED  BY <1>7, <2>1, <2>6, <3>1
    <2>7. ASSUME NEW d \in Days, d # day
          PROVE  /\ digests'[d].sent <= digests'[d].forced + 1
                 /\ d \in marked' \/ digests'[d].sent <= digests'[d].forced
      <3>1. /\ digests[d].sent <= digests[d].forced + 1
            /\ d \in marked \/ digests[d].sent <= digests[d].forced
        BY <1>9, <2>4, <2>7 DEF Digest
      <3>. QED  BY <1>5, <1>7, <2>7, <3>1
    <2>. QED  BY <2>2, <2>3, <2>5, <2>6, <2>7 DEF Digest
  <1>. QED  BY <1>8, <1>9

LEMMA DigestMarked ==
    ASSUME Typing, Digest, NEW w \in Workers, MarkDigest(w)
    PROVE  Digest'
  <1>1. PICK l : l = loc[w]
    OBVIOUS
  <1>2. /\ pc'[w] = "idle" /\ pc[w] = "digestMark"
        /\ \A v \in Workers : v # w => pc'[v] = pc[v] /\ loc'[v] = loc[v]
        /\ overlapped' = overlapped
    BY GoingOn DEF Typing, MarkDigest, Finish, At
  <1>3. /\ marked' = marked \cup {l.day}
        /\ UNCHANGED <<faults, digests>>
    BY <1>1 DEF MarkDigest
  <1>4. CASE faults > 0 \/ "digest" \in overlapped
    BY <1>2, <1>3, <1>4 DEF Digest
  <1>5. CASE ~ (faults > 0) /\ "digest" \notin overlapped
    <2>1. \A v \in Workers : v # w => pc[v] \notin DigestLabels
      BY <1>2, <1>5 DEF Digest, DigestLabels
    <2>2. \A v \in Workers : pc'[v] \notin DigestLabels
      BY <1>2, <2>1 DEF DigestLabels
    <2>3. \A v \in Workers, d \in Days : AboutDigest(pc[v], loc[v], d) => d \in marked'
      BY <1>1, <1>3, <2>1 DEF AboutDigest
    <2>4. \A d \in Days : /\ digests'[d].sent <= digests'[d].forced + 1
                          /\ d \in marked' \/ digests'[d].sent <= digests'[d].forced
      BY <1>3, <1>5, <2>3 DEF Digest
    <2>5. \A v \in Workers : pc'[v] # "digestSend"
      BY <2>2 DEF DigestLabels
    <2>. QED  BY <2>2, <2>4, <2>5 DEF Digest
  <1>. QED  BY <1>4, <1>5

LEMMA SameHistoryDelivered ==
    ASSUME AlertsTyped, digests' \in {digests, Delivered(sending.about)}
    PROVE  SameHistory
  <1>1. /\ digests \in [Days -> [forced: Nat, sent: Nat, delivered: Nat]]
        /\ sending.about \in Message
    BY DEF AlertsTyped, AlertsTypeOK
  <1>2. CASE digests' = digests
    BY <1>2 DEF SameHistory
  <1>3. CASE digests' # digests
    <2>1. digests' = Delivered(sending.about)
      BY <1>3
    <2>2. sending.about # 0
      BY <1>3, <2>1 DEF Delivered
    <2>3. sending.about \in Days
      BY <1>1, <2>2, AlertsAssumption DEF Message, Days
    <2>4. PICK day \in Days : day = sending.about
      BY <2>3
    <2>5. digests' = [digests EXCEPT ![day].delivered = @ + 1]
      BY <2>1, <2>2, <2>4 DEF Delivered
    <2>6. PICK r \in [forced: Nat, sent: Nat, delivered: Nat] : r = digests[day]
      BY <1>1
    <2>7. PICK s \in [forced: Nat, sent: Nat, delivered: Nat] :
             s.forced = r.forced /\ s.sent = r.sent /\ s = [r EXCEPT !.delivered = @ + 1]
      <3>1. PICK n \in Nat : n = r.delivered + 1
        OBVIOUS
      <3>. QED  BY <3>1
    <2>8. digests' = [digests EXCEPT ![day] = s]
      BY <1>1, <2>5, <2>6, <2>7
    <2>. QED  BY ONLY <1>1, <2>6, <2>7, <2>8 DEF SameHistory
  <1>. QED  BY <1>2, <1>3

LEMMA ApartFromDigest ==
    AccessLabels \cap DigestLabels = {}
  BY Apart DEF DigestLabels

LEMMA StepDigest ==
    ASSUME Typing, Digest, [Next]_vars PROVE Digest'
  <1>0. Runs /\ faults \in Nat /\ AlertsTyped
    BY DEF Typing, Runs
  <1>1. ASSUME NEW w \in Workers, AccessNext(w), UNCHANGED alerts PROVE Digest'
    <2>1. Moves(w, AccessLabels) /\ pc[w] \notin DigestLabels
      BY <1>0, <1>1, AccessMoves, AccessFrom, ApartFromDigest
    <2>. QED  BY <1>1, <2>1, DigestElsewhere, ApartFromDigest DEF alerts
  <1>2. ASSUME NEW w \in Workers, AlertsNext(w) PROVE Digest'
    <2>1. ASSUME NEW L, Moves(w, L), pc[w] \notin DigestLabels, L \cap DigestLabels = {},
                 UNCHANGED <<marked, digests>>
          PROVE  Digest'
      BY <2>1, DigestElsewhere
    <2>2. ASSUME NEW form, SaveSettings(w, form) PROVE Digest'
      BY <1>0, <2>1, <2>2, AlertsLead DEF SaveSettings, alerts, DigestLabels
    <2>3. CASE WriteSettings(w) \/ Announce(w) \/ MarkLowStock(w)
      BY <1>0, <2>1, <2>3, AlertsLead DEF WriteSettings, Announce, MarkLowStock, DigestLabels
    <2>4. CASE CheckLowStock(w)
      BY <1>0, <2>1, <2>4, AlertsLead DEF CheckLowStock, alerts, DigestLabels
    <2>5. CASE SendLowStock(w)
      BY <1>0, <2>1, <2>5, AlertsLead DEF SendLowStock, DigestLabels
    <2>. QED  BY <1>2, <2>2, <2>3, <2>4, <2>5, DigestRun, DigestSent, DigestMarked DEF AlertsNext
  <1>3. ASSUME faults' > 0 PROVE Digest'
    BY <1>3 DEF Digest
  <1>4. Fails => faults' > 0
    BY <1>0 DEF Fails
  <1>5. CASE Background /\ UNCHANGED <<goroutines, documents>>
    <2>1. UNCHANGED marked
      BY <1>5 DEF Background, DisplaySettings, TakeMessage, SendingEnds, SendingFails, NextDay,
                  SixHoursPass
    <2>2. digests' \in {digests, Delivered(sending.about)}
      BY <1>5 DEF Background, DisplaySettings, TakeMessage, SendingEnds, SendingFails, NextDay,
                  SixHoursPass
    <2>. QED  BY <1>0, <1>5, <2>1, <2>2, SameHistoryDelivered, DigestStill DEF goroutines
  <1>6. CASE UNCHANGED vars
    BY <1>6, DigestStill DEF vars, goroutines, alerts, SameHistory
  <1>. QED  BY <1>1, <1>2, <1>3, <1>4, <1>5, <1>6 DEF Next, Abandon, ServerEnds

-----------------------------------------------------------------------------
(* Deliveries: every attempt that is still to come is paid for.            *)

Remaining(s, d) == IF s.about = d /\ s.attempt > 0 THEN MaxRetries - s.attempt + 1 ELSE 0

Spent(delivered, copies, remaining) == delivered + MaxRetries * copies + remaining

Deliveries ==
    \A d \in Days :
        Spent(digests[d].delivered, Copies(queue, d), Remaining(sending, d))
            <= MaxRetries * digests[d].sent

LEMMA Attempts ==
    ASSUME AlertsTyped, NEW d \in Days
    PROVE  /\ Remaining(sending, d) \in Nat
           /\ Copies(queue, d) \in Nat
           /\ digests[d].delivered \in Nat /\ digests[d].sent \in Nat
           /\ d # 0 /\ d \in Message
           /\ Remaining(NotSending, d) = 0
  <1>1. Copies(queue, d) \in Nat
    BY CopiesNat DEF AlertsTyped, AlertsTypeOK
  <1>2. Remaining(sending, d) \in Nat
    BY AlertsAssumption DEF AlertsTyped, AlertsTypeOK, Remaining
  <1>3. digests[d].delivered \in Nat /\ digests[d].sent \in Nat
    BY DEF AlertsTyped
  <1>. QED  BY <1>1, <1>2, <1>3, AlertsAssumption DEF Days, Message, Remaining, NotSending

(* A step that adds no more to what is spent than to what is allowed.      *)
Covered(d, delivered, copies, remaining, sent) ==
    /\ delivered \in Nat /\ copies \in Nat /\ remaining \in Nat /\ sent \in Nat
    /\ \/ /\ sent = digests[d].sent
          /\ copies <= Copies(queue, d)
          /\ delivered + remaining <= digests[d].delivered + Remaining(sending, d)
       \/ /\ sent = digests[d].sent
          /\ copies + 1 <= Copies(queue, d)
          /\ delivered + remaining <= digests[d].delivered + Remaining(sending, d) + MaxRetries
       \/ /\ sent = digests[d].sent + 1
          /\ copies <= Copies(queue, d)
          /\ delivered + remaining <= digests[d].delivered + Remaining(sending, d) + MaxRetries
       \/ /\ sent = digests[d].sent + 1
          /\ copies <= Copies(queue, d) + 1
          /\ delivered + remaining <= digests[d].delivered + Remaining(sending, d)

LEMMA DeliveriesKept ==
    ASSUME AlertsTyped, Deliveries, NEW d \in Days,
           NEW delivered, NEW copies, NEW remaining, NEW sent,
           Covered(d, delivered, copies, remaining, sent)
    PROVE  Spent(delivered, copies, remaining) <= MaxRetries * sent
  <1>0. delivered \in Nat /\ copies \in Nat /\ remaining \in Nat /\ sent \in Nat
    BY DEF Covered
  <1>1. PICK m \in Nat : m = MaxRetries
    BY AlertsAssumption
  <1>2. PICK D \in Nat, C \in Nat, R \in Nat, S \in Nat :
           /\ D = digests[d].delivered /\ C = Copies(queue, d)
           /\ R = Remaining(sending, d) /\ S = digests[d].sent
    BY Attempts
  <1>3. D + m * C + R <= m * S
    BY <1>1, <1>2 DEF Deliveries, Spent
  <1>4. /\ m * (C + 1) = m * C + m
        /\ m * (S + 1) = m * S + m
        /\ m * (copies + 1) = m * copies + m
        /\ \A a, b \in Nat : a <= b => m * a <= m * b
        /\ \A a \in Nat : m * a \in Nat
    BY <1>0
  <1>5. PICK p \in Nat, q \in Nat, t \in Nat : p = m * C /\ q = m * copies /\ t = m * S
    BY <1>0, <1>4
  <1>6. copies <= C => q <= p
    BY <1>0, <1>4, <1>5
  <1>7. copies + 1 <= C => q + m <= p
    BY <1>0, <1>4, <1>5
  <1>8. copies <= C + 1 => q <= p + m
    BY <1>0, <1>4, <1>5
  <1>9. D + p + R <= t
    BY <1>3, <1>5
  <1>10. CASE sent = S
    <2>1. \/ copies <= C /\ delivered + remaining <= D + R
          \/ copies + 1 <= C /\ delivered + remaining <= D + R + m
      BY <1>0, <1>1, <1>2, <1>10 DEF Covered
    <2>2. delivered + q + remaining <= t
      BY <1>0, <1>1, <1>2, <1>5, <1>6, <1>7, <1>9, <2>1
    <2>. QED  BY <1>1, <1>5, <1>10, <2>2 DEF Spent
  <1>11. CASE sent = S + 1
    <2>1. \/ copies <= C /\ delivered + remaining <= D + R + m
          \/ copies <= C + 1 /\ delivered + remaining <= D + R
      BY <1>0, <1>1, <1>2, <1>11 DEF Covered
    <2>2. delivered + q + remaining <= t + m
      BY <1>0, <1>1, <1>2, <1>5, <1>6, <1>8, <1>9, <2>1
    <2>. QED  BY <1>1, <1>4, <1>5, <1>11, <2>2 DEF Spent
  <1>12. sent = S \/ sent = S + 1
    BY <1>2 DEF Covered
  <1>. QED  BY <1>10, <1>11, <1>12

LEMMA DeliveriesStill ==
    ASSUME Deliveries, UNCHANGED <<queue, sending, digests>>
    PROVE  Deliveries'
  BY DEF Deliveries, Spent, Copies, Remaining

LEMMA QueuedCopies ==
    ASSUME AlertsTyped, NEW about \in Message, NEW d \in Days
    PROVE  /\ Copies(Queued(about), d) \in Nat
           /\ Copies(Queued(about), d) <= Copies(queue, d) + (IF about = d THEN 1 ELSE 0)
  <1>1. queue \in Seq(Message) /\ Len(queue) <= QueueSize
    BY DEF AlertsTyped, AlertsTypeOK
  <1>2. Queued(about) \in Seq(Message)
    BY <1>1, QueuedTyped
  <1>3. Copies(Queued(about), d) \in Nat /\ Copies(queue, d) \in Nat
    BY <1>1, <1>2, CopiesNat
  <1>4. Copies(Append(queue, about), d) = Copies(queue, d) + (IF about = d THEN 1 ELSE 0)
    BY <1>1, CopiesAppend
  <1>5. Queued(about) = queue \/ Queued(about) = Append(queue, about)
    BY DEF Queued
  <1>6. CASE Queued(about) = queue
    <2>1. Copies(queue, d) <= Copies(queue, d) + (IF about = d THEN 1 ELSE 0)
      BY <1>3
    <2>. QED  BY <1>3, <1>6, <2>1
  <1>7. CASE Queued(about) = Append(queue, about)
    <2>1. PICK n \in Nat : n = Copies(queue, d) + (IF about = d THEN 1 ELSE 0)
      BY <1>3
    <2>2. Copies(Queued(about), d) = n
      BY <1>4, <1>7, <2>1
    <2>. QED  BY <2>1, <2>2
  <1>. QED  BY <1>5, <1>6, <1>7

(* The other days, and a step that sends nothing about a day.              *)
LEMMA DeliveriesOfOthers ==
    ASSUME AlertsTyped, Deliveries, NEW d \in Days,
           UNCHANGED sending,
           digests'[d].sent = digests[d].sent, digests'[d].delivered = digests[d].delivered,
           Copies(queue', d) \in Nat, Copies(queue', d) <= Copies(queue, d)
    PROVE  Spent(digests'[d].delivered, Copies(queue', d), Remaining(sending', d))
               <= MaxRetries * digests'[d].sent
  <1>1. PICK delivered \in Nat, copies \in Nat, remaining \in Nat, sent \in Nat :
           /\ delivered = digests[d].delivered /\ copies = Copies(queue', d)
           /\ remaining = Remaining(sending, d) /\ sent = digests[d].sent
    BY Attempts
  <1>2. Covered(d, delivered, copies, remaining, sent)
    BY <1>1, Attempts DEF Covered
  <1>4. Spent(delivered, copies, remaining) <= MaxRetries * sent
    BY <1>2, DeliveriesKept
  <1>3. Remaining(sending', d) = remaining
    BY <1>1
  <1>. QED  BY <1>1, <1>3, <1>4

LEMMA DeliveriesAnnounced ==
    ASSUME AlertsTyped, Deliveries, queue' \in {queue, Queued(0)},
           UNCHANGED <<sending, digests>>
    PROVE  Deliveries'
  <1>1. ASSUME NEW d \in Days
        PROVE  Spent(digests'[d].delivered, Copies(queue', d), Remaining(sending', d))
                   <= MaxRetries * digests'[d].sent
    <2>1. 0 \in Message /\ d # 0
      BY AlertsAssumption DEF Message, Days
    <2>2. /\ Copies(Queued(0), d) \in Nat /\ Copies(Queued(0), d) <= Copies(queue, d) + 0
          /\ Copies(queue, d) \in Nat
      BY <2>1, QueuedCopies, Attempts
    <2>3. Copies(queue', d) \in Nat /\ Copies(queue', d) <= Copies(queue, d)
      BY <2>2
    <2>. QED  BY <2>3, DeliveriesOfOthers
  <1>. QED  BY <1>1 DEF Deliveries

LEMMA DeliveriesSent ==
    ASSUME Typing, Deliveries, NEW w \in Workers, SendDigest(w)
    PROVE  Deliveries'
  <1>1. PICK l : l = loc[w]
    OBVIOUS
  <1>2. AlertsTyped /\ Carries(pc[w], loc[w], DOMAIN warehouses) /\ pc[w] = "digestSend"
    BY DEF Typing, Runs, SendDigest, At
  <1>3. PICK day \in Days : day = l.day
    BY <1>1, <1>2 DEF Carries
  <1>4. PICK out \in 0 .. MaxRetries :
           /\ digests' = [digests EXCEPT ![day].sent = @ + 1, ![day].delivered = @ + out]
           /\ out # 0 => l.cli
    <2>1. PICK out \in (IF l.cli THEN 0 .. MaxRetries ELSE {0}) :
             digests' = [digests EXCEPT ![day].sent = @ + 1, ![day].delivered = @ + out]
      BY <1>1, <1>3 DEF SendDigest
    <2>. QED  BY <2>1, DeliveriesOut
  <1>5. /\ queue' = IF l.cli THEN queue ELSE Queued(day)
        /\ sending' = sending
    BY <1>1, <1>3 DEF SendDigest
  <1>6. out \in Nat /\ out <= MaxRetries
    BY AlertsAssumption
  <1>7. /\ \A d \in Days : d # day => digests'[d].sent = digests[d].sent
                                      /\ digests'[d].delivered = digests[d].delivered
        /\ digests'[day].sent = digests[day].sent + 1
        /\ digests'[day].delivered = digests[day].delivered + out
    BY <1>2, <1>4, <1>6, SentCounted
  <1>8. ASSUME NEW d \in Days
        PROVE  /\ Copies(queue', d) \in Nat /\ Copies(queue, d) \in Nat
               /\ l.cli \/ d # day => Copies(queue', d) <= Copies(queue, d)
               /\ Copies(queue', d) <= Copies(queue, d) + 1
    <2>1. /\ Copies(Queued(day), d) \in Nat
          /\ Copies(Queued(day), d) <= Copies(queue, d) + (IF day = d THEN 1 ELSE 0)
          /\ Copies(queue, d) \in Nat
      BY <1>2, QueuedCopies, Attempts
    <2>2. CASE l.cli
      BY <1>5, <2>1, <2>2
    <2>3. CASE ~ l.cli
      BY <1>5, <2>1, <2>3
    <2>. QED  BY <2>2, <2>3
  <1>9. ASSUME NEW d \in Days, d # day
        PROVE  Spent(digests'[d].delivered, Copies(queue', d), Remaining(sending', d))
                   <= MaxRetries * digests'[d].sent
    BY <1>2, <1>5, <1>7, <1>8, <1>9, DeliveriesOfOthers
  <1>10. Spent(digests'[day].delivered, Copies(queue', day), Remaining(sending', day))
             <= MaxRetries * digests'[day].sent
    <2>1. PICK D \in Nat, R \in Nat, S \in Nat, C \in Nat :
             /\ D = digests[day].delivered /\ R = Remaining(sending, day)
             /\ S = digests[day].sent /\ C = Copies(queue', day)
      BY <1>2, <1>8, Attempts
    <2>2. C <= Copies(queue, day) + 1 /\ (l.cli => C <= Copies(queue, day))
      BY <1>8, <2>1
    <2>3. Spent(D + out, C, R) <= MaxRetries * (S + 1)
      <3>1. D + out \in Nat /\ S + 1 \in Nat /\ out <= MaxRetries
        BY <1>6, AlertsAssumption
      <3>2. CASE out = 0
        <4>1. Covered(day, D + out, C, R, S + 1)
          BY <2>1, <2>2, <3>1, <3>2 DEF Covered
        <4>. QED  BY <1>2, <4>1, DeliveriesKept
      <3>3. CASE out # 0
        <4>1. C <= Copies(queue, day) /\ D + out + R <= D + R + MaxRetries
          BY <1>4, <2>2, <3>1, <3>3, AlertsAssumption
        <4>2. Covered(day, D + out, C, R, S + 1)
          BY <2>1, <3>1, <4>1 DEF Covered
        <4>. QED  BY <1>2, <4>2, DeliveriesKept
      <3>. QED  BY <3>2, <3>3
    <2>4. Remaining(sending', day) = R
      BY <1>5, <2>1
    <2>. QED  BY <1>7, <2>1, <2>3, <2>4
  <1>. QED  BY <1>9, <1>10 DEF Deliveries

LEMMA DeliveriesTaken ==
    ASSUME AlertsTyped, Deliveries, TakeMessage
    PROVE  Deliveries'
  <1>1. ASSUME NEW d \in Days
        PROVE  Spent(digests'[d].delivered, Copies(queue', d), Remaining(sending', d))
                   <= MaxRetries * digests'[d].sent
    <2>1. /\ queue \in Seq(Message) /\ queue # <<>> /\ Tail(queue) \in Seq(Message)
          /\ Head(queue) \in Message
      BY HeadTailProperties DEF AlertsTyped, AlertsTypeOK, TakeMessage
    <2>2. PICK D \in Nat, S \in Nat, C \in Nat, T \in Nat :
             /\ D = digests[d].delivered /\ S = digests[d].sent
             /\ C = Copies(queue, d) /\ T = Copies(Tail(queue), d)
      BY <2>1, Attempts, CopiesNat
    <2>3. T + (IF Head(queue) = d THEN 1 ELSE 0) <= C
      BY <2>1, <2>2, CopiesTail
    <2>4. Remaining(sending, d) = 0 /\ digests' = digests /\ queue' = Tail(queue)
      BY Attempts DEF TakeMessage
    <2>5. sending' = [about |-> Head(queue), attempt |-> 1]
      BY DEF TakeMessage
    <2>6. Remaining(sending', d) = IF Head(queue) = d THEN MaxRetries ELSE 0
      BY <2>5, AlertsAssumption DEF Remaining
    <2>7. CASE Head(queue) = d
      <3>1. T + 1 <= C
        BY <2>3, <2>7
      <3>2. Spent(D, T, MaxRetries) <= MaxRetries * S
        <4>1. PICK m \in Nat : m = MaxRetries
          BY AlertsAssumption
        <4>2. D + m <= digests[d].delivered + Remaining(sending, d) + MaxRetries
          BY <2>2, <2>4, <4>1
        <4>3. S = digests[d].sent /\ T + 1 <= Copies(queue, d)
          BY <2>2, <3>1
        <4>4. Covered(d, D, T, m, S)
          BY <4>1, <4>2, <4>3 DEF Covered
        <4>5. Spent(D, T, m) <= MaxRetries * S
          BY <4>4, DeliveriesKept
        <4>. QED  BY <4>1, <4>5
      <3>. QED  BY <2>2, <2>4, <2>6, <2>7, <3>2
    <2>8. CASE Head(queue) # d
      <3>1. T <= C
        BY <2>3, <2>8
      <3>2. Spent(D, T, 0) <= MaxRetries * S
        <4>1. Covered(d, D, T, 0, S)
          BY <2>2, <2>4, <3>1 DEF Covered
        <4>. QED  BY <4>1, DeliveriesKept
      <3>. QED  BY <2>2, <2>4, <2>6, <2>8, <3>2
    <2>. QED  BY <2>7, <2>8
  <1>. QED  BY <1>1 DEF Deliveries

LEMMA DeliveryCounted ==
    ASSUME AlertsTyped, NEW d \in Days, digests' \in {digests, Delivered(sending.about)}
    PROVE  /\ digests'[d].sent = digests[d].sent
           /\ digests'[d].delivered \in Nat
           /\ digests'[d].delivered
                  <= digests[d].delivered + (IF sending.about = d THEN 1 ELSE 0)
  <1>1. /\ digests \in [Days -> [forced: Nat, sent: Nat, delivered: Nat]]
        /\ sending.about \in Message
    BY DEF AlertsTyped, AlertsTypeOK
  <1>2. digests'[d].sent = digests[d].sent
    BY SameHistoryDelivered DEF SameHistory
  <1>3. CASE digests' = digests
    BY <1>1, <1>3
  <1>4. CASE digests' # digests
    <2>1. sending.about \in Days /\ digests' = [digests EXCEPT ![sending.about].delivered = @ + 1]
      BY <1>1, <1>4, AlertsAssumption DEF Delivered, Message, Days
    <2>2. PICK day \in Days : day = sending.about /\ digests' = [digests EXCEPT ![day].delivered = @ + 1]
      BY <2>1
    <2>3. PICK r \in [forced: Nat, sent: Nat, delivered: Nat] : r = digests[day]
      BY <1>1
    <2>4. PICK s \in [forced: Nat, sent: Nat, delivered: Nat] :
             s.delivered = r.delivered + 1 /\ s = [r EXCEPT !.delivered = @ + 1]
      <3>1. PICK n \in Nat : n = r.delivered + 1
        OBVIOUS
      <3>. QED  BY <3>1
    <2>5. digests' = [digests EXCEPT ![day] = s]
      BY <1>1, <2>2, <2>3, <2>4
    <2>6. /\ digests'[d].delivered \in Nat /\ digests[d].delivered \in Nat
          /\ digests'[d].delivered = IF d = day THEN digests[d].delivered + 1 ELSE digests[d].delivered
      BY ONLY <1>1, <2>3, <2>4, <2>5, d \in Days
    <2>. QED  BY <1>2, <2>2, <2>6
  <1>. QED  BY <1>3, <1>4

LEMMA DeliveriesAttempted ==
    ASSUME AlertsTyped, Deliveries, SendingEnds \/ SendingFails
    PROVE  Deliveries'
  <1>0. sending \in [about: Message, attempt: 0 .. MaxRetries]
    BY DEF AlertsTyped, AlertsTypeOK
  <1>1. ASSUME NEW d \in Days
        PROVE  Spent(digests'[d].delivered, Copies(queue', d), Remaining(sending', d))
                   <= MaxRetries * digests'[d].sent
    <2>1. digests' \in {digests, Delivered(sending.about)} /\ queue' = queue
      BY DEF SendingEnds, SendingFails
    <2>2. PICK D \in Nat, S \in Nat, C \in Nat, R \in Nat :
             /\ D = digests[d].delivered /\ S = digests[d].sent
             /\ C = Copies(queue, d) /\ R = Remaining(sending, d)
      BY Attempts
    <2>3. PICK E \in Nat : E = digests'[d].delivered
      BY <2>1, DeliveryCounted
    <2>4. digests'[d].sent = S /\ E <= D + (IF sending.about = d THEN 1 ELSE 0)
      BY <2>1, <2>2, <2>3, DeliveryCounted
    <2>5. PICK m \in Nat, k \in Nat : m = MaxRetries /\ k = sending.attempt /\ k > 0 /\ k <= m
      BY <1>0, AlertsAssumption DEF SendingEnds, SendingFails
    <2>6. R = IF sending.about = d THEN m - k + 1 ELSE 0
      BY <2>2, <2>5 DEF Remaining
    <2>7. PICK Q \in Nat : Q = Remaining(sending', d) /\ E + Q <= D + R
      <3>1. CASE SendingEnds
        <4>1. Remaining(sending', d) = 0
          BY <3>1, Attempts DEF SendingEnds
        <4>. QED  BY <2>4, <2>5, <2>6, <4>1
      <3>2. CASE SendingFails
        <4>1. k <= m - 1 /\ sending'.about = sending.about /\ sending'.attempt = k + 1
          BY <1>0, <2>5, <3>2, AlertsAssumption DEF SendingFails
        <4>2. Remaining(sending', d) = IF sending.about = d THEN m - k ELSE 0
          BY <2>5, <4>1 DEF Remaining
        <4>. QED  BY <2>4, <2>5, <2>6, <4>1, <4>2
      <3>. QED  BY <3>1, <3>2
    <2>8. Spent(E, C, Q) <= MaxRetries * S
      <3>1. Covered(d, E, C, Q, S)
        BY <2>2, <2>7 DEF Covered
      <3>. QED  BY <3>1, DeliveriesKept
    <2>. QED  BY <2>1, <2>2, <2>3, <2>4, <2>7, <2>8
  <1>. QED  BY <1>1 DEF Deliveries

LEMMA DeliveriesDropped ==
    ASSUME AlertsTyped, Deliveries, ServerEnds
    PROVE  Deliveries'
  <1>1. ASSUME NEW d \in Days
        PROVE  Spent(digests'[d].delivered, Copies(queue', d), Remaining(sending', d))
                   <= MaxRetries * digests'[d].sent
    <2>1. PICK D \in Nat, S \in Nat, C \in Nat, R \in Nat :
             /\ D = digests[d].delivered /\ S = digests[d].sent
             /\ C = Copies(queue, d) /\ R = Remaining(sending, d)
      BY Attempts
    <2>2. queue' = <<>> /\ digests' = digests /\ sending' = NotSending
      BY DEF ServerEnds
    <2>3. Copies(queue', d) = 0
      <3>1. <<>> \in Seq(Message)
        OBVIOUS
      <3>. QED  BY <2>2, <3>1, CopiesNat
    <2>4. Remaining(sending', d) = 0
      BY <2>2, Attempts
    <2>5. Spent(D, 0, 0) <= MaxRetries * S
      <3>1. Covered(d, D, 0, 0, S)
        BY <2>1 DEF Covered
      <3>. QED  BY <3>1, DeliveriesKept
    <2>. QED  BY <2>1, <2>2, <2>3, <2>4, <2>5
  <1>. QED  BY <1>1 DEF Deliveries

LEMMA StepDeliveries ==
    ASSUME Typing, Deliveries, [Next]_vars PROVE Deliveries'
  <1>0. AlertsTyped
    BY DEF Typing
  <1>1. CASE UNCHANGED alerts
    BY <1>1, DeliveriesStill DEF alerts
  <1>2. ASSUME NEW w \in Workers, AlertsNext(w) PROVE Deliveries'
    <2>1. ASSUME NEW form, SaveSettings(w, form) PROVE Deliveries'
      BY <1>1, <2>1 DEF SaveSettings
    <2>2. CASE WriteSettings(w) \/ MarkLowStock(w) \/ MarkDigest(w)
      BY <2>2, DeliveriesStill DEF WriteSettings, MarkLowStock, MarkDigest
    <2>3. CASE CheckLowStock(w)
      BY <1>1, <2>3 DEF CheckLowStock
    <2>4. CASE Announce(w)
      BY <1>0, <2>4, DeliveriesAnnounced DEF Announce
    <2>5. CASE SendLowStock(w)
      BY <1>0, <2>5, DeliveriesAnnounced DEF SendLowStock
    <2>6. ASSUME NEW cli \in BOOLEAN, NEW force \in BOOLEAN, RunExpiryDigest(w, cli, force)
          PROVE  Deliveries'
      <3>1. /\ digests' = [digests EXCEPT ![today].forced = IF force THEN @ + 1 ELSE @]
            /\ UNCHANGED <<queue, sending>> /\ today \in Days
        BY <1>0, <2>6 DEF RunExpiryDigest, AlertsTyped, AlertsTypeOK
      <3>2. \A d \in Days : digests'[d].sent = digests[d].sent
                            /\ digests'[d].delivered = digests[d].delivered
        BY <1>0, <3>1, ForcedCounted
      <3>. QED  BY <3>1, <3>2 DEF Deliveries, Spent, Copies, Remaining
    <2>. QED  BY <1>2, <2>1, <2>2, <2>3, <2>4, <2>5, <2>6, DeliveriesSent DEF AlertsNext
  <1>3. CASE Background
    <2>1. CASE NextDay \/ SixHoursPass \/ DisplaySettings
      BY <2>1, DeliveriesStill DEF NextDay, SixHoursPass, DisplaySettings
    <2>. QED  BY <1>0, <1>3, <2>1, DeliveriesTaken, DeliveriesAttempted DEF Background
  <1>4. UNCHANGED vars => UNCHANGED alerts
    BY DEF vars
  <1>. QED  BY <1>0, <1>1, <1>2, <1>3, <1>4, DeliveriesDropped DEF Next

LEMMA InitAlerts ==
    ASSUME Init PROVE LowStock /\ Digest /\ Deliveries
  <1>1. \A d \in Days : digests[d].sent = 0 /\ digests[d].forced = 0 /\ digests[d].delivered = 0
    BY DEF Init, AlertsInit
  <1>2. \A d \in Days : Copies(queue, d) = 0 /\ Remaining(sending, d) = 0
    <2>1. queue = <<>> /\ sending = NotSending /\ <<>> \in Seq(Message)
      BY DEF Init, AlertsInit
    <2>2. \A d \in Days : d # 0
      BY AlertsAssumption DEF Days
    <2>. QED  BY <2>1, <2>2, CopiesNat DEF Remaining, NotSending
  <1>3. Deliveries
    BY <1>1, <1>2, AlertsAssumption DEF Deliveries, Spent
  <1>4. LowStock
    BY DEF Init, AlertsInit, GoroutinesInit, LowStock, LowLabels
  <1>5. Digest
    BY <1>1 DEF Init, AlertsInit, GoroutinesInit, Digest, DigestLabels
  <1>. QED  BY <1>3, <1>4, <1>5

(* Unless two checks or runs overlap or a mark is not written, at most one *)
(* low-stock alert goes out in six hours and one unforced digest a day;    *)
(* and, however answers get lost and runs overlap, no digest is delivered  *)
(* more often than there are attempts for each time it was sent.           *)
THEOREM AlertsAreNeverRepeated == Spec => []AlertsAreNotRepeated
  <1>1. Init => LowStock /\ Digest /\ Deliveries
    BY InitAlerts
  <1>2. Typing /\ LowStock /\ Digest /\ Deliveries /\ [Next]_vars
            => LowStock' /\ Digest' /\ Deliveries'
    BY StepLowStock, StepDigest, StepDeliveries
  <1>3. Typing /\ LowStock /\ Digest /\ Deliveries => AlertsAreNotRepeated
    <2>1. ASSUME AlertsTyped, Deliveries, NEW d \in Days
          PROVE  digests[d].delivered <= MaxRetries * digests[d].sent
      <3>1. PICK D \in Nat, C \in Nat, R \in Nat, m \in Nat, S \in Nat :
               /\ D = digests[d].delivered /\ C = Copies(queue, d) /\ R = Remaining(sending, d)
               /\ m = MaxRetries /\ S = digests[d].sent
        BY <2>1, Attempts, AlertsAssumption
      <3>2. D + m * C + R <= m * S
        BY <2>1, <3>1 DEF Deliveries, Spent
      <3>3. m * C \in Nat /\ m * S \in Nat
        OBVIOUS
      <3>4. D <= m * S
        BY <3>2, <3>3
      <3>. QED  BY <3>1, <3>4
    <2>. QED  BY <2>1 DEF Typing, LowStock, Digest, AlertsAreNotRepeated
  <1>. QED  BY <1>1, <1>2, <1>3, AlwaysTyping, PTL DEF Spec

-----------------------------------------------------------------------------
(* The default warehouse of an account: a pending update would leave it in *)
(* the list of the account as it is now.                                   *)

DefaultOk(u) == u.default = 0 \/ u.allowed = {} \/ u.default \in u.allowed

PendingUpdate(label, l, n, u) ==
    label = "updateUser" /\ l.name = n =>
        /\ u.state # "unknown"
        /\ u.state = "live" => DefaultOk(With(u, l.update.fields, l.update.doc))

Allowed ==
    \A n \in Accounts :
        \/ n \in overlapped
        \/ /\ users[n].state = "live" => DefaultOk(users[n])
           /\ \A v, w \in Workers :
                 /\ pc[v] = "updateUser" /\ loc[v].name = n
                 /\ pc[w] = "updateUser" /\ loc[w].name = n
                 => v = w
           /\ \A w \in Workers : PendingUpdate(pc[w], loc[w], n, users[n])

(* DefaultOk looks at two fields.                                          *)
LEMMA WithDefault ==
    ASSUME NEW u \in User, NEW v \in User, u.default = v.default, u.allowed = v.allowed,
           NEW fields, NEW doc
    PROVE  /\ DefaultOk(u) <=> DefaultOk(v)
           /\ DefaultOk(With(u, fields, doc)) <=> DefaultOk(With(v, fields, doc))
  <1>1. /\ DOMAIN u = {"state", "role", "tenant", "allowed", "default"}
        /\ DOMAIN v = {"state", "role", "tenant", "allowed", "default"}
    BY DEF User
  <1>2. /\ With(u, fields, doc).default = With(v, fields, doc).default
        /\ With(u, fields, doc).allowed = With(v, fields, doc).allowed
    BY <1>1 DEF With
  <1>. QED  BY <1>2 DEF DefaultOk

(* What may become of an account when goroutine w leaves its step.         *)
AccountStep(w, n) ==
    \/ /\ users'[n].state = users[n].state
       /\ users'[n].default = users[n].default
       /\ users'[n].allowed = users[n].allowed
    \/ users'[n].state = "deleted"
    \/ users[n].state = "unknown" /\ users'[n].state = "live" /\ users'[n].default = 0
    \/ /\ pc[w] = "updateUser" /\ loc[w].name = n /\ users[n].state = "live"
       /\ users'[n] = With(users[n], loc[w].update.fields, loc[w].update.doc)

LEMMA AllowedElsewhere ==
    ASSUME Typing, Typing', Allowed, NEW w \in Workers, NEW L, Moves(w, L), "updateUser" \notin L,
           \A n \in Accounts : AccountStep(w, n)
    PROVE  Allowed'
  <1>1. users \in [Names -> User] /\ users' \in [Names -> User] /\ Accounts \subseteq Names
    BY DEF Typing, AccessTypeOK, Names
  <1>2. ASSUME NEW n \in Accounts, n \notin overlapped'
        PROVE  /\ users'[n].state = "live" => DefaultOk(users'[n])
               /\ \A v, x \in Workers :
                     /\ pc'[v] = "updateUser" /\ loc'[v].name = n
                     /\ pc'[x] = "updateUser" /\ loc'[x].name = n
                     => v = x
               /\ \A v \in Workers : PendingUpdate(pc'[v], loc'[v], n, users'[n])
    <2>1. PICK u \in User, x \in User : u = users[n] /\ x = users'[n]
      BY <1>1
    <2>2. n \notin overlapped
      BY <1>2 DEF Moves
    <2>3. /\ u.state = "live" => DefaultOk(u)
          /\ \A v, y \in Workers :
                /\ pc[v] = "updateUser" /\ loc[v].name = n
                /\ pc[y] = "updateUser" /\ loc[y].name = n
                => v = y
          /\ \A v \in Workers : PendingUpdate(pc[v], loc[v], n, u)
      BY <2>1, <2>2 DEF Allowed
    <2>4. \A v \in Workers : pc'[v] = "updateUser" =>
              v # w /\ pc[v] = "updateUser" /\ loc'[v] = loc[v]
      BY DEF Moves
    <2>5. \A v, y \in Workers :
                     /\ pc'[v] = "updateUser" /\ loc'[v].name = n
                     /\ pc'[y] = "updateUser" /\ loc'[y].name = n
                     => v = y
      BY <2>3, <2>4
    <2>6. (x.state = "live" => DefaultOk(x)) /\ \A v \in Workers : PendingUpdate(pc'[v], loc'[v], n, x)
      <3>1. CASE x.state = u.state /\ x.default = u.default /\ x.allowed = u.allowed
        <4>1. \A v \in Workers : PendingUpdate(pc[v], loc[v], n, x)
          BY <2>3, <3>1, WithDefault DEF PendingUpdate
        <4>2. \A v \in Workers : PendingUpdate(pc'[v], loc'[v], n, x)
          BY <2>4, <4>1 DEF PendingUpdate
        <4>. QED  BY <2>3, <3>1, <4>2, WithDefault
      <3>2. CASE x.state = "deleted"
        BY <3>2 DEF PendingUpdate
      <3>3. CASE u.state = "unknown" /\ x.state = "live" /\ x.default = 0
        <4>1. \A v \in Workers : ~ (pc[v] = "updateUser" /\ loc[v].name = n)
          BY <2>3, <3>3 DEF PendingUpdate
        <4>. QED  BY <2>4, <3>3, <4>1 DEF PendingUpdate, DefaultOk
      <3>4. CASE /\ pc[w] = "updateUser" /\ loc[w].name = n /\ u.state = "live"
                 /\ x = With(u, loc[w].update.fields, loc[w].update.doc)
        <4>1. DefaultOk(x)
          BY <2>3, <3>4 DEF PendingUpdate
        <4>2. \A v \in Workers : ~ (pc'[v] = "updateUser" /\ loc'[v].name = n)
          BY <2>3, <2>4, <3>4
        <4>. QED  BY <4>1, <4>2 DEF PendingUpdate
      <3>. QED  BY <2>1, <3>1, <3>2, <3>3, <3>4 DEF AccountStep
    <2>. QED  BY <2>1, <2>5, <2>6
  <1>. QED  BY <1>2 DEF Allowed

LEMMA AllowedUpdated ==
    ASSUME Typing, Allowed, NEW w \in Workers, NEW m \in Names, NEW update,
           Request(w), UpdateUser(w, m, update)
    PROVE  Allowed'
  <1> DEFINE l == [kind |-> "update", name |-> m, update |-> update]
  <1>1. /\ pc'[w] = "updateUser" /\ loc'[w] = l
        /\ \A v \in Workers : v # w => pc'[v] = pc[v] /\ loc'[v] = loc[v]
        /\ \A k : k \in overlapped' <=>
              (k \in overlapped \/ (k = m /\ \E v \in Workers \ {w} : pc[v] \in {"updateUser"}))
    BY Entering DEF Typing, UpdateUser
  <1>2. pc[w] = "idle" /\ users' = users
    BY DEF Request, Starts, At, UpdateUser, documents
  <1>3. l.name = m /\ l.update = update
    OBVIOUS
  <1> HIDE DEF l
  <1>4. ASSUME NEW n \in Accounts, n \notin overlapped'
        PROVE  /\ users'[n].state = "live" => DefaultOk(users'[n])
               /\ \A v, x \in Workers :
                     /\ pc'[v] = "updateUser" /\ loc'[v].name = n
                     /\ pc'[x] = "updateUser" /\ loc'[x].name = n
                     => v = x
               /\ \A v \in Workers : PendingUpdate(pc'[v], loc'[v], n, users'[n])
    <2>1. n \notin overlapped
      BY <1>1, <1>4
    <2>2. /\ users[n].state = "live" => DefaultOk(users[n])
          /\ \A v, x \in Workers :
                /\ pc[v] = "updateUser" /\ loc[v].name = n
                /\ pc[x] = "updateUser" /\ loc[x].name = n
                => v = x
          /\ \A v \in Workers : PendingUpdate(pc[v], loc[v], n, users[n])
      BY <2>1 DEF Allowed
    <2>3. CASE n = m
      <3>1. \A v \in Workers : v # w => pc[v] # "updateUser"
        BY <1>1, <1>4, <2>3
      <3>2. users[n].state = "live" /\ DefaultOk(With(users[n], l.update.fields, l.update.doc))
        BY <1>3, <2>3 DEF UpdateUser, LiveUsers, Valid, DefaultOk
      <3>3. PendingUpdate(pc'[w], loc'[w], n, users'[n])
        BY <1>1, <1>2, <3>2 DEF PendingUpdate
      <3>4. \A v \in Workers : pc'[v] = "updateUser" => v = w
        BY <1>1, <3>1
      <3>5. \A v \in Workers : PendingUpdate(pc'[v], loc'[v], n, users'[n])
        BY <3>3, <3>4 DEF PendingUpdate
      <3>. QED  BY <1>2, <2>2, <3>4, <3>5
    <2>4. CASE n # m
      <3>1. loc'[w].name # n
        BY <1>1, <1>3, <2>4
      <3>2. \A v \in Workers : loc'[v].name = n => pc'[v] = pc[v] /\ loc'[v] = loc[v]
        BY <1>1, <3>1
      <3>3. \A v \in Workers : PendingUpdate(pc'[v], loc'[v], n, users'[n])
        BY <1>2, <2>2, <3>2 DEF PendingUpdate
      <3>. QED  BY <1>2, <2>2, <3>2, <3>3
    <2>. QED  BY <2>3, <2>4
  <1>. QED  BY <1>4 DEF Allowed

LEMMA AllowedStill ==
    ASSUME Allowed, UNCHANGED <<pc, loc, overlapped, users>>
    PROVE  Allowed'
  BY DEF Allowed, PendingUpdate

LEMMA StepAllowed ==
    ASSUME Typing, Allowed, [Next]_vars PROVE Allowed'
  <1>0. Runs /\ Typing' /\ users \in [Names -> User] /\ Accounts \subseteq Names
    BY StepTyping DEF Typing, AccessTypeOK, Names
  <1>1. ASSUME NEW w \in Workers, NEW L, Moves(w, L), "updateUser" \notin L, UNCHANGED users
        PROVE  Allowed'
    BY <1>0, <1>1, AllowedElsewhere DEF AccountStep
  <1>2. ASSUME NEW w \in Workers, AccessNext(w) PROVE Allowed'
    <2>1. CASE StartUp(w)
      <3>1. Moves(w, StartUpLabels) /\ "updateUser" \notin StartUpLabels
        BY <1>0, <2>1, StartUpMoves DEF StartUpLabels
      <3>2. \A n \in Accounts : users'[n] = users[n]
        <4>1. CASE InsertSuperAdmin(w) \/ UpdateSuperAdmin(w)
          BY <1>0, <4>1, AccessAssumption DEF InsertSuperAdmin, UpdateSuperAdmin
        <4>2. CASE ~ (InsertSuperAdmin(w) \/ UpdateSuperAdmin(w))
          BY <2>1, <4>2 DEF StartUp, StartProcess, FindTenant, InsertTenant, FindWarehouse,
                            InsertDefault, EnsureSuperAdmin, documents
        <4>. QED  BY <4>1, <4>2
      <3>. QED  BY <1>0, <3>1, <3>2, AllowedElsewhere DEF AccountStep
    <2>2. CASE Migration(w)
      <3>1. Moves(w, MigrationLabels) /\ "updateUser" \notin MigrationLabels
        BY <1>0, <2>2, MigrationMoves DEF MigrationLabels
      <3>2. CASE BackfillUsers(w)
        <4>1. PICK id : id = loc[w].id
          OBVIOUS
        <4>2. \A n \in Names : users'[n] \in {users[n], OwnedBy(users[n], id)}
          BY <1>0, <3>2, <4>1 DEF BackfillUsers
        <4>3. \A u \in User : /\ OwnedBy(u, id).state = u.state
                              /\ OwnedBy(u, id).default = u.default
                              /\ OwnedBy(u, id).allowed = u.allowed
          BY DEF OwnedBy, User
        <4>4. \A n \in Accounts : AccountStep(w, n)
          BY <1>0, <4>2, <4>3 DEF AccountStep
        <4>. QED  BY <1>0, <3>1, <4>4, AllowedElsewhere
      <3>3. CASE ~ BackfillUsers(w)
        <4>1. UNCHANGED users
          BY <2>2, <3>3 DEF Migration, MigrateTenant, MigrationFindTenant, MigrationInsertTenant,
             BackfillWarehouses, MigrateWarehouse, MigrationFindDefault, MigrationInsertDefault,
             BackfillLocations, documents
        <4>. QED  BY <1>1, <3>1, <4>1
      <3>. QED  BY <3>2, <3>3
    <2>3. CASE Request(w) /\ WarehouseRequests(w)
      <3>1. Moves(w, WarehouseLabels) /\ "updateUser" \notin WarehouseLabels
        BY <1>0, <2>3, WarehouseRequestMoves DEF WarehouseLabels
      <3>2. UNCHANGED users
        BY <2>3 DEF WarehouseRequests, CreateTenant, CreateWarehouse, UpdateWarehouse,
                    DeleteWarehouse, documents
      <3>. QED  BY <1>1, <3>1, <3>2
    <2>4. CASE Request(w) /\ LocationRequests(w)
      <3>1. Moves(w, {"insertLocation", "idle"})
        BY <1>0, <2>4, LocationRequestMoves
      <3>2. UNCHANGED users
        BY <2>4 DEF LocationRequests, CreateLocation, ImportLocation, DeleteLocation,
                    UpdateLocation, documents
      <3>. QED  BY <1>1, <3>1, <3>2
    <2>5. CASE Request(w) /\ UserRequests(w)
      <3>1. ASSUME NEW n, NEW role, NEW t, Register(w, n, role, t) PROVE Allowed'
        <4>1. \E l : Goto(w, "insertUser", l)
          BY <3>1 DEF Register
        <4>2. Moves(w, {"insertUser"})
          BY <1>0, <2>5, <4>1, GoingOnMoves, RequestFails
        <4>. QED  BY <1>1, <3>1, <4>2 DEF Register, documents
      <3>2. ASSUME NEW n \in Accounts, DeleteUser(w, n) PROVE Allowed'
        <4>1. Moves(w, {"idle"})
          BY <1>0, <2>5, <3>2, FinishingMoves DEF Request, DeleteUser
        <4>2. \A k \in Accounts : k # n => users'[k] = users[k]
          BY <1>0, <3>2 DEF DeleteUser
        <4>3. users'[n].state = "deleted"
          BY <1>0, <3>2 DEF DeleteUser, Unknown
        <4>. QED  BY <1>0, <4>1, <4>2, <4>3, AllowedElsewhere DEF AccountStep
      <3>. QED  BY <2>5, <3>1, <3>2, AllowedUpdated DEF UserRequests
    <2>6. CASE WarehouseWrites(w) \/ InsertLocation(w) \/ InsertUser(w) \/ WriteUser(w)
      <3>1. Moves(w, {"idle"}) /\ Carries(pc[w], loc[w], DOMAIN warehouses)
        BY <1>0, <2>6, WriteMoves DEF Runs
      <3>2. CASE WarehouseWrites(w) \/ InsertLocation(w)
        BY <1>1, <3>1, <3>2 DEF WarehouseWrites, InsertOtherTenant, InsertNewWarehouse, SetCode,
                                RemoveWarehouse, InsertLocation
      <3>3. CASE InsertUser(w)
        <4>1. PICK l : l = loc[w]
          OBVIOUS
        <4>2. l.name \in Accounts /\ l.doc.state = "live" /\ l.doc.default = 0
          BY <3>1, <3>3, <4>1 DEF InsertUser, Carries, At
        <4>3. users' = [users EXCEPT ![l.name] = IF @.state = "unknown" THEN l.doc ELSE @]
          BY <3>3, <4>1 DEF InsertUser
        <4>4. \A n \in Accounts : n # l.name => users'[n] = users[n]
          BY <1>0, <4>3
        <4>5. users'[l.name] = IF users[l.name].state = "unknown" THEN l.doc ELSE users[l.name]
          BY <1>0, <4>2, <4>3
        <4>. QED  BY <1>0, <3>1, <4>2, <4>4, <4>5, AllowedElsewhere DEF AccountStep
      <3>4. CASE WriteUser(w)
        <4>1. PICK l : l = loc[w]
          OBVIOUS
        <4>2. l.name \in Names /\ pc[w] = "updateUser"
          BY <3>1, <3>4, <4>1 DEF WriteUser, Carries, At
        <4>3. users' = [users EXCEPT ![l.name] =
                  IF @.state = "live" THEN With(@, l.update.fields, l.update.doc) ELSE @]
          BY <3>4, <4>1 DEF WriteUser
        <4>4. \A n \in Accounts : n # l.name => users'[n] = users[n]
          BY <1>0, <4>3
        <4>5. users'[l.name] = IF users[l.name].state = "live"
                               THEN With(users[l.name], l.update.fields, l.update.doc)
                               ELSE users[l.name]
          BY <1>0, <4>2, <4>3
        <4>6. \A n \in Accounts : AccountStep(w, n)
          BY <4>1, <4>2, <4>4, <4>5 DEF AccountStep
        <4>. QED  BY <1>0, <3>1, <4>6, AllowedElsewhere
      <3>. QED  BY <2>6, <3>2, <3>3, <3>4
    <2>. QED  BY <1>2, <2>1, <2>2, <2>3, <2>4, <2>5, <2>6 DEF AccessNext
  <1>3. ASSUME NEW w \in Workers, AlertsNext(w), UNCHANGED documents PROVE Allowed'
    <2>1. Moves(w, AlertsLabels) /\ "updateUser" \notin AlertsLabels
      BY <1>0, <1>3, AlertsMoves DEF AlertsLabels
    <2>. QED  BY <1>1, <1>3, <2>1 DEF documents
  <1>4. ASSUME NEW w \in Workers, Abandon(w), UNCHANGED documents PROVE Allowed'
    <2>1. Moves(w, {"idle"})
      BY <1>0, <1>4, AlertsLead
    <2>. QED  BY <1>1, <1>4, <2>1 DEF documents
  <1>5. CASE UNCHANGED <<pc, loc, overlapped, documents>>
    BY <1>5, AllowedStill DEF documents
  <1>. QED  BY <1>2, <1>3, <1>4, <1>5 DEF Next, vars, goroutines

LEMMA InitAllowed ==
    ASSUME Init PROVE Allowed
  <1>1. \A w \in Workers : pc[w] = "idle"
    BY DEF Init, GoroutinesInit
  <1>2. \A n \in Accounts : n \in Names /\ n # "superadmin"
    BY AccessAssumption DEF Names
  <1>3. \A n \in Accounts : users[n].state = "live" => DefaultOk(users[n])
    <2>1. CASE FreshDatabase
      BY <1>2, <2>1 DEF FreshDatabase, Unknown
    <2>2. CASE UsedDatabase
      BY <1>2, <2>2 DEF UsedDatabase, DefaultOk
    <2>. QED  BY <2>1, <2>2 DEF Init, AccessInit
  <1>. QED  BY <1>1, <1>3 DEF Allowed, PendingUpdate

(* "default warehouse must be in the allowed warehouses list": the two are *)
(* set by separate requests that each look at the account and write later, *)
(* with registrations, deletions and the back-fill of tenants in between.  *)
(* It is so of accounts that have a list and no two updates of which       *)
(* overlapped: the code checks no more of an empty list, and overlapping   *)
(* updates can break it.                                                   *)
THEOREM DefaultIsAlwaysAllowed == Spec => []DefaultIsAllowed
  <1>1. Init => Allowed
    BY InitAllowed
  <1>2. Typing /\ Allowed /\ [Next]_vars => Allowed'
    BY StepAllowed
  <1>3. Allowed => DefaultIsAllowed
    BY DEF Allowed, DefaultIsAllowed, LiveUsers, DefaultOk
  <1>. QED  BY <1>1, <1>2, <1>3, AlwaysTyping, PTL DEF Spec

-----------------------------------------------------------------------------
(* What a step does to the warehouses.                                     *)

SameShape ==
    /\ DOMAIN warehouses' = DOMAIN warehouses
    /\ \A i \in DOMAIN warehouses : /\ warehouses'[i].exists = warehouses[i].exists
                                    /\ warehouses'[i].code = warehouses[i].code
                                    /\ warehouses'[i].isDefault = warehouses[i].isDefault

Added(doc) ==
    \E k : /\ k \notin DOMAIN warehouses
           /\ DOMAIN warehouses' = DOMAIN warehouses \cup {k}
           /\ \A i \in DOMAIN warehouses : warehouses'[i] = warehouses[i]
           /\ warehouses'[k] = doc

Changed(i, doc) ==
    /\ i \in DOMAIN warehouses
    /\ DOMAIN warehouses' = DOMAIN warehouses
    /\ \A j \in DOMAIN warehouses : warehouses'[j] = IF j = i THEN doc ELSE warehouses[j]

Recoded(i, code) == Changed(i, [warehouses[i] EXCEPT !.code = code])
Removed(i) == Changed(i, [warehouses[i] EXCEPT !.exists = FALSE])

LEMMA InsertionAdds ==
    ASSUME AccessTypeOK, NEW doc \in Warehouse, InsertWarehouse(doc)
    PROVE  Added(doc)
  <1>1. PICK k : k = Len(warehouses')
    OBVIOUS
  <1>2. /\ DOMAIN warehouses' = DOMAIN warehouses \cup {k}
        /\ \A i \in DOMAIN warehouses : warehouses'[i] = warehouses[i]
        /\ warehouses'[k] = doc
        /\ k = Len(warehouses) + 1
    BY <1>1, InsertedWarehouse
  <1>3. k \notin DOMAIN warehouses
    BY <1>2, Ids
  <1>. QED  BY <1>2, <1>3 DEF Added

LEMMA WarehouseSteps ==
    ASSUME Typing, NEW w \in Workers, AccessNext(w)
    PROVE  \/ SameShape
           \/ pc[w] \in DefaultInserts /\ \E c : Added(NewWarehouse(c, 0, TRUE))
           \/ pc[w] = "insertWarehouse" /\ Added(NewWarehouse(loc[w].code, loc[w].tenant, FALSE))
           \/ pc[w] = "setCode" /\ Recoded(loc[w].id, loc[w].code)
           \/ pc[w] = "deleteWarehouse" /\ Removed(loc[w].id)
  <1>0. AccessTypeOK /\ Carries(pc[w], loc[w], DOMAIN warehouses)
    BY DEF Typing, Runs
  <1>1. UNCHANGED warehouses => SameShape
    BY DEF SameShape
  <1>2. CASE InsertDefault(w) \/ MigrationInsertDefault(w)
    <2>1. pc[w] \in DefaultInserts
      BY <1>2 DEF InsertDefault, MigrationInsertDefault, At, DefaultInserts
    <2>2. UNCHANGED warehouses \/ \E c \in {"WH-DEFAULT", "DEFAULT"} : InsertWarehouse(NewWarehouse(c, 0, TRUE))
      BY <1>2 DEF InsertDefault, MigrationInsertDefault
    <2>3. \A c \in {"WH-DEFAULT", "DEFAULT"} : NewWarehouse(c, 0, TRUE) \in Warehouse
      BY DEF NewWarehouse, Warehouse
    <2>. QED  BY <1>0, <1>1, <2>1, <2>2, <2>3, InsertionAdds
  <1>3. CASE InsertNewWarehouse(w)
    <2>1. /\ pc[w] = "insertWarehouse" /\ loc[w].code \in Codes /\ loc[w].tenant \in Nat
          /\ InsertWarehouse(NewWarehouse(loc[w].code, loc[w].tenant, FALSE))
      BY <1>0, <1>3 DEF InsertNewWarehouse, At, Carries
    <2>2. NewWarehouse(loc[w].code, loc[w].tenant, FALSE) \in Warehouse
      BY <2>1 DEF NewWarehouse, Warehouse
    <2>. QED  BY <1>0, <2>1, <2>2, InsertionAdds
  <1>4. CASE SetCode(w)
    <2>1. PICK i \in DOMAIN warehouses : i = loc[w].id
      BY <1>0, <1>4 DEF SetCode, At, Carries
    <2>2. /\ pc[w] = "setCode" /\ loc[w].code \in Codes
          /\ warehouses' = [warehouses EXCEPT ![i] = [warehouses[i] EXCEPT !.code = loc[w].code]]
      BY <1>0, <1>4, <2>1 DEF SetCode, At, Carries
    <2>3. [warehouses[i] EXCEPT !.code = loc[w].code] \in Warehouse
      <3>1. warehouses[i] \in Warehouse
        BY <1>0, Ids
      <3>. QED  BY <2>2, <3>1 DEF Warehouse
    <2>4. Recoded(i, loc[w].code)
      BY <1>0, <2>2, <2>3, ChangedWarehouse DEF Recoded, Changed
    <2>. QED  BY <2>1, <2>2, <2>4
  <1>5. CASE RemoveWarehouse(w)
    <2>1. PICK i \in DOMAIN warehouses : i = loc[w].id
      BY <1>0, <1>5 DEF RemoveWarehouse, At, Carries
    <2>2. /\ pc[w] = "deleteWarehouse"
          /\ warehouses' = [warehouses EXCEPT ![i] = [warehouses[i] EXCEPT !.exists = FALSE]]
      BY <1>5, <2>1 DEF RemoveWarehouse, At
    <2>3. [warehouses[i] EXCEPT !.exists = FALSE] \in Warehouse
      <3>1. warehouses[i] \in Warehouse
        BY <1>0, Ids
      <3>. QED  BY <3>1 DEF Warehouse
    <2>4. Removed(i)
      BY <1>0, <2>2, <2>3, ChangedWarehouse DEF Removed, Changed
    <2>. QED  BY <2>1, <2>2, <2>4
  <1>6. CASE BackfillWarehouses(w)
    <2>1. PICK id : warehouses' = [i \in DOMAIN warehouses |-> OwnedBy(warehouses[i], id)]
      BY <1>6 DEF BackfillWarehouses
    <2>2. \A d \in Warehouse : /\ OwnedBy(d, id).exists = d.exists
                               /\ OwnedBy(d, id).code = d.code
                               /\ OwnedBy(d, id).isDefault = d.isDefault
      BY DEF OwnedBy, Warehouse
    <2>3. \A i \in DOMAIN warehouses : warehouses[i] \in Warehouse
      BY <1>0, Ids
    <2>4. \A i \in DOMAIN warehouses : warehouses'[i] = OwnedBy(warehouses[i], id)
      BY <2>1
    <2>5. DOMAIN warehouses' = DOMAIN warehouses
      BY <2>1
    <2>6. SameShape
      BY <2>2, <2>3, <2>4, <2>5 DEF SameShape
    <2>. QED  BY <2>6
  <1>7. CASE StartUp(w) /\ ~InsertDefault(w)
    BY <1>1, <1>7 DEF StartUp, StartProcess, FindTenant, InsertTenant, FindWarehouse,
       EnsureSuperAdmin, InsertSuperAdmin, UpdateSuperAdmin, documents
  <1>8. CASE Migration(w) /\ ~MigrationInsertDefault(w) /\ ~BackfillWarehouses(w)
    BY <1>1, <1>8 DEF Migration, MigrateTenant, MigrationFindTenant, MigrationInsertTenant,
       BackfillUsers, MigrateWarehouse, MigrationFindDefault, BackfillLocations, documents
  <1>9. CASE WarehouseRequests(w) \/ LocationRequests(w) \/ UserRequests(w)
    BY <1>1, <1>9 DEF WarehouseRequests, CreateTenant, CreateWarehouse, UpdateWarehouse,
       DeleteWarehouse, LocationRequests, CreateLocation, ImportLocation, DeleteLocation,
       UpdateLocation, UserRequests, Register, UpdateUser, DeleteUser, documents
  <1>10. CASE InsertOtherTenant(w) \/ InsertLocation(w) \/ InsertUser(w) \/ WriteUser(w)
    BY <1>1, <1>10 DEF InsertOtherTenant, InsertLocation, InsertUser, WriteUser
  <1>. QED  BY <1>2, <1>3, <1>4, <1>5, <1>6, <1>7, <1>8, <1>9, <1>10 DEF AccessNext, WarehouseWrites

LiveIds == {i \in DOMAIN warehouses : Live(i)}

LEMMA LiveIdsChange ==
    ASSUME Typing
    PROVE  /\ SameShape => LiveIds' = LiveIds
           /\ \A doc : Added(doc) => LiveIds \subseteq LiveIds'
           /\ \A i, code : Recoded(i, code) => LiveIds' = LiveIds
           /\ \A i : Removed(i) => LiveIds' = LiveIds \ {i}
  <1>0. \A i \in DOMAIN warehouses : warehouses[i] \in Warehouse
    BY Ids DEF Typing
  <1>1. /\ LiveIds = {i \in DOMAIN warehouses : warehouses[i].exists}
        /\ LiveIds' = {i \in DOMAIN warehouses' : warehouses'[i].exists}
    BY DEF LiveIds, Live
  <1>2. SameShape => LiveIds' = LiveIds
    BY <1>1 DEF SameShape
  <1>3. ASSUME NEW doc, Added(doc) PROVE LiveIds \subseteq LiveIds'
    BY <1>1, <1>3 DEF Added
  <1>4. ASSUME NEW i, NEW code, Recoded(i, code) PROVE LiveIds' = LiveIds
    <2>1. i \in DOMAIN warehouses /\ warehouses[i] \in Warehouse
      BY <1>0, <1>4 DEF Recoded, Changed
    <2>2. [warehouses[i] EXCEPT !.code = code].exists = warehouses[i].exists
      BY <2>1 DEF Warehouse
    <2>3. \A j \in DOMAIN warehouses : warehouses'[j].exists = warehouses[j].exists
      BY <1>4, <2>2 DEF Recoded, Changed
    <2>. QED  BY <1>1, <1>4, <2>3 DEF Recoded, Changed
  <1>5. ASSUME NEW i, Removed(i) PROVE LiveIds' = LiveIds \ {i}
    <2>1. i \in DOMAIN warehouses /\ warehouses[i] \in Warehouse
      BY <1>0, <1>5 DEF Removed, Changed
    <2>2. [warehouses[i] EXCEPT !.exists = FALSE].exists = FALSE
      BY <2>1 DEF Warehouse
    <2>3. \A j \in DOMAIN warehouses : warehouses'[j].exists = IF j = i THEN FALSE ELSE warehouses[j].exists
      BY <1>5, <2>2 DEF Removed, Changed
    <2>. QED  BY <1>1, <1>5, <2>3 DEF Removed, Changed
  <1>. QED  BY <1>2, <1>3, <1>4, <1>5

-----------------------------------------------------------------------------
(* Deletion of warehouses: what was checked for a deletion and for a new   *)
(* location stays true until they are written.                             *)

PendingLocation(label, l, ids) ==
    label = "insertLocation" /\ l.doc.checked => l.doc.warehouse \in ids

PendingDeletion(label, l, ls) ==
    label = "deleteWarehouse" => \A x \in ls : x.checked => x.warehouse # l.id

Homes ==
    \/ "data" \in overlapped
    \/ /\ \A v, w \in Workers :
             ~ (pc[v] = "insertLocation" /\ loc[v].doc.checked /\ pc[w] = "deleteWarehouse")
       /\ \A w \in Workers : /\ PendingLocation(pc[w], loc[w], LiveIds)
                             /\ PendingDeletion(pc[w], loc[w], locations)
       /\ \A x \in locations : x.checked => x.warehouse \in LiveIds

HomeLabels == {"insertLocation", "deleteWarehouse"}

LEMMA HomesStill ==
    ASSUME Homes, UNCHANGED <<pc, loc, overlapped, documents>>
    PROVE  Homes'
  BY DEF Homes, PendingLocation, PendingDeletion, LiveIds, Live, documents

(* A step that begins neither, and adds no location that was checked but   *)
(* where there was one.                                                    *)
LEMMA HomesAlike ==
    ASSUME Homes, NEW w \in Workers, NEW L, Moves(w, L), L \cap HomeLabels = {},
           LiveIds \subseteq LiveIds',
           \A x \in locations' :
              x.checked => \E y \in locations : y.checked /\ y.warehouse = x.warehouse
    PROVE  Homes'
  <1>1. CASE "data" \in overlapped
    BY <1>1 DEF Homes, Moves
  <1>2. CASE "data" \notin overlapped
    <2>1. \A v \in Workers : pc'[v] \in HomeLabels => pc'[v] = pc[v] /\ loc'[v] = loc[v]
      BY DEF Moves
    <2>2. /\ \A u, v \in Workers :
                ~ (pc[u] = "insertLocation" /\ loc[u].doc.checked /\ pc[v] = "deleteWarehouse")
          /\ \A v \in Workers : /\ PendingLocation(pc[v], loc[v], LiveIds)
                                /\ PendingDeletion(pc[v], loc[v], locations)
          /\ \A x \in locations : x.checked => x.warehouse \in LiveIds
      BY <1>2 DEF Homes
    <2>3. \A u, v \in Workers :
             ~ (pc'[u] = "insertLocation" /\ loc'[u].doc.checked /\ pc'[v] = "deleteWarehouse")
      BY <2>1, <2>2 DEF HomeLabels
    <2>4. PICK ids, ls : ids = LiveIds' /\ ls = locations'
      OBVIOUS
    <2>5. \A v \in Workers : PendingLocation(pc'[v], loc'[v], ids)
      BY <2>1, <2>2, <2>4 DEF HomeLabels, PendingLocation
    <2>6. \A v \in Workers : PendingDeletion(pc'[v], loc'[v], ls)
      BY <2>1, <2>2, <2>4 DEF HomeLabels, PendingDeletion
    <2>7. \A x \in ls : x.checked => x.warehouse \in ids
      BY <2>2, <2>4
    <2>. QED  BY <2>3, <2>4, <2>5, <2>6, <2>7 DEF Homes
  <1>. QED  BY <1>1, <1>2

LEMMA HomesElsewhere ==
    ASSUME Homes, NEW w \in Workers, NEW L, Moves(w, L), L \cap HomeLabels = {},
           LiveIds \subseteq LiveIds',
           \A x \in locations' : x.checked => x \in locations
    PROVE  Homes'
  BY HomesAlike

(* Zone, rack and level say nothing of the warehouse.                      *)
LEMMA HomesMoved ==
    ASSUME Typing, Homes, NEW w \in Workers, NEW l \in locations, NEW rack,
           UpdateLocation(w, l, rack), Moves(w, {"idle"}), LiveIds \subseteq LiveIds'
    PROVE  Homes'
  <1>1. PICK m : m = [l EXCEPT !.rack = rack]
    OBVIOUS
  <1>2. /\ m.checked = l.checked /\ m.warehouse = l.warehouse
        /\ locations' = (locations \ {l}) \cup {m}
    BY <1>1 DEF UpdateLocation, Typing, AccessTypeOK, Location
  <1>3. \A x \in locations' :
           x.checked => \E y \in locations : y.checked /\ y.warehouse = x.warehouse
    BY <1>2
  <1>4. {"idle"} \cap HomeLabels = {}
    BY DEF HomeLabels
  <1>. QED  BY <1>3, <1>4, HomesAlike

LEMMA HomesRemoved ==
    ASSUME Typing, Homes, NEW w \in Workers, RemoveWarehouse(w)
    PROVE  Homes'
  <1>1. PICK l : l = loc[w]
    OBVIOUS
  <1>2. /\ pc[w] = "deleteWarehouse" /\ UNCHANGED locations
        /\ Moves(w, {"idle"})
    BY WriteMoves DEF Typing, RemoveWarehouse, At, WarehouseWrites
  <1>3. AccessNext(w)
    BY DEF AccessNext, WarehouseWrites
  <1>4. LiveIds \subseteq LiveIds' \/ LiveIds' = LiveIds \ {l.id}
    BY <1>1, <1>2, <1>3, WarehouseSteps, LiveIdsChange
  <1>5. CASE LiveIds \subseteq LiveIds'
    <2>1. {"idle"} \cap HomeLabels = {}
      BY DEF HomeLabels
    <2>. QED  BY <1>2, <1>5, <2>1, HomesElsewhere
  <1>6. CASE "data" \in overlapped
    BY <1>2, <1>6 DEF Homes, Moves
  <1>7. CASE "data" \notin overlapped /\ LiveIds' = LiveIds \ {l.id}
    <2>1. \A v \in Workers : pc'[v] \in HomeLabels => pc'[v] = pc[v] /\ loc'[v] = loc[v]
      BY <1>2 DEF Moves, HomeLabels
    <2>2. /\ \A u, v \in Workers :
                ~ (pc[u] = "insertLocation" /\ loc[u].doc.checked /\ pc[v] = "deleteWarehouse")
          /\ \A v \in Workers : /\ PendingLocation(pc[v], loc[v], LiveIds)
                                /\ PendingDeletion(pc[v], loc[v], locations)
          /\ \A x \in locations : x.checked => x.warehouse \in LiveIds
      BY <1>7 DEF Homes
    <2>3. /\ \A v \in Workers : ~ (pc[v] = "insertLocation" /\ loc[v].doc.checked)
          /\ \A x \in locations : x.checked => x.warehouse # l.id
      BY <1>1, <1>2, <2>2 DEF PendingDeletion
    <2>4. \A v \in Workers : ~ (pc'[v] = "insertLocation" /\ loc'[v].doc.checked)
      BY <2>1, <2>3 DEF HomeLabels
    <2>5. PICK ids : ids = LiveIds'
      OBVIOUS
    <2>6. \A v \in Workers : /\ PendingLocation(pc'[v], loc'[v], ids)
                             /\ PendingDeletion(pc'[v], loc'[v], locations)
      BY <2>1, <2>2, <2>4 DEF HomeLabels, PendingLocation, PendingDeletion
    <2>7. \A x \in locations : x.checked => x.warehouse \in ids
      BY <1>7, <2>2, <2>3, <2>5
    <2>. QED  BY <1>2, <2>4, <2>5, <2>6, <2>7 DEF Homes
  <1>. QED  BY <1>4, <1>5, <1>6, <1>7

LEMMA HomesDeletion ==
    ASSUME Typing, Homes, NEW w \in Workers, NEW i \in DOMAIN warehouses,
           Request(w), DeleteWarehouse(w, i)
    PROVE  Homes'
  <1>1. PICK l : l = [kind |-> "id", id |-> i]
    OBVIOUS
  <1>2. /\ pc'[w] = "deleteWarehouse" /\ loc'[w] = l
        /\ \A v \in Workers : v # w => pc'[v] = pc[v] /\ loc'[v] = loc[v]
        /\ \A k : k \in overlapped' <=>
              (k \in overlapped
                  \/ (k = "data" /\ \E v \in Workers \ {w} : pc[v] \in {"insertLocation"}))
    BY <1>1, Entering DEF Typing, DeleteWarehouse
  <1>3. LiveIds' = LiveIds /\ locations' = locations
    BY DEF DeleteWarehouse, documents, LiveIds, Live
  <1>4. CASE "data" \in overlapped'
    BY <1>4 DEF Homes
  <1>5. CASE "data" \notin overlapped'
    <2>1. /\ "data" \notin overlapped
          /\ \A v \in Workers : v # w => pc[v] # "insertLocation"
      BY <1>2, <1>5
    <2>2. \A v \in Workers : pc'[v] # "insertLocation"
      BY <1>2, <2>1
    <2>3. /\ \A v \in Workers : PendingDeletion(pc[v], loc[v], locations)
          /\ \A x \in locations : x.checked => x.warehouse \in LiveIds
      BY <2>1 DEF Homes
    <2>4. PendingDeletion("deleteWarehouse", l, locations)
      BY <1>1 DEF DeleteWarehouse, HasData, PendingDeletion
    <2>5. PICK ls, ids : ls = locations /\ ids = LiveIds
      OBVIOUS
    <2>6. \A v \in Workers : PendingDeletion(pc'[v], loc'[v], ls)
      BY <1>2, <2>3, <2>4, <2>5
    <2>7. \A v \in Workers : PendingLocation(pc'[v], loc'[v], ids)
      BY <2>2 DEF PendingLocation
    <2>. QED  BY <1>3, <2>2, <2>3, <2>5, <2>6, <2>7 DEF Homes
  <1>. QED  BY <1>4, <1>5

(* The context lets nobody but a superadmin or a user without a tenant     *)
(* into a warehouse that is not there.                                     *)
LEMMA GrantedIsLive ==
    ASSUME AccessTypeOK, NEW user \in User, NEW header, PassesContext(user, header),
           header # AllMode, user.role # "superadmin", user.tenant # 0
    PROVE  ContextWarehouse(user, header) \in LiveIds
  <1>1. PICK i : i = Chosen(user, header)
    OBVIOUS
  <1>2. Granted(user, i) /\ ContextWarehouse(user, header) = i
    BY <1>1 DEF PassesContext, ContextWarehouse
  <1>. QED  BY <1>2 DEF Granted, SameTenant, LiveIds, Live

LEMMA HomesLocation ==
    ASSUME Typing, Homes, NEW w \in Workers, NEW n \in Names, NEW header \in Headers, NEW place,
           NEW rack, Request(w), CreateLocation(w, n, header, place, rack)
    PROVE  Homes'
  <1>1. PICK user \in User : user = users[n]
    BY DEF Typing, AccessTypeOK
  <1>2. PICK doc : doc = [place |-> place, rack |-> rack,
                          warehouse |-> ContextWarehouse(user, header),
                          checked |-> header # AllMode /\ user.role # "superadmin" /\ user.tenant # 0]
    OBVIOUS
  <1>3. doc.checked => doc.warehouse \in LiveIds
    BY <1>1, <1>2, GrantedIsLive DEF CreateLocation, Typing
  <1>4. PICK l : l = [kind |-> "location", doc |-> doc]
    OBVIOUS
  <1>5. /\ pc'[w] = "insertLocation" /\ loc'[w] = l
        /\ \A v \in Workers : v # w => pc'[v] = pc[v] /\ loc'[v] = loc[v]
        /\ \A k : k \in overlapped' <=>
              (k \in overlapped
                  \/ (k = "data" /\ \E v \in Workers \ {w} : pc[v] \in {"deleteWarehouse"}))
    BY <1>1, <1>2, <1>4, Entering DEF Typing, CreateLocation
  <1>6. LiveIds' = LiveIds /\ locations' = locations
    BY DEF CreateLocation, documents, LiveIds, Live
  <1>7. CASE "data" \in overlapped'
    BY <1>7 DEF Homes
  <1>8. CASE "data" \notin overlapped'
    <2>1. /\ "data" \notin overlapped
          /\ \A v \in Workers : v # w => pc[v] # "deleteWarehouse"
      BY <1>5, <1>8
    <2>2. \A v \in Workers : pc'[v] # "deleteWarehouse"
      BY <1>5, <2>1
    <2>3. /\ \A v \in Workers : PendingLocation(pc[v], loc[v], LiveIds)
          /\ \A x \in locations : x.checked => x.warehouse \in LiveIds
      BY <2>1 DEF Homes
    <2>4. PendingLocation("insertLocation", l, LiveIds)
      BY <1>3, <1>4 DEF PendingLocation
    <2>5. PICK ls, ids : ls = locations /\ ids = LiveIds
      OBVIOUS
    <2>6. \A v \in Workers : PendingLocation(pc'[v], loc'[v], ids)
      BY <1>5, <2>3, <2>4, <2>5
    <2>7. \A v \in Workers : PendingDeletion(pc'[v], loc'[v], ls)
      BY <2>2 DEF PendingDeletion
    <2>. QED  BY <1>6, <2>2, <2>3, <2>5, <2>6, <2>7 DEF Homes
  <1>. QED  BY <1>7, <1>8

(* An imported location has no warehouse, and nobody checked one.          *)
LEMMA HomesImport ==
    ASSUME Typing, Homes, NEW w \in Workers, NEW rack, Request(w), ImportLocation(w, rack)
    PROVE  Homes'
  <1>1. PICK l : l = [kind |-> "location",
                      doc |-> [place |-> CodeOf[rack], rack |-> rack, warehouse |-> 0,
                               checked |-> FALSE]]
    OBVIOUS
  <1>2. /\ pc'[w] = "insertLocation" /\ loc'[w] = l
        /\ \A v \in Workers : v # w => pc'[v] = pc[v] /\ loc'[v] = loc[v]
        /\ overlapped' = overlapped
    BY <1>1, GoingOn DEF Typing, ImportLocation
  <1>3. LiveIds' = LiveIds /\ locations' = locations
    BY DEF ImportLocation, documents, LiveIds, Live
  <1>4. ~ loc'[w].doc.checked
    BY <1>1, <1>2
  <1>5. PICK ids : ids = LiveIds
    OBVIOUS
  <1>6. \A v \in Workers : PendingLocation(pc[v], loc[v], ids) => PendingLocation(pc'[v], loc'[v], ids)
    BY <1>2, <1>4 DEF PendingLocation
  <1>7. \A v \in Workers : PendingDeletion(pc[v], loc[v], locations)
                               => PendingDeletion(pc'[v], loc'[v], locations)
    BY <1>2 DEF PendingDeletion
  <1>8. \A v \in Workers : /\ pc'[v] = "deleteWarehouse" => pc[v] = "deleteWarehouse"
                           /\ (pc'[v] = "insertLocation" /\ loc'[v].doc.checked)
                                  => (pc[v] = "insertLocation" /\ loc[v].doc.checked)
    BY <1>2, <1>4
  <1>. QED  BY <1>2, <1>3, <1>5, <1>6, <1>7, <1>8 DEF Homes

LEMMA HomesInserted ==
    ASSUME Typing, Homes, NEW w \in Workers, InsertLocation(w)
    PROVE  Homes'
  <1>1. PICK l : l = loc[w]
    OBVIOUS
  <1>2. /\ pc[w] = "insertLocation" /\ locations' \subseteq locations \cup {l.doc}
        /\ LiveIds' = LiveIds
        /\ Moves(w, {"idle"})
    BY <1>1, WriteMoves DEF Typing, InsertLocation, At, LiveIds, Live
  <1>3. CASE "data" \in overlapped
    BY <1>2, <1>3 DEF Homes, Moves
  <1>4. CASE "data" \notin overlapped /\ l.doc.checked
    <2>1. \A v \in Workers : pc'[v] \in HomeLabels => pc'[v] = pc[v] /\ loc'[v] = loc[v]
      BY <1>2 DEF Moves, HomeLabels
    <2>2. /\ \A u, v \in Workers :
                ~ (pc[u] = "insertLocation" /\ loc[u].doc.checked /\ pc[v] = "deleteWarehouse")
          /\ \A v \in Workers : PendingLocation(pc[v], loc[v], LiveIds)
          /\ \A x \in locations : x.checked => x.warehouse \in LiveIds
      BY <1>4 DEF Homes
    <2>3. l.doc.warehouse \in LiveIds /\ \A v \in Workers : pc[v] # "deleteWarehouse"
      BY <1>1, <1>2, <1>4, <2>2 DEF PendingLocation
    <2>4. \A v \in Workers : pc'[v] # "deleteWarehouse"
      BY <2>1, <2>3 DEF HomeLabels
    <2>5. PICK ls, ids : ls = locations' /\ ids = LiveIds
      OBVIOUS
    <2>6. \A x \in ls : x.checked => x.warehouse \in ids
      BY <1>2, <2>2, <2>3, <2>5
    <2>7. \A v \in Workers : /\ PendingLocation(pc'[v], loc'[v], ids)
                             /\ PendingDeletion(pc'[v], loc'[v], ls)
      BY <2>1, <2>2, <2>4, <2>5 DEF HomeLabels, PendingLocation, PendingDeletion
    <2>. QED  BY <1>2, <2>4, <2>5, <2>6, <2>7 DEF Homes
  <1>5. CASE ~ l.doc.checked
    <2>1. \A x \in locations' : x.checked => x \in locations
      BY <1>2, <1>5
    <2>2. {"idle"} \cap HomeLabels = {}
      BY DEF HomeLabels
    <2>. QED  BY <1>2, <2>1, <2>2, HomesElsewhere
  <1>. QED  BY <1>3, <1>4, <1>5

(* The back-fill gives a warehouse to the locations without one: a checked *)
(* location has one.                                                       *)
LEMMA HomesBackfilled ==
    ASSUME Typing, Homes, NEW w \in Workers, BackfillLocations(w)
    PROVE  Homes'
  <1>1. PICK id : id = loc[w].id
    OBVIOUS
  <1>2. /\ locations' = {[x EXCEPT !.warehouse = IF Missing(@) THEN id ELSE @] : x \in locations}
        /\ locations \subseteq Location
        /\ LiveIds' = LiveIds
    BY <1>1 DEF BackfillLocations, LiveIds, Live, Typing, AccessTypeOK
  <1>3. Moves(w, {"idle"})
    BY FinishingMoves DEF BackfillLocations, Typing
  <1>4. CASE "data" \in overlapped
    BY <1>3, <1>4 DEF Homes, Moves
  <1>5. CASE "data" \notin overlapped
    <2>1. \A x \in locations : x.checked => x.warehouse # 0
      BY <1>5, Ids DEF Homes, LiveIds, Typing
    <2>2. ASSUME NEW y \in locations', y.checked PROVE y \in locations
      <3>1. PICK x \in locations : y = [x EXCEPT !.warehouse = IF Missing(@) THEN id ELSE @]
        BY <1>2
      <3>2. x \in Location /\ y.checked = x.checked
        BY <1>2, <3>1 DEF Location
      <3>3. x.warehouse # 0
        BY <2>1, <2>2, <3>2
      <3>4. y = x
        BY <3>1, <3>2, <3>3 DEF Missing, Location
      <3>. QED  BY <3>4
    <2>3. {"idle"} \cap HomeLabels = {}
      BY DEF HomeLabels
    <2>. QED  BY <1>2, <1>3, <2>2, <2>3, HomesElsewhere
  <1>. QED  BY <1>4, <1>5

LEMMA StepHomes ==
    ASSUME Typing, Homes, [Next]_vars PROVE Homes'
  <1>0. Runs
    BY DEF Typing
  <1>1. ASSUME NEW w \in Workers, AccessNext(w) PROVE Homes'
    <2>1. pc[w] # "deleteWarehouse" => LiveIds \subseteq LiveIds'
      BY <1>1, WarehouseSteps, LiveIdsChange
    <2>2. pc[w] = "deleteWarehouse" => RemoveWarehouse(w)
      BY <1>1 DEF AccessNext, StartUp, StartProcess, FindTenant, InsertTenant, FindWarehouse,
         InsertDefault, EnsureSuperAdmin, InsertSuperAdmin, UpdateSuperAdmin, Starts, At,
         Migration, MigrateTenant, MigrationFindTenant, MigrationInsertTenant, BackfillUsers,
         BackfillWarehouses, MigrateWarehouse, MigrationFindDefault, MigrationInsertDefault,
         BackfillLocations, Request, WarehouseWrites, InsertOtherTenant, InsertNewWarehouse,
         SetCode, InsertLocation, InsertUser, WriteUser
    <2>3. ASSUME NEW L, Moves(w, L), L \cap HomeLabels = {}, UNCHANGED locations,
                 pc[w] # "deleteWarehouse"
          PROVE  Homes'
      BY <2>1, <2>3, HomesElsewhere
    <2>4. CASE StartUp(w)
      <3>1. Moves(w, StartUpLabels) /\ StartUpLabels \cap HomeLabels = {}
        BY <1>0, <2>4, StartUpMoves DEF StartUpLabels, HomeLabels
      <3>2. UNCHANGED locations /\ pc[w] # "deleteWarehouse"
        BY <2>4 DEF StartUp, StartProcess, FindTenant, InsertTenant, FindWarehouse,
           InsertDefault, EnsureSuperAdmin, InsertSuperAdmin, UpdateSuperAdmin, Starts, At, documents
      <3>. QED  BY <2>3, <3>1, <3>2
    <2>5. CASE Migration(w) /\ ~BackfillLocations(w)
      <3>1. Moves(w, MigrationLabels) /\ MigrationLabels \cap HomeLabels = {}
        BY <1>0, <2>5, MigrationMoves DEF MigrationLabels, HomeLabels
      <3>2. UNCHANGED locations /\ pc[w] # "deleteWarehouse"
        BY <2>5 DEF Migration, MigrateTenant, MigrationFindTenant, MigrationInsertTenant,
           BackfillUsers, BackfillWarehouses, MigrateWarehouse, MigrationFindDefault,
           MigrationInsertDefault, Starts, At, documents
      <3>. QED  BY <2>3, <3>1, <3>2
    <2>6. CASE Request(w) /\ (WarehouseRequests(w) \/ LocationRequests(w) \/ UserRequests(w))
      <3>1. pc[w] # "deleteWarehouse" /\ (UNCHANGED faults \/ Fails)
        BY <2>6, RequestFails DEF Request, Starts, At
      <3>2. CASE CreateTenant(w)
        <4>1. Moves(w, {"insertOtherTenant"})
          BY <1>0, <3>1, <3>2, EnteringMoves DEF CreateTenant
        <4>. QED  BY <2>3, <3>1, <3>2, <4>1 DEF CreateTenant, documents, HomeLabels
      <3>3. ASSUME NEW code, NEW t, CreateWarehouse(w, code, t) PROVE Homes'
        <4>1. \E l : Enter(w, "insertWarehouse", l, "code", CodeWrites)
          BY <3>3 DEF CreateWarehouse
        <4>2. Moves(w, {"insertWarehouse"})
          BY <1>0, <3>1, <4>1, EnteringMoves
        <4>. QED  BY <2>3, <3>1, <3>3, <4>2 DEF CreateWarehouse, documents, HomeLabels
      <3>4. ASSUME NEW code, NEW i, UpdateWarehouse(w, i, code) PROVE Homes'
        <4>1. \E l : Enter(w, "setCode", l, "code", CodeWrites)
          BY <3>4 DEF UpdateWarehouse
        <4>2. Moves(w, {"setCode"})
          BY <1>0, <3>1, <4>1, EnteringMoves
        <4>. QED  BY <2>3, <3>1, <3>4, <4>2 DEF UpdateWarehouse, documents, HomeLabels
      <3>5. CASE WarehouseRequests(w)
        BY <2>6, <3>2, <3>3, <3>4, <3>5, HomesDeletion DEF WarehouseRequests
      <3>6. ASSUME NEW x \in locations, DeleteLocation(w, x) PROVE Homes'
        <4>1. Moves(w, {"idle"})
          BY <1>0, <3>1, <3>6, FinishingMoves DEF DeleteLocation
        <4>2. \A y \in locations' : y \in locations
          BY <3>6 DEF DeleteLocation
        <4>3. {"idle"} \cap HomeLabels = {}
          BY DEF HomeLabels
        <4>. QED  BY <2>1, <3>1, <4>1, <4>2, <4>3, HomesElsewhere
      <3>7. ASSUME NEW x \in locations, NEW rack, UpdateLocation(w, x, rack) PROVE Homes'
        <4>1. Moves(w, {"idle"})
          BY <1>0, <3>1, <3>7, FinishingMoves DEF UpdateLocation
        <4>. QED  BY <2>1, <3>1, <3>7, <4>1, HomesMoved
      <3>9. CASE LocationRequests(w)
        BY <2>6, <3>6, <3>7, <3>9, HomesLocation, HomesImport DEF LocationRequests
      <3>8. CASE UserRequests(w)
        <4>1. Moves(w, {"insertUser", "updateUser", "idle"})
          BY <1>0, <2>6, <3>8, UserRequestMoves
        <4>2. UNCHANGED locations
          BY <3>8 DEF UserRequests, Register, UpdateUser, DeleteUser, documents
        <4>3. {"insertUser", "updateUser", "idle"} \cap HomeLabels = {}
          BY DEF HomeLabels
        <4>. QED  BY <2>3, <3>1, <4>1, <4>2, <4>3
      <3>. QED  BY <2>6, <3>5, <3>8, <3>9
    <2>7. CASE WarehouseWrites(w) \/ InsertUser(w) \/ WriteUser(w)
      <3>1. Moves(w, {"idle"})
        BY <1>0, <2>7, WriteMoves
      <3>2. UNCHANGED locations
        BY <2>7 DEF WarehouseWrites, InsertOtherTenant, InsertNewWarehouse, SetCode,
                    RemoveWarehouse, InsertUser, WriteUser
      <3>3. {"idle"} \cap HomeLabels = {}
        BY DEF HomeLabels
      <3>. QED  BY <2>2, <2>3, <3>1, <3>2, <3>3, HomesRemoved
    <2>. QED  BY <1>1, <2>4, <2>5, <2>6, <2>7, HomesInserted, HomesBackfilled DEF AccessNext
  <1>2. ASSUME NEW w \in Workers, AlertsNext(w) \/ Abandon(w), UNCHANGED documents PROVE Homes'
    <2>1. Moves(w, AlertsLabels)
      <3>1. Abandon(w) => Moves(w, {"idle"}) /\ {"idle"} \subseteq AlertsLabels
        BY <1>0, AlertsLead DEF AlertsLabels
      <3>. QED  BY <1>0, <1>2, <3>1, AlertsMoves, WiderMoves
    <2>2. LiveIds' = LiveIds /\ locations' = locations
      BY <1>2 DEF documents, LiveIds, Live
    <2>3. AlertsLabels \cap HomeLabels = {}
      BY DEF AlertsLabels, HomeLabels
    <2>. QED  BY <2>1, <2>2, <2>3, HomesElsewhere
  <1>3. CASE UNCHANGED <<pc, loc, overlapped, documents>>
    <2>1. UNCHANGED documents /\ UNCHANGED <<pc, loc, overlapped>>
      BY <1>3
    <2>. QED  BY <1>3, HomesStill
  <1>. QED  BY <1>1, <1>2, <1>3 DEF Next, vars, goroutines

(* "cannot delete warehouse that contains data": the check of a deletion   *)
(* and that of a new location are far from their writes, and the back-fill *)
(* moves locations; a location whose creator had to name an existing       *)
(* warehouse keeps it, unless a creation and a deletion overlapped.        *)
THEOREM NoLocationIsOrphaned == Spec => []NoOrphans
  <1>1. Init => Homes
    <2>1. Init => locations = {} /\ \A w \in Workers : pc[w] = "idle"
      BY DEF Init, GoroutinesInit, AccessInit, FreshDatabase, UsedDatabase
    <2>. QED  BY <2>1 DEF Homes, PendingLocation, PendingDeletion
  <1>2. Typing /\ Homes /\ [Next]_vars => Homes'
    BY StepHomes
  <1>3. Homes => NoOrphans
    BY DEF Homes, NoOrphans, LiveIds
  <1>. QED  BY <1>1, <1>2, <1>3, AlwaysTyping, PTL DEF Spec

-----------------------------------------------------------------------------
(* The codes of tenants: what a pending insertion would add is not there.  *)

(* The code that is inserted at a step, if any.                            *)
CodeAt(label) ==
    IF label \in TenantInserts THEN "TEN-DEFAULT"
    ELSE IF label = "insertOtherTenant" THEN "T2" ELSE "none"

TenantsOnce ==
    \/ faults > 0
    \/ "tenant" \in overlapped
    \/ /\ \A s, t \in DOMAIN tenants : tenants[s] = tenants[t] => s = t
       /\ \A w \in Workers : \A t \in DOMAIN tenants : tenants[t] # CodeAt(pc[w])
       /\ \A v, w \in Workers : CodeAt(pc[v]) # "none" /\ CodeAt(pc[v]) = CodeAt(pc[w]) => v = w

LEMMA TenantCodeTyped ==
    ASSUME AccessTypeOK, NEW t \in DOMAIN tenants
    PROVE  tenants[t] \in TenantCodes
  BY DocumentAt DEF AccessTypeOK

LEMMA TenantsElsewhere ==
    ASSUME Typing, TenantsOnce, NEW w \in Workers, NEW L, Moves(w, L),
           \A label \in L : CodeAt(label) = "none",
           \/ UNCHANGED tenants
           \/ CodeAt(pc[w]) # "none" /\ tenants' = Append(tenants, CodeAt(pc[w]))
    PROVE  TenantsOnce'
  <1>0. /\ AccessTypeOK /\ faults \in Nat /\ faults' \in Nat /\ faults <= faults'
        /\ overlapped \subseteq overlapped'
    BY DEF Typing, Runs, Moves
  <1>1. CASE faults' > 0 \/ "tenant" \in overlapped'
    BY <1>1 DEF TenantsOnce
  <1>2. CASE ~ (faults' > 0) /\ "tenant" \notin overlapped'
    <2>1. /\ \A s, t \in DOMAIN tenants : tenants[s] = tenants[t] => s = t
          /\ \A v \in Workers : \A t \in DOMAIN tenants : tenants[t] # CodeAt(pc[v])
          /\ \A u, v \in Workers : CodeAt(pc[u]) # "none" /\ CodeAt(pc[u]) = CodeAt(pc[v]) => u = v
      BY <1>0, <1>2 DEF TenantsOnce
    <2>2. \A v \in Workers : v # w => pc'[v] = pc[v]
      BY DEF Moves
    <2>3. CodeAt(pc'[w]) = "none"
      BY DEF Moves
    <2>4. \A u, v \in Workers : CodeAt(pc'[u]) # "none" /\ CodeAt(pc'[u]) = CodeAt(pc'[v]) => u = v
      BY <2>1, <2>2, <2>3
    <2>5. \A t \in DOMAIN tenants : tenants[t] # "none"
      BY <1>0, TenantCodeTyped DEF TenantCodes
    <2>6. CASE UNCHANGED tenants
      BY <2>1, <2>2, <2>3, <2>4, <2>5, <2>6 DEF TenantsOnce
    <2>7. CASE CodeAt(pc[w]) # "none" /\ tenants' = Append(tenants, CodeAt(pc[w]))
      <3>1. PICK c \in TenantCodes : c = CodeAt(pc[w])
        BY <2>7 DEF CodeAt, TenantCodes
      <3>2. PICK n \in Nat : /\ n = Len(tenants)
                             /\ DOMAIN tenants = 1..n /\ DOMAIN tenants' = 1..(n + 1)
                             /\ \A t \in 1..n : tenants'[t] = tenants[t]
                             /\ tenants'[n + 1] = c
        BY <1>0, <2>7, <3>1, AppendDocument, LenProperties DEF AccessTypeOK
      <3>3. \A t \in 1..n : tenants[t] # c
        BY <2>1, <3>1, <3>2
      <3>4. \A s, t \in DOMAIN tenants' : tenants'[s] = tenants'[t] => s = t
        BY <2>1, <3>2, <3>3
      <3>5. \A v \in Workers : v # w => CodeAt(pc'[v]) # c
        BY <2>1, <2>2, <2>7, <3>1
      <3>6. c # "none"
        BY <2>7, <3>1
      <3>7. \A v \in Workers : \A t \in DOMAIN tenants' : tenants'[t] # CodeAt(pc'[v])
        <4>1. ASSUME NEW v \in Workers, NEW t \in 1..n PROVE tenants[t] # CodeAt(pc'[v])
          BY <2>1, <2>2, <2>3, <2>5, <3>2
        <4>2. ASSUME NEW v \in Workers PROVE c # CodeAt(pc'[v])
          BY <2>3, <3>5, <3>6
        <4>3. ASSUME NEW v \in Workers, NEW t \in DOMAIN tenants' PROVE tenants'[t] # CodeAt(pc'[v])
          BY <3>2, <4>1, <4>2
        <4>. QED  BY <4>3
      <3>. QED  BY <2>4, <3>4, <3>7 DEF TenantsOnce
    <2>. QED  BY <2>6, <2>7
  <1>. QED  BY <1>1, <1>2

LEMMA TenantsEntered ==
    ASSUME Typing, TenantsOnce, NEW w \in Workers, NEW label, NEW l, NEW window,
           Enter(w, label, l, "tenant", window), UNCHANGED tenants,
           \A x : CodeAt(x) = CodeAt(label) => x \in window,
           UNCHANGED faults \/ Fails,
           faults' = faults => \A t \in DOMAIN tenants : tenants[t] # CodeAt(label)
    PROVE  TenantsOnce'
  <1>0. faults \in Nat /\ faults' \in Nat /\ faults <= faults'
    BY FaultsGrow DEF Typing, Runs
  <1>1. /\ pc'[w] = label
        /\ \A v \in Workers : v # w => pc'[v] = pc[v] /\ loc'[v] = loc[v]
        /\ \A k : k \in overlapped' <=>
              (k \in overlapped \/ (k = "tenant" /\ \E v \in Workers \ {w} : pc[v] \in window))
    BY Entering DEF Typing
  <1>2. CASE faults' > 0 \/ "tenant" \in overlapped'
    BY <1>2 DEF TenantsOnce
  <1>3. CASE ~ (faults' > 0) /\ "tenant" \notin overlapped'
    <2>1. /\ \A s, t \in DOMAIN tenants : tenants[s] = tenants[t] => s = t
          /\ \A v \in Workers : \A t \in DOMAIN tenants : tenants[t] # CodeAt(pc[v])
          /\ \A u, v \in Workers : CodeAt(pc[u]) # "none" /\ CodeAt(pc[u]) = CodeAt(pc[v]) => u = v
      BY <1>0, <1>1, <1>3 DEF TenantsOnce
    <2>2. \A v \in Workers : v # w => CodeAt(pc[v]) # CodeAt(label)
      BY <1>1, <1>3
    <2>3. \A t \in DOMAIN tenants : tenants[t] # CodeAt(label)
      BY <1>0, <1>3
    <2>4. \A v \in Workers : \A t \in DOMAIN tenants : tenants[t] # CodeAt(pc'[v])
      BY <1>1, <2>1, <2>3
    <2>5. \A u, v \in Workers : CodeAt(pc'[u]) # "none" /\ CodeAt(pc'[u]) = CodeAt(pc'[v]) => u = v
      BY <1>1, <2>1, <2>2
    <2>. QED  BY <2>1, <2>4, <2>5 DEF TenantsOnce
  <1>. QED  BY <1>2, <1>3

LEMMA NoDefaultTenant ==
    ASSUME AccessTypeOK, DefaultTenant = 0
    PROVE  \A t \in DOMAIN tenants : tenants[t] # "TEN-DEFAULT"
  <1>1. \A t \in DOMAIN tenants : t \in Nat /\ t # 0
    BY Ids
  <1>2. {t \in DOMAIN tenants : tenants[t] = "TEN-DEFAULT"} \subseteq Nat
    BY <1>1
  <1>. QED  BY <1>1, <1>2, FirstOfIds DEF DefaultTenant

LEMMA StepTenants ==
    ASSUME Typing, TenantsOnce, [Next]_vars PROVE TenantsOnce'
  <1>0. Runs /\ AccessTypeOK /\ faults \in Nat
    BY DEF Typing, Runs
  <1>1. ASSUME NEW w \in Workers, NEW L, Moves(w, L), UNCHANGED tenants,
               L \cap (TenantInserts \cup {"insertOtherTenant"}) = {}
        PROVE  TenantsOnce'
    BY <1>1, TenantsElsewhere DEF CodeAt
  <1>2. CodeAt("idle") = "none" /\ CodeAt("findWarehouse") = "none" /\ CodeAt("backfillUsers") = "none"
    BY DEF CodeAt, TenantInserts
  <1>3. ASSUME NEW w \in Workers, AccessNext(w) PROVE TenantsOnce'
    <2>1. CASE FindTenant(w)
      <3>1. PICK t \in 0 .. Len(tenants) :
               /\ Found(DefaultTenant, t)
               /\ IF t = 0
                  THEN Enter(w, "insertTenant", Nothing, "tenant", TenantInserts)
                  ELSE Goto(w, "findWarehouse", Nothing)
        BY <2>1 DEF FindTenant
      <3>2. (UNCHANGED faults \/ Fails) /\ UNCHANGED tenants
        BY <2>1, <3>1 DEF FindTenant, Found, documents
      <3>3. CASE t = 0
        <4>1. faults' = faults => DefaultTenant = 0
          BY <1>0, <3>1, <3>3 DEF Found, Fails
        <4>2. \A x : CodeAt(x) = CodeAt("insertTenant") => x \in TenantInserts
          BY DEF CodeAt, TenantInserts
        <4>3. CodeAt("insertTenant") = "TEN-DEFAULT"
          BY DEF CodeAt, TenantInserts
        <4>. QED  BY <1>0, <3>1, <3>2, <3>3, <4>1, <4>2, <4>3, NoDefaultTenant, TenantsEntered
      <3>4. CASE t # 0
        <4>1. Moves(w, {"findWarehouse"})
          BY <1>0, <3>1, <3>2, <3>4, GoingOnMoves
        <4>. QED  BY <1>2, <3>2, <4>1, TenantsElsewhere
      <3>. QED  BY <3>3, <3>4
    <2>2. CASE MigrationFindTenant(w)
      <3>1. PICK t \in 0 .. Len(tenants) :
               /\ Found(DefaultTenant, t)
               /\ IF t = 0
                  THEN Enter(w, "migrationInsertTenant", Nothing, "tenant", TenantInserts)
                  ELSE Goto(w, "backfillUsers", [kind |-> "id", id |-> t])
        BY <2>2 DEF MigrationFindTenant
      <3>2. (UNCHANGED faults \/ Fails) /\ UNCHANGED tenants
        BY <2>2, <3>1 DEF MigrationFindTenant, Found, documents
      <3>3. CASE t = 0
        <4>1. faults' = faults => DefaultTenant = 0
          BY <1>0, <3>1, <3>3 DEF Found, Fails
        <4>2. \A x : CodeAt(x) = CodeAt("migrationInsertTenant") => x \in TenantInserts
          BY DEF CodeAt, TenantInserts
        <4>3. CodeAt("migrationInsertTenant") = "TEN-DEFAULT"
          BY DEF CodeAt, TenantInserts
        <4>. QED  BY <1>0, <3>1, <3>2, <3>3, <4>1, <4>2, <4>3, NoDefaultTenant, TenantsEntered
      <3>4. CASE t # 0
        <4>1. Moves(w, {"backfillUsers"})
          BY <1>0, <3>1, <3>2, <3>4, GoingOnMoves
        <4>. QED  BY <1>2, <3>2, <4>1, TenantsElsewhere
      <3>. QED  BY <3>3, <3>4
    <2>3. CASE InsertTenant(w)
      <3>1. Moves(w, {"findWarehouse"})
        BY <1>0, <2>3, GoingOnMoves DEF InsertTenant
      <3>2. CodeAt(pc[w]) = "TEN-DEFAULT"
        BY <2>3 DEF InsertTenant, At, CodeAt, TenantInserts
      <3>3. UNCHANGED tenants \/ tenants' = Append(tenants, "TEN-DEFAULT")
        BY <2>3 DEF InsertTenant
      <3>. QED  BY <1>2, <3>1, <3>2, <3>3, TenantsElsewhere
    <2>4. CASE MigrationInsertTenant(w)
      <3>1. Moves(w, {"backfillUsers"})
        BY <1>0, <2>4, GoingOnMoves DEF MigrationInsertTenant
      <3>2. CodeAt(pc[w]) = "TEN-DEFAULT"
        BY <2>4 DEF MigrationInsertTenant, At, CodeAt, TenantInserts
      <3>. QED  BY <1>2, <2>4, <3>1, <3>2, TenantsElsewhere DEF MigrationInsertTenant
    <2>5. CASE InsertOtherTenant(w)
      <3>1. Moves(w, {"idle"})
        BY <1>0, <2>5, WriteMoves DEF WarehouseWrites
      <3>2. CodeAt(pc[w]) = "T2"
        BY <2>5 DEF InsertOtherTenant, At, CodeAt, TenantInserts
      <3>. QED  BY <1>2, <2>5, <3>1, <3>2, TenantsElsewhere DEF InsertOtherTenant
    <2>6. CASE Request(w) /\ CreateTenant(w)
      <3>1. /\ Enter(w, "insertOtherTenant", Nothing, "tenant", {"insertOtherTenant"})
            /\ UNCHANGED tenants /\ (UNCHANGED faults \/ Fails)
            /\ faults' = faults => \A t \in DOMAIN tenants : tenants[t] # "T2"
        BY <1>0, <2>6 DEF CreateTenant, Absent, Fails, documents
      <3>2. CodeAt("insertOtherTenant") = "T2"
        BY DEF CodeAt, TenantInserts
      <3>3. \A x : CodeAt(x) = CodeAt("insertOtherTenant") => x \in {"insertOtherTenant"}
        BY DEF CodeAt, TenantInserts
      <3>. QED  BY <3>1, <3>2, <3>3, TenantsEntered
    <2>7. CASE /\ StartUp(w) \/ Migration(w)
               /\ ~ (FindTenant(w) \/ InsertTenant(w) \/ MigrationFindTenant(w) \/ MigrationInsertTenant(w))
      <3>1. UNCHANGED tenants
        BY <2>7 DEF StartUp, StartProcess, FindWarehouse, InsertDefault, EnsureSuperAdmin,
           InsertSuperAdmin, UpdateSuperAdmin, Migration, MigrateTenant, BackfillUsers,
           BackfillWarehouses, MigrateWarehouse, MigrationFindDefault, MigrationInsertDefault,
           BackfillLocations, documents
      <3>2. \A label, l, kind, window : Enter(w, label, l, kind, window) => pc'[w] = label
        BY <1>0, Entering
      <3>3. pc'[w] \notin TenantInserts
        BY <2>7, <3>2 DEF StartUp, StartProcess, FindWarehouse, InsertDefault, EnsureSuperAdmin,
           InsertSuperAdmin, UpdateSuperAdmin, Migration, MigrateTenant, BackfillUsers,
           BackfillWarehouses, MigrateWarehouse, MigrationFindDefault, MigrationInsertDefault,
           BackfillLocations, ToBackfill, Goto, Finish, TenantInserts
      <3>4. Moves(w, (StartUpLabels \cup MigrationLabels) \ TenantInserts)
        BY <1>0, <2>7, <3>3, StartUpMoves, MigrationMoves DEF Moves
      <3>5. ((StartUpLabels \cup MigrationLabels) \ TenantInserts)
                \cap (TenantInserts \cup {"insertOtherTenant"}) = {}
        BY DEF StartUpLabels, MigrationLabels
      <3>. QED  BY <1>1, <3>1, <3>4, <3>5
    <2>8. CASE Request(w) /\ WarehouseRequests(w) /\ ~CreateTenant(w)
      <3>1. UNCHANGED tenants
        BY <2>8 DEF WarehouseRequests, CreateWarehouse, UpdateWarehouse, DeleteWarehouse, documents
      <3>2. \A label, l, kind, window : Enter(w, label, l, kind, window) => pc'[w] = label
        BY <1>0, Entering
      <3>3. pc'[w] # "insertOtherTenant"
        BY <2>8, <3>2 DEF WarehouseRequests, CreateWarehouse, UpdateWarehouse, DeleteWarehouse
      <3>4. Moves(w, WarehouseLabels \ {"insertOtherTenant"})
        BY <1>0, <2>8, <3>3, WarehouseRequestMoves DEF Moves
      <3>5. (WarehouseLabels \ {"insertOtherTenant"}) \cap (TenantInserts \cup {"insertOtherTenant"}) = {}
        BY DEF WarehouseLabels, TenantInserts
      <3>. QED  BY <1>1, <3>1, <3>4, <3>5
    <2>9. CASE Request(w) /\ (LocationRequests(w) \/ UserRequests(w))
      <3>1. UNCHANGED tenants
        BY <2>9 DEF LocationRequests, CreateLocation, ImportLocation, DeleteLocation,
                    UpdateLocation, UserRequests, Register, UpdateUser, DeleteUser, documents
      <3>2. Moves(w, {"insertLocation", "insertUser", "updateUser", "idle"})
        BY <1>0, <2>9, LocationRequestMoves, UserRequestMoves DEF Moves
      <3>3. {"insertLocation", "insertUser", "updateUser", "idle"}
                \cap (TenantInserts \cup {"insertOtherTenant"}) = {}
        BY DEF TenantInserts
      <3>. QED  BY <1>1, <3>1, <3>2, <3>3
    <2>10. CASE /\ WarehouseWrites(w) \/ InsertLocation(w) \/ InsertUser(w) \/ WriteUser(w)
                /\ ~InsertOtherTenant(w)
      <3>1. UNCHANGED tenants /\ Moves(w, {"idle"})
        BY <1>0, <2>10, WriteMoves DEF WarehouseWrites, InsertNewWarehouse, SetCode, RemoveWarehouse,
           InsertLocation, InsertUser, WriteUser
      <3>. QED  BY <1>1, <3>1 DEF TenantInserts
    <2>. QED  BY <1>3, <2>1, <2>2, <2>3, <2>4, <2>5, <2>6, <2>7, <2>8, <2>9, <2>10 DEF AccessNext
  <1>4. ASSUME NEW w \in Workers, AlertsNext(w) \/ Abandon(w), UNCHANGED documents PROVE TenantsOnce'
    <2>1. Moves(w, AlertsLabels)
      <3>1. Abandon(w) => Moves(w, {"idle"}) /\ {"idle"} \subseteq AlertsLabels
        BY <1>0, AlertsLead DEF AlertsLabels
      <3>. QED  BY <1>0, <1>4, <3>1, AlertsMoves, WiderMoves
    <2>2. AlertsLabels \cap (TenantInserts \cup {"insertOtherTenant"}) = {}
      BY DEF AlertsLabels, TenantInserts
    <2>. QED  BY <1>1, <1>4, <2>1, <2>2 DEF documents
  <1>5. CASE UNCHANGED <<pc, overlapped, documents>> /\ (UNCHANGED faults \/ Fails)
    BY <1>0, <1>5 DEF TenantsOnce, documents, Fails
  <1>. QED  BY <1>3, <1>4, <1>5 DEF Next, vars, goroutines, ServerEnds

-----------------------------------------------------------------------------
(* The default warehouse and the codes of warehouses.                      *)

Defaults == {i \in LiveIds : warehouses[i].isDefault}

(* No document loses its flag or is taken out of the collection.           *)
FlagsKept ==
    \A i \in DOMAIN warehouses : /\ i \in DOMAIN warehouses'
                                 /\ warehouses'[i].isDefault = warehouses[i].isDefault

CodesKept == \A i \in LiveIds : warehouses'[i].code = warehouses[i].code

LEMMA ShapeKept ==
    ASSUME Typing, SameShape
    PROVE  LiveIds' = LiveIds /\ Defaults' = Defaults /\ CodesKept /\ FlagsKept
  <1>1. LiveIds' = LiveIds /\ LiveIds \subseteq DOMAIN warehouses
    BY LiveIdsChange DEF LiveIds
  <1>2. Defaults' = {i \in LiveIds' : warehouses'[i].isDefault}
    BY DEF Defaults
  <1>3. \A i \in LiveIds : warehouses'[i].isDefault = warehouses[i].isDefault
    BY <1>1 DEF SameShape
  <1>. QED  BY <1>1, <1>2, <1>3 DEF SameShape, Defaults, CodesKept, FlagsKept

LEMMA ShapeAdded ==
    ASSUME Typing, NEW c, NEW t, NEW d \in BOOLEAN, Added(NewWarehouse(c, t, d))
    PROVE  /\ CodesKept /\ FlagsKept
           /\ \E k : /\ k \notin LiveIds /\ LiveIds' = LiveIds \cup {k}
                     /\ Defaults' = Defaults \cup (IF d THEN {k} ELSE {})
                     /\ warehouses'[k].code = c
  <1>1. PICK k : /\ k \notin DOMAIN warehouses
                 /\ DOMAIN warehouses' = DOMAIN warehouses \cup {k}
                 /\ \A i \in DOMAIN warehouses : warehouses'[i] = warehouses[i]
                 /\ warehouses'[k] = NewWarehouse(c, t, d)
    BY DEF Added
  <1>2. /\ warehouses'[k].exists = TRUE /\ warehouses'[k].code = c
        /\ warehouses'[k].isDefault = d
    BY <1>1 DEF NewWarehouse
  <1>3. /\ LiveIds = {i \in DOMAIN warehouses : warehouses[i].exists}
        /\ LiveIds' = {i \in DOMAIN warehouses' : warehouses'[i].exists}
        /\ Defaults' = {i \in LiveIds' : warehouses'[i].isDefault}
    BY DEF LiveIds, Live, Defaults
  <1>4. LiveIds' = LiveIds \cup {k} /\ k \notin LiveIds
    BY <1>1, <1>2, <1>3
  <1>5. CodesKept /\ FlagsKept
    BY <1>1, <1>3 DEF CodesKept, FlagsKept
  <1>6. Defaults' = Defaults \cup (IF d THEN {k} ELSE {})
    BY <1>1, <1>2, <1>3, <1>4 DEF Defaults
  <1>. QED  BY <1>2, <1>4, <1>5, <1>6

LEMMA ShapeRecoded ==
    ASSUME Typing, NEW i, NEW code, Recoded(i, code)
    PROVE  /\ LiveIds' = LiveIds /\ Defaults' = Defaults /\ FlagsKept
           /\ \A j \in LiveIds : warehouses'[j].code = IF j = i THEN code ELSE warehouses[j].code
  <1>0. i \in DOMAIN warehouses /\ warehouses[i] \in Warehouse
    BY Ids DEF Typing, Recoded, Changed
  <1>1. LiveIds' = LiveIds /\ LiveIds \subseteq DOMAIN warehouses
    BY LiveIdsChange DEF LiveIds
  <1>2. PICK doc : doc = [warehouses[i] EXCEPT !.code = code]
    OBVIOUS
  <1>3. doc.isDefault = warehouses[i].isDefault /\ doc.code = code
    BY <1>0, <1>2 DEF Warehouse
  <1>4. /\ DOMAIN warehouses' = DOMAIN warehouses
        /\ \A j \in DOMAIN warehouses : warehouses'[j] = IF j = i THEN doc ELSE warehouses[j]
    BY <1>2 DEF Recoded, Changed
  <1>5. Defaults' = {j \in LiveIds' : warehouses'[j].isDefault}
    BY DEF Defaults
  <1>6. \A j \in DOMAIN warehouses : warehouses'[j].isDefault = warehouses[j].isDefault
    BY <1>3, <1>4
  <1>7. Defaults' = Defaults
    BY <1>1, <1>5, <1>6 DEF Defaults
  <1>. QED  BY <1>1, <1>3, <1>4, <1>6, <1>7 DEF FlagsKept

LEMMA ShapeRemoved ==
    ASSUME Typing, NEW i, Removed(i)
    PROVE  /\ LiveIds' = LiveIds \ {i} /\ Defaults' = Defaults \ {i}
           /\ CodesKept /\ FlagsKept
  <1>0. i \in DOMAIN warehouses /\ warehouses[i] \in Warehouse
    BY Ids DEF Typing, Removed, Changed
  <1>1. LiveIds' = LiveIds \ {i} /\ LiveIds \subseteq DOMAIN warehouses
    BY LiveIdsChange DEF LiveIds
  <1>2. PICK doc : doc = [warehouses[i] EXCEPT !.exists = FALSE]
    OBVIOUS
  <1>3. doc.isDefault = warehouses[i].isDefault /\ doc.code = warehouses[i].code
    BY <1>0, <1>2 DEF Warehouse
  <1>4. /\ DOMAIN warehouses' = DOMAIN warehouses
        /\ \A j \in DOMAIN warehouses : warehouses'[j] = IF j = i THEN doc ELSE warehouses[j]
    BY <1>2 DEF Removed, Changed
  <1>5. Defaults' = {j \in LiveIds' : warehouses'[j].isDefault}
    BY DEF Defaults
  <1>6. \A j \in DOMAIN warehouses : /\ warehouses'[j].isDefault = warehouses[j].isDefault
                                     /\ warehouses'[j].code = warehouses[j].code
    BY <1>3, <1>4
  <1>7. Defaults' = Defaults \ {i}
    BY <1>1, <1>5, <1>6 DEF Defaults
  <1>. QED  BY <1>1, <1>4, <1>6, <1>7 DEF FlagsKept, CodesKept

LEMMA DefaultWarehouseFound ==
    ASSUME AccessTypeOK
    PROVE  DefaultWarehouse = 0 <=> Defaults = {}
  <1>1. DefaultWarehouse = FirstOf(Defaults)
    <2>1. Defaults = {i \in DOMAIN warehouses : Live(i) /\ warehouses[i].isDefault}
      BY DEF Defaults, LiveIds
    <2>. QED  BY <2>1 DEF DefaultWarehouse
  <1>2. Defaults \subseteq Nat /\ 0 \notin Defaults
    BY Ids DEF Defaults, LiveIds
  <1>. QED  BY <1>1, <1>2, FirstOfIds

(* The three ways to a step that writes warehouses, and what was checked.  *)

DefaultEntered(w) ==
    /\ UNCHANGED documents
    /\ UNCHANGED faults \/ Fails
    /\ UNCHANGED faults => Defaults = {}
    /\ \E label \in DefaultInserts : \E l : Enter(w, label, l, "warehouse", DefaultInserts)

CodeLabels == {"insertWarehouse", "setCode"}

CodeEntered(w) ==
    /\ UNCHANGED documents
    /\ UNCHANGED faults \/ Fails
    /\ Defaults # {}
    /\ \E label \in CodeLabels : \E l :
          /\ Enter(w, label, l, "code", CodeWrites)
          /\ UNCHANGED faults => \A i \in LiveIds : warehouses[i].code # l.code

DeletionEntered(w) ==
    /\ UNCHANGED documents
    /\ UNCHANGED faults
    /\ \E l : /\ Enter(w, "deleteWarehouse", l, "data", {"insertLocation"})
              /\ ~warehouses[l.id].isDefault

WritesWarehouses == CodeWrites \cup {"deleteWarehouse"}

LEMMA WarehouseEntries ==
    ASSUME Typing, NEW w \in Workers, AccessNext(w)
    PROVE  \/ pc'[w] \notin WritesWarehouses
           \/ DefaultEntered(w)
           \/ CodeEntered(w)
           \/ DeletionEntered(w)
  <1>0. Runs /\ AccessTypeOK /\ faults \in Nat
    BY DEF Typing, Runs
  <1>1. CASE FindWarehouse(w)
    <2>1. PICK i \in WarehouseIds :
             /\ Found(DefaultWarehouse, i)
             /\ IF i = 0
                THEN Enter(w, "insertDefault", Nothing, "warehouse", DefaultInserts)
                ELSE Goto(w, "ensureAdmin", [kind |-> "id", id |-> i])
      BY <1>1 DEF FindWarehouse
    <2>2. CASE i = 0
      <3>1. (UNCHANGED faults \/ Fails) /\ (UNCHANGED faults => DefaultWarehouse = 0)
        BY <1>0, <2>1, <2>2 DEF Found, Fails
      <3>2. "insertDefault" \in DefaultInserts
        BY DEF DefaultInserts
      <3>. QED  BY <1>0, <1>1, <2>1, <2>2, <3>1, <3>2, DefaultWarehouseFound DEF FindWarehouse, DefaultEntered
    <2>3. CASE i # 0
      <3>1. pc'[w] = "ensureAdmin"
        BY <1>0, <2>1, <2>3, GoingOn
      <3>. QED  BY <3>1 DEF WritesWarehouses, CodeWrites, DefaultInserts
    <2>. QED  BY <2>2, <2>3
  <1>2. CASE MigrationFindDefault(w)
    <2>1. PICK i \in WarehouseIds :
             /\ Found(MigrationDefault, i)
             /\ IF i = 0
                THEN Enter(w, "migrationInsertDefault", loc[w], "warehouse", DefaultInserts)
                ELSE ToBackfill(w, i, loc[w].apply)
      BY <1>2 DEF MigrationFindDefault
    <2>2. CASE i = 0
      <3>1. (UNCHANGED faults \/ Fails) /\ (UNCHANGED faults => MigrationDefault = 0)
        BY <1>0, <2>1, <2>2 DEF Found, Fails
      <3>2. MigrationDefault = 0 => DefaultWarehouse = 0
        BY DEF MigrationDefault
      <3>3. "migrationInsertDefault" \in DefaultInserts
        BY DEF DefaultInserts
      <3>. QED  BY <1>0, <1>2, <2>1, <2>2, <3>1, <3>2, <3>3, DefaultWarehouseFound
                DEF MigrationFindDefault, DefaultEntered
    <2>3. CASE i # 0
      <3>1. (\E l : Goto(w, "backfillLocations", l)) \/ Finish(w)
        BY <2>1, <2>3 DEF ToBackfill
      <3>2. pc'[w] \in {"backfillLocations", "idle"}
        BY <1>0, <3>1, GoingOn DEF Finish
      <3>. QED  BY <3>2 DEF WritesWarehouses, CodeWrites, DefaultInserts
    <2>. QED  BY <2>2, <2>3
  <1>3. CASE Request(w) /\ WarehouseRequests(w)
    <2>1. (UNCHANGED faults \/ Fails) /\ Defaults # {}
      BY <1>0, <1>3, RequestFails, DefaultWarehouseFound DEF Request, Serving
    <2>2. CASE CreateTenant(w)
      <3>1. pc'[w] = "insertOtherTenant"
        BY <1>0, <2>2, Entering DEF CreateTenant
      <3>. QED  BY <3>1 DEF WritesWarehouses, CodeWrites, DefaultInserts
    <2>3. ASSUME NEW code, NEW t, CreateWarehouse(w, code, t) PROVE CodeEntered(w)
      <3>1. PICK l : l = [kind |-> "new", code |-> code, tenant |-> t]
        OBVIOUS
      <3>2. l.code = code
        BY <3>1
      <3>3. UNCHANGED faults => \A i \in LiveIds : warehouses[i].code # l.code
        BY <1>0, <2>3, <3>2 DEF CreateWarehouse, Absent, Fails, CodeTaken, LiveIds
      <3>4. Enter(w, "insertWarehouse", l, "code", CodeWrites) /\ UNCHANGED documents
        BY <2>3, <3>1 DEF CreateWarehouse
      <3>. QED  BY <2>1, <3>3, <3>4 DEF CodeEntered, CodeLabels
    <2>4. ASSUME NEW code, NEW i, UpdateWarehouse(w, i, code) PROVE CodeEntered(w)
      <3>1. PICK l : l = [kind |-> "code", id |-> i, code |-> code]
        OBVIOUS
      <3>2. l.code = code
        BY <3>1
      <3>3. UNCHANGED faults => \A j \in LiveIds : warehouses[j].code # l.code
        BY <1>0, <2>4, <3>2 DEF UpdateWarehouse, Absent, Fails, CodeTaken, LiveIds
      <3>4. Enter(w, "setCode", l, "code", CodeWrites) /\ UNCHANGED documents
        BY <2>4, <3>1 DEF UpdateWarehouse
      <3>. QED  BY <2>1, <3>3, <3>4 DEF CodeEntered, CodeLabels
    <2>5. ASSUME NEW i, DeleteWarehouse(w, i) PROVE DeletionEntered(w)
      <3>1. PICK l : l = [kind |-> "id", id |-> i]
        OBVIOUS
      <3>2. l.id = i
        BY <3>1
      <3>3. /\ Enter(w, "deleteWarehouse", l, "data", {"insertLocation"}) /\ UNCHANGED documents
            /\ ~warehouses[l.id].isDefault /\ UNCHANGED faults
        BY <2>5, <3>1, <3>2 DEF DeleteWarehouse
      <3>. QED  BY <3>3 DEF DeletionEntered
    <2>. QED  BY <1>3, <2>2, <2>3, <2>4, <2>5 DEF WarehouseRequests
  <1>4. CASE (StartUp(w) \/ Migration(w)) /\ ~FindWarehouse(w) /\ ~MigrationFindDefault(w)
    <2>1. \A label, l, kind, window : Enter(w, label, l, kind, window) => pc'[w] = label
      BY <1>0, Entering
    <2>2. pc'[w] \notin DefaultInserts
      BY <1>4, <2>1 DEF StartUp, StartProcess, FindTenant, InsertTenant, InsertDefault, EnsureSuperAdmin,
         InsertSuperAdmin, UpdateSuperAdmin, Migration, MigrateTenant, MigrationFindTenant,
         MigrationInsertTenant, BackfillUsers,
         BackfillWarehouses, MigrateWarehouse, MigrationInsertDefault,
         BackfillLocations, ToBackfill, Goto, Finish, DefaultInserts
    <2>3. pc'[w] \in StartUpLabels \cup MigrationLabels
      BY <1>0, <1>4, StartUpMoves, MigrationMoves DEF Moves
    <2>. QED  BY <2>2, <2>3 DEF StartUpLabels, MigrationLabels, WritesWarehouses, CodeWrites, DefaultInserts
  <1>5. CASE Request(w) /\ (LocationRequests(w) \/ UserRequests(w))
    <2>1. pc'[w] \in {"insertLocation", "insertUser", "updateUser", "idle"}
      BY <1>0, <1>5, LocationRequestMoves, UserRequestMoves DEF Moves
    <2>. QED  BY <2>1 DEF WritesWarehouses, CodeWrites, DefaultInserts
  <1>6. CASE WarehouseWrites(w) \/ InsertLocation(w) \/ InsertUser(w) \/ WriteUser(w)
    <2>1. pc'[w] = "idle"
      BY <1>0, <1>6, WriteMoves DEF Moves
    <2>. QED  BY <2>1 DEF WritesWarehouses, CodeWrites, DefaultInserts
  <1>. QED  BY <1>1, <1>2, <1>3, <1>4, <1>5, <1>6 DEF AccessNext

(* The invariant: without a default warehouse there is none and nobody is  *)
(* served; and the default one is never about to be deleted.               *)

PendingRemoval(label, l, ws) == label = "deleteWarehouse" => ~ws[l.id].isDefault

Served ==
    /\ Defaults = {} => LiveIds = {} /\ \A w \in Workers : pc[w] \notin CodeLabels
    /\ \A w \in Workers : PendingRemoval(pc[w], loc[w], warehouses)

(* What the writer of a warehouse leaves, by what it wrote.                *)
DefaultsGrow == Defaults \subseteq Defaults' /\ (Defaults' = {} => LiveIds' \subseteq LiveIds)

LEMMA ServedKept ==
    ASSUME Typing, Served, NEW w \in Workers, AccessNext(w)
    PROVE  DefaultsGrow /\ FlagsKept
  <1>1. CASE SameShape
    BY <1>1, ShapeKept DEF DefaultsGrow
  <1>2. CASE \E c : Added(NewWarehouse(c, 0, TRUE))
    BY <1>2, ShapeAdded DEF DefaultsGrow
  <1>3. CASE pc[w] = "insertWarehouse" /\ Added(NewWarehouse(loc[w].code, loc[w].tenant, FALSE))
    <2>1. Defaults # {}
      BY <1>3 DEF Served, CodeLabels
    <2>. QED  BY <1>3, <2>1, ShapeAdded DEF DefaultsGrow
  <1>4. CASE \E i, code : Recoded(i, code)
    BY <1>4, ShapeRecoded DEF DefaultsGrow
  <1>5. CASE pc[w] = "deleteWarehouse" /\ Removed(loc[w].id)
    <2>1. loc[w].id \notin Defaults
      BY <1>5 DEF Served, PendingRemoval, Defaults
    <2>. QED  BY <1>5, <2>1, ShapeRemoved DEF DefaultsGrow
  <1>. QED  BY <1>1, <1>2, <1>3, <1>4, <1>5, WarehouseSteps

LEMMA ServedElsewhere ==
    ASSUME Typing, Served, NEW w \in Workers, NEW L, Moves(w, L), DefaultsGrow, FlagsKept,
           pc'[w] \in CodeLabels => Defaults # {},
           PendingRemoval(pc'[w], loc'[w], warehouses')
    PROVE  Served'
  <1>1. \A v \in Workers : v # w => pc'[v] = pc[v] /\ loc'[v] = loc[v]
    BY DEF Moves
  <1>2. Defaults' = {} => LiveIds' = {} /\ \A v \in Workers : pc'[v] \notin CodeLabels
    BY <1>1 DEF Served, DefaultsGrow
  <1>3. PICK ws : ws = warehouses'
    OBVIOUS
  <1>4. ASSUME NEW v \in Workers PROVE PendingRemoval(pc'[v], loc'[v], ws)
    <2>1. CASE v = w
      BY <1>3, <2>1
    <2>2. CASE v # w
      <3>1. PICK l : l = loc[v]
        OBVIOUS
      <3>2. pc[v] = "deleteWarehouse" => l.id \in DOMAIN warehouses
        BY <3>1 DEF Typing, Runs, Carries
      <3>3. PendingRemoval(pc[v], l, warehouses)
        BY <3>1 DEF Served
      <3>4. PendingRemoval(pc[v], l, ws)
        BY <1>3, <3>2, <3>3 DEF PendingRemoval, FlagsKept
      <3>. QED  BY <1>1, <2>2, <3>1, <3>4
    <2>. QED  BY <2>1, <2>2
  <1>. QED  BY <1>2, <1>3, <1>4 DEF Served

LEMMA SameWarehouses ==
    ASSUME UNCHANGED documents
    PROVE  LiveIds' = LiveIds /\ Defaults' = Defaults /\ warehouses' = warehouses
  BY DEF documents, LiveIds, Live, Defaults

LEMMA StepServed ==
    ASSUME Typing, Served, [Next]_vars PROVE Served'
  <1>0. Runs
    BY DEF Typing
  <1>1. ASSUME NEW w \in Workers, AccessNext(w) PROVE Served'
    <2>1. Moves(w, AccessLabels) /\ DefaultsGrow /\ FlagsKept
      BY <1>0, <1>1, AccessMoves, ServedKept
    <2>2. CASE pc'[w] \notin WritesWarehouses
      <3>1. /\ pc'[w] \in CodeLabels => Defaults # {}
            /\ PendingRemoval(pc'[w], loc'[w], warehouses')
        BY <2>2 DEF WritesWarehouses, CodeWrites, CodeLabels, PendingRemoval
      <3>. QED  BY <2>1, <3>1, ServedElsewhere
    <2>3. CASE DefaultEntered(w)
      <3>1. pc'[w] \in DefaultInserts
        BY <1>0, <2>3, Entering DEF DefaultEntered
      <3>2. /\ pc'[w] \in CodeLabels => Defaults # {}
            /\ PendingRemoval(pc'[w], loc'[w], warehouses')
        BY <3>1 DEF DefaultInserts, CodeLabels, PendingRemoval
      <3>. QED  BY <2>1, <3>2, ServedElsewhere
    <2>4. CASE CodeEntered(w)
      <3>1. pc'[w] \in CodeLabels /\ Defaults # {}
        BY <1>0, <2>4, Entering DEF CodeEntered
      <3>2. PendingRemoval(pc'[w], loc'[w], warehouses')
        BY <3>1 DEF CodeLabels, PendingRemoval
      <3>. QED  BY <2>1, <3>1, <3>2, ServedElsewhere
    <2>5. CASE DeletionEntered(w)
      <3>1. PICK l : /\ Enter(w, "deleteWarehouse", l, "data", {"insertLocation"})
                     /\ ~warehouses[l.id].isDefault
        BY <2>5 DEF DeletionEntered
      <3>2. pc'[w] = "deleteWarehouse" /\ loc'[w] = l
        BY <1>0, <3>1, Entering
      <3>3. /\ pc'[w] \in CodeLabels => Defaults # {}
            /\ PendingRemoval(pc'[w], loc'[w], warehouses')
        BY <2>5, <3>1, <3>2, SameWarehouses DEF DeletionEntered, CodeLabels, PendingRemoval
      <3>. QED  BY <2>1, <3>3, ServedElsewhere
    <2>. QED  BY <1>1, <2>2, <2>3, <2>4, <2>5, WarehouseEntries
  <1>2. ASSUME NEW w \in Workers, AlertsNext(w) \/ Abandon(w), UNCHANGED documents PROVE Served'
    <2>1. Moves(w, AlertsLabels)
      <3>1. Abandon(w) => Moves(w, {"idle"}) /\ {"idle"} \subseteq AlertsLabels
        BY <1>0, AlertsLead DEF AlertsLabels
      <3>. QED  BY <1>0, <1>2, <3>1, AlertsMoves, WiderMoves
    <2>2. DefaultsGrow /\ FlagsKept
      BY <1>2, SameWarehouses DEF DefaultsGrow, FlagsKept
    <2>3. pc'[w] \notin CodeLabels /\ pc'[w] # "deleteWarehouse"
      BY <2>1 DEF Moves, AlertsLabels, CodeLabels
    <2>. QED  BY <2>1, <2>2, <2>3, ServedElsewhere DEF PendingRemoval
  <1>3. CASE UNCHANGED <<pc, loc, documents>>
    <2>1. UNCHANGED documents /\ UNCHANGED <<pc, loc>>
      BY <1>3
    <2>. QED  BY <2>1, SameWarehouses DEF Served
  <1>. QED  BY <1>1, <1>2, <1>3 DEF Next, vars, goroutines, ServerEnds

(* One default warehouse; a pending insertion of it has the field alone.   *)
DefaultsOnce ==
    \/ faults > 0
    \/ "warehouse" \in overlapped
    \/ /\ \A i, j \in Defaults : i = j
       /\ \A w \in Workers : pc[w] \in DefaultInserts => Defaults = {}
       /\ \A v, w \in Workers : pc[v] \in DefaultInserts /\ pc[w] \in DefaultInserts => v = w

(* A code names one warehouse; what a pending write would give is free.    *)
PendingCode(label, l, ws, ids) ==
    label \in CodeLabels => \A i \in ids : ws[i].code # l.code

CodesOnce ==
    \/ faults > 0
    \/ overlapped \cap {"code", "warehouse"} # {}
    \/ /\ \A i, j \in LiveIds : warehouses[i].code = warehouses[j].code => i = j
       /\ \A w \in Workers : PendingCode(pc[w], loc[w], warehouses, LiveIds)
       /\ \A v, w \in Workers : pc[v] \in CodeWrites /\ pc[w] \in CodeWrites => v = w

LEMMA DefaultsElsewhere ==
    ASSUME Typing, DefaultsOnce, NEW w \in Workers, NEW L, Moves(w, L),
           pc'[w] \notin DefaultInserts,
           \/ Defaults' \subseteq Defaults
           \/ pc[w] \in DefaultInserts /\ \E k : Defaults' = Defaults \cup {k}
    PROVE  DefaultsOnce'
  <1>0. /\ faults \in Nat /\ faults' \in Nat /\ faults <= faults'
        /\ overlapped \subseteq overlapped'
    BY DEF Typing, Runs, Moves
  <1>1. CASE faults' > 0 \/ "warehouse" \in overlapped'
    BY <1>1 DEF DefaultsOnce
  <1>2. CASE ~ (faults' > 0) /\ "warehouse" \notin overlapped'
    <2>1. /\ \A i, j \in Defaults : i = j
          /\ \A v \in Workers : pc[v] \in DefaultInserts => Defaults = {}
          /\ \A u, v \in Workers : pc[u] \in DefaultInserts /\ pc[v] \in DefaultInserts => u = v
      BY <1>0, <1>2 DEF DefaultsOnce
    <2>2. \A v \in Workers : pc'[v] \in DefaultInserts => pc'[v] = pc[v] /\ v # w
      BY DEF Moves
    <2>3. \A u, v \in Workers : pc'[u] \in DefaultInserts /\ pc'[v] \in DefaultInserts => u = v
      BY <2>1, <2>2
    <2>4. CASE Defaults' \subseteq Defaults
      BY <2>1, <2>2, <2>3, <2>4 DEF DefaultsOnce
    <2>5. CASE pc[w] \in DefaultInserts /\ \E k : Defaults' = Defaults \cup {k}
      <3>1. \A v \in Workers : pc'[v] \notin DefaultInserts
        BY <2>1, <2>2, <2>5
      <3>2. \A i, j \in Defaults' : i = j
        BY <2>1, <2>5
      <3>. QED  BY <2>3, <3>1, <3>2 DEF DefaultsOnce
    <2>. QED  BY <2>4, <2>5
  <1>. QED  BY <1>1, <1>2

LEMMA DefaultsEntered ==
    ASSUME Typing, DefaultsOnce, NEW w \in Workers, DefaultEntered(w)
    PROVE  DefaultsOnce'
  <1>1. PICK label, l : label \in DefaultInserts /\ Enter(w, label, l, "warehouse", DefaultInserts)
    BY DEF DefaultEntered
  <1>2. /\ pc'[w] = label
        /\ \A v \in Workers : v # w => pc'[v] = pc[v]
        /\ \A k : k \in overlapped' <=>
              (k \in overlapped \/ (k = "warehouse" /\ \E v \in Workers \ {w} : pc[v] \in DefaultInserts))
    BY <1>1, Entering DEF Typing
  <1>3. /\ faults \in Nat /\ faults' \in Nat /\ faults <= faults'
        /\ faults' = faults => Defaults = {}
        /\ Defaults' = Defaults
    BY FaultsGrow, SameWarehouses DEF Typing, Runs, DefaultEntered
  <1>4. CASE faults' > 0 \/ "warehouse" \in overlapped'
    BY <1>4 DEF DefaultsOnce
  <1>5. CASE ~ (faults' > 0) /\ "warehouse" \notin overlapped'
    <2>1. Defaults' = {}
      BY <1>3, <1>5
    <2>2. \A v \in Workers : v # w => pc'[v] \notin DefaultInserts
      BY <1>2, <1>5
    <2>. QED  BY <2>1, <2>2 DEF DefaultsOnce
  <1>. QED  BY <1>4, <1>5

LEMMA StepDefaults ==
    ASSUME Typing, Served, DefaultsOnce, [Next]_vars PROVE DefaultsOnce'
  <1>0. Runs
    BY DEF Typing
  <1>1. ASSUME NEW w \in Workers, AccessNext(w) PROVE DefaultsOnce'
    <2>1. Moves(w, AccessLabels)
      BY <1>0, <1>1, AccessMoves
    <2>2. \/ Defaults' \subseteq Defaults
          \/ pc[w] \in DefaultInserts /\ \E k : Defaults' = Defaults \cup {k}
      BY <1>1, WarehouseSteps, ShapeKept, ShapeAdded, ShapeRecoded, ShapeRemoved
    <2>3. CodeEntered(w) \/ DeletionEntered(w) => pc'[w] \notin DefaultInserts
      <3>1. CodeEntered(w) => pc'[w] \in CodeLabels
        BY <1>0, Entering DEF CodeEntered
      <3>2. DeletionEntered(w) => pc'[w] = "deleteWarehouse"
        BY <1>0, Entering DEF DeletionEntered
      <3>. QED  BY <3>1, <3>2 DEF CodeLabels, DefaultInserts
    <2>4. pc'[w] \notin WritesWarehouses => pc'[w] \notin DefaultInserts
      BY DEF WritesWarehouses, CodeWrites
    <2>. QED  BY <1>1, <2>1, <2>2, <2>3, <2>4, WarehouseEntries, DefaultsEntered, DefaultsElsewhere
  <1>2. ASSUME NEW w \in Workers, AlertsNext(w) \/ Abandon(w), UNCHANGED documents PROVE DefaultsOnce'
    <2>1. Moves(w, AlertsLabels)
      <3>1. Abandon(w) => Moves(w, {"idle"}) /\ {"idle"} \subseteq AlertsLabels
        BY <1>0, AlertsLead DEF AlertsLabels
      <3>. QED  BY <1>0, <1>2, <3>1, AlertsMoves, WiderMoves
    <2>2. pc'[w] \notin DefaultInserts
      BY <2>1 DEF Moves, AlertsLabels, DefaultInserts
    <2>. QED  BY <1>2, <2>1, <2>2, SameWarehouses, DefaultsElsewhere
  <1>3. CASE UNCHANGED <<pc, overlapped, documents>> /\ (UNCHANGED faults \/ Fails)
    <2>1. UNCHANGED documents /\ UNCHANGED <<pc, overlapped>> /\ faults \in Nat
      BY <1>0, <1>3 DEF Runs
    <2>2. faults' \in Nat /\ faults <= faults'
      BY <1>3, <2>1, FaultsGrow
    <2>. QED  BY <2>1, <2>2, SameWarehouses DEF DefaultsOnce
  <1>. QED  BY <1>1, <1>2, <1>3 DEF Next, vars, goroutines, ServerEnds

(* What a step does to codes, if nothing was flagged.                      *)
CodesFit(w) ==
    \/ /\ LiveIds' \subseteq LiveIds
       /\ \A i \in LiveIds' : warehouses'[i].code = warehouses[i].code
    \/ /\ pc[w] \in CodeWrites
       /\ \A i, j \in LiveIds' : warehouses'[i].code = warehouses'[j].code => i = j

LEMMA CodesWritten ==
    ASSUME Typing, Served, NEW w \in Workers, AccessNext(w),
           \A i, j \in LiveIds : warehouses[i].code = warehouses[j].code => i = j,
           PendingCode(pc[w], loc[w], warehouses, LiveIds),
           pc[w] \in DefaultInserts => Defaults = {}
    PROVE  CodesFit(w)
  <1>1. CASE SameShape
    BY <1>1, ShapeKept DEF CodesFit, CodesKept
  <1>2. CASE pc[w] \in DefaultInserts /\ \E c : Added(NewWarehouse(c, 0, TRUE))
    <2>1. LiveIds = {}
      BY <1>2 DEF Served
    <2>2. \E k : LiveIds' = LiveIds \cup {k}
      BY <1>2, ShapeAdded
    <2>. QED  BY <1>2, <2>1, <2>2 DEF CodesFit, CodeWrites
  <1>3. CASE pc[w] = "insertWarehouse" /\ Added(NewWarehouse(loc[w].code, loc[w].tenant, FALSE))
    <2>1. PICK k : /\ k \notin LiveIds /\ LiveIds' = LiveIds \cup {k}
                   /\ warehouses'[k].code = loc[w].code
      BY <1>3, ShapeAdded
    <2>2. CodesKept
      BY <1>3, ShapeAdded
    <2>3. \A i \in LiveIds : warehouses[i].code # loc[w].code
      BY <1>3 DEF PendingCode, CodeLabels
    <2>4. \A i \in LiveIds : warehouses'[i].code = warehouses[i].code
      BY <2>2 DEF CodesKept
    <2>5. \A i, j \in LiveIds' : warehouses'[i].code = warehouses'[j].code => i = j
      BY <2>1, <2>3, <2>4
    <2>. QED  BY <1>3, <2>5 DEF CodesFit, CodeWrites
  <1>4. CASE pc[w] = "setCode" /\ Recoded(loc[w].id, loc[w].code)
    <2>1. /\ LiveIds' = LiveIds
          /\ \A j \in LiveIds :
                warehouses'[j].code = IF j = loc[w].id THEN loc[w].code ELSE warehouses[j].code
      BY <1>4, ShapeRecoded
    <2>2. \A i \in LiveIds : warehouses[i].code # loc[w].code
      BY <1>4 DEF PendingCode, CodeLabels
    <2>3. \A i, j \in LiveIds' : warehouses'[i].code = warehouses'[j].code => i = j
      BY <2>1, <2>2
    <2>. QED  BY <1>4, <2>3 DEF CodesFit, CodeWrites
  <1>5. CASE pc[w] = "deleteWarehouse" /\ Removed(loc[w].id)
    BY <1>5, ShapeRemoved DEF CodesFit, CodesKept
  <1>. QED  BY <1>1, <1>2, <1>3, <1>4, <1>5, WarehouseSteps

(* A step that begins no write of a code.                                  *)
LEMMA CodesElsewhere ==
    ASSUME Typing, CodesOnce, NEW w \in Workers, NEW L, Moves(w, L),
           pc'[w] \notin CodeWrites,
           \/ faults > 0 \/ overlapped \cap {"code", "warehouse"} # {} \/ CodesFit(w)
    PROVE  CodesOnce'
  <1>0. /\ faults \in Nat /\ faults' \in Nat /\ faults <= faults'
        /\ overlapped \subseteq overlapped'
    BY DEF Typing, Runs, Moves
  <1>1. CASE faults' > 0 \/ overlapped' \cap {"code", "warehouse"} # {}
    BY <1>1 DEF CodesOnce
  <1>2. CASE ~ (faults' > 0) /\ overlapped' \cap {"code", "warehouse"} = {}
    <2>1. /\ \A i, j \in LiveIds : warehouses[i].code = warehouses[j].code => i = j
          /\ \A v \in Workers : PendingCode(pc[v], loc[v], warehouses, LiveIds)
          /\ \A u, v \in Workers : pc[u] \in CodeWrites /\ pc[v] \in CodeWrites => u = v
          /\ CodesFit(w)
      BY <1>0, <1>2 DEF CodesOnce
    <2>2. \A v \in Workers : pc'[v] \in CodeWrites => pc'[v] = pc[v] /\ loc'[v] = loc[v] /\ v # w
      BY DEF Moves
    <2>3. \A u, v \in Workers : pc'[u] \in CodeWrites /\ pc'[v] \in CodeWrites => u = v
      BY <2>1, <2>2
    <2>4. CodeLabels \subseteq CodeWrites
      BY DEF CodeLabels, CodeWrites
    <2>5. PICK ws, ids : ws = warehouses' /\ ids = LiveIds'
      OBVIOUS
    <2>6. CASE /\ LiveIds' \subseteq LiveIds
               /\ \A i \in LiveIds' : warehouses'[i].code = warehouses[i].code
      <3>1. ids \subseteq LiveIds /\ \A i \in ids : ws[i].code = warehouses[i].code
        BY <2>5, <2>6
      <3>2. \A i, j \in ids : ws[i].code = ws[j].code => i = j
        BY <2>1, <3>1
      <3>3. \A v \in Workers : PendingCode(pc'[v], loc'[v], ws, ids)
        BY <2>1, <2>2, <2>4, <3>1 DEF PendingCode
      <3>. QED  BY <2>3, <2>5, <3>2, <3>3 DEF CodesOnce
    <2>7. CASE /\ pc[w] \in CodeWrites
               /\ \A i, j \in LiveIds' : warehouses'[i].code = warehouses'[j].code => i = j
      <3>1. \A v \in Workers : pc'[v] \notin CodeWrites
        BY <2>1, <2>2, <2>7
      <3>2. \A v \in Workers : PendingCode(pc'[v], loc'[v], ws, ids)
        BY <2>4, <3>1 DEF PendingCode
      <3>. QED  BY <2>3, <2>5, <2>7, <3>2 DEF CodesOnce
    <2>. QED  BY <2>1, <2>6, <2>7 DEF CodesFit
  <1>. QED  BY <1>1, <1>2

LEMMA CodesOpened ==
    ASSUME Typing, Served, CodesOnce, NEW w \in Workers,
           NEW label \in CodeWrites, NEW l, NEW kind \in {"code", "warehouse"}, NEW window,
           Enter(w, label, l, kind, window),
           \/ DefaultEntered(w) /\ label \in DefaultInserts /\ window = DefaultInserts
           \/ /\ CodeEntered(w) /\ window = CodeWrites
              /\ UNCHANGED faults => \A i \in LiveIds : warehouses[i].code # l.code
    PROVE  CodesOnce'
  <1>0. /\ faults \in Nat /\ faults' \in Nat /\ faults <= faults'
        /\ LiveIds' = LiveIds /\ warehouses' = warehouses
    BY FaultsGrow, SameWarehouses DEF Typing, Runs, DefaultEntered, CodeEntered
  <1>2. /\ pc'[w] = label /\ loc'[w] = l
        /\ \A v \in Workers : v # w => pc'[v] = pc[v] /\ loc'[v] = loc[v]
        /\ \A k : k \in overlapped' <=>
              (k \in overlapped \/ (k = kind /\ \E v \in Workers \ {w} : pc[v] \in window))
    BY Entering DEF Typing
  <1>3. CASE faults' > 0 \/ overlapped' \cap {"code", "warehouse"} # {}
    BY <1>3 DEF CodesOnce
  <1>4. CASE ~ (faults' > 0) /\ overlapped' \cap {"code", "warehouse"} = {}
    <2>1. /\ \A i, j \in LiveIds : warehouses[i].code = warehouses[j].code => i = j
          /\ \A v \in Workers : PendingCode(pc[v], loc[v], warehouses, LiveIds)
      BY <1>0, <1>2, <1>4 DEF CodesOnce
    <2>2. \A v \in Workers : v # w => pc[v] \notin window
      BY <1>2, <1>4
    <2>3. \A v \in Workers : v # w => pc[v] \notin CodeWrites
      <3>1. CASE DefaultEntered(w) /\ window = DefaultInserts
        <4>1. Defaults = {}
          BY <1>0, <1>4, <3>1 DEF DefaultEntered
        <4>2. \A v \in Workers : pc[v] \notin CodeLabels
          BY <4>1 DEF Served
        <4>. QED  BY <2>2, <3>1, <4>2 DEF CodeWrites, CodeLabels
      <3>2. CASE window = CodeWrites
        BY <2>2, <3>2
      <3>. QED  BY <3>1, <3>2
    <2>4. \A u, v \in Workers : pc'[u] \in CodeWrites /\ pc'[v] \in CodeWrites => u = v
      BY <1>2, <2>3
    <2>5. PendingCode(label, l, warehouses, LiveIds)
      BY <1>0, <1>4 DEF PendingCode, DefaultInserts, CodeLabels
    <2>6. PICK ws, ids : ws = warehouses /\ ids = LiveIds
      OBVIOUS
    <2>7. \A v \in Workers : PendingCode(pc'[v], loc'[v], ws, ids)
      BY <1>2, <2>1, <2>5, <2>6
    <2>. QED  BY <1>0, <2>1, <2>4, <2>6, <2>7 DEF CodesOnce
  <1>. QED  BY <1>3, <1>4

LEMMA CodesEntered ==
    ASSUME Typing, Served, CodesOnce, NEW w \in Workers, DefaultEntered(w) \/ CodeEntered(w)
    PROVE  CodesOnce'
  <1>1. DefaultInserts \subseteq CodeWrites /\ CodeLabels \subseteq CodeWrites
    BY DEF CodeWrites, CodeLabels
  <1>2. CASE DefaultEntered(w)
    <2>1. PICK label, l : label \in DefaultInserts /\ Enter(w, label, l, "warehouse", DefaultInserts)
      BY <1>2 DEF DefaultEntered
    <2>. QED  BY <1>1, <1>2, <2>1, CodesOpened
  <1>3. CASE CodeEntered(w)
    <2>1. PICK label, l :
             /\ label \in CodeLabels
             /\ Enter(w, label, l, "code", CodeWrites)
             /\ UNCHANGED faults => \A i \in LiveIds : warehouses[i].code # l.code
      BY <1>3 DEF CodeEntered
    <2>. QED  BY <1>1, <1>3, <2>1, CodesOpened
  <1>. QED  BY <1>2, <1>3

LEMMA StepCodes ==
    ASSUME Typing, Served, DefaultsOnce, CodesOnce, [Next]_vars PROVE CodesOnce'
  <1>0. Runs
    BY DEF Typing
  <1>1. ASSUME NEW w \in Workers, AccessNext(w) PROVE CodesOnce'
    <2>1. Moves(w, AccessLabels)
      BY <1>0, <1>1, AccessMoves
    <2>2. faults > 0 \/ overlapped \cap {"code", "warehouse"} # {} \/ CodesFit(w)
      <3>1. CASE ~ (faults > 0) /\ overlapped \cap {"code", "warehouse"} = {}
        <4>1. /\ \A i, j \in LiveIds : warehouses[i].code = warehouses[j].code => i = j
              /\ PendingCode(pc[w], loc[w], warehouses, LiveIds)
          BY <3>1 DEF CodesOnce
        <4>2. pc[w] \in DefaultInserts => Defaults = {}
          BY <3>1 DEF DefaultsOnce
        <4>. QED  BY <1>1, <4>1, <4>2, CodesWritten
      <3>. QED  BY <3>1
    <2>3. DeletionEntered(w) => pc'[w] \notin CodeWrites
      <3>1. DeletionEntered(w) => pc'[w] = "deleteWarehouse"
        BY <1>0, Entering DEF DeletionEntered
      <3>. QED  BY <3>1 DEF CodeWrites, DefaultInserts
    <2>4. pc'[w] \notin WritesWarehouses => pc'[w] \notin CodeWrites
      BY DEF WritesWarehouses
    <2>. QED  BY <1>1, <2>1, <2>2, <2>3, <2>4, WarehouseEntries, CodesEntered, CodesElsewhere
  <1>2. ASSUME NEW w \in Workers, AlertsNext(w) \/ Abandon(w), UNCHANGED documents PROVE CodesOnce'
    <2>1. Moves(w, AlertsLabels)
      <3>1. Abandon(w) => Moves(w, {"idle"}) /\ {"idle"} \subseteq AlertsLabels
        BY <1>0, AlertsLead DEF AlertsLabels
      <3>. QED  BY <1>0, <1>2, <3>1, AlertsMoves, WiderMoves
    <2>2. pc'[w] \notin CodeWrites
      BY <2>1 DEF Moves, AlertsLabels, CodeWrites, DefaultInserts
    <2>3. CodesFit(w)
      BY <1>2, SameWarehouses DEF CodesFit
    <2>. QED  BY <2>1, <2>2, <2>3, CodesElsewhere
  <1>3. CASE UNCHANGED <<pc, loc, overlapped, documents>> /\ (UNCHANGED faults \/ Fails)
    <2>1. UNCHANGED documents /\ UNCHANGED <<pc, loc, overlapped>> /\ faults \in Nat
      BY <1>0, <1>3 DEF Runs
    <2>2. faults' \in Nat /\ faults <= faults'
      BY <1>3, <2>1, FaultsGrow
    <2>. QED  BY <2>1, <2>2, SameWarehouses DEF CodesOnce
  <1>. QED  BY <1>1, <1>2, <1>3 DEF Next, vars, goroutines, ServerEnds

LEMMA InitDocuments ==
    ASSUME Init PROVE Served /\ TenantsOnce /\ DefaultsOnce /\ CodesOnce
  <1>1. /\ faults = 0
        /\ \A w \in Workers : pc[w] = "idle"
    BY DEF Init, GoroutinesInit
  <1>2. \A w \in Workers : /\ pc[w] \notin CodeWrites /\ pc[w] \notin CodeLabels
                           /\ pc[w] \notin DefaultInserts /\ pc[w] # "deleteWarehouse"
                           /\ CodeAt(pc[w]) = "none"
    BY <1>1 DEF CodeWrites, CodeLabels, DefaultInserts, CodeAt, TenantInserts
  <1>3. CASE FreshDatabase
    <2>1. DOMAIN tenants = {} /\ LiveIds = {} /\ Defaults = {}
      BY <1>3 DEF FreshDatabase, LiveIds, Defaults
    <2>. QED  BY <1>2, <2>1 DEF Served, TenantsOnce, DefaultsOnce, CodesOnce, PendingRemoval, PendingCode
  <1>4. CASE UsedDatabase
    <2>1. /\ tenants = <<"TEN-DEFAULT", "T2">>
          /\ warehouses = <<NewWarehouse("WH-DEFAULT", 0, TRUE), NewWarehouse("C2", 2, FALSE)>>
      BY <1>4 DEF UsedDatabase
    <2>2. DOMAIN tenants = {1, 2} /\ tenants[1] = "TEN-DEFAULT" /\ tenants[2] = "T2"
      BY <2>1
    <2>3. /\ DOMAIN warehouses = {1, 2}
          /\ warehouses[1].exists /\ warehouses[1].isDefault /\ warehouses[1].code = "WH-DEFAULT"
          /\ warehouses[2].exists /\ ~warehouses[2].isDefault /\ warehouses[2].code = "C2"
      BY <2>1 DEF NewWarehouse
    <2>4. LiveIds = {1, 2} /\ Defaults = {1}
      BY <2>3 DEF LiveIds, Live, Defaults
    <2>5. Served /\ DefaultsOnce
      BY <1>2, <2>4 DEF Served, DefaultsOnce, PendingRemoval
    <2>6. CodesOnce
      BY <1>2, <2>3, <2>4 DEF CodesOnce, PendingCode
    <2>7. TenantsOnce
      <3>1. \A t \in DOMAIN tenants : tenants[t] # "none"
        BY <2>2
      <3>. QED  BY <1>2, <2>2, <3>1 DEF TenantsOnce
    <2>. QED  BY <2>5, <2>6, <2>7
  <1>. QED  BY <1>3, <1>4 DEF Init, AccessInit

(* EnsureDefault "creates ... if none exists" and "warehouse code already  *)
(* exists": without an index there is still one default tenant, one default*)
(* warehouse and one warehouse for a code, unless two that look and write  *)
(* overlapped or a look-up failed.                                         *)
THEOREM DocumentsAreUnique == Spec => []AdministrationWellFormed
  <1>. DEFINE Unique == Served /\ TenantsOnce /\ DefaultsOnce /\ CodesOnce
  <1>1. Init => Unique
    BY InitDocuments
  <1>2. Typing /\ Unique /\ [Next]_vars => Unique'
    BY StepServed, StepTenants, StepDefaults, StepCodes
  <1>3. Typing /\ Unique => AdministrationWellFormed
    <2>1. SUFFICES ASSUME Typing, Unique PROVE AdministrationWellFormed
      OBVIOUS
    <2>2. AccessTypeOK /\ AlertsTypeOK /\ faults \in Nat
      BY <2>1 DEF Typing, Runs, AlertsTyped
    <2>3. Defaults = {i \in DOMAIN warehouses : Live(i) /\ warehouses[i].isDefault}
      BY DEF Defaults, LiveIds
    <2>4. (\A i, j \in Defaults : i = j) => Cardinality(Defaults) <= 1
      <3>1. CASE Defaults = {}
        BY <3>1, FS_EmptySet
      <3>2. ASSUME NEW k \in Defaults, \A i, j \in Defaults : i = j PROVE Cardinality(Defaults) <= 1
        <4>1. Defaults = {k}
          BY <3>2
        <4>2. Cardinality({k}) = 1
          BY ONLY FS_Singleton
        <4>. QED  BY ONLY <4>1, <4>2
      <3>. QED  BY <3>1, <3>2
    <2>5. ASSUME faults = 0
          PROVE  /\ "tenant" \in overlapped
                       \/ \A s, t \in DOMAIN tenants : tenants[s] = tenants[t] => s = t
                 /\ "warehouse" \in overlapped \/ Cardinality(Defaults) <= 1
                 /\ overlapped \cap {"code", "warehouse"} # {}
                       \/ \A i, j \in DOMAIN warehouses :
                             (Live(i) /\ Live(j) /\ warehouses[i].code = warehouses[j].code) => i = j
      <3>1. "tenant" \in overlapped \/ \A s, t \in DOMAIN tenants : tenants[s] = tenants[t] => s = t
        BY <2>1, <2>5 DEF TenantsOnce
      <3>2. "warehouse" \in overlapped \/ Cardinality(Defaults) <= 1
        BY <2>1, <2>4, <2>5 DEF DefaultsOnce
      <3>3. overlapped \cap {"code", "warehouse"} # {}
               \/ \A i, j \in LiveIds : warehouses[i].code = warehouses[j].code => i = j
        BY <2>1, <2>5 DEF CodesOnce
      <3>. QED  BY <3>1, <3>2, <3>3 DEF LiveIds
    <2>. QED  BY <2>2, <2>3, <2>5 DEF AdministrationWellFormed, AccessWellFormed
  <1>. HIDE DEF Unique
  <1>. QED  BY <1>1, <1>2, <1>3, AlwaysTyping, PTL DEF Spec

=============================================================================

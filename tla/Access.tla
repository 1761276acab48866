------------------------------- MODULE Access -------------------------------
(***************************************************************************)
(* Who may use which warehouse: the documents of tenants, warehouses,      *)
(* locations and users, the start-up that creates the default ones, the    *)
(* migrations that give older documents an owner, the administration of    *)
(* users and warehouses, and the decision of WarehouseContext.             *)
(***************************************************************************)
EXTENDS Goroutines

CONSTANTS
    Codes,          \* codes an administrator gives to a warehouse
    Places,         \* codes of locations
    Racks,          \* what zone, rack and level of a location together say
    CodeOf,         \* CodeOf[r]: the code an import gives to a location there
    Accounts,       \* usernames people register
    MaxWarehouses   \* bound: warehouses created

(* The database that was in use holds two warehouses, one with code C2.    *)
ASSUME AccessAssumption ==
    /\ MaxWarehouses \in Nat \ {0, 1}
    /\ "C2" \in Codes
    /\ "superadmin" \notin Accounts
    /\ "none" \notin Racks
    /\ CodeOf \in [Racks -> Places]

VARIABLES
    tenants,        \* codes of the tenants; the position is the id
    warehouses,     \* warehouse documents; the position is the id, 0 is none
    locations,      \* location documents
    users           \* users[name]; no name is registered twice

documents == <<tenants, warehouses, locations, users>>

Roles == {"superadmin", "admin", "operator"}

TenantCodes == {"TEN-DEFAULT", "T2"}

WarehouseIds == 0 .. MaxWarehouses

Warehouse == [exists: BOOLEAN, code: Codes \cup {"WH-DEFAULT", "DEFAULT"},
              tenant: Nat, isDefault: BOOLEAN]

(* rack: "none" when zone, rack and level are all absent.  checked: its     *)
(* creator had to name an existing warehouse of the tenant.                *)
Location == [place: Places, rack: Racks \cup {"none"}, warehouse: WarehouseIds, checked: BOOLEAN]

User == [state: {"unknown", "live", "deleted"}, role: Roles, tenant: Nat,
         allowed: SUBSET (1 .. MaxWarehouses), default: WarehouseIds]

Names == Accounts \cup {"superadmin"}

Unknown == [state |-> "unknown", role |-> "operator", tenant |-> 0, allowed |-> {}, default |-> 0]

AccessTypeOK ==
    /\ tenants \in Seq(TenantCodes)
    /\ warehouses \in Seq(Warehouse)
    /\ Len(warehouses) <= MaxWarehouses
    /\ locations \subseteq Location
    /\ users \in [Names -> User]

Live(i) == i \in DOMAIN warehouses /\ warehouses[i].exists

LiveUsers == {n \in Names : users[n].state = "live"}

NewWarehouse(code, tenant, isDefault) ==
    [exists |-> TRUE, code |-> code, tenant |-> tenant, isDefault |-> isDefault]

(* An empty database, or one that the server used before there were        *)
(* tenants: the default warehouse and the users have none.  In the second, *)
(* tenant 2 was added since, with a warehouse.                             *)
FreshDatabase ==
    /\ tenants = <<>>
    /\ warehouses = <<>>
    /\ locations = {}
    /\ users = [n \in Names |-> Unknown]

UsedDatabase ==
    /\ tenants = <<"TEN-DEFAULT", "T2">>
    /\ warehouses = <<NewWarehouse("WH-DEFAULT", 0, TRUE), NewWarehouse("C2", 2, FALSE)>>
    /\ locations = {}
    /\ \E t \in {0, 2} :
          users = [n \in Names |-> IF n = "superadmin"
                                   THEN [Unknown EXCEPT !.state = "live", !.role = "superadmin"]
                                   ELSE [state |-> "live", role |-> "operator", tenant |-> t,
                                         allowed |-> {1, 2}, default |-> 2]]

AccessInit == FreshDatabase \/ UsedDatabase

(* The look-up of a code or a name that must be free; one that fails       *)
(* counts as nothing found.                                                *)
Absent(found) == \/ ~found /\ UNCHANGED faults
                 \/ found /\ Fails

-----------------------------------------------------------------------------
(* The start of a process: EnsureDefault for the tenant and the warehouse, *)
(* then EnsureSuperAdmin.  A look-up that fails counts as nothing found,   *)
(* and the handler of api/index.go goes on after an insertion that fails.  *)

FirstOf(ids) == IF ids = {} THEN 0 ELSE Min(ids)

DefaultTenant == FirstOf({t \in DOMAIN tenants : tenants[t] = "TEN-DEFAULT"})

DefaultWarehouse == FirstOf({i \in DOMAIN warehouses : Live(i) /\ warehouses[i].isDefault})

(* The look-up of a default document: its id, or 0 when it failed.         *)
FoundFault(id, result) == result = 0 /\ UNCHANGED faults
Found(id, result) == \/ result = id /\ UNCHANGED faults
                     \/ id # 0 /\ result = 0 /\ Fails

TenantInserts == {"insertTenant", "migrationInsertTenant"}
DefaultInserts == {"insertDefault", "migrationInsertDefault"}

StartProcess(w) ==
    /\ Starts(w)
    /\ Goto(w, "findTenant", Nothing)
    /\ UNCHANGED <<documents, faults>>

FindTenant(w) ==
    /\ At(w, "findTenant")
    /\ \E t \in 0 .. Len(tenants) :
          /\ Found(DefaultTenant, t)
          /\ IF t = 0
             THEN Enter(w, "insertTenant", Nothing, "tenant", TenantInserts)
             ELSE Goto(w, "findWarehouse", Nothing)
    /\ UNCHANGED <<documents, started>>

InsertTenant(w) ==
    /\ At(w, "insertTenant")
    /\ \/ tenants' = Append(tenants, "TEN-DEFAULT") /\ UNCHANGED faults
       \/ tenants' = tenants /\ Fails
    /\ Goto(w, "findWarehouse", Nothing)
    /\ UNCHANGED <<warehouses, locations, users, started>>

FindWarehouse(w) ==
    /\ At(w, "findWarehouse")
    /\ \E i \in WarehouseIds :
          /\ Found(DefaultWarehouse, i)
          /\ IF i = 0
             THEN Enter(w, "insertDefault", Nothing, "warehouse", DefaultInserts)
             ELSE Goto(w, "ensureAdmin", [kind |-> "id", id |-> i])
    /\ UNCHANGED <<documents, started>>

InsertWarehouse(doc) ==
    /\ Len(warehouses) < MaxWarehouses
    /\ warehouses' = Append(warehouses, doc)

InsertDefault(w) ==
    /\ At(w, "insertDefault")
    /\ \/ /\ InsertWarehouse(NewWarehouse("WH-DEFAULT", 0, TRUE))
          /\ Goto(w, "ensureAdmin", [kind |-> "id", id |-> Len(warehouses')])
          /\ UNCHANGED faults
       \/ /\ Fails
          /\ Goto(w, "ensureAdmin", [kind |-> "id", id |-> 0])
          /\ UNCHANGED warehouses
    /\ UNCHANGED <<tenants, locations, users, started>>

(* Only api/index.go ensures the account; the server of cmd/main.go does   *)
(* not.                                                                    *)
EnsureSuperAdmin(w) ==
    LET admin == users["superadmin"] IN
    /\ At(w, "ensureAdmin")
    /\ \/ admin.state # "live" /\ Goto(w, "insertAdmin", loc[w])
       \/ /\ admin.state = "live" /\ admin.default = 0 /\ loc[w].id # 0
          /\ Goto(w, "updateAdmin", loc[w])
       \/ Finish(w)
    /\ UNCHANGED <<documents, started, faults>>

(* The username is unique: when the account appeared since the look-up the *)
(* insertion fails, which is ignored.                                      *)
InsertSuperAdmin(w) ==
    /\ At(w, "insertAdmin")
    /\ users' = IF users["superadmin"].state = "live"
                THEN users
                ELSE [users EXCEPT !["superadmin"] =
                         [state |-> "live", role |-> "superadmin", tenant |-> 0,
                          allowed |-> {}, default |-> loc[w].id]]
    /\ Finish(w)
    /\ UNCHANGED <<tenants, warehouses, locations, started, faults>>

UpdateSuperAdmin(w) ==
    /\ At(w, "updateAdmin")
    /\ users' = [users EXCEPT !["superadmin"].default = loc[w].id]
    /\ Finish(w)
    /\ UNCHANGED <<tenants, warehouses, locations, started, faults>>

StartUp(w) ==
    \/ StartProcess(w) \/ FindTenant(w) \/ InsertTenant(w) \/ FindWarehouse(w) \/ InsertDefault(w)
    \/ EnsureSuperAdmin(w) \/ InsertSuperAdmin(w) \/ UpdateSuperAdmin(w)

-----------------------------------------------------------------------------
(* The migrations: find or create the default document, then give it the   *)
(* documents that have no owner, one collection after the other; one that  *)
(* fails is reported and the next is tried.                                *)

MigrateTenant(w) ==
    /\ Starts(w)
    /\ Goto(w, "migrationFindTenant", Nothing)
    /\ UNCHANGED <<documents, faults>>

MigrationFindTenant(w) ==
    /\ At(w, "migrationFindTenant")
    /\ \E t \in 0 .. Len(tenants) :
          /\ Found(DefaultTenant, t)
          /\ IF t = 0
             THEN Enter(w, "migrationInsertTenant", Nothing, "tenant", TenantInserts)
             ELSE Goto(w, "backfillUsers", [kind |-> "id", id |-> t])
    /\ UNCHANGED <<documents, started>>

MigrationInsertTenant(w) ==
    /\ At(w, "migrationInsertTenant")
    /\ tenants' = Append(tenants, "TEN-DEFAULT")
    /\ Goto(w, "backfillUsers", [kind |-> "id", id |-> Len(tenants')])
    /\ UNCHANGED <<warehouses, locations, users, started, faults>>

(* missingFilter: null, missing or zero.                                   *)
Missing(owner) == owner = 0

OwnedBy(doc, id) == [doc EXCEPT !.tenant = IF Missing(@) THEN id ELSE @]

BackfillUsers(w) ==
    /\ At(w, "backfillUsers")
    /\ \/ /\ users' = [n \in Names |->
                IF n \in LiveUsers THEN OwnedBy(users[n], loc[w].id) ELSE users[n]]
          /\ UNCHANGED faults
       \/ users' = users /\ Fails
    /\ Goto(w, "backfillWarehouses", loc[w])
    /\ UNCHANGED <<tenants, warehouses, locations, started>>

BackfillWarehouses(w) ==
    /\ At(w, "backfillWarehouses")
    /\ warehouses' = [i \in DOMAIN warehouses |-> OwnedBy(warehouses[i], loc[w].id)]
    /\ Finish(w)
    /\ UNCHANGED <<tenants, locations, users, started, faults>>

(* The warehouse migration creates the default warehouse in a dry run too. *)
MigrateWarehouse(w, apply) ==
    /\ Starts(w)
    /\ Goto(w, "migrationFindDefault", [kind |-> "apply", apply |-> apply])
    /\ UNCHANGED <<documents, faults>>

(* One that is marked, else one with the code.                             *)
MigrationDefault ==
    IF DefaultWarehouse # 0
    THEN DefaultWarehouse
    ELSE FirstOf({i \in DOMAIN warehouses : Live(i) /\ warehouses[i].code = "DEFAULT"})

ToBackfill(w, id, apply) ==
    IF apply THEN Goto(w, "backfillLocations", [kind |-> "id", id |-> id]) ELSE Finish(w)

MigrationFindDefault(w) ==
    /\ At(w, "migrationFindDefault")
    /\ \E i \in WarehouseIds :
          /\ Found(MigrationDefault, i)
          /\ IF i = 0
             THEN Enter(w, "migrationInsertDefault", loc[w], "warehouse", DefaultInserts)
             ELSE ToBackfill(w, i, loc[w].apply)
    /\ UNCHANGED <<documents, started>>

MigrationInsertDefault(w) ==
    /\ At(w, "migrationInsertDefault")
    /\ InsertWarehouse(NewWarehouse("DEFAULT", 0, TRUE))
    /\ ToBackfill(w, Len(warehouses'), loc[w].apply)
    /\ UNCHANGED <<tenants, locations, users, started, faults>>

(* Locations stand for the ten collections that a deletion asks for data;  *)
(* the other four that get a warehouse here are left out.                  *)
BackfillLocations(w) ==
    /\ At(w, "backfillLocations")
    /\ locations' = {[l EXCEPT !.warehouse = IF Missing(@) THEN loc[w].id ELSE @] : l \in locations}
    /\ Finish(w)
    /\ UNCHANGED <<tenants, warehouses, users, started, faults>>

Migration(w) ==
    \/ MigrateTenant(w) \/ MigrationFindTenant(w) \/ MigrationInsertTenant(w)
    \/ BackfillUsers(w) \/ BackfillWarehouses(w)
    \/ \E apply \in BOOLEAN : MigrateWarehouse(w, apply)
    \/ MigrationFindDefault(w) \/ MigrationInsertDefault(w) \/ BackfillLocations(w)

-----------------------------------------------------------------------------
(* Administration of tenants and warehouses.  A code is looked up and then *)
(* written; no index makes the codes of these two collections unique.      *)

(* Requests are served once a process has seen to the defaults.  What      *)
(* follows says what each of them does besides starting.                   *)
Serving == DefaultTenant # 0 /\ DefaultWarehouse # 0

Request(w) == Serving /\ Starts(w)

CodeWrites == {"insertWarehouse", "setCode"} \cup DefaultInserts

CodeTaken(code) == \E i \in DOMAIN warehouses : Live(i) /\ warehouses[i].code = code

CreateTenant(w) ==
    /\ Absent(\E t \in DOMAIN tenants : tenants[t] = "T2")
    /\ Enter(w, "insertOtherTenant", Nothing, "tenant", {"insertOtherTenant"})
    /\ UNCHANGED documents

InsertOtherTenant(w) ==
    /\ At(w, "insertOtherTenant")
    /\ tenants' = Append(tenants, "T2")
    /\ Finish(w)
    /\ UNCHANGED <<warehouses, locations, users, started, faults>>

(* Without a tenant: by the superadmin.                                    *)
CreateWarehouse(w, code, tenant) ==
    /\ Absent(CodeTaken(code))
    /\ Enter(w, "insertWarehouse", [kind |-> "new", code |-> code, tenant |-> tenant],
             "code", CodeWrites)
    /\ UNCHANGED documents

InsertNewWarehouse(w) ==
    /\ At(w, "insertWarehouse")
    /\ InsertWarehouse(NewWarehouse(loc[w].code, loc[w].tenant, FALSE))
    /\ Finish(w)
    /\ UNCHANGED <<tenants, locations, users, started, faults>>

UpdateWarehouse(w, i, code) ==
    /\ Live(i)
    /\ code # warehouses[i].code
    /\ Absent(CodeTaken(code))
    /\ Enter(w, "setCode", [kind |-> "code", id |-> i, code |-> code], "code", CodeWrites)
    /\ UNCHANGED documents

SetCode(w) ==
    /\ At(w, "setCode")
    /\ warehouses' = [warehouses EXCEPT ![loc[w].id].code = loc[w].code]
    /\ Finish(w)
    /\ UNCHANGED <<tenants, locations, users, started, faults>>

HasDataFault(i) == FALSE
HasData(i) == \E l \in locations : l.warehouse = i

(* The users that have the warehouse as a default are not looked at.       *)
DeleteWarehouse(w, i) ==
    /\ Live(i)
    /\ ~warehouses[i].isDefault
    /\ ~HasData(i)
    /\ Enter(w, "deleteWarehouse", [kind |-> "id", id |-> i], "data", {"insertLocation"})
    /\ UNCHANGED <<documents, faults>>

RemoveWarehouse(w) ==
    /\ At(w, "deleteWarehouse")
    /\ warehouses' = [warehouses EXCEPT ![loc[w].id].exists = FALSE]
    /\ Finish(w)
    /\ UNCHANGED <<tenants, locations, users, started, faults>>

WarehouseRequests(w) ==
    \/ CreateTenant(w)
    \/ \E code \in Codes : \/ \E t \in 0 .. Len(tenants) : CreateWarehouse(w, code, t)
                           \/ \E i \in DOMAIN warehouses : UpdateWarehouse(w, i, code)
    \/ \E i \in DOMAIN warehouses : DeleteWarehouse(w, i)

WarehouseWrites(w) ==
    InsertOtherTenant(w) \/ InsertNewWarehouse(w) \/ SetCode(w) \/ RemoveWarehouse(w)

-----------------------------------------------------------------------------
(* WarehouseContext, and the list that shows an administrator the          *)
(* warehouses to choose from.  Role and tenant are those of the user's     *)
(* token; here they are the document's.                                    *)

(* A header names a warehouse, is absent (0) or asks for all of them.      *)
AllMode == -1

Headers == {AllMode} \cup 0 .. Len(warehouses)

(* The header, the user's default, the first one there is.                 *)
Chosen(user, header) ==
    CASE header # 0 -> header
      [] header = 0 /\ user.default # 0 -> user.default
      [] OTHER -> IF user.role = "superadmin" THEN FirstOf({i \in DOMAIN warehouses : Live(i)}) ELSE 0

SameTenantFault(user, i) == TRUE
SameTenant(user, i) == user.tenant = 0 \/ (Live(i) /\ warehouses[i].tenant \in {0, user.tenant})

Granted(user, i) ==
    \/ user.role = "superadmin"
    \/ i # 0 /\ SameTenant(user, i) /\ (user.role = "admin" \/ i \in user.allowed)

PassesContext(user, header) ==
    IF header = AllMode THEN user.role \in {"admin", "superadmin"}
    ELSE Granted(user, Chosen(user, header))

(* GetWarehouseID: none in ALL mode.                                       *)
ContextWarehouse(user, header) == IF header = AllMode THEN 0 ELSE Chosen(user, header)

Administers(user) == user.role \in {"admin", "superadmin"}

(* The route is for administrators; the superadmin passes every such check.*)
ListedOf(user) ==
    {i \in DOMAIN warehouses :
        /\ Administers(user)
        /\ Live(i)
        /\ user.role = "superadmin" \/ user.tenant = 0 \/ warehouses[i].tenant = user.tenant}

-----------------------------------------------------------------------------
(* Locations: created by an administrator in the warehouse of the context, *)
(* or imported, which sets no warehouse.  An index makes the code unique,  *)
(* and another one zone, rack and level where there are any.               *)

CreateLocation(w, n, header, place, rack) ==
    LET user == users[n] IN
    /\ n \in LiveUsers
    /\ Administers(user)
    /\ PassesContext(user, header)
    /\ Absent(\E l \in locations : l.place = place)
    /\ Enter(w, "insertLocation",
             [kind |-> "location",
              doc |-> [place |-> place, rack |-> rack, warehouse |-> ContextWarehouse(user, header),
                       checked |-> header # AllMode /\ user.role # "superadmin" /\ user.tenant # 0]],
             "data", {"deleteWarehouse"})
    /\ UNCHANGED documents

ImportLocation(w, rack) ==
    /\ Absent(\E l \in locations : l.rack = rack)
    /\ Goto(w, "insertLocation",
            [kind |-> "location",
             doc |-> [place |-> CodeOf[rack], rack |-> rack, warehouse |-> 0, checked |-> FALSE]])
    /\ UNCHANGED documents

(* The indexes reject one of two such documents.                           *)
Conflict(l, m) == l.place = m.place \/ (l.rack = m.rack /\ l.rack # "none")

InsertLocation(w) ==
    /\ At(w, "insertLocation")
    /\ locations' = IF \E l \in locations : Conflict(l, loc[w].doc)
                    THEN locations
                    ELSE locations \cup {loc[w].doc}
    /\ Finish(w)
    /\ UNCHANGED <<tenants, warehouses, users, started, faults>>

(* Zone, rack or level can be set later; the code and the warehouse cannot.*)
UpdateLocation(w, l, rack) ==
    /\ \A m \in locations \ {l} : m.rack # rack
    /\ locations' = (locations \ {l}) \cup {[l EXCEPT !.rack = rack]}
    /\ Finish(w)
    /\ UNCHANGED <<tenants, warehouses, users, faults>>

DeleteLocation(w, l) ==
    /\ locations' = locations \ {l}
    /\ Finish(w)
    /\ UNCHANGED <<tenants, warehouses, users, faults>>

LocationRequests(w) ==
    \/ \E n \in Names, header \in Headers, place \in Places, rack \in Racks \cup {"none"} :
          CreateLocation(w, n, header, place, rack)
    \/ \E rack \in Racks : ImportLocation(w, rack)
    \/ \E l \in locations : DeleteLocation(w, l) \/ \E rack \in Racks : UpdateLocation(w, l, rack)

-----------------------------------------------------------------------------
(* Users.                                                                  *)

Register(w, n, role, tenant) ==
    /\ users[n].state # "deleted"
    /\ Absent(users[n].state = "live")
    /\ Goto(w, "insertUser",
            [kind |-> "user", name |-> n,
             doc |-> [Unknown EXCEPT !.state = "live", !.role = role, !.tenant = tenant]])
    /\ UNCHANGED documents

(* The username is unique, by an index.                                    *)
InsertUser(w) ==
    /\ At(w, "insertUser")
    /\ users' = [users EXCEPT ![loc[w].name] = IF @.state = "unknown" THEN loc[w].doc ELSE @]
    /\ Finish(w)
    /\ UNCHANGED <<tenants, warehouses, locations, started, faults>>

(* What one request sets: the named fields, to the values in doc.          *)
With(user, fields, doc) == [f \in DOMAIN user |-> IF f \in fields THEN doc[f] ELSE user[f]]

(* One field, or the list and the default together.  Warehouses that are   *)
(* named need not exist any more.                                          *)
Updates ==
    {[fields |-> {"role"}, doc |-> [Unknown EXCEPT !.role = r]] : r \in Roles}
    \cup {[fields |-> {"tenant"}, doc |-> [Unknown EXCEPT !.tenant = t]] : t \in DOMAIN tenants}
    \cup {[fields |-> {"default"}, doc |-> [Unknown EXCEPT !.default = i]] : i \in DOMAIN warehouses}
    \cup {[fields |-> {"allowed"}, doc |-> [Unknown EXCEPT !.allowed = a]] : a \in SUBSET DOMAIN warehouses}
    \cup {[fields |-> {"allowed", "default"}, doc |-> [Unknown EXCEPT !.allowed = {i}, !.default = i]] :
              i \in DOMAIN warehouses}

ValidFault(user) == Administers(user) \/ user.allowed # {}
Valid(user) ==
    /\ Administers(user) \/ user.allowed # {}
    /\ user.default = 0 \/ user.allowed = {} \/ user.default \in user.allowed

(* By the superadmin, or by an administrator of the account's tenant, who  *)
(* may not set the tenant.                                                 *)
UpdateUser(w, n, update) ==
    /\ n \in LiveUsers
    /\ Valid(With(users[n], update.fields, update.doc))
    /\ Enter(w, "updateUser", [kind |-> "update", name |-> n, update |-> update],
             n, {"updateUser"})
    /\ UNCHANGED <<documents, faults>>

WriteUser(w) ==
    /\ At(w, "updateUser")
    /\ users' = [users EXCEPT ![loc[w].name] =
          IF @.state = "live" THEN With(@, loc[w].update.fields, loc[w].update.doc) ELSE @]
    /\ Finish(w)
    /\ UNCHANGED <<tenants, warehouses, locations, started, faults>>

DeleteUser(w, n) ==
    /\ n \in LiveUsers
    /\ users' = [users EXCEPT ![n] = [Unknown EXCEPT !.state = "deleted"]]
    /\ Finish(w)
    /\ UNCHANGED <<tenants, warehouses, locations, faults>>

UserRequests(w) ==
    \/ \E n \in Accounts, role \in Roles, t \in 0 .. Len(tenants) : Register(w, n, role, t)
    \/ \E n \in Names, update \in Updates : UpdateUser(w, n, update)
    \/ \E n \in Accounts : DeleteUser(w, n)

-----------------------------------------------------------------------------
AccessNext(w) ==
    \/ StartUp(w)
    \/ Migration(w)
    \/ Request(w) /\ (WarehouseRequests(w) \/ LocationRequests(w) \/ UserRequests(w))
    \/ WarehouseWrites(w) \/ InsertLocation(w) \/ InsertUser(w) \/ WriteUser(w)

-----------------------------------------------------------------------------
(* Properties.                                                             *)

(* EnsureDefault "creates ... if none exists" and "warehouse code already  *)
(* exists", though no index makes these codes unique: there is one default *)
(* tenant and one default warehouse, and a code names one tenant or one    *)
(* warehouse, unless two processes, migrations or requests looked at once  *)
(* or a look-up failed.  A second default would be used by some and not by *)
(* others.                                                                 *)
AccessWellFormed ==
    /\ AccessTypeOK
    /\ faults = 0 =>
          /\ "tenant" \in overlapped
                \/ \A s, t \in DOMAIN tenants : tenants[s] = tenants[t] => s = t
          /\ "warehouse" \in overlapped
                \/ Cardinality({i \in DOMAIN warehouses : Live(i) /\ warehouses[i].isDefault}) <= 1
          /\ overlapped \cap {"code", "warehouse"} # {}
                \/ \A i, j \in DOMAIN warehouses :
                      (Live(i) /\ Live(j) /\ warehouses[i].code = warehouses[j].code) => i = j

(* "cannot delete warehouse that contains data": a location whose creator  *)
(* had to name an existing warehouse is never left without it, unless the  *)
(* creation and the deletion overlapped.                                   *)
NoOrphans ==
    "data" \in overlapped \/ \A l \in locations : l.checked => Live(l.warehouse)

(* "default warehouse must be in the allowed warehouses list": it is, for  *)
(* every registered account, unless two updates of accounts overlapped.    *)
DefaultIsAllowed ==
    \A n \in LiveUsers \cap Accounts :
        LET u == users[n] IN
        n \in overlapped \/ u.default = 0 \/ u.allowed = {} \/ u.default \in u.allowed

(* What an administrator may choose from is what WarehouseContext lets the *)
(* administrator use, of the warehouses that belong to a tenant: two pieces*)
(* of code that decide on their own.  Operators are shown no list.         *)
ListAgreesWithContext ==
    \A n \in LiveUsers, i \in DOMAIN warehouses :
        LET u == users[n] IN
        /\ i \in ListedOf(u) => Granted(u, i)
        /\ (Administers(u) /\ Granted(u, i) /\ Live(i)) =>
               i \in ListedOf(u) \/ (u.tenant # 0 /\ warehouses[i].tenant = 0)

=============================================================================

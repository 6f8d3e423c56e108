------------------------- MODULE AccessControlProofs -------------------------
(***************************************************************************)
(* What holds of AccessControl for any number of users, roles, permissions *)
(* and calls, whatever the seed's lists are.  The parts of AccessInv say   *)
(* what a call in flight, and the seed, may still rely on of what they     *)
(* read; with the type invariant and the properties they are inductive.    *)
(***************************************************************************)
EXTENDS AccessControl, TLAPS

CallType == [op : Operations \cup {None}, step : {"idle", "self", "assign", "check", "write"},
             by : UserIds \cup {None}, on : RoleIds \cup PermissionIds \cup UserIds \cup {None},
             ids : (SUBSET (RoleIds \cup PermissionIds \cup UserIds)) \cup {None}]

Seeding == {"byCode", "byPlace", "upsert"}
Migration == {"legacyFind", "legacyCopy", "legacyDelete"}
SeedSteps == {"idle", "failed", "done", "roles", "others", "connect"} \cup Seeding \cup Migration

SeedIsRecord ==
    seed = [step |-> seed.step, todo |-> seed.todo, rows |-> seed.rows,
            found |-> seed.found, ids |-> seed.ids, runs |-> seed.runs]

SeedType ==
    /\ SeedIsRecord
    /\ seed.step \in SeedSteps /\ seed.todo \in Seq(Seeded)
    /\ seed.ids \subseteq PermissionIds /\ seed.runs \in Nat
    /\ seed.step \in {"byPlace", "upsert"} => seed.todo # <<>>

(* What is known of a request: which ids it names and where it can be. *)
Knows(x) ==
    /\ x.op = "createUser" => x.ids # None /\ x.step # "self"
    /\ x.step \in {"self", "assign"} => x.op \in {"createUser", "updateUser"}
    /\ x.op \in {"createUser", "updateUser"} /\ x.ids # None => x.ids \subseteq RoleIds \ unused
    /\ x.op = "register" => x.step = "write" /\ x.ids # None /\ x.ids \subseteq RoleIds \ unused
    /\ x.op = "updateUser" => x.on \in UserIds
    /\ x.op = "removeUsers" => x.ids \subseteq UserIds \ {x.by}
    /\ x.op = "updateRole" => x.on \in RoleIds \ unused
    /\ x.op = "removeRoles" => x.ids \subseteq RoleIds \ unused
    /\ x.op = "updatePermission" => x.on \in PermissionIds \ unused
    /\ x.op = "removePermissions" => x.ids \subseteq PermissionIds \ unused

TypeInv ==
    /\ AccessTypeOK
    /\ call \in [Callers -> CallType] /\ \A c \in Callers : Knows(call[c])
    /\ calls \in Nat /\ SeedType

(* A call about to write a role has seen that it is no admin role. *)
RoleInv(c) ==
    /\ AtWrite(c, {"updateRole"}) => call[c].on \notin AdminRole
    /\ AtWrite(c, {"removeRoles"}) => call[c].ids \cap AdminRole = {}

(* The seed keeps the admin role it has upserted. *)
AdminInv ==
    /\ Admin \in DOMAIN seed.rows => seed.rows[Admin] \in AdminRole /\ role[seed.rows[Admin]].enabled
    /\ seed.step \in Seeding \cup {"others", "connect"} => Admin \in DOMAIN seed.rows
    /\ seed.step = "connect" => Admin \notin seed.found

(* Roles about to be given are enabled, but for the default role. *)
GrantInv(c) ==
    /\ AtWrite(c, {"createUser", "updateUser"}) /\ call[c].ids # None =>
           \A r \in call[c].ids \cap DOMAIN role : role[r].enabled \/ r \in excuse
    /\ AtWrite(c, {"register"}) => \A r \in call[c].ids \cap DOMAIN role : role[r].code = Default

(* Who is changing users is an administrator, and stays one. *)
HolderInv(c) ==
    excuse \cap {"outsider", "demoted"} = {} /\ call[c].step # "idle" =>
        /\ call[c].op \in {"updateUser", "removeUsers"} =>
               call[c].by \in DOMAIN user /\ HoldsAdmin(call[c].by)
        /\ call[c].op = "updateUser" /\ call[c].on = call[c].by /\ call[c].ids # None
               /\ call[c].step # "self" => AdminRole \cap call[c].ids # {}

ManagedRow(p) == p \in DOMAIN permission /\ permission[p].code \in Managed

(* A call about to write a permission has seen that it is not managed. *)
MutableInv(c) ==
    "adopted" \notin excuse =>
        /\ AtWrite(c, {"updatePermission"}) => ~ManagedRow(call[c].on)
        /\ AtWrite(c, {"removePermissions"}) => \A p \in call[c].ids : ~ManagedRow(p)

Processed == Managed \ {seed.todo[i] : i \in DOMAIN seed.todo}

(* What the seed has put in place, and what it has found to work on. *)
SeedingInv ==
    "adopted" \notin excuse /\ seed.step \in Seeding =>
        /\ \A code \in Processed : \E p \in seed.ids \cap DOMAIN permission :
               permission[p] = [code |-> code, place |-> code]
        /\ seed.step = "upsert" => \A p \in seed.found :
               p \notin unused /\ (p \in DOMAIN permission => permission[p].code \notin Processed)

Complete == \A code \in Managed : \E p \in RowsWithCode(permission, code) :
                \E r \in AdminRole : p \in role[r].permissions

CompleteInv ==
    "adopted" \notin excuse /\ seed.step \in {"others", "connect", "done"} \cup Migration => Complete

LegacyInv ==
    "adopted" \notin excuse /\ seed.step \in {"legacyCopy", "legacyDelete"} =>
        /\ \A p \in seed.found : p \notin unused /\ ~ManagedRow(p)
        /\ seed.ids # {} /\ \A p \in seed.ids : p \in DOMAIN permission /\ permission[p].code = Successor
        /\ seed.step = "legacyDelete" /\ "relinked" \notin excuse =>
               \A r \in DOMAIN role :
                   seed.found \subseteq role[r].permissions => seed.ids \subseteq role[r].permissions

(* The unique index. *)
CodesUnique ==
    \A p, q \in DOMAIN permission : permission[p].code = permission[q].code => p = q

AccessInv ==
    /\ TypeInv /\ CodesUnique /\ AdminInv
    /\ \A c \in Callers : RoleInv(c) /\ GrantInv(c) /\ HolderInv(c) /\ MutableInv(c)
    /\ SeedingInv /\ CompleteInv /\ LegacyInv
    /\ AdminRoleHeld


----------------------------------------------------------------------------
(* The initial state *)

LEMMA InitAccess == AccessInit => AccessInv
<1> SUFFICES ASSUME AccessInit PROVE AccessInv
  OBVIOUS
<1> USE DEF AccessInit, NoCall, NoSeed
<1>1. \A c \in Callers : call[c] = NoCall
  OBVIOUS
<1>2. TypeInv
  <2>1. AccessTypeOK
    BY <1>1, AccessConstants, AccessInstalled DEF AccessTypeOK, IsTable
  <2>2. call \in [Callers -> CallType] /\ \A c \in Callers : Knows(call[c])
    BY <1>1, AccessConstants DEF CallType, Knows, Operations
  <2>3. calls \in Nat /\ SeedType
    BY DEF SeedType, SeedIsRecord, SeedSteps
  <2>4. QED
    BY <2>1, <2>2, <2>3 DEF TypeInv
<1>3. AdminInv /\ SeedingInv /\ CompleteInv /\ LegacyInv
  BY DEF AdminInv, SeedingInv, CompleteInv, LegacyInv, Seeding, Migration
<1>4. \A c \in Callers : RoleInv(c) /\ GrantInv(c) /\ HolderInv(c) /\ MutableInv(c)
  BY <1>1 DEF RoleInv, GrantInv, HolderInv, MutableInv, AtWrite
<1>5. AdminRoleHeld
  <2>1. PICK u \in DOMAIN InitialUsers : \E r \in InitialUsers[u].roles : InitialRoles[r].code = Admin
    BY AccessInstalled DEF AccessInstalled
  <2>2. PICK r \in InitialUsers[u].roles : InitialRoles[r].code = Admin
    BY <2>1
  <2>3. r \in DOMAIN role
    BY <2>1, AccessInstalled DEF AccessInstalled
  <2>4. QED
    BY <2>1, <2>2, <2>3 DEF AdminRoleHeld, HoldsAdmin, AdminRole, RowsWithCode
<1>6. CodesUnique
  BY AccessInstalled DEF AccessInstalled, CodesUnique
<1>7. QED
  BY <1>2, <1>3, <1>4, <1>5, <1>6 DEF AccessInv

----------------------------------------------------------------------------
(* Steps *)

(* A request arrives: of a user, or of somebody who is not one yet. *)
Arrives(c) == FindDefaultRole(c) \/ \E u \in DOMAIN user : BeginCall(c, u)

Senders == DOMAIN user \cup {None}

(* What a request is when it arrives. *)
Request(u, x) ==
    /\ x \in CallType /\ Knows(x) /\ x.by = u /\ x.step # "idle"
    /\ x.step = "write" => x.op \in {"updateUser", "removeUsers", "createPermission", "register"}
    /\ IF x.op = "register" THEN x.ids \subseteq RowsWithCode(role, Default) ELSE u \in DOMAIN user
    /\ x.op \in {"createUser", "updateUser"} /\ x.ids # None => x.step \in {"self", "assign"}
    /\ x.op = "updateUser" /\ x.on = u /\ x.ids # None => x.step = "self"

(* c begins with request x of u. *)
Begins(c, u, x) ==
    /\ Request(u, x)
    /\ call' = [call EXCEPT ![c] = x] /\ call[c].step = "idle"
    /\ calls' = calls + 1 /\ calls + seed.runs < MaxWork
    /\ excuse' = IF x.op \in {"updateUser", "removeUsers"} /\ ~HoldsAdmin(u)
                 THEN excuse \cup {"outsider"} ELSE excuse
    /\ UNCHANGED <<tables, seed>>

LEMMA CallBegins ==
    ASSUME TypeInv, NEW c \in Callers, NEW u \in DOMAIN user, BeginCall(c, u)
    PROVE  \E x : Begins(c, u, x)
<1>0. /\ u \in UserIds /\ DOMAIN user \subseteq UserIds
      /\ DOMAIN role \subseteq RoleIds \ unused /\ DOMAIN permission \subseteq PermissionIds \ unused
      /\ \A ids \in SUBSET DOMAIN role : ids # None
  BY AccessConstants DEF TypeInv, AccessTypeOK, IsTable
<1>1. PICK op, on, ids, step :
          /\ \/ op = "createUser" /\ on = None /\ ids \in SUBSET DOMAIN role /\ step = "assign"
             \/ op = "updateUser" /\ on \in DOMAIN user /\ ids = None /\ step = "write"
             \/ /\ op = "updateUser" /\ on \in DOMAIN user /\ ids \in SUBSET DOMAIN role
                /\ step = IF on = u THEN "self" ELSE "assign"
             \/ op = "removeUsers" /\ on = None /\ ids \in SUBSET (DOMAIN user \ {u}) /\ step = "write"
             \/ op = "createRole" /\ on = None /\ ids \in SUBSET DOMAIN permission /\ step = "check"
             \/ op = "updateRole" /\ on \in DOMAIN role /\ ids = None /\ step = "check"
             \/ op = "removeRoles" /\ on = None /\ ids \in SUBSET DOMAIN role /\ step = "check"
             \/ op = "createPermission" /\ on = None /\ ids = None /\ step = "write"
             \/ op = "updatePermission" /\ on \in DOMAIN permission /\ ids = None /\ step = "check"
             \/ op = "removePermissions" /\ on = None /\ ids \in SUBSET DOMAIN permission /\ step = "check"
          /\ Begin(c, u, op, on, ids, step)
  <2>1. CASE BeginUserCall(c, u)
    BY <2>1 DEF BeginUserCall
  <2>2. CASE BeginRoleCall(c, u)
    BY <2>2 DEF BeginRoleCall
  <2>3. CASE BeginPermissionCall(c, u)
    BY <2>3 DEF BeginPermissionCall
  <2>4. QED
    BY <2>1, <2>2, <2>3 DEF BeginCall
<1> DEFINE x == [op |-> op, step |-> step, by |-> u, on |-> on, ids |-> ids]
<1>2. x \in CallType
  BY <1>0, <1>1 DEF CallType, Operations
<1>3. Request(u, x)
  <2> x.op = op /\ x.step = step /\ x.by = u /\ x.on = on /\ x.ids = ids
    OBVIOUS
  <2> HIDE DEF x
  <2>2. Knows(x)
    BY <1>0, <1>1 DEF Knows
  <2>3. QED
    BY <1>1, <1>2, <2>2 DEF Request
<1>4. Begins(c, u, x)
  BY <1>1, <1>3 DEF Begin, Begins, Excuse
<1>5. QED
  BY <1>4

LEMMA RegistrationBegins ==
    ASSUME TypeInv, NEW c \in Callers, FindDefaultRole(c)
    PROVE  \E x : Begins(c, None, x)
<1>1. PICK r \in RowsWithCode(role, Default) :
          call' = [call EXCEPT ![c] =
              [op |-> "register", step |-> "write", by |-> None, on |-> None, ids |-> {r}]]
  BY DEF FindDefaultRole
<1>2. r \in RoleIds \ unused /\ {r} # None
  BY AccessConstants DEF TypeInv, AccessTypeOK, IsTable, RowsWithCode
<1> DEFINE x == [op |-> "register", step |-> "write", by |-> None, on |-> None, ids |-> {r}]
<1>3. x \in CallType
  BY <1>2 DEF CallType, Operations
<1>4. x.op = "register" /\ x.step = "write" /\ x.by = None /\ x.on = None /\ x.ids = {r} /\ call' = [call EXCEPT ![c] = x]
  BY <1>1
<1> HIDE DEF x
<1>5. Request(None, x)
  BY <1>1, <1>2, <1>3, <1>4 DEF Request, Knows
<1>6. Begins(c, None, x)
  BY <1>4, <1>5 DEF FindDefaultRole, Begins
<1>7. QED
  BY <1>6

LEMMA BeginShape ==
    ASSUME TypeInv, NEW c \in Callers, Arrives(c)
    PROVE  \E u \in Senders : \E x : Begins(c, u, x)
BY CallBegins, RegistrationBegins DEF Arrives, Senders

(* The permissions a role has, and the roles a user has, exist. *)
LinksExist ==
    /\ IsTable(role, RoleIds, RoleRow)
    /\ IsTable(permission, PermissionIds, PermissionRow)
    /\ IsTable(user, UserIds, UserRow)
    /\ \A r \in DOMAIN role : role[r].permissions \subseteq DOMAIN permission
    /\ \A u \in DOMAIN user : user[u].roles \subseteq DOMAIN role
    /\ unused \cap (DOMAIN role \cup DOMAIN permission \cup DOMAIN user) = {}

LEMMA TableStep ==
    ASSUME TypeInv, AccessNext
    PROVE  LinksExist' /\ unused' \subseteq unused
<1> DEFINE Goal == LinksExist' /\ unused' \subseteq unused
<1> SUFFICES Goal
  OBVIOUS
<1>0. LinksExist /\ SeedType
  BY DEF TypeInv, AccessTypeOK, LinksExist
<1> USE <1>0 DEF LinksExist, IsTable
<1>a. ASSUME UNCHANGED tables PROVE Goal
  BY <1>a DEF tables
<1>1. ASSUME NEW c \in Callers, UserCall(c) PROVE Goal
  <2>1. CASE SelfKeepsAdminRole(c) \/ FindAssignableRoles(c)
    BY <2>1, <1>a DEF SelfKeepsAdminRole, FindAssignableRoles, Proceed
  <2>2. CASE InsertUser(c) \/ InsertRegistered(c)
    <3> DEFINE row == [roles |-> call[c].ids, isAdmin |-> FALSE]
    <3>1. PICK u \in UserIds : InsertRow(user, u, row)
      BY <2>2, AccessConstants DEF InsertUser, InsertRegistered, InsertUserWithRoles, FreeEmails
    <3>2. call[c].ids \subseteq DOMAIN role /\ UNCHANGED <<role, permission>>
      BY <2>2 DEF InsertUser, InsertRegistered, InsertUserWithRoles
    <3>3. row \in UserRow /\ row.roles \subseteq DOMAIN role
      BY <3>2 DEF UserRow
    <3> HIDE DEF row
    <3>4. QED
      BY <3>1, <3>2, <3>3 DEF InsertRow, Put
  <2>3. CASE UpdateUser(c)
    BY <2>3 DEF UpdateUser, UserRow
  <2>4. CASE RemoveUsers(c)
    BY <2>4 DEF RemoveUsers, Drop
  <2>5. QED
    BY <1>1, <2>1, <2>2, <2>3, <2>4 DEF UserCall
<1>2. ASSUME NEW c \in Callers, RoleCall(c) PROVE Goal
  <2>1. CASE FindPermissions(c) \/ RoleIsMutable(c) \/ RolesAreRemovable(c)
    BY <2>1, <1>a DEF FindPermissions, RoleIsMutable, RolesAreRemovable, Proceed
  <2>2. CASE InsertRole(c)
    BY <2>2 DEF InsertRole, InsertRow, Put, RoleRow
  <2>3. CASE UpdateRole(c)
    <3> DEFINE r == call[c].on
    <3>1. PICK ids \in SUBSET DOMAIN permission, enabled \in BOOLEAN :
              role' = [role EXCEPT ![r] = [@ EXCEPT !.permissions = ids, !.enabled = enabled]]
      BY <2>3 DEF UpdateRole
    <3>2. r \in DOMAIN role /\ UNCHANGED <<permission, user, unused>>
      BY <2>3 DEF UpdateRole
    <3>3. [role[r] EXCEPT !.permissions = ids, !.enabled = enabled] \in RoleRow
      BY <3>2 DEF RoleRow
    <3> HIDE DEF r
    <3>4. DOMAIN role' = DOMAIN role /\ \A q \in DOMAIN role : role'[q] \in RoleRow /\ role'[q].permissions \subseteq DOMAIN permission
      BY <3>1, <3>2, <3>3 DEF RoleRow
    <3>5. IsTable(role', RoleIds, RoleRow)
      BY <3>1, <3>4
    <3>6. QED
      BY <3>2, <3>4, <3>5
  <2>4. CASE RemoveRoles(c)
    BY <2>4 DEF RemoveRoles, DeleteRoles, Drop, UserRow
  <2>5. QED
    BY <1>2, <2>1, <2>2, <2>3, <2>4 DEF RoleCall
<1>3. ASSUME NEW c \in Callers, PermissionCall(c) PROVE Goal
  <2>1. CASE PermissionIsMutable(c) \/ PermissionsAreMutable(c)
    BY <2>1, <1>a DEF PermissionIsMutable, PermissionsAreMutable, Proceed
  <2>2. CASE InsertPermission(c)
    BY <2>2 DEF InsertPermission, InsertRow, Put
  <2>3. CASE UpdatePermission(c)
    BY <2>3 DEF UpdatePermission
  <2>4. CASE RemovePermissions(c)
    BY <2>4 DEF RemovePermissions, DeletePermissions, Drop, RoleRow
  <2>5. QED
    BY <1>3, <2>1, <2>2, <2>3, <2>4 DEF PermissionCall
<1>4. CASE Seed
  <2>1. CASE \/ StartSeed \/ StopSeed \/ RolesSeeded \/ FindByCode \/ FindByPlace
             \/ FindRolePermissions \/ FindLegacy
    BY <2>1, <1>a DEF StartSeed, StopSeed, RolesSeeded, FindByCode, FindByPlace, FindRolePermissions, FindLegacy
  <2>2. CASE \E code \in RoleCodes : UpsertRole(code)
    <3>1. PICK code \in RoleCodes, r \in RoleIds :
              /\ \/ /\ r \in RowsWithCode(role, code)
                    /\ role' = [role EXCEPT ![r].enabled = TRUE]
                    /\ UNCHANGED unused
                 \/ InsertRow(role, r, [code |-> code, enabled |-> TRUE, permissions |-> {}])
              /\ UNCHANGED <<permission, user>>
      BY <2>2 DEF UpsertRole
    <3>2. CASE r \in RowsWithCode(role, code) /\ role' = [role EXCEPT ![r].enabled = TRUE] /\ UNCHANGED unused
      <4>1. r \in DOMAIN role /\ DOMAIN role' = DOMAIN role
        BY <3>2 DEF RowsWithCode
      <4>2. \A q \in DOMAIN role : role'[q] \in RoleRow /\ role'[q].permissions = role[q].permissions
        BY <3>2, <4>1 DEF RoleRow
      <4>3. IsTable(role', RoleIds, RoleRow)
        BY <3>2, <4>1, <4>2
      <4>4. QED
        BY <3>1, <3>2, <4>1, <4>2, <4>3
    <3>3. CASE InsertRow(role, r, [code |-> code, enabled |-> TRUE, permissions |-> {}])
      BY <3>1, <3>3 DEF InsertRow, Put, RoleRow
    <3>4. QED
      BY <3>1, <3>2, <3>3
  <2>3. CASE UpsertPermission
    <3>1. Head(seed.todo) \in Seeded /\ Head(seed.todo) \in PermissionCodes
      <4>1. seed.todo # <<>>
        BY <2>3 DEF UpsertPermission, SeedStep, SeedType
      <4>2. Seeded \subseteq PermissionCodes
        BY AccessConstants DEF Seeded
      <4>3. QED
        BY <4>1, <4>2 DEF SeedType
    <3>2. [code |-> Head(seed.todo), place |-> Head(seed.todo)] \in PermissionRow
      BY <3>1 DEF PermissionRow, Places
    <3>3. QED
      BY <2>3, <3>2 DEF UpsertPermission, InsertRow, Put
  <2>4. CASE ConnectAdmin \/ ConnectRolePermissions
    <3>1. PICK r \in DOMAIN role : role' = [role EXCEPT ![r].permissions = @ \cup seed.ids]
      BY <2>4 DEF ConnectAdmin, ConnectRolePermissions, Connect
    <3>2. seed.ids \subseteq DOMAIN permission /\ UNCHANGED <<permission, user, unused>>
      BY <2>4 DEF ConnectAdmin, ConnectRolePermissions, Connect
    <3>3. DOMAIN role' = DOMAIN role /\ \A q \in DOMAIN role : role'[q] \in RoleRow /\ role'[q].permissions \subseteq DOMAIN permission
      BY <3>1, <3>2 DEF RoleRow
    <3>4. IsTable(role', RoleIds, RoleRow)
      BY <3>1, <3>3
    <3>5. QED
      BY <3>2, <3>3, <3>4
  <2>5. CASE UpsertAdminUser
    <3> DEFINE r == seed.rows[Admin]
    <3>1. r \in DOMAIN role /\ UNCHANGED <<role, permission>>
      BY <2>5 DEF UpsertAdminUser
    <3>2. PICK u \in UserIds :
              LET held == IF u \in DOMAIN user THEN user[u].roles ELSE {}
                  row == [roles |-> held \cup {r}, isAdmin |-> TRUE]
              IN  \/ InsertRow(user, u, row)
                  \/ u \in DOMAIN user /\ user' = [user EXCEPT ![u] = row] /\ UNCHANGED unused
      BY <2>5, AccessConstants DEF UpsertAdminUser
    <3> DEFINE row == [roles |-> (IF u \in DOMAIN user THEN user[u].roles ELSE {}) \cup {r}, isAdmin |-> TRUE]
    <3>3. row \in UserRow /\ row.roles \subseteq DOMAIN role
      BY <3>1 DEF UserRow
    <3>4. \/ InsertRow(user, u, row)
          \/ u \in DOMAIN user /\ user' = [user EXCEPT ![u] = row] /\ UNCHANGED unused
      BY <3>2
    <3> HIDE DEF r, row
    <3>5. CASE InsertRow(user, u, row)
      BY <3>1, <3>3, <3>5 DEF InsertRow, Put
    <3>6. CASE u \in DOMAIN user /\ user' = [user EXCEPT ![u] = row] /\ UNCHANGED unused
      BY <3>1, <3>3, <3>6
    <3>7. QED
      BY <3>4, <3>5, <3>6
  <2>6. CASE CopyLegacyLinks
    BY <2>6 DEF CopyLegacyLinks, RoleRow
  <2>7. CASE DeleteLegacy
    BY <2>7 DEF DeleteLegacy, DeletePermissions, Drop, RoleRow
  <2>8. QED
    BY <1>4, <2>1, <2>2, <2>3, <2>4, <2>5, <2>6, <2>7 DEF Seed
<1>5. ASSUME NEW c \in Callers, Abort(c) PROVE Goal
  BY <1>5, <1>a DEF Abort
<1>6. ASSUME NEW c \in Callers, Arrives(c) PROVE Goal
  BY <1>6, <1>a, BeginShape DEF Begins
<1>7. QED
  BY <1>1, <1>2, <1>3, <1>4, <1>5, <1>6 DEF AccessNext, Arrives

Proceeds(c, to) ==
    call' = [call EXCEPT ![c].step = to] /\ UNCHANGED <<tables, calls, seed, excuse>>

(* A call that is under way moves on without a trace, or ends. *)
LEMMA CallShape ==
    ASSUME NEW c \in Callers, UserCall(c) \/ RoleCall(c) \/ PermissionCall(c) \/ Abort(c)
    PROVE  \/ call[c].step = "self" /\ Proceeds(c, "assign")
           \/ call[c].step \in {"assign", "check"} /\ Proceeds(c, "write")
           \/ call' = [call EXCEPT ![c] = NoCall] /\ UNCHANGED <<calls, seed>>
<1> USE DEF Proceed, Proceeds, End
<1>1. CASE UserCall(c)
  BY <1>1 DEF UserCall, SelfKeepsAdminRole, FindAssignableRoles, InsertUser, InsertRegistered, InsertUserWithRoles,
          UpdateUser, RemoveUsers
<1>2. CASE RoleCall(c)
  BY <1>2 DEF RoleCall, FindPermissions, InsertRole, RoleIsMutable, UpdateRole, RolesAreRemovable, RemoveRoles
<1>3. CASE PermissionCall(c)
  BY <1>3 DEF PermissionCall, InsertPermission, PermissionIsMutable, UpdatePermission,
              PermissionsAreMutable, RemovePermissions
<1>4. CASE Abort(c)
  BY <1>4 DEF Abort
<1>5. QED
  BY <1>1, <1>2, <1>3, <1>4

LEMMA SeedShape ==
    ASSUME TypeInv, Seed
    PROVE  SeedType' /\ UNCHANGED call /\ calls' + seed'.runs \in 0..MaxWork /\ calls' \in Nat
<1>0. SeedType /\ calls \in Nat /\ calls + seed.runs \in 0..MaxWork /\ DOMAIN permission \subseteq PermissionIds
  BY DEF TypeInv, AccessTypeOK, IsTable
<1> USE <1>0, AccessConstants DEF SeedType, SeedSteps, Seeding, Migration, SeedStep
<1> DEFINE Goal == SeedType' /\ UNCHANGED call /\ calls' + seed'.runs \in 0..MaxWork /\ calls' \in Nat
<1>1. CASE StartSeed
  <2>1. seed' = [step |-> "roles", todo |-> <<>>, rows |-> <<>>, found |-> {}, ids |-> {}, runs |-> seed.runs + 1]
    BY <1>1 DEF StartSeed, NoSeed
  <2>2. SeedType'
    BY <2>1 DEF SeedIsRecord
  <2>3. UNCHANGED <<call, calls>> /\ calls + seed.runs < MaxWork /\ seed'.runs = seed.runs + 1
    BY <1>1, <2>1 DEF StartSeed
  <2>4. calls' + seed'.runs \in 0..MaxWork
    BY <2>3
  <2>5. QED
    BY <2>2, <2>3, <2>4
<1>2. CASE StopSeed
  <2>1. seed' = [step |-> "failed", todo |-> <<>>, rows |-> <<>>, found |-> {}, ids |-> {}, runs |-> seed.runs]
    BY <1>2 DEF StopSeed, NoSeed
  <2>2. SeedType'
    BY <2>1 DEF SeedIsRecord
  <2>3. QED
    BY <1>2, <2>1, <2>2 DEF StopSeed
<1>3. CASE \E code \in RoleCodes : UpsertRole(code)
  BY <1>3 DEF UpsertRole, SeedIsRecord
<1>4. CASE RolesSeeded
  <2>1. PermissionSeeds \in Seq(Seeded)
    BY AccessConstants DEF Seeded
  <2>2. QED
    BY <1>4, <2>1 DEF RolesSeeded, SeedIsRecord
<1>5. CASE FindByCode \/ FindByPlace
  BY <1>5 DEF FindByCode, FindByPlace, SeedIsRecord
<1>6. CASE UpsertPermission
  <2>1. PICK p \in PermissionIds :
            SeedStep("upsert", [seed EXCEPT !.step = "byCode", !.todo = Tail(@), !.ids = @ \cup {p}])
    BY <1>6 DEF UpsertPermission
  <2>2. Tail(seed.todo) \in Seq(Seeded)
    BY <2>1
  <2>3. seed' = [step |-> "byCode", todo |-> Tail(seed.todo), rows |-> seed.rows,
                 found |-> seed.found, ids |-> seed.ids \cup {p}, runs |-> seed.runs]
    BY <2>1 DEF SeedIsRecord
  <2>4. SeedIsRecord' /\ seed'.step = "byCode" /\ seed'.runs = seed.runs
    BY <2>3 DEF SeedIsRecord
  <2>5. seed'.todo \in Seq(Seeded) /\ seed'.ids \subseteq PermissionIds
    BY <2>2, <2>3
  <2>6. SeedType'
    BY <2>4, <2>5
  <2>7. QED
    BY <2>1, <2>4, <2>6
<1>7. CASE ConnectAdmin \/ FindRolePermissions \/ ConnectRolePermissions \/ UpsertAdminUser
  <2>1. CASE ConnectAdmin
    BY <2>1 DEF ConnectAdmin, SeedIsRecord
  <2>2. CASE FindRolePermissions
    <3>1. PICK code \in DOMAIN seed.rows \ {Admin} :
              seed' = [seed EXCEPT !.step = "connect", !.found = {code},
                         !.ids = {p \in DOMAIN permission : permission[p].code \in RoleSeeds[code]}]
      BY <2>2 DEF FindRolePermissions
    <3>2. seed'.ids \subseteq DOMAIN permission /\ SeedIsRecord' /\ seed'.step = "connect"
          /\ seed'.todo = seed.todo /\ seed'.runs = seed.runs
      BY <3>1 DEF SeedIsRecord
    <3>3. QED
      BY <2>2, <3>2 DEF FindRolePermissions
  <2>3. CASE ConnectRolePermissions
    BY <2>3 DEF ConnectRolePermissions, SeedIsRecord
  <2>4. CASE UpsertAdminUser
    BY <2>4 DEF UpsertAdminUser, SeedIsRecord
  <2>5. QED
    BY <1>7, <2>1, <2>2, <2>3, <2>4
<1>8. CASE FindLegacy \/ CopyLegacyLinks \/ DeleteLegacy
  <2>1. CASE FindLegacy
    BY <2>1 DEF FindLegacy, RowsWithCode, SeedIsRecord
  <2>2. CASE CopyLegacyLinks
    BY <2>2 DEF CopyLegacyLinks, SeedIsRecord
  <2>3. CASE DeleteLegacy
    BY <2>3 DEF DeleteLegacy, SeedIsRecord
  <2>4. QED
    BY <1>8, <2>1, <2>2, <2>3
<1>9. QED
  BY <1>1, <1>2, <1>3, <1>4, <1>5, <1>6, <1>7, <1>8 DEF Seed

LEMMA TypeStep == TypeInv /\ [AccessNext]_accessVars => TypeInv'
<1> SUFFICES ASSUME TypeInv, [AccessNext]_accessVars PROVE TypeInv'
  OBVIOUS
<1>1. CASE UNCHANGED accessVars
  BY <1>1 DEF TypeInv, AccessTypeOK, Knows, SeedType, SeedIsRecord, accessVars, tables
<1>2. CASE AccessNext
  <2>0. call \in [Callers -> CallType] /\ calls \in Nat /\ calls + seed.runs \in 0..MaxWork /\ SeedType
    BY DEF TypeInv, AccessTypeOK
  <2>1. LinksExist' /\ unused' \subseteq unused
    BY <1>2, TableStep
  <2>2. \A x : Knows(x) => Knows(x)'
    BY <2>1 DEF Knows
  <2> DEFINE Goal == /\ call' \in [Callers -> CallType] /\ \A c \in Callers : Knows(call[c])'
                     /\ calls' \in Nat /\ calls' + seed'.runs \in 0..MaxWork /\ SeedType'
  <2>3. Goal
    <3>1. ASSUME NEW c \in Callers, Arrives(c) PROVE Goal
      <4>1. PICK u \in Senders : \E x : Begins(c, u, x)
        BY <3>1, BeginShape
      <4>2. PICK x : Begins(c, u, x)
        BY <4>1
      <4>3. x \in CallType /\ Knows(x)'
        BY <2>2, <4>2 DEF Begins, Request
      <4>4. \A d \in Callers : Knows(call[d])'
        <5>1. \A d \in Callers : call'[d] = IF d = c THEN x ELSE call[d]
          BY <2>0, <4>2 DEF Begins
        <5>2. QED
          BY <2>2, <4>3, <5>1 DEF TypeInv, Knows
      <4>5. QED
        BY <2>0, <4>2, <4>3, <4>4, AccessConstants DEF Begins, SeedType, SeedIsRecord
    <3>2. ASSUME NEW c \in Callers, UserCall(c) \/ RoleCall(c) \/ PermissionCall(c) \/ Abort(c) PROVE Goal
      <4>1. CASE \/ call[c].step = "self" /\ Proceeds(c, "assign")
                 \/ call[c].step \in {"assign", "check"} /\ Proceeds(c, "write")
        <5>1. PICK to \in {"assign", "write"} : Proceeds(c, to) /\ (to = "assign" => call[c].step = "self")
          BY <4>1
        <5>2. \A d \in Callers : call'[d] = IF d = c THEN [call[c] EXCEPT !.step = to] ELSE call[d]
          BY <2>0, <5>1 DEF Proceeds
        <5>3. [call[c] EXCEPT !.step = to] \in CallType /\ Knows([call[c] EXCEPT !.step = to])
          BY <2>0, <5>1 DEF CallType, TypeInv, Knows
        <5>4. call' \in [Callers -> CallType]
          BY <2>0, <5>1, <5>3 DEF Proceeds
        <5>5. \A d \in Callers : Knows(call[d])'
          <6>1. ASSUME NEW d \in Callers, d # c PROVE Knows(call[d])'
            BY <2>1, <5>2, <6>1 DEF TypeInv, Knows
          <6>2. Knows(call[c])'
            <7> DEFINE x == [call[c] EXCEPT !.step = to]
            <7>1. Knows(x) /\ call'[c] = x
              BY <5>2, <5>3
            <7> HIDE DEF x
            <7>2. QED
              BY <2>1, <7>1 DEF Knows
          <6>3. QED
            BY <6>1, <6>2
        <5>6. QED
          BY <2>0, <5>1, <5>4, <5>5 DEF Proceeds, SeedType, SeedIsRecord
      <4>2. CASE call' = [call EXCEPT ![c] = NoCall] /\ UNCHANGED <<calls, seed>>
        <5>1. NoCall \in CallType /\ Knows(NoCall)
          BY AccessConstants DEF NoCall, CallType, Knows, Operations
        <5>2. \A d \in Callers : call'[d] = IF d = c THEN NoCall ELSE call[d]
          BY <2>0, <4>2
        <5>3. \A d \in Callers : Knows(call[d])'
          BY <2>2, <5>1, <5>2 DEF TypeInv, Knows
        <5>4. QED
          BY <2>0, <4>2, <5>1, <5>3 DEF SeedType, SeedIsRecord
      <4>3. QED
        BY <3>2, <4>1, <4>2, CallShape
    <3>3. CASE Seed
      BY <3>3, <2>0, <2>2, SeedShape DEF TypeInv, Knows
    <3>4. QED
      BY <1>2, <3>1, <3>2, <3>3 DEF AccessNext, Arrives
  <2>4. QED
    BY <2>1, <2>3 DEF LinksExist, TypeInv, AccessTypeOK, CallType
<1>3. QED
  BY <1>1, <1>2

----------------------------------------------------------------------------
(* Roles *)

RolesKept ==
    /\ \A r \in DOMAIN role' :
           IF r \in DOMAIN role THEN role'[r].code = role[r].code ELSE r \in unused /\ r \notin unused'
    /\ \A r \in AdminRole : r \in AdminRole' /\ (role[r].enabled => role'[r].enabled)

(* No step takes an admin role away, renames a role or disables an admin role. *)
LEMMA RolesAreKept ==
    ASSUME TypeInv, \A c \in Callers : RoleInv(c), AccessNext
    PROVE  RolesKept
<1>0. role \in [DOMAIN role -> RoleRow] /\ unused \cap DOMAIN role = {}
  BY DEF TypeInv, AccessTypeOK, IsTable
<1> USE <1>0 DEF RolesKept, AdminRole, RowsWithCode
<1>1. ASSUME NEW c \in Callers, RoleCall(c) PROVE RolesKept
  <2>1. CASE FindPermissions(c) \/ RoleIsMutable(c) \/ RolesAreRemovable(c)
    BY <2>1 DEF FindPermissions, RoleIsMutable, RolesAreRemovable, Proceed, tables
  <2>2. CASE InsertRole(c)
    BY <2>2 DEF InsertRole, InsertRow, Put
  <2>3. CASE UpdateRole(c)
    <3> DEFINE r == call[c].on
    <3>1. PICK ids, enabled : role' = [role EXCEPT ![r] = [@ EXCEPT !.permissions = ids, !.enabled = enabled]]
      BY <2>3 DEF UpdateRole
    <3>2. r \in DOMAIN role \ AdminRole
      BY <2>3 DEF UpdateRole, RoleInv, AtWrite
    <3>3. role'[r].code = role[r].code
      BY <3>1, <3>2 DEF RoleRow
    <3>4. QED
      BY <3>1, <3>2, <3>3
  <2>4. CASE RemoveRoles(c)
    BY <2>4 DEF RemoveRoles, DeleteRoles, Drop, RoleInv
  <2>5. QED
    BY <1>1, <2>1, <2>2, <2>3, <2>4 DEF RoleCall
<1>2. ASSUME NEW c \in Callers, UserCall(c) \/ PermissionCall(c) \/ Abort(c) PROVE RolesKept
  <2>1. CASE UNCHANGED role
    BY <2>1
  <2>2. CASE RemovePermissions(c)
    BY <2>2 DEF RemovePermissions, DeletePermissions, RoleRow
  <2>3. QED
    BY <1>2, <2>1, <2>2 DEF UserCall, SelfKeepsAdminRole, FindAssignableRoles, InsertUser, InsertRegistered, InsertUserWithRoles,
            UpdateUser, RemoveUsers,
          PermissionCall, InsertPermission, PermissionIsMutable, UpdatePermission, PermissionsAreMutable,
          Abort, Proceed, tables
<1>3. CASE Seed
  <2>1. CASE UNCHANGED role
    BY <2>1
  <2>2. ASSUME NEW code \in RoleCodes, UpsertRole(code) PROVE RolesKept
    <3>1. PICK r \in RoleIds :
              \/ r \in RowsWithCode(role, code) /\ role' = [role EXCEPT ![r].enabled = TRUE]
              \/ InsertRow(role, r, [code |-> code, enabled |-> TRUE, permissions |-> {}])
      BY <2>2 DEF UpsertRole
    <3>2. CASE r \in RowsWithCode(role, code) /\ role' = [role EXCEPT ![r].enabled = TRUE]
      BY <3>2 DEF RoleRow
    <3>3. CASE InsertRow(role, r, [code |-> code, enabled |-> TRUE, permissions |-> {}])
      BY <3>3 DEF InsertRow, Put
    <3>4. QED
      BY <3>1, <3>2, <3>3
  <2>3. CASE ConnectAdmin \/ ConnectRolePermissions
    <3>1. PICK r \in DOMAIN role : role' = [role EXCEPT ![r].permissions = @ \cup seed.ids]
      BY <2>3 DEF ConnectAdmin, ConnectRolePermissions, Connect
    <3>2. QED
      BY <3>1 DEF RoleRow
  <2>4. CASE CopyLegacyLinks
    BY <2>4 DEF CopyLegacyLinks, RoleRow
  <2>5. CASE DeleteLegacy
    BY <2>5 DEF DeleteLegacy, DeletePermissions, RoleRow
  <2>6. QED
    BY <1>3, <2>1, <2>2, <2>3, <2>4, <2>5 DEF Seed, StartSeed, StopSeed, RolesSeeded, FindByCode, FindByPlace,
          UpsertPermission, FindRolePermissions, UpsertAdminUser, FindLegacy, tables
<1>4. ASSUME NEW c \in Callers, Arrives(c) PROVE RolesKept
  BY <1>4, BeginShape DEF Begins, tables
<1>5. QED
  BY <1>1, <1>2, <1>3, <1>4 DEF AccessNext, Arrives

(* What a step does to a call: it begins, moves on, ends, or is another's. *)
CallMoves(c) ==
    \/ call'[c] = call[c]
    \/ \E u \in Senders : Begins(c, u, call'[c])
    \/ call[c].step = "self" /\ call'[c] = [call[c] EXCEPT !.step = "assign"] /\ UserCall(c)
    \/ /\ call[c].step \in {"assign", "check"} /\ call'[c] = [call[c] EXCEPT !.step = "write"]
       /\ UserCall(c) \/ RoleCall(c) \/ PermissionCall(c)
    \/ call'[c] = NoCall

LEMMA CallsMove ==
    ASSUME TypeInv, AccessNext, NEW c \in Callers
    PROVE  CallMoves(c)
<1>0. call \in [Callers -> CallType]
  BY DEF TypeInv
<1>1. ASSUME NEW d \in Callers, Arrives(d) PROVE CallMoves(c)
  <2>1. PICK u \in Senders : \E x : Begins(d, u, x)
    BY <1>1, BeginShape
  <2>2. PICK x : Begins(d, u, x)
    BY <2>1
  <2>3. QED
    BY <1>0, <2>2 DEF CallMoves, Begins
<1>2. ASSUME NEW d \in Callers, UserCall(d) \/ RoleCall(d) \/ PermissionCall(d) \/ Abort(d) PROVE CallMoves(c)
  <2>1. CASE Abort(d)
    BY <1>0, <2>1 DEF Abort, End, CallMoves
  <2>2. CASE UserCall(d)
    BY <1>0, <2>2 DEF UserCall, SelfKeepsAdminRole, FindAssignableRoles, InsertUser, InsertRegistered, InsertUserWithRoles,
            UpdateUser, RemoveUsers,
                      Proceed, End, CallMoves
  <2>3. CASE RoleCall(d)
    BY <1>0, <2>3, CallShape DEF Proceeds, CallMoves, RoleCall, FindPermissions, InsertRole, RoleIsMutable, UpdateRole,
                      RolesAreRemovable, RemoveRoles, Proceed, End
  <2>4. CASE PermissionCall(d)
    BY <1>0, <2>4 DEF PermissionCall, InsertPermission, PermissionIsMutable, UpdatePermission,
                      PermissionsAreMutable, RemovePermissions, Proceed, End, CallMoves
  <2>5. QED
    BY <1>2, <2>1, <2>2, <2>3, <2>4
<1>3. CASE Seed
  BY <1>3, SeedShape DEF CallMoves
<1>4. QED
  BY <1>1, <1>2, <1>3 DEF AccessNext, Arrives

LEMMA RoleInvStep ==
    ASSUME TypeInv, \A c \in Callers : RoleInv(c), AccessNext, NEW c \in Callers
    PROVE  RoleInv(c)'
<1>0. /\ RolesKept /\ CallMoves(c) /\ Knows(call[c]) /\ RoleInv(c)
      /\ call \in [Callers -> CallType] /\ call' \in [Callers -> CallType]
  BY RolesAreKept, CallsMove, TypeStep DEF TypeInv
<1> USE <1>0
<1>1. \A r \in AdminRole' : r \in AdminRole \/ r \in unused
  BY DEF RolesKept, AdminRole, RowsWithCode
<1>2. CASE call'[c] = call[c]
  BY <1>1, <1>2 DEF RoleInv, AtWrite, Knows
<1>3. CASE \E u \in Senders : Begins(c, u, call'[c])
  BY <1>3 DEF RoleInv, AtWrite, Begins, Request
<1>4. CASE call'[c] = [call[c] EXCEPT !.step = "assign"] \/ call'[c] = NoCall
  BY <1>4 DEF RoleInv, AtWrite, NoCall, CallType
<1>5. ASSUME call'[c] = [call[c] EXCEPT !.step = "write"], call[c].step \in {"assign", "check"}
      PROVE  RoleInv(c)'
  <2>1. /\ call'[c].step = "write" /\ call'[c].op = call[c].op /\ call'[c].on = call[c].on
        /\ call'[c].ids = call[c].ids
    BY <1>5 DEF CallType
  <2>2. CASE UserCall(c)
    <3>1. call[c].op \in {"createUser", "updateUser"} \/ call[c].step = "check"
      BY <1>5 DEF Knows
    <3>2. call[c].step # "check"
      BY <2>1, <2>2, <1>5 DEF UserCall, SelfKeepsAdminRole, FindAssignableRoles, InsertUser, InsertRegistered, InsertUserWithRoles,
              UpdateUser, RemoveUsers,
                              Proceed, AtWrite
    <3>3. QED
      BY <2>1, <3>1, <3>2 DEF RoleInv, AtWrite
  <2>3. CASE RoleCall(c)
    BY <1>5, <2>1, <2>3, <1>1, ZenonT(40) DEF RoleCall, FindPermissions, InsertRole, RoleIsMutable, UpdateRole, RolesAreRemovable,
                       RemoveRoles, Proceed, AtWrite, RoleInv, tables, AdminRole, RowsWithCode
  <2>4. CASE PermissionCall(c)
    BY <1>5, <2>1, <2>4 DEF PermissionCall, InsertPermission, PermissionIsMutable, UpdatePermission,
                       PermissionsAreMutable, RemovePermissions, Proceed, AtWrite, RoleInv
  <2>5. QED
    BY <1>5, <2>1, <2>2, <2>3, <2>4 DEF CallMoves, CallType, NoCall, Begins, Request
<1>6. QED
  BY <1>2, <1>3, <1>4, <1>5 DEF CallMoves

LEMMA AdminInvStep ==
    ASSUME TypeInv, AdminInv, \A c \in Callers : RoleInv(c), AccessNext
    PROVE  AdminInv'
<1>0. RolesKept /\ SeedIsRecord /\ LinksExist
  BY RolesAreKept DEF TypeInv, SeedType, AccessTypeOK, LinksExist
<1> USE <1>0
<1>1. CASE UNCHANGED seed
  BY <1>1 DEF AdminInv, RolesKept
<1>2. CASE Seed
  <2>1. CASE StartSeed \/ StopSeed
    <3>1. seed'.rows = <<>> /\ seed'.step \in {"roles", "failed"}
      BY <2>1 DEF StartSeed, StopSeed, NoSeed
    <3>2. Admin \notin DOMAIN seed'.rows
      BY <3>1
    <3>3. QED
      BY <3>1, <3>2 DEF AdminInv, Seeding
  <2>2. ASSUME NEW code \in RoleCodes, UpsertRole(code) PROVE AdminInv'
    <3>1. PICK r \in RoleIds :
              /\ SeedStep("roles", [seed EXCEPT !.rows = Put(@, code, r)])
              /\ \/ r \in RowsWithCode(role, code) /\ role' = [role EXCEPT ![r].enabled = TRUE]
                 \/ InsertRow(role, r, [code |-> code, enabled |-> TRUE, permissions |-> {}])
      BY <2>2 DEF UpsertRole
    <3>2. r \in DOMAIN role' /\ role'[r].code = code /\ role'[r].enabled
      BY <3>1 DEF RowsWithCode, InsertRow, Put, LinksExist, IsTable, RoleRow
    <3>3. seed'.rows = Put(seed.rows, code, r) /\ seed'.step = "roles"
      BY <3>1 DEF SeedStep, SeedIsRecord
    <3>4. QED
      BY <3>2, <3>3 DEF AdminInv, RolesKept, Put, Seeding, AdminRole, RowsWithCode
  <2>3. CASE RolesSeeded
    <3>1. Admin \in DOMAIN seed.rows /\ seed'.rows = seed.rows /\ seed'.step = "byCode"
      BY <2>3, AccessConstants DEF RolesSeeded, SeedStep, SeedIsRecord
    <3>2. QED
      BY <3>1 DEF AdminInv, RolesKept
  <2>4. CASE FindByCode \/ FindByPlace \/ UpsertPermission \/ ConnectAdmin
    <3>1. seed.step \in Seeding /\ seed'.rows = seed.rows /\ seed'.step # "connect"
      BY <2>4 DEF FindByCode, FindByPlace, UpsertPermission, ConnectAdmin, SeedStep, SeedIsRecord, Seeding
    <3>2. QED
      BY <3>1 DEF AdminInv, RolesKept
  <2>5. CASE FindRolePermissions \/ UpsertAdminUser
    <3>1. /\ seed'.rows = seed.rows /\ seed.step = "others"
          /\ seed'.step = "connect" => Admin \notin seed'.found
      <4>1. CASE FindRolePermissions
        <5>1. PICK code \in DOMAIN seed.rows \ {Admin} :
                  SeedStep("others", [seed EXCEPT !.step = "connect", !.found = {code},
                      !.ids = {p \in DOMAIN permission : permission[p].code \in RoleSeeds[code]}])
          BY <4>1 DEF FindRolePermissions
        <5>2. QED
          BY <5>1 DEF SeedStep, SeedIsRecord
      <4>2. CASE UpsertAdminUser
        BY <4>2 DEF UpsertAdminUser, SeedStep, SeedIsRecord
      <4>3. QED
        BY <2>5, <4>1, <4>2
    <3>2. QED
      BY <3>1 DEF AdminInv, RolesKept
  <2>6. CASE ConnectRolePermissions
    <3>1. PICK code \in seed.found : SeedStep("connect", [seed EXCEPT !.step = "others",
                                            !.rows = Drop(@, {code}), !.found = {}, !.ids = {}])
      BY <2>6 DEF ConnectRolePermissions
    <3>2. seed'.rows = Drop(seed.rows, {code}) /\ seed.step = "connect" /\ seed'.step = "others"
      BY <3>1 DEF SeedStep, SeedIsRecord
    <3>3. Admin \in DOMAIN seed.rows /\ code # Admin
      BY <3>1, <3>2 DEF AdminInv
    <3>4. Admin \in DOMAIN seed'.rows /\ seed'.rows[Admin] = seed.rows[Admin]
      BY <3>2, <3>3 DEF Drop
    <3>5. QED
      BY <3>2, <3>3, <3>4 DEF AdminInv, RolesKept
  <2>7. CASE FindLegacy
    BY <2>7 DEF FindLegacy, SeedStep, SeedIsRecord, AdminInv, Seeding
  <2>8. CASE CopyLegacyLinks \/ DeleteLegacy
    <3>1. seed'.rows = seed.rows /\ seed'.step \in {"legacyDelete", "done"}
      BY <2>8 DEF CopyLegacyLinks, DeleteLegacy, SeedStep, SeedIsRecord
    <3>2. QED
      BY <3>1 DEF AdminInv, RolesKept, Seeding
  <2>9. QED
    BY <1>2, <2>1, <2>2, <2>3, <2>4, <2>5, <2>6, <2>7, <2>8 DEF Seed
<1>3. ASSUME NEW c \in Callers, Arrives(c) PROVE UNCHANGED seed
  BY <1>3, BeginShape DEF Begins
<1>4. ASSUME NEW c \in Callers, UserCall(c) \/ RoleCall(c) \/ PermissionCall(c) \/ Abort(c) PROVE UNCHANGED seed
  BY <1>4, CallShape DEF Proceeds
<1>5. QED
  BY <1>1, <1>2, <1>3, <1>4 DEF AccessNext, Arrives

----------------------------------------------------------------------------
(* Grants *)

LEMMA ExcuseGrows == ASSUME TypeInv, AccessNext PROVE excuse \subseteq excuse'
<1> USE DEF Excuse
<1>1. ASSUME NEW c \in Callers, Arrives(c) PROVE excuse \subseteq excuse'
  BY <1>1, BeginShape DEF Begins
<1>2. ASSUME NEW c \in Callers, UserCall(c) PROVE excuse \subseteq excuse'
  BY <1>2 DEF UserCall, SelfKeepsAdminRole, FindAssignableRoles, InsertUser, InsertRegistered, InsertUserWithRoles,
          UpdateUser, RemoveUsers, Proceed
<1>3. ASSUME NEW c \in Callers, RoleCall(c) PROVE excuse \subseteq excuse'
  BY <1>3 DEF RoleCall, FindPermissions, InsertRole, RoleIsMutable, UpdateRole, RolesAreRemovable, RemoveRoles, Proceed
<1>4. ASSUME NEW c \in Callers, PermissionCall(c) \/ Abort(c) PROVE excuse \subseteq excuse'
  BY <1>4 DEF PermissionCall, InsertPermission, PermissionIsMutable, UpdatePermission, PermissionsAreMutable,
              RemovePermissions, Abort, Proceed
<1>5. CASE Seed
  BY <1>5 DEF Seed, StartSeed, StopSeed, UpsertRole, RolesSeeded, FindByCode, FindByPlace, UpsertPermission,
       ConnectAdmin, FindRolePermissions, ConnectRolePermissions, Connect, UpsertAdminUser, FindLegacy,
       CopyLegacyLinks, DeleteLegacy
<1>6. QED
  BY <1>1, <1>2, <1>3, <1>4, <1>5 DEF AccessNext, Arrives

AboutToGive(c, r) ==
    AtWrite(c, {"createUser", "updateUser"}) /\ call[c].ids # None /\ r \in call[c].ids

(* Only an update disables a role, and it leaves an excuse to the calls about to give it. *)
LEMMA DisablingExcuses ==
    ASSUME TypeInv, AccessNext, NEW r \in DOMAIN role, r \in DOMAIN role', role[r].enabled, ~role'[r].enabled,
           NEW c \in Callers, AboutToGive(c, r)
    PROVE  r \in excuse'
<1>0. role \in [DOMAIN role -> RoleRow] /\ unused \cap DOMAIN role = {}
  BY DEF TypeInv, AccessTypeOK, IsTable
<1> USE <1>0
<1>a. role' # role
  OBVIOUS
<1>1. ASSUME NEW d \in Callers, RoleCall(d) PROVE r \in excuse'
  <2>1. CASE FindPermissions(d) \/ RoleIsMutable(d) \/ RolesAreRemovable(d)
    BY <2>1, <1>a DEF FindPermissions, RoleIsMutable, RolesAreRemovable, Proceed, tables
  <2>2. CASE InsertRole(d)
    BY <2>2 DEF InsertRole, InsertRow, Put
  <2>3. CASE UpdateRole(d)
    <3> DEFINE on == call[d].on
    <3>1. PICK ids \in SUBSET DOMAIN permission, enabled \in BOOLEAN :
              /\ role' = [role EXCEPT ![on] = [@ EXCEPT !.permissions = ids, !.enabled = enabled]]
              /\ ~enabled /\ (\E e \in Callers : AboutToGive(e, on)) => on \in excuse'
      BY <2>3 DEF UpdateRole, AboutToGive
    <3>2. on \in DOMAIN role
      BY <2>3 DEF UpdateRole
    <3>3. on = r /\ enabled = role'[r].enabled
      BY <3>1, <3>2 DEF RoleRow
    <3>4. QED
      BY <3>1, <3>3
  <2>4. CASE RemoveRoles(d)
    BY <2>4 DEF RemoveRoles, DeleteRoles, Drop
  <2>5. QED
    BY <1>1, <2>1, <2>2, <2>3, <2>4 DEF RoleCall
<1>2. ASSUME NEW d \in Callers, UserCall(d) \/ PermissionCall(d) \/ Abort(d) PROVE FALSE
  <2>1. CASE RemovePermissions(d)
    BY <2>1 DEF RemovePermissions, DeletePermissions, RoleRow
  <2>2. QED
    BY <1>2, <1>a, <2>1 DEF UserCall, SelfKeepsAdminRole, FindAssignableRoles, InsertUser, InsertRegistered, InsertUserWithRoles,
            UpdateUser, RemoveUsers,
          PermissionCall, InsertPermission, PermissionIsMutable, UpdatePermission, PermissionsAreMutable,
          Abort, Proceed, tables
<1>3. CASE Seed
  <2>1. ASSUME NEW code \in RoleCodes, UpsertRole(code) PROVE FALSE
    <3>1. PICK q \in RoleIds :
              \/ q \in RowsWithCode(role, code) /\ role' = [role EXCEPT ![q].enabled = TRUE]
              \/ InsertRow(role, q, [code |-> code, enabled |-> TRUE, permissions |-> {}])
      BY <2>1 DEF UpsertRole
    <3>2. QED
      BY <3>1 DEF InsertRow, Put, RowsWithCode, RoleRow
  <2>2. CASE ConnectAdmin \/ ConnectRolePermissions
    <3>1. PICK q \in DOMAIN role : role' = [role EXCEPT ![q].permissions = @ \cup seed.ids]
      BY <2>2 DEF ConnectAdmin, ConnectRolePermissions, Connect
    <3>2. QED
      BY <3>1 DEF RoleRow
  <2>3. CASE CopyLegacyLinks
    BY <2>3 DEF CopyLegacyLinks, RoleRow
  <2>4. CASE DeleteLegacy
    BY <2>4 DEF DeleteLegacy, DeletePermissions, RoleRow
  <2>5. QED
    BY <1>3, <1>a, <2>1, <2>2, <2>3, <2>4 DEF Seed, StartSeed, StopSeed, RolesSeeded, FindByCode, FindByPlace,
          UpsertPermission, FindRolePermissions, UpsertAdminUser, FindLegacy, tables
<1>4. ASSUME NEW d \in Callers, Arrives(d) PROVE FALSE
  BY <1>4, <1>a, BeginShape DEF Begins, tables
<1>5. QED
  BY <1>1, <1>2, <1>3, <1>4 DEF AccessNext, Arrives

LEMMA GrantInvStep ==
    ASSUME TypeInv, \A d \in Callers : RoleInv(d), NEW c \in Callers, GrantInv(c), AccessNext
    PROVE  GrantInv(c)'
<1>0. /\ RolesKept /\ CallMoves(c) /\ Knows(call[c]) /\ excuse \subseteq excuse'
      /\ call \in [Callers -> CallType] /\ call' \in [Callers -> CallType]
  BY RolesAreKept, CallsMove, TypeStep, ExcuseGrows DEF TypeInv
<1>1. ASSUME AtWrite(c, {"createUser", "updateUser"})', call'[c].ids # None,
             NEW r \in call'[c].ids, r \in DOMAIN role'
      PROVE  role'[r].enabled \/ r \in excuse'
  <2>1. CASE call'[c] = call[c]
    <3>1. AboutToGive(c, r)
      BY <1>1, <2>1 DEF AboutToGive, AtWrite
    <3>2. r \in DOMAIN role
      BY <1>0, <1>1, <3>1 DEF AboutToGive, AtWrite, Knows, RolesKept
    <3>3. role[r].enabled \/ r \in excuse
      BY <3>1, <3>2 DEF AboutToGive, GrantInv
    <3>4. QED
      BY <1>0, <1>1, <3>1, <3>2, <3>3, DisablingExcuses
  <2>2. CASE \E u \in Senders : Begins(c, u, call'[c])
    BY <1>1, <2>2 DEF AtWrite, Begins, Request
  <2>3. CASE call'[c] = [call[c] EXCEPT !.step = "assign"] \/ call'[c] = NoCall
    BY <1>0, <1>1, <2>3 DEF AtWrite, NoCall, CallType
  <2>4. ASSUME call'[c] = [call[c] EXCEPT !.step = "write"], call[c].step \in {"assign", "check"},
               UserCall(c) \/ RoleCall(c) \/ PermissionCall(c)
        PROVE  role'[r].enabled
    <3>1. call'[c].op = call[c].op /\ call'[c].ids = call[c].ids /\ call'[c].step = "write"
      BY <1>0, <2>4 DEF CallType
    <3>2. CASE FindAssignableRoles(c)
      BY <1>1, <3>1, <3>2 DEF FindAssignableRoles, Proceed, tables
    <3>3. CASE SelfKeepsAdminRole(c) \/ InsertUser(c) \/ InsertRegistered(c) \/ UpdateUser(c) \/ RemoveUsers(c)
      BY <2>4, <3>3 DEF SelfKeepsAdminRole, InsertUser, InsertRegistered, UpdateUser, RemoveUsers, Proceed, AtWrite
    <3>4. CASE RoleCall(c) \/ PermissionCall(c)
      BY <1>1, <2>4, <3>1, <3>4 DEF RoleCall, FindPermissions, InsertRole, RoleIsMutable, UpdateRole, RolesAreRemovable,
                       RemoveRoles, PermissionCall, InsertPermission, PermissionIsMutable, UpdatePermission,
                       PermissionsAreMutable, RemovePermissions, Proceed, AtWrite
    <3>5. QED
      BY <2>4, <3>2, <3>3, <3>4 DEF UserCall
  <2>5. QED
    BY <1>0, <2>1, <2>2, <2>3, <2>4 DEF CallMoves
<1>2. ASSUME AtWrite(c, {"register"})', NEW r \in call'[c].ids, r \in DOMAIN role'
      PROVE  role'[r].code = Default
  <2>1. CASE call'[c] = call[c]
    <3>1. AtWrite(c, {"register"}) /\ r \in call[c].ids
      BY <1>2, <2>1 DEF AtWrite
    <3>2. r \in DOMAIN role
      BY <1>0, <1>2, <3>1 DEF AtWrite, Knows, RolesKept
    <3>3. QED
      BY <1>0, <1>2, <3>1, <3>2 DEF GrantInv, RolesKept
  <2>2. CASE \E u \in Senders : Begins(c, u, call'[c])
    BY <1>2, <2>2 DEF AtWrite, Begins, Request, RowsWithCode, tables
  <2>3. CASE call'[c] = NoCall
    BY <1>2, <2>3, AccessConstants DEF AtWrite, NoCall
  <2>4. CASE /\ call[c].step \in {"self", "assign", "check"}
             /\ \E to \in {"assign", "write"} : call'[c] = [call[c] EXCEPT !.step = to]
    BY <1>0, <1>2, <2>4 DEF AtWrite, CallType, Knows
  <2>5. QED
    BY <1>0, <2>1, <2>2, <2>3, <2>4 DEF CallMoves
<1>3. QED
  BY <1>1, <1>2 DEF GrantInv

Granted == \A u \in DOMAIN user' :
               LET held == IF u \in DOMAIN user THEN user[u].roles ELSE {} IN
               \A r \in user'[u].roles \ held :
                   \/ role[r].enabled \/ r \in excuse
                   \/ role[r].code = Default /\ Registers(u)

LEMMA GrantStep ==
    ASSUME TypeInv, AdminInv, \A c \in Callers : GrantInv(c), AccessNext
    PROVE  Granted
<1>0. user \in [DOMAIN user -> UserRow] /\ unused \cap DOMAIN user = {} /\ call \in [Callers -> CallType]
  BY DEF TypeInv, AccessTypeOK, IsTable
<1>a. CASE UNCHANGED user
  BY <1>a DEF Granted
<1>1. ASSUME NEW c \in Callers, UserCall(c) PROVE Granted
  <2>1. CASE SelfKeepsAdminRole(c) \/ FindAssignableRoles(c)
    BY <2>1, <1>a DEF SelfKeepsAdminRole, FindAssignableRoles, Proceed, tables
  <2>2. CASE InsertUser(c)
    <3>1. call[c].ids # None
      BY <2>2 DEF InsertUser, AtWrite, TypeInv, Knows
    <3>2. \A r \in call[c].ids : role[r].enabled \/ r \in excuse
      BY <2>2, <3>1 DEF InsertUser, InsertUserWithRoles, AtWrite, GrantInv
    <3>3. PICK u : user' = Put(user, u, [roles |-> call[c].ids, isAdmin |-> FALSE])
      BY <2>2 DEF InsertUser, InsertUserWithRoles, InsertRow
    <3>4. QED
      BY <3>2, <3>3 DEF Put, Granted
  <2>3. CASE InsertRegistered(c)
    <3>1. \A r \in call[c].ids : role[r].code = Default
      BY <2>3 DEF InsertRegistered, InsertUserWithRoles, AtWrite, GrantInv
    <3>2. PICK u \in unused : user' = Put(user, u, [roles |-> call[c].ids, isAdmin |-> FALSE])
      BY <2>3 DEF InsertRegistered, InsertUserWithRoles, InsertRow
    <3>3. u \notin DOMAIN user /\ user'[u].roles = call[c].ids
      BY <1>0, <3>2 DEF Put
    <3>4. call'[c] = NoCall
      BY <1>0, <2>3 DEF InsertRegistered, InsertUserWithRoles, End
    <3>5. Registers(u)
      BY <2>3, <3>3, <3>4 DEF Registers, InsertRegistered
    <3>6. \A v \in DOMAIN user' : v = u \/ (v \in DOMAIN user /\ user'[v] = user[v])
      BY <3>2 DEF Put
    <3>7. QED
      BY <3>1, <3>3, <3>5, <3>6 DEF Granted
  <2>4. CASE UpdateUser(c)
    <3>1. call[c].ids # None => \A r \in call[c].ids : role[r].enabled \/ r \in excuse
      BY <2>4 DEF UpdateUser, AtWrite, GrantInv
    <3>2. PICK flag \in BOOLEAN :
              user' = [user EXCEPT ![call[c].on] = [
                  roles |-> IF call[c].ids = None THEN @.roles ELSE call[c].ids, isAdmin |-> flag]]
      BY <2>4 DEF UpdateUser
    <3>3. QED
      BY <1>0, <3>1, <3>2 DEF Granted
  <2>5. CASE RemoveUsers(c)
    BY <2>5 DEF RemoveUsers, Drop, Granted
  <2>6. QED
    BY <1>1, <2>1, <2>2, <2>3, <2>4, <2>5 DEF UserCall
<1>2. ASSUME NEW c \in Callers, RoleCall(c) \/ PermissionCall(c) \/ Abort(c) PROVE Granted
  <2>1. CASE RemoveRoles(c)
    BY <1>0, <2>1 DEF RemoveRoles, DeleteRoles, Granted, UserRow
  <2>2. QED
    BY <1>2, <1>a, <2>1 DEF RoleCall, FindPermissions, InsertRole, RoleIsMutable, UpdateRole, RolesAreRemovable,
          PermissionCall, InsertPermission, PermissionIsMutable, UpdatePermission, PermissionsAreMutable,
          RemovePermissions, DeletePermissions, Abort, Proceed, tables
<1>3. CASE Seed
  <2>1. CASE UpsertAdminUser
    <3> DEFINE r == seed.rows[Admin]
    <3>1. role[r].enabled
      BY <2>1, AccessConstants DEF UpsertAdminUser, SeedStep, AdminInv
    <3>2. PICK u :
              LET held == IF u \in DOMAIN user THEN user[u].roles ELSE {}
                  row == [roles |-> held \cup {r}, isAdmin |-> TRUE]
              IN  user' = Put(user, u, row) \/ user' = [user EXCEPT ![u] = row]
      BY <2>1 DEF UpsertAdminUser, InsertRow
    <3> HIDE DEF r
    <3>3. QED
      BY <3>1, <3>2 DEF Put, Granted
  <2>2. QED
    BY <1>3, <1>a, <2>1 DEF Seed, StartSeed, StopSeed, UpsertRole, RolesSeeded, FindByCode, FindByPlace,
          UpsertPermission, ConnectAdmin, FindRolePermissions, ConnectRolePermissions, Connect, FindLegacy,
          CopyLegacyLinks, DeleteLegacy, DeletePermissions, tables
<1>4. ASSUME NEW c \in Callers, Arrives(c) PROVE Granted
  BY <1>4, <1>a, BeginShape DEF Begins, tables
<1>5. QED
  BY <1>1, <1>2, <1>3, <1>4 DEF AccessNext, Arrives

----------------------------------------------------------------------------
(* The administrators *)

Demotes(d, u) ==
    \/ UpdateUser(d) /\ call[d].on = u /\ call[d].ids # None /\ call[d].ids \cap AdminRole = {}
    \/ RemoveUsers(d) /\ u \in call[d].ids

(* An administrator stays one unless a call updates or removes it. *)
LEMMA HolderKept ==
    ASSUME TypeInv, \A c \in Callers : RoleInv(c), AccessNext, NEW u \in DOMAIN user, HoldsAdmin(u)
    PROVE  (u \in DOMAIN user' /\ HoldsAdmin(u)') \/ \E d \in Callers : Demotes(d, u)
<1>0. RolesKept /\ user \in [DOMAIN user -> UserRow] /\ unused \cap DOMAIN user = {}
      /\ DOMAIN role' \subseteq RoleIds
  BY RolesAreKept, TableStep DEF TypeInv, AccessTypeOK, LinksExist, IsTable
<1> DEFINE Goal == (u \in DOMAIN user' /\ HoldsAdmin(u)') \/ \E d \in Callers : Demotes(d, u)
<1> SUFFICES Goal
  OBVIOUS
<1>a. CASE u \in DOMAIN user' /\ user[u].roles \cap AdminRole \subseteq user'[u].roles
  BY <1>0, <1>a DEF HoldsAdmin, RolesKept
<1>1. ASSUME NEW c \in Callers, UserCall(c) PROVE Goal
  <2>1. CASE SelfKeepsAdminRole(c) \/ FindAssignableRoles(c)
    BY <2>1, <1>a DEF SelfKeepsAdminRole, FindAssignableRoles, Proceed, tables
  <2>2. CASE InsertUser(c) \/ InsertRegistered(c)
    BY <2>2, <1>0, <1>a DEF InsertUser, InsertRegistered, InsertUserWithRoles, InsertRow, Put
  <2>3. CASE UpdateUser(c)
    <3>1. PICK flag \in BOOLEAN :
              user' = [user EXCEPT ![call[c].on] = [
                  roles |-> IF call[c].ids = None THEN @.roles ELSE call[c].ids, isAdmin |-> flag]]
      BY <2>3 DEF UpdateUser
    <3>2. CASE call[c].on # u \/ call[c].ids = None
      BY <1>0, <1>a, <3>1, <3>2
    <3>3. CASE call[c].on = u /\ call[c].ids # None
      <4>1. user'[u].roles = call[c].ids /\ u \in DOMAIN user' /\ role' = role
        BY <1>0, <2>3, <3>1, <3>3 DEF UpdateUser
      <4>2. QED
        BY <2>3, <3>3, <4>1 DEF Demotes, HoldsAdmin, AdminRole, RowsWithCode
    <3>4. QED
      BY <3>2, <3>3
  <2>4. CASE RemoveUsers(c)
    BY <2>4, <1>a DEF RemoveUsers, Drop, Demotes
  <2>5. QED
    BY <1>1, <2>1, <2>2, <2>3, <2>4 DEF UserCall
<1>2. ASSUME NEW c \in Callers, RoleCall(c) \/ PermissionCall(c) \/ Abort(c) PROVE Goal
  <2>1. CASE RemoveRoles(c)
    <3>1. u \in DOMAIN user' /\ user'[u].roles = user[u].roles \ call[c].ids
      BY <1>0, <2>1 DEF RemoveRoles, DeleteRoles, UserRow
    <3>2. call[c].ids \cap AdminRole = {}
      BY <2>1 DEF RemoveRoles, RoleInv
    <3>3. QED
      BY <1>a, <3>1, <3>2
  <2>2. QED
    BY <1>2, <1>a, <2>1 DEF RoleCall, FindPermissions, InsertRole, RoleIsMutable, UpdateRole, RolesAreRemovable,
          PermissionCall, InsertPermission, PermissionIsMutable, UpdatePermission, PermissionsAreMutable,
          RemovePermissions, DeletePermissions, Abort, Proceed, tables
<1>3. CASE Seed
  <2>1. CASE UpsertAdminUser
    <3>1. PICK v :
              LET held == IF v \in DOMAIN user THEN user[v].roles ELSE {}
                  row == [roles |-> held \cup {seed.rows[Admin]}, isAdmin |-> TRUE]
              IN  (v \in unused /\ user' = Put(user, v, row)) \/ user' = [user EXCEPT ![v] = row]
      BY <2>1 DEF UpsertAdminUser, InsertRow
    <3>2. u \in DOMAIN user' /\ user[u].roles \subseteq user'[u].roles
      BY <1>0, <3>1 DEF Put
    <3>3. QED
      BY <3>2, <1>a
  <2>2. QED
    BY <1>3, <1>a, <2>1 DEF Seed, StartSeed, StopSeed, UpsertRole, RolesSeeded, FindByCode, FindByPlace,
          UpsertPermission, ConnectAdmin, FindRolePermissions, ConnectRolePermissions, Connect, FindLegacy,
          CopyLegacyLinks, DeleteLegacy, DeletePermissions, tables
<1>4. ASSUME NEW c \in Callers, Arrives(c) PROVE Goal
  BY <1>4, <1>a, BeginShape DEF Begins, tables
<1>5. QED
  BY <1>1, <1>2, <1>3, <1>4 DEF AccessNext, Arrives

LEMMA HolderInvStep ==
    ASSUME TypeInv, \A d \in Callers : RoleInv(d), NEW c \in Callers, HolderInv(c), AccessNext
    PROVE  HolderInv(c)'
<1>0. /\ RolesKept /\ CallMoves(c) /\ Knows(call[c]) /\ excuse \subseteq excuse'
      /\ call \in [Callers -> CallType] /\ call' \in [Callers -> CallType]
  BY RolesAreKept, CallsMove, TypeStep, ExcuseGrows DEF TypeInv
<1> SUFFICES ASSUME excuse' \cap {"outsider", "demoted"} = {}, call'[c].step # "idle"
             PROVE  /\ call'[c].op \in {"updateUser", "removeUsers"} =>
                           call'[c].by \in DOMAIN user' /\ HoldsAdmin(call[c].by)'
                    /\ call'[c].op = "updateUser" /\ call'[c].on = call'[c].by /\ call'[c].ids # None
                           /\ call'[c].step # "self" => AdminRole' \cap call'[c].ids # {}
  BY DEF HolderInv
<1>1. CASE call'[c] = call[c]
  <2>1. ASSUME call[c].op \in {"updateUser", "removeUsers"}
        PROVE  call[c].by \in DOMAIN user' /\ HoldsAdmin(call[c].by)'
    <3>1. PICK u \in DOMAIN user : u = call[c].by /\ HoldsAdmin(u)
      BY <1>0, <1>1, <2>1 DEF HolderInv
    <3>2. ASSUME NEW d \in Callers, Demotes(d, u) PROVE FALSE
      <4>1. d # c
        <5>1. call' = [call EXCEPT ![d] = NoCall]
          BY <3>2 DEF Demotes, UpdateUser, RemoveUsers, End
        <5>2. QED
          BY <1>0, <1>1, <5>1 DEF NoCall
      <4>2. InFlight(d, u)
        BY <1>1, <3>1, <4>1 DEF InFlight
      <4>3. CASE UpdateUser(d) /\ call[d].on = u /\ call[d].ids # None /\ call[d].ids \cap AdminRole = {}
        <5>1. user'[u].roles = call[d].ids
          BY <3>1, <4>3 DEF UpdateUser
        <5>2. "demoted" \in excuse'
          BY <3>1, <4>2, <4>3, <5>1 DEF UpdateUser, Excuse
        <5>3. QED
          BY <5>2
      <4>4. CASE RemoveUsers(d) /\ u \in call[d].ids
        BY <3>1, <4>2, <4>4 DEF RemoveUsers, Excuse
      <4>5. QED
        BY <3>2, <4>3, <4>4 DEF Demotes
    <3>3. u \in DOMAIN user' /\ HoldsAdmin(u)'
      BY <3>1, <3>2, HolderKept
    <3>4. QED
      BY <1>1, <3>1, <3>3 DEF HoldsAdmin
  <2>2. call[c].op = "updateUser" /\ call[c].on = call[c].by /\ call[c].ids # None
            /\ call[c].step # "self" => AdminRole' \cap call[c].ids # {}
    BY <1>0, <1>1 DEF HolderInv, RolesKept
  <2>3. QED
    BY <1>1, <2>1, <2>2
<1>2. ASSUME NEW u \in Senders, Begins(c, u, call'[c])
      PROVE  /\ call'[c].op \in {"updateUser", "removeUsers"} =>
                    call'[c].by \in DOMAIN user' /\ HoldsAdmin(call[c].by)'
             /\ call'[c].op = "updateUser" /\ call'[c].on = call'[c].by /\ call'[c].ids # None
                    /\ call'[c].step # "self" => AdminRole' \cap call'[c].ids # {}
  <2>1. /\ UNCHANGED tables /\ call'[c].by = u
        /\ call'[c].op \in {"updateUser", "removeUsers"} => u \in DOMAIN user /\ HoldsAdmin(u)
    BY <1>2 DEF Begins, Request
  <2>2. call'[c].op \in {"updateUser", "removeUsers"} => u \in DOMAIN user' /\ HoldsAdmin(call[c].by)'
    BY <2>1 DEF HoldsAdmin, AdminRole, RowsWithCode, tables
  <2>3. ~(call'[c].op = "updateUser" /\ call'[c].on = call'[c].by /\ call'[c].ids # None /\ call'[c].step # "self")
    BY <1>2 DEF Begins, Request
  <2>4. QED
    BY <2>1, <2>2, <2>3
<1>3. ASSUME \/ call[c].step = "self" /\ call'[c] = [call[c] EXCEPT !.step = "assign"] /\ UserCall(c)
             \/ /\ call[c].step \in {"assign", "check"} /\ call'[c] = [call[c] EXCEPT !.step = "write"]
                /\ UserCall(c) \/ RoleCall(c) \/ PermissionCall(c)
      PROVE  /\ call'[c].op \in {"updateUser", "removeUsers"} =>
                    call'[c].by \in DOMAIN user' /\ HoldsAdmin(call[c].by)'
             /\ call'[c].op = "updateUser" /\ call'[c].on = call'[c].by /\ call'[c].ids # None
                    /\ call'[c].step # "self" => AdminRole' \cap call'[c].ids # {}
  <2>1. /\ call'[c].op = call[c].op /\ call'[c].by = call[c].by /\ call'[c].on = call[c].on
        /\ call'[c].ids = call[c].ids
    BY <1>0, <1>3 DEF CallType
  <2>2. UNCHANGED tables
    BY <1>0, <1>3, CallShape DEF Proceeds, NoCall, CallType
  <2>3. call[c].op \in {"updateUser", "removeUsers"} => call[c].by \in DOMAIN user /\ HoldsAdmin(call[c].by)
    BY <1>0, <1>3 DEF HolderInv
  <2>4. HoldsAdmin(call[c].by) => HoldsAdmin(call[c].by)'
    BY <2>1, <2>2 DEF HoldsAdmin, AdminRole, RowsWithCode, tables
  <2>5. ASSUME call[c].op = "updateUser", call[c].on = call[c].by, call[c].ids # None
        PROVE  AdminRole' \cap call'[c].ids # {}
    <3>1. CASE call[c].step = "self"
      <4>1. SelfKeepsAdminRole(c)
        BY <1>3, <3>1 DEF UserCall, FindAssignableRoles, InsertUser, InsertRegistered, InsertUserWithRoles,
                UpdateUser, RemoveUsers, Proceed, AtWrite
      <4>2. QED
        BY <2>1, <2>2, <2>3, <2>5, <4>1 DEF SelfKeepsAdminRole, AdminRole, RowsWithCode, tables
    <3>2. CASE call[c].step # "self"
      BY <1>0, <1>3, <2>1, <2>2, <2>5, <3>2 DEF HolderInv, AdminRole, RowsWithCode, tables
    <3>3. QED
      BY <3>1, <3>2
  <2>6. QED
    BY <2>1, <2>2, <2>3, <2>4, <2>5 DEF tables
<1>4. CASE call'[c] = NoCall
  BY <1>4 DEF NoCall
<1>5. QED
  BY <1>0, <1>1, <1>2, <1>3, <1>4 DEF CallMoves

LEMMA AdminHeldStep ==
    ASSUME TypeInv, \A c \in Callers : RoleInv(c) /\ HolderInv(c), AdminRoleHeld, AccessNext
    PROVE  AdminRoleHeld'
<1> SUFFICES ASSUME excuse' \cap {"outsider", "demoted"} = {}
             PROVE  \E u \in DOMAIN user' : HoldsAdmin(u)'
  BY DEF AdminRoleHeld
<1>0. excuse \cap {"outsider", "demoted"} = {} /\ user \in [DOMAIN user -> UserRow]
  BY ExcuseGrows DEF TypeInv, AccessTypeOK, IsTable
<1>1. PICK u \in DOMAIN user : HoldsAdmin(u)
  BY <1>0 DEF AdminRoleHeld
<1>2. ASSUME NEW d \in Callers, Demotes(d, u) PROVE \E v \in DOMAIN user' : HoldsAdmin(v)'
  <2> DEFINE v == call[d].by
  <2>1. call[d].step = "write" /\ call[d].op \in {"updateUser", "removeUsers"} /\ UNCHANGED role
    BY <1>2 DEF Demotes, UpdateUser, RemoveUsers, AtWrite
  <2>2. v \in DOMAIN user /\ HoldsAdmin(v)
    BY <1>0, <2>1 DEF HolderInv
  <2>3. v \in DOMAIN user' /\ user'[v] = user[v]
    <3>1. CASE UpdateUser(d) /\ call[d].on = u /\ call[d].ids # None /\ call[d].ids \cap AdminRole = {}
      <4>1. call[d].on # v
        BY <1>0, <2>1, <3>1 DEF HolderInv, UpdateUser, AtWrite
      <4>2. QED
        BY <1>0, <2>2, <3>1, <4>1 DEF UpdateUser
    <3>2. CASE RemoveUsers(d)
      BY <2>2, <3>2 DEF RemoveUsers, Drop, AtWrite, TypeInv, Knows
    <3>3. QED
      BY <1>2, <3>1, <3>2 DEF Demotes
  <2>4. QED
    BY <2>1, <2>2, <2>3 DEF HoldsAdmin, AdminRole, RowsWithCode
<1>3. QED
  BY <1>1, <1>2, HolderKept

----------------------------------------------------------------------------
(* Permissions *)

(* c gives permission p another code. *)
Renames(c, p) ==
    /\ UpdatePermission(c) /\ call[c].on = p /\ p \in DOMAIN permission
    /\ CodeIsFree(permission, p, permission'[p].code)
    /\ permission'[p].code \in Managed /\ Checked(p, Callers \ {c}) => "adopted" \in excuse'

(* Rows appear under unused ids, and change by an update or the seed. *)
LEMMA RowsChange ==
    ASSUME TypeInv, AccessNext, ~UpsertPermission, NEW p \in DOMAIN permission'
    PROVE  \/ p \in unused
           \/ /\ p \in DOMAIN permission
              /\ permission'[p] = permission[p] \/ \E c \in Callers : Renames(c, p)
<1>0. permission \in [DOMAIN permission -> PermissionRow]
  BY DEF TypeInv, AccessTypeOK, IsTable
<1> DEFINE Goal == \/ p \in unused
                   \/ /\ p \in DOMAIN permission
                      /\ permission'[p] = permission[p] \/ \E c \in Callers : Renames(c, p)
<1>a. CASE UNCHANGED permission
  BY <1>a
<1>1. ASSUME NEW c \in Callers, PermissionCall(c) PROVE Goal
  <2>1. CASE PermissionIsMutable(c) \/ PermissionsAreMutable(c)
    BY <2>1, <1>a DEF PermissionIsMutable, PermissionsAreMutable, Proceed, tables
  <2>2. CASE InsertPermission(c)
    BY <2>2 DEF InsertPermission, InsertRow, Put
  <2>3. CASE UpdatePermission(c)
    <3>1. PICK row \in PermissionRow :
              /\ CodeIsFree(permission, call[c].on, row.code)
              /\ permission' = [permission EXCEPT ![call[c].on] = row]
              /\ Excuse("adopted", row.code \in Managed /\ Checked(call[c].on, Callers \ {c}))
      BY <2>3 DEF UpdatePermission
    <3>2. CASE p = call[c].on
      BY <1>0, <2>3, <3>1, <3>2 DEF Renames, Excuse, UpdatePermission
    <3>3. CASE p # call[c].on
      BY <1>0, <3>1, <3>3
    <3>4. QED
      BY <3>2, <3>3
  <2>4. CASE RemovePermissions(c)
    BY <2>4 DEF RemovePermissions, DeletePermissions, Drop
  <2>5. QED
    BY <1>1, <2>1, <2>2, <2>3, <2>4 DEF PermissionCall
<1>2. ASSUME NEW c \in Callers, UserCall(c) \/ RoleCall(c) \/ Abort(c) PROVE Goal
  BY <1>2, <1>a DEF UserCall, SelfKeepsAdminRole, FindAssignableRoles, InsertUser, InsertRegistered, InsertUserWithRoles,
          UpdateUser, RemoveUsers,
     RoleCall, FindPermissions, InsertRole, RoleIsMutable, UpdateRole, RolesAreRemovable, RemoveRoles, DeleteRoles,
     Abort, Proceed, tables
<1>3. CASE Seed
  <2>1. CASE DeleteLegacy
    BY <2>1 DEF DeleteLegacy, DeletePermissions, Drop
  <2>2. QED
    BY <1>3, <1>a, <2>1 DEF Seed, StartSeed, StopSeed, UpsertRole, RolesSeeded, FindByCode, FindByPlace,
          ConnectAdmin, FindRolePermissions, ConnectRolePermissions, Connect, UpsertAdminUser, FindLegacy,
          CopyLegacyLinks, tables
<1>4. ASSUME NEW c \in Callers, Arrives(c) PROVE Goal
  BY <1>4, <1>a, BeginShape DEF Begins, tables
<1>5. QED
  BY <1>1, <1>2, <1>3, <1>4 DEF AccessNext, Arrives

(* The row the seed puts in place: one it found, or a new one. *)
LEMMA UpsertShape ==
    ASSUME TypeInv, UpsertPermission
    PROVE  \E p \in PermissionIds :
               LET code == Head(seed.todo) IN
               /\ permission' = Put(permission, p, [code |-> code, place |-> code])
               /\ CodeIsFree(permission, p, code)
               /\ \/ /\ seed.found = {p} /\ p \in DOMAIN permission
                     /\ permission[p].code # code /\ Checked(p, Callers) => "adopted" \in excuse'
                  \/ p \in unused /\ p \notin DOMAIN permission
               /\ seed'.step = "byCode" /\ seed'.todo = Tail(seed.todo) /\ seed'.ids = seed.ids \cup {p}
               /\ seed.step = "upsert" /\ UNCHANGED <<role, user, call>>
<1>0. SeedIsRecord /\ permission \in [DOMAIN permission -> PermissionRow] /\ unused \cap DOMAIN permission = {}
  BY DEF TypeInv, AccessTypeOK, IsTable, SeedType
<1> DEFINE code == Head(seed.todo)
           row == [code |-> code, place |-> code]
<1>1. PICK p \in PermissionIds :
        /\ SeedStep("upsert", [seed EXCEPT !.step = "byCode", !.todo = Tail(@), !.ids = @ \cup {p}])
        /\ CodeIsFree(permission, p, code)
        /\ \/ /\ seed.found = {p} /\ p \in DOMAIN permission
              /\ permission' = [permission EXCEPT ![p] = row]
              /\ Excuse("adopted", permission[p].code # code /\ Checked(p, Callers))
           \/ InsertRow(permission, p, row)
        /\ UNCHANGED <<role, user>>
  BY DEF UpsertPermission
<1>2. /\ seed'.step = "byCode" /\ seed'.todo = Tail(seed.todo) /\ seed'.ids = seed.ids \cup {p}
      /\ seed.step = "upsert" /\ UNCHANGED call
  BY <1>0, <1>1 DEF SeedStep, SeedIsRecord
<1> HIDE DEF code, row
<1>3. CASE /\ seed.found = {p} /\ p \in DOMAIN permission
           /\ permission' = [permission EXCEPT ![p] = row]
           /\ Excuse("adopted", permission[p].code # code /\ Checked(p, Callers))
  <2>1. permission' = Put(permission, p, row)
    BY <1>0, <1>3 DEF Put
  <2>2. QED
    BY <1>1, <1>2, <1>3, <2>1 DEF Excuse, code, row
<1>4. CASE InsertRow(permission, p, row)
  BY <1>0, <1>1, <1>2, <1>4 DEF InsertRow, code, row
<1>5. QED
  BY <1>1, <1>3, <1>4

LEMMA CodesUniqueStep ==
    ASSUME TypeInv, CodesUnique, AccessNext
    PROVE  CodesUnique'
<1>0. permission \in [DOMAIN permission -> PermissionRow]
  BY DEF TypeInv, AccessTypeOK, IsTable
<1> DEFINE Shape == \/ UNCHANGED permission
                    \/ \E ids : permission' = Drop(permission, ids)
                    \/ \E p, row : CodeIsFree(permission, p, row.code) /\ permission' = Put(permission, p, row)
<1>1. ASSUME UpsertPermission PROVE Shape
  <2>1. PICK p \in PermissionIds :
            /\ permission' = Put(permission, p, [code |-> Head(seed.todo), place |-> Head(seed.todo)])
            /\ CodeIsFree(permission, p, Head(seed.todo))
    BY <1>1, UpsertShape
  <2> DEFINE row == [code |-> Head(seed.todo), place |-> Head(seed.todo)]
  <2>2. row.code = Head(seed.todo) /\ permission' = Put(permission, p, row)
    BY <2>1
  <2> HIDE DEF row
  <2>3. QED
    BY <2>1, <2>2
<1>2. ASSUME NEW c \in Callers, PermissionCall(c) PROVE Shape
  <2>1. CASE PermissionIsMutable(c) \/ PermissionsAreMutable(c)
    BY <2>1 DEF PermissionIsMutable, PermissionsAreMutable, Proceed, tables
  <2>2. CASE InsertPermission(c)
    BY <2>2 DEF InsertPermission, InsertRow
  <2>3. CASE UpdatePermission(c)
    <3>1. PICK row \in PermissionRow :
              /\ CodeIsFree(permission, call[c].on, row.code)
              /\ permission' = [permission EXCEPT ![call[c].on] = row]
      BY <2>3 DEF UpdatePermission
    <3>2. permission' = Put(permission, call[c].on, row)
      BY <1>0, <2>3, <3>1 DEF UpdatePermission, Put
    <3>3. QED
      BY <3>1, <3>2
  <2>4. CASE RemovePermissions(c)
    BY <2>4 DEF RemovePermissions, DeletePermissions
  <2>5. QED
    BY <1>2, <2>1, <2>2, <2>3, <2>4 DEF PermissionCall
<1>3. ASSUME NEW c \in Callers, UserCall(c) \/ RoleCall(c) \/ Abort(c) PROVE Shape
  BY <1>3 DEF UserCall, SelfKeepsAdminRole, FindAssignableRoles, InsertUser, InsertRegistered, InsertUserWithRoles,
          UpdateUser, RemoveUsers,
     RoleCall, FindPermissions, InsertRole, RoleIsMutable, UpdateRole, RolesAreRemovable, RemoveRoles, DeleteRoles,
     Abort, Proceed, tables
<1>4. ASSUME Seed PROVE Shape
  <2>1. CASE DeleteLegacy
    <3>1. permission' = Drop(permission, seed.found)
      BY <2>1 DEF DeleteLegacy, DeletePermissions
    <3>2. QED
      BY <3>1
  <2>2. QED
    BY <1>1, <1>4, <2>1 DEF Seed, StartSeed, StopSeed, UpsertRole, RolesSeeded, FindByCode, FindByPlace,
          ConnectAdmin, FindRolePermissions, ConnectRolePermissions, Connect, UpsertAdminUser, FindLegacy,
          CopyLegacyLinks, tables
<1>5. ASSUME NEW c \in Callers, Arrives(c) PROVE Shape
  BY <1>5, BeginShape DEF Begins, tables
<1>6. Shape
  <2> HIDE DEF Shape
  <2>1. QED
    BY <1>2, <1>3, <1>4, <1>5 DEF AccessNext, Arrives
<1>7. CASE UNCHANGED permission
  BY <1>7 DEF CodesUnique
<1>8. CASE \E ids : permission' = Drop(permission, ids)
  BY <1>0, <1>8 DEF CodesUnique, Drop
<1>9. ASSUME NEW p, NEW row, CodeIsFree(permission, p, row.code), permission' = Put(permission, p, row)
      PROVE  CodesUnique'
  <2>1. \A q \in DOMAIN permission : permission[q].code = row.code => q = p
    BY <1>9 DEF CodeIsFree, RowsWithCode
  <2>2. DOMAIN permission' = DOMAIN permission \cup {p}
    BY <1>9 DEF Put
  <2>3. permission'[p] = row /\ \A q \in DOMAIN permission \ {p} : permission'[q] = permission[q]
    BY <1>9 DEF Put
  <2>4. QED
    BY <2>1, <2>2, <2>3 DEF CodesUnique
<1>10. QED
  BY <1>6, <1>7, <1>8, <1>9

(* Until the excuse is there, only the seed's upsert touches a managed row. *)
LEMMA ManagedKept ==
    ASSUME TypeInv, \A c \in Callers : MutableInv(c), LegacyInv, AccessNext, ~UpsertPermission,
           "adopted" \notin excuse', NEW p, ManagedRow(p)
    PROVE  p \in DOMAIN permission' /\ permission'[p] = permission[p]
<1>0. /\ permission \in [DOMAIN permission -> PermissionRow] /\ unused \cap DOMAIN permission = {}
      /\ p \in DOMAIN permission /\ "adopted" \notin excuse
  BY ExcuseGrows DEF TypeInv, AccessTypeOK, IsTable, ManagedRow
<1> DEFINE Goal == p \in DOMAIN permission' /\ permission'[p] = permission[p]
<1>1. ASSUME NEW c \in Callers, PermissionCall(c) PROVE Goal
  <2>1. CASE PermissionIsMutable(c) \/ PermissionsAreMutable(c)
    BY <1>0, <2>1 DEF PermissionIsMutable, PermissionsAreMutable, Proceed, tables
  <2>2. CASE InsertPermission(c)
    BY <1>0, <2>2 DEF InsertPermission, InsertRow, Put
  <2>3. CASE UpdatePermission(c)
    <3>1. call[c].on # p
      BY <1>0, <2>3 DEF UpdatePermission, MutableInv
    <3>2. QED
      BY <1>0, <2>3, <3>1 DEF UpdatePermission
  <2>4. CASE RemovePermissions(c)
    <3>1. p \notin call[c].ids
      BY <1>0, <2>4 DEF RemovePermissions, MutableInv
    <3>2. QED
      BY <1>0, <2>4, <3>1 DEF RemovePermissions, DeletePermissions, Drop
  <2>5. QED
    BY <1>1, <2>1, <2>2, <2>3, <2>4 DEF PermissionCall
<1>2. ASSUME NEW c \in Callers, UserCall(c) \/ RoleCall(c) \/ Abort(c) PROVE Goal
  BY <1>0, <1>2 DEF UserCall, SelfKeepsAdminRole, FindAssignableRoles, InsertUser, InsertRegistered, InsertUserWithRoles,
          UpdateUser, RemoveUsers,
     RoleCall, FindPermissions, InsertRole, RoleIsMutable, UpdateRole, RolesAreRemovable, RemoveRoles, DeleteRoles,
     Abort, Proceed, tables
<1>3. CASE Seed
  <2>1. CASE DeleteLegacy
    <3>1. p \notin seed.found
      BY <1>0, <2>1 DEF DeleteLegacy, SeedStep, LegacyInv
    <3>2. QED
      BY <1>0, <2>1, <3>1 DEF DeleteLegacy, DeletePermissions, Drop
  <2>2. QED
    BY <1>0, <1>3, <2>1 DEF Seed, StartSeed, StopSeed, UpsertRole, RolesSeeded, FindByCode, FindByPlace,
          ConnectAdmin, FindRolePermissions, ConnectRolePermissions, Connect, UpsertAdminUser, FindLegacy,
          CopyLegacyLinks, tables
<1>4. ASSUME NEW c \in Callers, Arrives(c) PROVE Goal
  BY <1>0, <1>4, BeginShape DEF Begins, tables
<1>5. QED
  BY <1>1, <1>2, <1>3, <1>4 DEF AccessNext, Arrives

IsChecked(c, p) ==
    \/ AtWrite(c, {"updatePermission"}) /\ call[c].on = p
    \/ AtWrite(c, {"removePermissions"}) /\ p \in call[c].ids

(* A row a call has checked becomes managed under its hands only with the excuse. *)
LEMMA CheckedStaysMutable ==
    ASSUME TypeInv, NEW c \in Callers, MutableInv(c), AccessNext, "adopted" \notin excuse',
           call'[c] = call[c], NEW p, IsChecked(c, p)
    PROVE  ~ManagedRow(p)'
<1>0. /\ "adopted" \notin excuse /\ ~ManagedRow(p) /\ p \notin unused
      /\ call \in [Callers -> CallType] /\ call[c].step = "write"
      /\ permission \in [DOMAIN permission -> PermissionRow]
  BY ExcuseGrows DEF MutableInv, IsChecked, TypeInv, Knows, AtWrite, AccessTypeOK, IsTable
<1> SUFFICES ASSUME p \in DOMAIN permission', permission'[p].code \in Managed PROVE FALSE
  BY DEF ManagedRow
<1>1. CASE ~UpsertPermission
  <2>1. /\ p \in DOMAIN permission
        /\ permission'[p] = permission[p] \/ \E d \in Callers : Renames(d, p)
    BY <1>0, <1>1, RowsChange
  <2>2. PICK d \in Callers : Renames(d, p)
    BY <1>0, <2>1 DEF ManagedRow
  <2>3. call'[d] = NoCall
    BY <1>0, <2>2 DEF Renames, UpdatePermission, End
  <2>4. d # c
    BY <1>0, <2>3 DEF NoCall
  <2>5. Checked(p, Callers \ {d})
    BY <2>4 DEF Checked, IsChecked
  <2>6. QED
    BY <2>2, <2>5 DEF Renames
<1>2. CASE UpsertPermission
  <2> DEFINE code == Head(seed.todo)
  <2>1. PICK q \in PermissionIds :
            /\ permission' = Put(permission, q, [code |-> code, place |-> code])
            /\ \/ /\ q \in DOMAIN permission
                  /\ permission[q].code # code /\ Checked(q, Callers) => "adopted" \in excuse'
               \/ q \in unused
    BY <1>2, UpsertShape
  <2> HIDE DEF code
  <2>2. CASE q = p
    <3>1. permission'[p].code = code /\ q \in DOMAIN permission
      BY <1>0, <2>1, <2>2 DEF Put
    <3>2. Checked(p, Callers)
      BY DEF Checked, IsChecked
    <3>3. permission[p].code = code
      BY <2>1, <2>2, <3>2, <1>0
    <3>4. QED
      BY <1>0, <2>2, <3>1, <3>3 DEF ManagedRow
  <2>3. CASE q # p
    BY <1>0, <2>1, <2>3 DEF Put, ManagedRow
  <2>4. QED
    BY <2>2, <2>3
<1>3. QED
  BY <1>1, <1>2

LEMMA MutableInvStep ==
    ASSUME TypeInv, NEW c \in Callers, MutableInv(c), AccessNext
    PROVE  MutableInv(c)'
<1>0. /\ CallMoves(c) /\ Knows(call[c]) /\ call \in [Callers -> CallType]
  BY CallsMove DEF TypeInv
<1> SUFFICES ASSUME "adopted" \notin excuse'
             PROVE  /\ AtWrite(c, {"updatePermission"})' => ~ManagedRow(call[c].on)'
                    /\ AtWrite(c, {"removePermissions"})' => \A p \in call'[c].ids : ~ManagedRow(p)'
  BY DEF MutableInv
<1>1. CASE call'[c] = call[c]
  <2>1. ASSUME AtWrite(c, {"updatePermission"})' PROVE ~ManagedRow(call[c].on)'
    <3>1. PICK p \in PermissionIds : p = call[c].on
      BY <1>0, <1>1, <2>1 DEF AtWrite, Knows
    <3>2. IsChecked(c, p)
      BY <1>1, <2>1, <3>1 DEF IsChecked, AtWrite
    <3>3. ~ManagedRow(p)'
      BY <1>1, <3>2, CheckedStaysMutable
    <3>4. QED
      BY <1>1, <3>1, <3>3 DEF ManagedRow
  <2>2. ASSUME AtWrite(c, {"removePermissions"})', NEW p \in call'[c].ids PROVE ~ManagedRow(p)'
    <3>1. IsChecked(c, p)
      BY <1>1, <2>2 DEF IsChecked, AtWrite
    <3>2. QED
      BY <1>1, <3>1, CheckedStaysMutable
  <2>3. QED
    BY <2>1, <2>2
<1>2. CASE \E u \in Senders : Begins(c, u, call'[c])
  BY <1>2 DEF AtWrite, Begins, Request
<1>3. CASE call'[c] = [call[c] EXCEPT !.step = "assign"] \/ call'[c] = NoCall
  BY <1>0, <1>3 DEF AtWrite, NoCall, CallType
<1>4. ASSUME call[c].step \in {"assign", "check"}, call'[c] = [call[c] EXCEPT !.step = "write"],
             UserCall(c) \/ RoleCall(c) \/ PermissionCall(c)
      PROVE  /\ AtWrite(c, {"updatePermission"})' => ~ManagedRow(call[c].on)'
             /\ AtWrite(c, {"removePermissions"})' => \A p \in call'[c].ids : ~ManagedRow(p)'
  <2>1. /\ call'[c].op = call[c].op /\ call'[c].ids = call[c].ids /\ call'[c].on = call[c].on
        /\ call'[c].step = "write"
    BY <1>0, <1>4 DEF CallType
  <2>2. CASE UserCall(c)
    <3>1. call[c].step = "assign"
      BY <1>4, <2>2 DEF UserCall, SelfKeepsAdminRole, FindAssignableRoles, InsertUser, InsertRegistered, InsertUserWithRoles,
              UpdateUser, RemoveUsers,
                             Proceed, AtWrite
    <3>2. QED
      BY <1>0, <2>1, <3>1 DEF Knows, AtWrite
  <2>3. CASE RoleCall(c)
    BY <1>4, <2>1, <2>3 DEF RoleCall, FindPermissions, InsertRole, RoleIsMutable, UpdateRole, RolesAreRemovable,
                       RemoveRoles, Proceed, AtWrite
  <2>4. CASE PermissionCall(c)
    <3>1. CASE PermissionIsMutable(c)
      BY <2>1, <3>1 DEF PermissionIsMutable, Mutable, ManagedRow, AtWrite, Proceed, tables
    <3>2. CASE PermissionsAreMutable(c)
      BY <2>1, <3>2 DEF PermissionsAreMutable, Mutable, ManagedRow, AtWrite, Proceed, tables
    <3>3. QED
      BY <1>4, <2>4, <3>1, <3>2 DEF PermissionCall, InsertPermission, UpdatePermission, RemovePermissions, AtWrite
  <2>5. QED
    BY <1>4, <2>2, <2>3, <2>4
<1>5. QED
  BY <1>0, <1>1, <1>2, <1>3, <1>4 DEF CallMoves

----------------------------------------------------------------------------
(* The seed's permissions *)

LEMMA HeadTail ==
    ASSUME TypeInv, seed.todo # <<>>
    PROVE  /\ Head(seed.todo) \notin Processed
           /\ \A i \in DOMAIN seed.todo :
                  seed.todo[i] = Head(seed.todo) \/ \E j \in DOMAIN Tail(seed.todo) : seed.todo[i] = Tail(seed.todo)[j]
<1>1. seed.todo \in Seq(Seeded) /\ Len(seed.todo) \in Nat /\ DOMAIN seed.todo = 1..Len(seed.todo)
  BY DEF TypeInv, SeedType
<1>2. 1 \in DOMAIN seed.todo /\ seed.todo[1] = Head(seed.todo)
  BY <1>1
<1>3. ASSUME NEW i \in DOMAIN seed.todo, i # 1
      PROVE  i - 1 \in DOMAIN Tail(seed.todo) /\ Tail(seed.todo)[i - 1] = seed.todo[i]
  BY <1>1, <1>3
<1>4. QED
  BY <1>2, <1>3 DEF Processed

LEMMA SeedingKept ==
    ASSUME TypeInv, \A c \in Callers : MutableInv(c), LegacyInv, SeedingInv, AccessNext, UNCHANGED seed
    PROVE  SeedingInv'
<1> SUFFICES ASSUME "adopted" \notin excuse', seed.step \in Seeding
             PROVE  /\ \A code \in Processed : \E p \in seed.ids \cap DOMAIN permission' :
                           permission'[p] = [code |-> code, place |-> code]
                    /\ seed.step = "upsert" => \A p \in seed.found :
                           p \notin unused' /\ (p \in DOMAIN permission' => permission'[p].code \notin Processed)
  BY DEF SeedingInv, Processed
<1>1. ~UpsertPermission
  BY UpsertShape
<1>2. "adopted" \notin excuse /\ unused' \subseteq unused
  BY ExcuseGrows, TableStep
<1>3. ASSUME NEW code \in Processed
      PROVE  \E p \in seed.ids \cap DOMAIN permission : /\ permission[p] = [code |-> code, place |-> code]
                                                      /\ p \in DOMAIN permission' /\ permission'[p] = permission[p]
  <2>1. PICK p \in seed.ids \cap DOMAIN permission : permission[p] = [code |-> code, place |-> code]
    BY <1>2, <1>3 DEF SeedingInv
  <2>2. ManagedRow(p)
    BY <2>1, <1>3 DEF ManagedRow, Processed
  <2>3. QED
    BY <1>1, <2>1, <2>2, ManagedKept
<1>4. ASSUME seed.step = "upsert", NEW p \in seed.found
      PROVE  p \notin unused' /\ (p \in DOMAIN permission' => permission'[p].code \notin Processed)
  <2>1. p \notin unused /\ (p \in DOMAIN permission => permission[p].code \notin Processed)
    BY <1>2, <1>4 DEF SeedingInv, Seeding
  <2>2. ASSUME p \in DOMAIN permission', permission'[p].code \in Processed PROVE FALSE
    <3>1. PICK c \in Callers : Renames(c, p)
      BY <1>1, <2>1, <2>2, RowsChange
    <3>2. PICK q \in DOMAIN permission : permission[q].code = permission'[p].code /\ permission[q].code \in Processed
      BY <1>3, <2>2
    <3>3. q = p
      BY <3>1, <3>2 DEF Renames, CodeIsFree, RowsWithCode
    <3>4. QED
      BY <2>1, <3>2, <3>3
  <2>3. QED
    BY <1>2, <2>1, <2>2
<1>5. QED
  BY <1>3, <1>4

LEMMA SeedingInvStep ==
    ASSUME TypeInv, CodesUnique, \A c \in Callers : MutableInv(c), LegacyInv, SeedingInv, AccessNext
    PROVE  SeedingInv'
<1>0. /\ SeedType /\ unused \cap DOMAIN permission = {} /\ permission \in [DOMAIN permission -> PermissionRow]
      /\ unused' \subseteq unused /\ excuse \subseteq excuse' /\ DOMAIN permission \subseteq PermissionIds
  BY TableStep, ExcuseGrows DEF TypeInv, AccessTypeOK, IsTable
<1>1. CASE UNCHANGED seed
  BY <1>1, SeedingKept
<1>2. CASE RolesSeeded
  <2>1. seed'.todo = PermissionSeeds /\ seed'.step = "byCode"
    BY <1>0, <1>2 DEF RolesSeeded, SeedStep, SeedType, SeedIsRecord
  <2>2. Processed' = {}
    BY <2>1, AccessConstants DEF Processed, Seeded
  <2>3. QED
    BY <2>1, <2>2 DEF SeedingInv
<1>3. CASE FindByCode
  <2> DEFINE found == RowsWithCode(permission, Head(seed.todo))
  <2>1. /\ seed.todo # <<>> /\ seed'.found = found /\ seed'.ids = seed.ids /\ seed'.todo = seed.todo
        /\ seed.step \in Seeding /\ UNCHANGED <<tables, excuse>>
    BY <1>0, <1>3 DEF FindByCode, SeedStep, SeedType, SeedIsRecord, Seeding
  <2>2. \A p \in found : p \notin unused /\ permission[p].code \notin Processed
    BY <1>0, <2>1, HeadTail DEF RowsWithCode
  <2>3. QED
    BY <2>1, <2>2 DEF SeedingInv, Processed, tables
<1>4. CASE FindByPlace
  <2>1. /\ seed.todo # <<>> /\ seed'.ids = seed.ids /\ seed'.todo = seed.todo
        /\ seed.step \in Seeding /\ UNCHANGED <<tables, excuse>>
        /\ \A p \in seed'.found : p \in DOMAIN permission /\ permission[p].place = Head(seed.todo)
    <3>1. PICK found : /\ \A p \in found : p \in DOMAIN permission /\ permission[p].place = Head(seed.todo)
                       /\ SeedStep("byPlace", [seed EXCEPT !.found = found, !.step = "upsert"])
      BY <1>4 DEF FindByPlace
    <3>2. QED
      BY <1>0, <1>4, <3>1 DEF FindByPlace, SeedStep, SeedType, SeedIsRecord, Seeding
  <2>2. ASSUME "adopted" \notin excuse, NEW p \in seed'.found PROVE permission[p].code \notin Processed
    <3>1. SUFFICES ASSUME permission[p].code \in Processed PROVE FALSE
      OBVIOUS
    <3>2. PICK q \in DOMAIN permission : permission[q] = [code |-> permission[p].code, place |-> permission[p].code]
      BY <2>1, <2>2, <3>1 DEF SeedingInv
    <3>3. q = p
      BY <2>1, <3>2 DEF CodesUnique
    <3>4. permission[p].place = permission[p].code
      BY <3>2, <3>3
    <3>5. QED
      BY <2>1, <3>1, <3>4, HeadTail
  <2>3. QED
    BY <1>0, <2>1, <2>2 DEF SeedingInv, Processed, tables
<1>5. CASE UpsertPermission
  <2> SUFFICES ASSUME "adopted" \notin excuse', NEW code \in Processed'
               PROVE  \E p \in seed'.ids \cap DOMAIN permission' : permission'[p] = [code |-> code, place |-> code]
    BY <1>5, UpsertShape DEF SeedingInv
  <2> DEFINE new == Head(seed.todo)
  <2>1. PICK p \in PermissionIds :
            /\ permission' = Put(permission, p, [code |-> new, place |-> new])
            /\ seed.found = {p} \/ p \in unused
            /\ seed'.todo = Tail(seed.todo) /\ seed'.ids = seed.ids \cup {p} /\ seed.step = "upsert"
    BY <1>5, UpsertShape
  <2>2. seed.todo # <<>>
    BY <1>0, <2>1 DEF SeedType
  <2>3. code = new \/ code \in Processed
    BY <2>1, <2>2, HeadTail DEF Processed
  <2> HIDE DEF new
  <2>4. CASE code = new
    BY <2>1, <2>4 DEF Put
  <2>5. CASE code \in Processed
    <3>1. PICK q \in seed.ids \cap DOMAIN permission : permission[q] = [code |-> code, place |-> code]
      BY <1>0, <2>1, <2>5 DEF SeedingInv, Seeding
    <3>2. q # p
      BY <1>0, <2>1, <2>5, <3>1 DEF SeedingInv, Seeding
    <3>3. q \in DOMAIN permission' /\ permission'[q] = permission[q]
      BY <2>1, <3>1, <3>2 DEF Put
    <3>4. QED
      BY <2>1, <3>1, <3>3
  <2>6. QED
    BY <2>3, <2>4, <2>5
<1>6. CASE StartSeed \/ StopSeed
  BY <1>6 DEF StartSeed, StopSeed, NoSeed, SeedingInv, Seeding
<1>7. CASE \/ ConnectAdmin \/ FindRolePermissions \/ ConnectRolePermissions \/ UpsertAdminUser
           \/ FindLegacy \/ CopyLegacyLinks \/ DeleteLegacy \/ \E code \in RoleCodes : UpsertRole(code)
  <2>1. seed'.step \notin Seeding
    BY <1>0, <1>7 DEF ConnectAdmin, FindRolePermissions, ConnectRolePermissions, UpsertAdminUser, FindLegacy,
          CopyLegacyLinks, DeleteLegacy, UpsertRole, SeedStep, SeedType, SeedIsRecord, Seeding
  <2>2. QED
    BY <2>1 DEF SeedingInv
<1>8. CASE Seed
  BY <1>2, <1>3, <1>4, <1>5, <1>6, <1>7, <1>8 DEF Seed
<1>9. ASSUME NEW c \in Callers, Arrives(c) PROVE UNCHANGED seed
  BY <1>9, BeginShape DEF Begins
<1>10. ASSUME NEW c \in Callers, UserCall(c) \/ RoleCall(c) \/ PermissionCall(c) \/ Abort(c) PROVE UNCHANGED seed
  BY <1>10, CallShape DEF Proceeds
<1>11. QED
  BY <1>1, <1>8, <1>9, <1>10 DEF AccessNext, Arrives

----------------------------------------------------------------------------
(* The permissions of roles *)

(* No admin role loses a managed permission. *)
LEMMA AdminLinksKept ==
    ASSUME TypeInv, \A c \in Callers : RoleInv(c) /\ MutableInv(c), LegacyInv, AccessNext, "adopted" \notin excuse',
           NEW r \in AdminRole, NEW p \in role[r].permissions, ManagedRow(p)
    PROVE  p \in role'[r].permissions
<1>0. /\ role \in [DOMAIN role -> RoleRow] /\ unused \cap DOMAIN role = {} /\ r \in DOMAIN role
      /\ role[r].code = Admin /\ "adopted" \notin excuse
  BY ExcuseGrows DEF TypeInv, AccessTypeOK, IsTable, AdminRole, RowsWithCode
<1> DEFINE Goal == p \in role'[r].permissions
<1>a. CASE UNCHANGED role
  BY <1>a
<1>1. ASSUME NEW c \in Callers, RoleCall(c) PROVE Goal
  <2>1. CASE FindPermissions(c) \/ RoleIsMutable(c) \/ RolesAreRemovable(c)
    BY <2>1, <1>a DEF FindPermissions, RoleIsMutable, RolesAreRemovable, Proceed, tables
  <2>2. CASE InsertRole(c)
    BY <1>0, <2>2 DEF InsertRole, InsertRow, Put
  <2>3. CASE UpdateRole(c)
    <3>1. call[c].on # r
      BY <2>3 DEF UpdateRole, RoleInv
    <3>2. QED
      BY <1>0, <2>3, <3>1 DEF UpdateRole
  <2>4. CASE RemoveRoles(c)
    <3>1. r \notin call[c].ids
      BY <2>4 DEF RemoveRoles, RoleInv
    <3>2. QED
      BY <1>0, <2>4, <3>1 DEF RemoveRoles, DeleteRoles, Drop
  <2>5. QED
    BY <1>1, <2>1, <2>2, <2>3, <2>4 DEF RoleCall
<1>2. ASSUME NEW c \in Callers, UserCall(c) \/ PermissionCall(c) \/ Abort(c) PROVE Goal
  <2>1. CASE RemovePermissions(c)
    <3>1. p \notin call[c].ids
      BY <1>0, <2>1 DEF RemovePermissions, MutableInv
    <3>2. QED
      BY <1>0, <2>1, <3>1 DEF RemovePermissions, DeletePermissions, RoleRow
  <2>2. QED
    BY <1>2, <1>a, <2>1 DEF UserCall, SelfKeepsAdminRole, FindAssignableRoles, InsertUser, InsertRegistered, InsertUserWithRoles,
            UpdateUser, RemoveUsers,
          PermissionCall, InsertPermission, PermissionIsMutable, UpdatePermission, PermissionsAreMutable,
          Abort, Proceed, tables
<1>3. CASE Seed
  <2>1. ASSUME NEW code \in RoleCodes, UpsertRole(code) PROVE Goal
    <3>1. PICK q \in RoleIds :
              \/ q \in RowsWithCode(role, code) /\ role' = [role EXCEPT ![q].enabled = TRUE]
              \/ InsertRow(role, q, [code |-> code, enabled |-> TRUE, permissions |-> {}])
      BY <2>1 DEF UpsertRole
    <3>2. QED
      BY <1>0, <3>1 DEF InsertRow, Put, RowsWithCode, RoleRow
  <2>2. CASE ConnectAdmin \/ ConnectRolePermissions
    <3>1. PICK q \in DOMAIN role : role' = [role EXCEPT ![q].permissions = @ \cup seed.ids]
      BY <2>2 DEF ConnectAdmin, ConnectRolePermissions, Connect
    <3>2. QED
      BY <1>0, <3>1 DEF RoleRow
  <2>3. CASE CopyLegacyLinks
    BY <1>0, <2>3 DEF CopyLegacyLinks, RoleRow
  <2>4. CASE DeleteLegacy
    <3>1. p \notin seed.found
      BY <1>0, <2>4 DEF DeleteLegacy, SeedStep, LegacyInv
    <3>2. QED
      BY <1>0, <2>4, <3>1 DEF DeleteLegacy, DeletePermissions, RoleRow
  <2>5. QED
    BY <1>3, <1>a, <2>1, <2>2, <2>3, <2>4 DEF Seed, StartSeed, StopSeed, RolesSeeded, FindByCode, FindByPlace,
          UpsertPermission, FindRolePermissions, UpsertAdminUser, FindLegacy, tables
<1>4. ASSUME NEW c \in Callers, Arrives(c) PROVE Goal
  BY <1>4, <1>a, BeginShape DEF Begins, tables
<1>5. QED
  BY <1>1, <1>2, <1>3, <1>4 DEF AccessNext, Arrives

LEMMA CompleteKept ==
    ASSUME TypeInv, \A c \in Callers : RoleInv(c) /\ MutableInv(c), LegacyInv, AccessNext, ~UpsertPermission,
           "adopted" \notin excuse', Complete
    PROVE  Complete'
<1> SUFFICES ASSUME NEW code \in Managed
             PROVE  \E p \in DOMAIN permission' : permission'[p].code = code /\ \E r \in AdminRole' : p \in role'[r].permissions
  BY DEF Complete, RowsWithCode
<1>1. PICK p \in DOMAIN permission : permission[p].code = code /\ \E r \in AdminRole : p \in role[r].permissions
  BY DEF Complete, RowsWithCode
<1>2. PICK r \in AdminRole : p \in role[r].permissions
  BY <1>1
<1>3. ManagedRow(p)
  BY <1>1 DEF ManagedRow
<1>4. p \in DOMAIN permission' /\ permission'[p] = permission[p]
  BY <1>3, ManagedKept
<1>5. r \in AdminRole' /\ p \in role'[r].permissions
  BY <1>2, <1>3, AdminLinksKept, RolesAreKept DEF RolesKept
<1>6. QED
  BY <1>1, <1>4, <1>5

Completed == {"others", "connect", "done"} \cup Migration

LEMMA CompleteInvStep ==
    ASSUME TypeInv, AdminInv, \A c \in Callers : RoleInv(c) /\ MutableInv(c), LegacyInv, SeedingInv, CompleteInv,
           AccessNext
    PROVE  CompleteInv'
<1>0. SeedType /\ excuse \subseteq excuse'
  BY ExcuseGrows DEF TypeInv
<1> SUFFICES ASSUME "adopted" \notin excuse', seed'.step \in Completed PROVE Complete'
  BY DEF CompleteInv, Completed
<1>1. CASE seed.step \in Completed /\ ~UpsertPermission
  BY <1>0, <1>1, CompleteKept DEF CompleteInv, Completed
<1>2. CASE ConnectAdmin
  <2>1. /\ seed.todo = <<>> /\ seed.step = "byCode" /\ UNCHANGED permission /\ seed.ids \subseteq DOMAIN permission
        /\ role' = [role EXCEPT ![seed.rows[Admin]].permissions = @ \cup seed.ids]
    BY <1>2 DEF ConnectAdmin, Connect, SeedStep
  <2>2. Processed = Managed
    BY <2>1 DEF Processed
  <2>3. seed.rows[Admin] \in AdminRole
    BY <2>1 DEF AdminInv, Seeding
  <2>4. seed.rows[Admin] \in AdminRole' /\ seed.ids \subseteq role'[seed.rows[Admin]].permissions
    BY <2>1, <2>3, AccessConstants DEF AdminRole, RowsWithCode, TypeInv, AccessTypeOK, IsTable, RoleRow
  <2>5. \A code \in Managed : \E p \in seed.ids \cap DOMAIN permission : permission[p].code = code
    BY <1>0, <2>1, <2>2 DEF SeedingInv, Seeding
  <2>6. QED
    BY <2>1, <2>4, <2>5 DEF Complete, RowsWithCode
<1>3. CASE UpsertPermission
  BY <1>3, UpsertShape DEF Completed, Migration
<1>4. CASE Seed /\ ~ConnectAdmin /\ ~UpsertPermission
  <2>1. seed.step \in Completed
    BY <1>0, <1>4 DEF Seed, StartSeed, StopSeed, UpsertRole, RolesSeeded, FindByCode, FindByPlace,
          FindRolePermissions, ConnectRolePermissions, UpsertAdminUser, FindLegacy,
          CopyLegacyLinks, DeleteLegacy, SeedStep, SeedType, SeedIsRecord, NoSeed, Completed, Migration
  <2>2. QED
    BY <1>1, <1>4, <2>1
<1>5. ASSUME NEW c \in Callers, Arrives(c) PROVE UNCHANGED seed
  BY <1>5, BeginShape DEF Begins
<1>6. ASSUME NEW c \in Callers, UserCall(c) \/ RoleCall(c) \/ PermissionCall(c) \/ Abort(c) PROVE UNCHANGED seed
  BY <1>6, CallShape DEF Proceeds
<1>7. QED
  BY <1>1, <1>2, <1>3, <1>4, <1>5, <1>6 DEF AccessNext, Arrives

----------------------------------------------------------------------------
(* The legacy permission *)

(* While the links are copied and the legacy row stands, no call links a role anew. *)
LEMMA LinksKept ==
    ASSUME TypeInv, \A c \in Callers : MutableInv(c), AccessNext, ~Seed, seed.step = "legacyDelete",
           excuse' \cap {"relinked", "adopted"} = {}, NEW r \in DOMAIN role'
    PROVE  /\ r \in DOMAIN role /\ role'[r].permissions \subseteq role[r].permissions
           /\ \A p \in role[r].permissions : ManagedRow(p) => p \in role'[r].permissions
<1>0. role \in [DOMAIN role -> RoleRow] /\ "adopted" \notin excuse
  BY ExcuseGrows DEF TypeInv, AccessTypeOK, IsTable
<1> DEFINE Goal == /\ r \in DOMAIN role /\ role'[r].permissions \subseteq role[r].permissions
                   /\ \A p \in role[r].permissions : ManagedRow(p) => p \in role'[r].permissions
<1>a. ASSUME UNCHANGED role PROVE Goal
  BY <1>a
<1>1. ASSUME NEW c \in Callers, RoleCall(c) PROVE Goal
  <2>1. CASE FindPermissions(c) \/ RoleIsMutable(c) \/ RolesAreRemovable(c)
    BY <2>1, <1>a DEF FindPermissions, RoleIsMutable, RolesAreRemovable, Proceed, tables
  <2>2. CASE InsertRole(c)
    BY <2>2 DEF InsertRole, Excuse, Migrating
  <2>3. CASE UpdateRole(c)
    <3>1. PICK ids \in SUBSET DOMAIN permission, enabled \in BOOLEAN :
              /\ role' = [role EXCEPT ![call[c].on] = [@ EXCEPT !.permissions = ids, !.enabled = enabled]]
              /\ ids # role[call[c].on].permissions => "relinked" \in excuse'
      BY <2>3 DEF UpdateRole, Migrating
    <3>2. ids = role[call[c].on].permissions
      BY <3>1
    <3>3. QED
      BY <1>0, <3>1, <3>2 DEF RoleRow
  <2>4. CASE RemoveRoles(c)
    BY <1>0, <2>4 DEF RemoveRoles, DeleteRoles, Drop
  <2>5. QED
    BY <1>1, <2>1, <2>2, <2>3, <2>4 DEF RoleCall
<1>2. ASSUME NEW c \in Callers, UserCall(c) \/ PermissionCall(c) \/ Abort(c) PROVE Goal
  <2>1. CASE RemovePermissions(c)
    <3>1. \A p \in call[c].ids : ~ManagedRow(p)
      BY <1>0, <2>1 DEF RemovePermissions, MutableInv
    <3>2. QED
      BY <1>0, <2>1, <3>1 DEF RemovePermissions, DeletePermissions, RoleRow
  <2>2. QED
    BY <1>2, <1>a, <2>1 DEF UserCall, SelfKeepsAdminRole, FindAssignableRoles, InsertUser, InsertRegistered, InsertUserWithRoles,
            UpdateUser, RemoveUsers,
          PermissionCall, InsertPermission, PermissionIsMutable, UpdatePermission, PermissionsAreMutable,
          Abort, Proceed, tables
<1>3. ASSUME NEW c \in Callers, Arrives(c) PROVE Goal
  BY <1>3, <1>a, BeginShape DEF Begins, tables
<1>4. QED
  BY <1>1, <1>2, <1>3 DEF AccessNext, Arrives

LEMMA LegacyInvStep ==
    ASSUME TypeInv, \A c \in Callers : MutableInv(c), CompleteInv, LegacyInv, AccessNext
    PROVE  LegacyInv'
<1>0. /\ SeedType /\ excuse \subseteq excuse' /\ unused' \subseteq unused
      /\ unused \cap DOMAIN permission = {} /\ role \in [DOMAIN role -> RoleRow]
  BY ExcuseGrows, TableStep DEF TypeInv, AccessTypeOK, IsTable
<1> SUFFICES ASSUME "adopted" \notin excuse', seed'.step \in {"legacyCopy", "legacyDelete"}
             PROVE  LegacyInv'
  BY DEF LegacyInv
<1>1. ASSUME ~Seed PROVE LegacyInv'
  <2>0. UNCHANGED seed
    BY <1>1, BeginShape, CallShape DEF AccessNext, Arrives, Begins, Proceeds
  <2>1. /\ \A p \in seed.found : p \notin unused /\ ~ManagedRow(p)
        /\ seed.ids # {} /\ \A p \in seed.ids : p \in DOMAIN permission /\ permission[p].code = Successor
        /\ Complete /\ ~UpsertPermission
    BY <1>0, <1>1, <2>0 DEF LegacyInv, CompleteInv, Migration, Seed
  <2>2. ASSUME NEW p \in seed.found, p \in DOMAIN permission', permission'[p].code \in Managed PROVE FALSE
    <3>1. PICK c \in Callers : Renames(c, p)
      BY <2>1, <2>2, RowsChange DEF ManagedRow
    <3>2. PICK q \in RowsWithCode(permission, permission'[p].code) : TRUE
      BY <2>1, <2>2 DEF Complete
    <3>3. q = p
      BY <3>1, <3>2 DEF Renames, CodeIsFree
    <3>4. QED
      BY <2>1, <2>2, <3>2, <3>3 DEF ManagedRow, RowsWithCode
  <2>3. ASSUME NEW p \in seed.ids
        PROVE  ManagedRow(p) /\ p \in DOMAIN permission' /\ permission'[p].code = Successor
    <3>1. ManagedRow(p)
      BY <2>1, AccessConstants DEF ManagedRow
    <3>2. QED
      BY <2>1, <3>1, ManagedKept
  <2>4. ASSUME seed.step = "legacyDelete", "relinked" \notin excuse', NEW r \in DOMAIN role',
               seed.found \subseteq role'[r].permissions
        PROVE  seed.ids \subseteq role'[r].permissions
    <3>1. /\ r \in DOMAIN role /\ role'[r].permissions \subseteq role[r].permissions
          /\ \A p \in role[r].permissions : ManagedRow(p) => p \in role'[r].permissions
      BY <1>1, <2>4, LinksKept
    <3>2. seed.ids \subseteq role[r].permissions
      BY <1>0, <2>4, <3>1 DEF LegacyInv
    <3>3. QED
      BY <2>3, <3>1, <3>2
  <2>5. QED
    BY <1>0, <2>0, <2>1, <2>2, <2>3, <2>4 DEF LegacyInv, ManagedRow
<1>2. CASE FindLegacy
  <2>1. /\ seed'.found = RowsWithCode(permission, Legacy) /\ seed'.ids = RowsWithCode(permission, Successor)
        /\ seed'.ids # {} /\ seed'.step = "legacyCopy" /\ UNCHANGED <<permission, unused>>
    BY <1>0, <1>2 DEF FindLegacy, SeedStep, SeedType, SeedIsRecord, tables
  <2>2. \A p \in seed'.found : p \notin unused /\ ~ManagedRow(p)
    BY <1>0, <2>1, AccessConstants DEF ManagedRow, RowsWithCode
  <2>3. \A p \in seed'.ids : p \in DOMAIN permission /\ permission[p].code = Successor
    BY <2>1 DEF RowsWithCode
  <2>4. QED
    BY <2>1, <2>2, <2>3 DEF LegacyInv, ManagedRow
<1>3. CASE CopyLegacyLinks
  <2>1. /\ seed.step = "legacyCopy" /\ seed'.found = seed.found /\ seed'.ids = seed.ids
        /\ UNCHANGED <<permission, unused, excuse>>
    BY <1>0, <1>3 DEF CopyLegacyLinks, SeedStep, SeedType, SeedIsRecord
  <2>2. \A r \in DOMAIN role' : seed.found \subseteq role'[r].permissions => seed.ids \subseteq role'[r].permissions
    BY <1>0, <1>3 DEF CopyLegacyLinks, RoleRow
  <2>3. QED
    BY <2>1, <2>2 DEF LegacyInv, ManagedRow
<1>4. CASE Seed /\ ~FindLegacy /\ ~CopyLegacyLinks
  <2>1. seed'.step \notin {"legacyCopy", "legacyDelete"}
    BY <1>0, <1>4 DEF Seed, StartSeed, StopSeed, UpsertRole, RolesSeeded, FindByCode, FindByPlace, UpsertPermission,
          ConnectAdmin, FindRolePermissions, ConnectRolePermissions, UpsertAdminUser, DeleteLegacy, SeedStep,
          SeedType, SeedIsRecord, NoSeed
  <2>2. QED
    BY <2>1
<1>5. QED
  BY <1>1, <1>2, <1>3, <1>4

(* What LegacyLinksKept says of a step. *)
LEMMA LegacyStep ==
    ASSUME TypeInv, LegacyInv, AccessNext, seed.step = "legacyDelete", seed'.step = "done",
           excuse \cap {"relinked", "adopted"} = {}, NEW r \in DOMAIN role, seed.found \subseteq role[r].permissions
    PROVE  \E p \in role'[r].permissions : permission[p].code = Successor
<1>0. SeedType /\ role \in [DOMAIN role -> RoleRow]
  BY DEF TypeInv, AccessTypeOK, IsTable
<1>1. Seed
  BY BeginShape, CallShape DEF AccessNext, Arrives, Begins, Proceeds
<1>2. DeleteLegacy
  BY <1>0, <1>1 DEF Seed, StartSeed, StopSeed, UpsertRole, RolesSeeded, FindByCode, FindByPlace, UpsertPermission,
          ConnectAdmin, FindRolePermissions, ConnectRolePermissions, UpsertAdminUser, FindLegacy, CopyLegacyLinks,
          SeedStep, SeedType, SeedIsRecord, NoSeed
<1>3. PICK p \in seed.ids : p \in DOMAIN permission /\ permission[p].code = Successor
  BY DEF LegacyInv
<1>4. p \in role[r].permissions /\ p \notin seed.found
  BY <1>3, AccessConstants DEF LegacyInv, ManagedRow
<1>5. p \in role'[r].permissions
  BY <1>0, <1>2, <1>4 DEF DeleteLegacy, DeletePermissions, RoleRow
<1>6. QED
  BY <1>3, <1>5

----------------------------------------------------------------------------
(* Theorems *)

LEMMA AccessStep == AccessInv /\ [AccessNext]_accessVars => AccessInv'
<1> SUFFICES ASSUME AccessInv, [AccessNext]_accessVars PROVE AccessInv'
  OBVIOUS
<1> USE DEF AccessInv
<1>1. TypeInv'
  BY TypeStep
<1>2. CASE AccessNext
  <2>1. CodesUnique' /\ AdminInv'
    BY <1>2, CodesUniqueStep, AdminInvStep
  <2>2. \A c \in Callers : RoleInv(c)' /\ GrantInv(c)' /\ HolderInv(c)' /\ MutableInv(c)'
    BY <1>2, RoleInvStep, GrantInvStep, HolderInvStep, MutableInvStep
  <2>3. SeedingInv' /\ CompleteInv' /\ LegacyInv' /\ AdminRoleHeld'
    BY <1>2, SeedingInvStep, CompleteInvStep, LegacyInvStep, AdminHeldStep
  <2>4. QED
    BY <1>1, <2>1, <2>2, <2>3
<1>3. CASE UNCHANGED accessVars
  <2> USE <1>3 DEF accessVars, tables
  <2>1. CodesUnique' /\ AdminInv'
    BY DEF CodesUnique, AdminInv, AdminRole, RowsWithCode
  <2>2. \A c \in Callers : RoleInv(c)' /\ GrantInv(c)' /\ HolderInv(c)' /\ MutableInv(c)'
    BY DEF RoleInv, GrantInv, HolderInv, HoldsAdmin, MutableInv, ManagedRow, AtWrite, AdminRole, RowsWithCode
  <2>3. SeedingInv' /\ CompleteInv' /\ LegacyInv' /\ AdminRoleHeld'
    BY DEF SeedingInv, Processed, CompleteInv, Complete, LegacyInv, ManagedRow, AdminRoleHeld, HoldsAdmin,
           AdminRole, RowsWithCode
  <2>4. QED
    BY <1>1, <2>1, <2>2, <2>3
<1>4. QED
  BY <1>2, <1>3

LEMMA AccessAlways == AccessSpec => []AccessInv
BY InitAccess, AccessStep, PTL DEF AccessSpec

(* The tables stay well-formed: a role names permissions and a user names  *)
(* roles that exist, however calls and seed interleave.                    *)
THEOREM AccessTypes == AccessSpec => []AccessTypeOK
<1>1. AccessInv => AccessTypeOK
  BY DEF AccessInv, TypeInv
<1>2. QED
  BY <1>1, AccessAlways, PTL

(* Somebody holds the admin role as long as administrators change users    *)
(* and none loses the role while a call of its own is under way            *)
(* (assertSelfKeepsAdminRole, assertDoesNotDeleteCurrentUser).             *)
THEOREM AdminRoleStaysHeld == AccessSpec => []AdminRoleHeld
<1>1. AccessInv => AdminRoleHeld
  BY DEF AccessInv
<1>2. QED
  BY <1>1, AccessAlways, PTL

(* A finished run of the seed leaves every system managed permission in    *)
(* place and with the admin role, and no back office call takes one away.  *)
THEOREM SystemStaysComplete == AccessSpec => []SystemComplete
<1>1. AccessInv => SystemComplete
  BY DEF AccessInv, CompleteInv, Complete, SystemComplete
<1>2. QED
  BY <1>1, AccessAlways, PTL

(* A disabled role reaches a user only as the default role of somebody who *)
(* registers, or because it was disabled between the check and the write   *)
(* of the call that gives it (createUserByWeb, findAssignableRoles).       *)
THEOREM NoDisabledRoleGranted == AccessSpec => NoDisabledGrant
<1>1. ASSUME AccessInv, [AccessNext]_accessVars
      PROVE  [\A u \in DOMAIN user' :
                 LET held == IF u \in DOMAIN user THEN user[u].roles ELSE {} IN
                 \A r \in user'[u].roles \ held :
                     \/ role[r].enabled \/ r \in excuse
                     \/ role[r].code = Default /\ Registers(u)]_accessVars
  BY <1>1, GrantStep DEF AccessInv, Granted
<1>2. QED
  BY <1>1, AccessAlways, PTL DEF AccessSpec, NoDisabledGrant

(* The deletion of a legacy permission costs no role what it stood for     *)
(* (migrateLegacyPermissionAliases).                                       *)
THEOREM LegacyLinksSurvive == AccessSpec => LegacyLinksKept
<1>1. ASSUME AccessInv, [AccessNext]_accessVars
      PROVE  [seed.step = "legacyDelete" /\ seed'.step = "done" /\ excuse \cap {"relinked", "adopted"} = {} =>
                 \A r \in DOMAIN role : seed.found \subseteq role[r].permissions =>
                     \E p \in role'[r].permissions : permission[p].code = Successor]_accessVars
  BY <1>1, LegacyStep DEF AccessInv
<1>2. QED
  BY <1>1, AccessAlways, PTL DEF AccessSpec, LegacyLinksKept
=============================================================================

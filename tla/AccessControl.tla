---------------------------- MODULE AccessControl ----------------------------
(***************************************************************************)
(* Roles, permissions and the users' roles: the back office endpoints      *)
(* (src/src/roles, src/src/permissions, src/src/users) behind the          *)
(* permission guard, the registrations, which give a new user the default  *)
(* role, and the seed (src/prisma/seed.ts), which runs as a process of its *)
(* own beside the server.  The users the demo seed puts in place are not   *)
(* among the rows here.  A step of a call or of the seed is one statement; *)
(* between two of them any other may run.  A call whose statement is       *)
(* refused or fails ends and leaves what it wrote before.                  *)
(*                                                                         *)
(* A table is a function whose domain is the set of its row ids; an id is  *)
(* never used twice.                                                       *)
(***************************************************************************)
EXTENDS Naturals, Sequences, FiniteSets

CONSTANTS
    RoleIds, PermissionIds, UserIds,
    BootstrapIds,       \* ids of rows whose email is ADMIN_EMAIL
    RoleCodes, Admin, Default, \* role codes; the codes "admin" and "user"
    PermissionCodes,
    PermissionSeeds,    \* the codes of menuTree's permissions, in its order
    RoleSeeds,          \* role code -> permission codes
    Managed,            \* systemManagedPermissionCodes
    Legacy, Successor,  \* an entry of legacyPermissionAliases
    Elsewhere,          \* an action, path and group no seed has
    InitialRoles, InitialPermissions, InitialUsers, \* the tables before the seed runs
    Endpoint,           \* the permission the endpoints ask for
    Callers,            \* calls in flight
    MaxWork,            \* bound on the calls and the runs of the seed together
    None

Seeded == {PermissionSeeds[i] : i \in DOMAIN PermissionSeeds}
Places == Seeded \cup {Elsewhere}

IsTable(t, ids, rows) == DOMAIN t \subseteq ids /\ t \in [DOMAIN t -> rows]
RoleRow == [code : RoleCodes, enabled : BOOLEAN, permissions : SUBSET PermissionIds]
PermissionRow == [code : PermissionCodes, place : Places]
UserRow == [roles : SUBSET RoleIds, isAdmin : BOOLEAN]

Operations == {"register", "createUser", "updateUser", "removeUsers", "createRole", "updateRole",
               "removeRoles", "createPermission", "updatePermission", "removePermissions"}

ASSUME AccessConstants ==
    /\ Admin \in DOMAIN RoleSeeds /\ Default \in DOMAIN RoleSeeds \ {Admin}
    /\ RoleSeeds \in [DOMAIN RoleSeeds -> SUBSET Seeded]
    /\ DOMAIN RoleSeeds \subseteq RoleCodes
    /\ PermissionSeeds \in Seq(PermissionCodes)
    /\ Managed \subseteq Seeded /\ Endpoint \in Seeded
    /\ Legacy \in PermissionCodes \ Seeded /\ Successor \in Managed
    /\ BootstrapIds \subseteq UserIds /\ Elsewhere \notin Seeded
    /\ None \notin RoleIds \cup PermissionIds \cup UserIds \cup RoleCodes \cup PermissionCodes
    /\ None \notin Operations /\ \A ids \in SUBSET RoleIds : ids # None
    /\ RoleIds \cap PermissionIds = {} /\ RoleIds \cap UserIds = {} /\ PermissionIds \cap UserIds = {}
    /\ MaxWork \in Nat

(* The seed of an earlier release has been through: somebody is an administrator. *)
ASSUME AccessInstalled ==
    /\ IsTable(InitialRoles, RoleIds, RoleRow)
    /\ IsTable(InitialPermissions, PermissionIds, PermissionRow)
    /\ IsTable(InitialUsers, UserIds, UserRow)
    /\ \A r \in DOMAIN InitialRoles : InitialRoles[r].permissions \subseteq DOMAIN InitialPermissions
    /\ \A u \in DOMAIN InitialUsers : InitialUsers[u].roles \subseteq DOMAIN InitialRoles
    /\ \A p, q \in DOMAIN InitialPermissions :
           InitialPermissions[p].code = InitialPermissions[q].code => p = q
    /\ \E u \in DOMAIN InitialUsers : \E r \in InitialUsers[u].roles : InitialRoles[r].code = Admin

VARIABLES
    role, permission, user,
    unused,     \* row ids no row has had yet
    call,       \* where each call is and what it knows
    calls,      \* how many calls began
    seed,       \* where the seed is and what it knows
    excuse      \* history variable: changes that hit what another process had already read,
                \* and the roles disabled between the check and the write of a call

tables == <<role, permission, user, unused>>
accessVars == <<tables, call, calls, seed, excuse>>

NoCall == [op |-> None, step |-> "idle", by |-> None, on |-> None, ids |-> None]
NoSeed == [step |-> "idle", todo |-> <<>>, rows |-> <<>>, found |-> {}, ids |-> {}, runs |-> 0]

AccessInit ==
    /\ role = InitialRoles /\ permission = InitialPermissions /\ user = InitialUsers
    /\ unused = (RoleIds \ DOMAIN role) \cup (PermissionIds \ DOMAIN permission)
                    \cup (UserIds \ DOMAIN user)
    /\ call = [c \in Callers |-> NoCall]
    /\ calls = 0
    /\ seed = NoSeed
    /\ excuse = {}

----------------------------------------------------------------------------
(* Statements *)

Put(table, id, row) == [i \in DOMAIN table \cup {id} |-> IF i = id THEN row ELSE table[i]]
Drop(table, ids) == [i \in DOMAIN table \ ids |-> table[i]]

RowsWithCode(table, code) == {i \in DOMAIN table : table[i].code = code}
AdminRole == RowsWithCode(role, Admin)
HoldsAdmin(u) == user[u].roles \cap AdminRole # {}

(* Row i takes code, unless another row has it (the unique index). *)
CodeIsFree(table, i, code) == RowsWithCode(table, code) \subseteq {i}

InsertRow(table, id, row) == id \in unused /\ table' = Put(table, id, row) /\ unused' = unused \ {id}

(* Mutant: the users of a deleted role keep it. *)
DeleteOnlyRoles(ids) == role' = Drop(role, ids) /\ UNCHANGED <<permission, user, unused>>

(* A deleted role loses its users, a deleted permission its roles. *)
DeleteRoles(ids) ==
    /\ role' = Drop(role, ids)
    /\ user' = [u \in DOMAIN user |-> [user[u] EXCEPT !.roles = @ \ ids]]
    /\ UNCHANGED <<permission, unused>>

DeletePermissions(ids) ==
    /\ permission' = Drop(permission, ids)
    /\ role' = [r \in DOMAIN role |-> [role[r] EXCEPT !.permissions = @ \ ids]]
    /\ UNCHANGED <<user, unused>>

----------------------------------------------------------------------------
(* Calls *)

(* u has a call of its own under way beside c. *)
InFlight(c, u) == \E d \in Callers \ {c} : call[d].step # "idle" /\ call[d].by = u

AtWrite(c, ops) == call[c].step = "write" /\ call[c].op \in ops

Excuse(why, when) == excuse' = IF when THEN excuse \cup {why} ELSE excuse

(* JwtStrategy finds the row, PermissionsGuard asks for the permission with *)
(* the endpoint's action and path; whether a role is enabled plays no part. *)
Admitted(u) ==
    /\ u \in DOMAIN user
    /\ \/ user[u].isAdmin
       \/ \E r \in user[u].roles : \E p \in role[r].permissions : permission[p].place = Endpoint

Begin(c, u, op, on, ids, step) ==
    /\ call[c].step = "idle" /\ calls + seed.runs < MaxWork
    /\ Admitted(u)
    /\ calls' = calls + 1
    /\ call' = [call EXCEPT ![c] = [op |-> op, step |-> step, by |-> u, on |-> on, ids |-> ids]]
    /\ Excuse("outsider", op \in {"updateUser", "removeUsers"} /\ ~HoldsAdmin(u))
    /\ UNCHANGED <<tables, seed>>

(* What a caller can ask for: the ids are those of rows it saw.  What no    *)
(* check reads of a request is chosen where it is written.                  *)
BeginUserCall(c, u) ==
    \/ \E ids \in SUBSET DOMAIN role : Begin(c, u, "createUser", None, ids, "assign")
    \/ \E on \in DOMAIN user :
        \/ Begin(c, u, "updateUser", on, None, "write")
        \/ \E ids \in SUBSET DOMAIN role :
               Begin(c, u, "updateUser", on, ids, IF on = u THEN "self" ELSE "assign")
    \/ \E ids \in SUBSET (DOMAIN user \ {u}) : Begin(c, u, "removeUsers", None, ids, "write")

BeginRoleCall(c, u) ==
    \/ \E ids \in SUBSET DOMAIN permission : Begin(c, u, "createRole", None, ids, "check")
    \/ \E on \in DOMAIN role : Begin(c, u, "updateRole", on, None, "check")
    \/ \E ids \in SUBSET DOMAIN role : Begin(c, u, "removeRoles", None, ids, "check")

BeginPermissionCall(c, u) ==
    \/ Begin(c, u, "createPermission", None, None, "write")
    \/ \E on \in DOMAIN permission : Begin(c, u, "updatePermission", on, None, "check")
    \/ \E ids \in SUBSET DOMAIN permission : Begin(c, u, "removePermissions", None, ids, "check")

BeginCall(c, u) == BeginUserCall(c, u) \/ BeginRoleCall(c, u) \/ BeginPermissionCall(c, u)

Proceed(c, from, to) ==
    /\ call[c].step = from
    /\ call' = [call EXCEPT ![c].step = to]
    /\ UNCHANGED <<tables, calls, seed, excuse>>

End(c) ==
    /\ call' = [call EXCEPT ![c] = NoCall]
    /\ UNCHANGED <<calls, seed>>

(* A check refuses, a statement fails, or the process dies. *)
Abort(c) ==
    /\ call[c].step # "idle"
    /\ End(c)
    /\ UNCHANGED <<tables, excuse>>

----------------------------------------------------------------------------
(* users.service.ts *)

(* Mutant: the caller's own admin role is not asked for. *)
SelfMayDropAdmin(c) == Proceed(c, "self", "assign")

(* assertSelfKeepsAdminRole *)
SelfKeepsAdminRole(c) ==
    /\ Proceed(c, "self", "assign")
    /\ call[c].by \in DOMAIN user /\ HoldsAdmin(call[c].by) => AdminRole \cap call[c].ids # {}

(* Mutant: only the existence of the roles is checked. *)
FindExistingRoles(c) ==
    /\ Proceed(c, "assign", "write")
    /\ call[c].ids \subseteq DOMAIN role

FindAssignableRoles(c) ==
    /\ Proceed(c, "assign", "write")
    /\ call[c].ids \subseteq {r \in DOMAIN role : role[r].enabled}

(* createUserByWeb and createUserWithUnionId, as far as their lookup of the *)
(* default role: its code is looked at, whether it is enabled is not.       *)
FindDefaultRole(c) ==
    /\ call[c].step = "idle" /\ calls + seed.runs < MaxWork
    /\ calls' = calls + 1
    /\ \E r \in RowsWithCode(role, Default) :
           call' = [call EXCEPT ![c] =
               [op |-> "register", step |-> "write", by |-> None, on |-> None, ids |-> {r}]]
    /\ UNCHANGED <<tables, seed, excuse>>

(* Only one row has the email ADMIN_EMAIL (the unique index). *)
FreeEmails == IF BootstrapIds \cap DOMAIN user = {} THEN UserIds ELSE UserIds \ BootstrapIds

InsertUserWithRoles(c) ==
    /\ call[c].ids \subseteq DOMAIN role
    /\ \E u \in FreeEmails : InsertRow(user, u, [roles |-> call[c].ids, isAdmin |-> FALSE])
    /\ End(c)
    /\ UNCHANGED <<role, permission, excuse>>

InsertUser(c) == AtWrite(c, {"createUser"}) /\ InsertUserWithRoles(c)

(* The default role is connected by its id. *)
InsertRegistered(c) == AtWrite(c, {"register"}) /\ InsertUserWithRoles(c)

UpdateUser(c) ==
    LET on == call[c].on IN
    /\ AtWrite(c, {"updateUser"})
    /\ on \in DOMAIN user
    /\ call[c].ids # None => call[c].ids \subseteq DOMAIN role
    /\ \E flag \in BOOLEAN :
           user' = [user EXCEPT ![on] = [
               roles |-> IF call[c].ids = None THEN @.roles ELSE call[c].ids, isAdmin |-> flag]]
    /\ Excuse("demoted", HoldsAdmin(on) /\ user'[on].roles \cap AdminRole = {} /\ InFlight(c, on))
    /\ End(c)
    /\ UNCHANGED <<role, permission, unused>>

RemoveUsers(c) ==
    /\ AtWrite(c, {"removeUsers"})
    /\ user' = Drop(user, call[c].ids)
    /\ Excuse("demoted", \E u \in DOMAIN user \cap call[c].ids : InFlight(c, u))
    /\ End(c)
    /\ UNCHANGED <<role, permission, unused>>

----------------------------------------------------------------------------
(* roles.service.ts *)

FindPermissions(c) ==
    /\ call[c].op = "createRole"
    /\ call[c].ids \subseteq DOMAIN permission
    /\ Proceed(c, "check", "write")

(* The successor's links are being copied and the legacy row still stands. *)
Migrating == seed.step = "legacyDelete"

InsertRole(c) ==
    /\ AtWrite(c, {"createRole"})
    /\ call[c].ids \subseteq DOMAIN permission
    /\ \E r \in RoleIds, code \in RoleCodes, enabled \in BOOLEAN :
        /\ RowsWithCode(role, code) = {}
        /\ InsertRow(role, r, [code |-> code, enabled |-> enabled, permissions |-> call[c].ids])
    /\ Excuse("relinked", Migrating)
    /\ End(c)
    /\ UNCHANGED <<permission, user>>

(* assertRoleIsMutable; a missing row passes. *)
RoleIsMutable(c) ==
    /\ call[c].op = "updateRole"
    /\ call[c].on \notin AdminRole
    /\ Proceed(c, "check", "write")

UpdateRole(c) ==
    LET on == call[c].on
        stale(d) == AtWrite(d, {"createUser", "updateUser"}) /\ call[d].ids # None /\ on \in call[d].ids
    IN
    /\ AtWrite(c, {"updateRole"})
    /\ on \in DOMAIN role
    /\ \E ids \in SUBSET DOMAIN permission, enabled \in BOOLEAN :
        /\ role' = [role EXCEPT ![on] = [@ EXCEPT !.permissions = ids, !.enabled = enabled]]
        /\ excuse' = excuse
               \cup (IF Migrating /\ ids # role[on].permissions THEN {"relinked"} ELSE {})
               \cup (IF ~enabled /\ \E d \in Callers : stale(d) THEN {on} ELSE {})
    /\ End(c)
    /\ UNCHANGED <<permission, user, unused>>

RolesAreRemovable(c) ==
    /\ call[c].op = "removeRoles"
    /\ call[c].ids \cap AdminRole = {}
    /\ Proceed(c, "check", "write")

RemoveRoles(c) ==
    /\ AtWrite(c, {"removeRoles"})
    /\ DeleteRoles(call[c].ids)
    /\ End(c)
    /\ UNCHANGED excuse

----------------------------------------------------------------------------
(* permissions.service.ts *)

InsertPermission(c) ==
    /\ AtWrite(c, {"createPermission"})
    /\ \E p \in PermissionIds, row \in PermissionRow :
           CodeIsFree(permission, p, row.code) /\ InsertRow(permission, p, row)
    /\ End(c)
    /\ UNCHANGED <<role, user, excuse>>

(* One of these calls has checked permission p and writes next. *)
Checked(p, callers) == \E c \in callers :
    \/ AtWrite(c, {"updatePermission"}) /\ call[c].on = p
    \/ AtWrite(c, {"removePermissions"}) /\ p \in call[c].ids

Mutable(ids) == \A p \in ids \cap DOMAIN permission : permission[p].code \notin Managed

PermissionIsMutable(c) ==
    /\ call[c].op = "updatePermission"
    /\ call[c].on \in DOMAIN permission /\ Mutable({call[c].on})
    /\ Proceed(c, "check", "write")

(* The new code is not looked at: the row may become system managed. *)
UpdatePermission(c) ==
    LET on == call[c].on IN
    /\ AtWrite(c, {"updatePermission"})
    /\ on \in DOMAIN permission
    /\ \E row \in PermissionRow :
        /\ CodeIsFree(permission, on, row.code)
        /\ permission' = [permission EXCEPT ![on] = row]
        /\ Excuse("adopted", row.code \in Managed /\ Checked(on, Callers \ {c}))
    /\ End(c)
    /\ UNCHANGED <<role, user, unused>>

(* Mutant: removeMany does not look at the codes. *)
AnyPermissions(c) ==
    /\ call[c].op = "removePermissions"
    /\ Proceed(c, "check", "write")

PermissionsAreMutable(c) ==
    /\ call[c].op = "removePermissions"
    /\ Mutable(call[c].ids)
    /\ Proceed(c, "check", "write")

RemovePermissions(c) ==
    /\ AtWrite(c, {"removePermissions"})
    /\ DeletePermissions(call[c].ids)
    /\ End(c)
    /\ UNCHANGED excuse

UserCall(c) ==
    \/ SelfKeepsAdminRole(c) \/ FindAssignableRoles(c) \/ InsertUser(c)
    \/ InsertRegistered(c) \/ UpdateUser(c) \/ RemoveUsers(c)

RoleCall(c) ==
    \/ FindPermissions(c) \/ InsertRole(c) \/ RoleIsMutable(c) \/ UpdateRole(c)
    \/ RolesAreRemovable(c) \/ RemoveRoles(c)

PermissionCall(c) ==
    \/ InsertPermission(c) \/ PermissionIsMutable(c) \/ UpdatePermission(c)
    \/ PermissionsAreMutable(c) \/ RemovePermissions(c)

----------------------------------------------------------------------------
(* The seed: main() of seed.ts, one statement after the other.  It has no  *)
(* transaction: it may fail or be killed anywhere, and be started again.   *)

SeedStep(from, s) ==
    /\ seed.step = from
    /\ seed' = s
    /\ UNCHANGED <<call, calls>>

StartSeed ==
    /\ seed.step \in {"idle", "done", "failed"} /\ calls + seed.runs < MaxWork
    /\ seed' = [NoSeed EXCEPT !.step = "roles", !.runs = seed.runs + 1]
    /\ UNCHANGED <<tables, call, calls, excuse>>

StopSeed ==
    /\ seed.step \notin {"idle", "done", "failed"}
    /\ seed' = [NoSeed EXCEPT !.step = "failed", !.runs = seed.runs]
    /\ UNCHANGED <<tables, call, calls, excuse>>

(* Promise.all(roleSeeds.map(upsertRole)): in any order.  A new role is    *)
(* enabled and an old one enabled again; the ids are kept by code.         *)
UpsertRole(code) ==
    \E r \in RoleIds :
        /\ code \in DOMAIN RoleSeeds \ DOMAIN seed.rows
        /\ SeedStep("roles", [seed EXCEPT !.rows = Put(@, code, r)])
        /\ \/ /\ r \in RowsWithCode(role, code)
              /\ role' = [role EXCEPT ![r].enabled = TRUE]
              /\ UNCHANGED unused
           \/ /\ RowsWithCode(role, code) = {}
              /\ InsertRow(role, r, [code |-> code, enabled |-> TRUE, permissions |-> {}])
        /\ UNCHANGED <<permission, user, excuse>>

RolesSeeded ==
    /\ DOMAIN seed.rows = DOMAIN RoleSeeds
    /\ SeedStep("roles", [seed EXCEPT !.step = "byCode", !.todo = PermissionSeeds])
    /\ UNCHANGED <<tables, excuse>>

(* upsertPermission looks a permission up by its code, then by its place. *)
FindByCode ==
    LET found == RowsWithCode(permission, Head(seed.todo)) IN
    /\ seed.todo # <<>>
    /\ SeedStep("byCode", [seed EXCEPT !.found = found,
                                       !.step = IF found = {} THEN "byPlace" ELSE "upsert"])
    /\ UNCHANGED <<tables, excuse>>

FindByPlace ==
    LET there == {p \in DOMAIN permission : permission[p].place = Head(seed.todo)} IN
    /\ seed.step = "byPlace"
    /\ \E found \in IF there = {} THEN {{}} ELSE {{p} : p \in there} :
           SeedStep("byPlace", [seed EXCEPT !.found = found, !.step = "upsert"])
    /\ UNCHANGED <<tables, excuse>>

(* A row found by its place takes the seed's code: what a back office call *)
(* has checked of it no longer holds.                                      *)
UpsertPermission ==
    LET code == Head(seed.todo)
        row == [code |-> code, place |-> code]
    IN
    \E p \in PermissionIds :
        /\ SeedStep("upsert", [seed EXCEPT !.step = "byCode", !.todo = Tail(@), !.ids = @ \cup {p}])
        /\ CodeIsFree(permission, p, code)
        /\ \/ /\ seed.found = {p} /\ p \in DOMAIN permission
              /\ permission' = [permission EXCEPT ![p] = row]
              /\ Excuse("adopted", permission[p].code # code /\ Checked(p, Callers))
              /\ UNCHANGED unused
           \/ /\ seed.found = {}
              /\ InsertRow(permission, p, row)
              /\ UNCHANGED excuse
        /\ UNCHANGED <<role, user>>

Connect(r, ids) ==
    /\ r \in DOMAIN role /\ ids \subseteq DOMAIN permission
    /\ role' = [role EXCEPT ![r].permissions = @ \cup ids]
    /\ UNCHANGED <<permission, user, unused, excuse>>

ConnectAdmin ==
    /\ seed.todo = <<>>
    /\ SeedStep("byCode", [seed EXCEPT !.step = "others"])
    /\ Connect(seed.rows[Admin], seed.ids)

(* connectRolePermissions finds the permissions and connects them later. *)
FindRolePermissions ==
    \E code \in DOMAIN seed.rows \ {Admin} :
        /\ SeedStep("others", [seed EXCEPT !.step = "connect", !.found = {code},
               !.ids = {p \in DOMAIN permission : permission[p].code \in RoleSeeds[code]}])
        /\ UNCHANGED <<tables, excuse>>

ConnectRolePermissions ==
    \E code \in seed.found :
        /\ SeedStep("connect", [seed EXCEPT !.step = "others",
                                            !.rows = Drop(@, {code}), !.found = {}, !.ids = {}])
        /\ Connect(seed.rows[code], seed.ids)

UpsertAdminUser ==
    /\ DOMAIN seed.rows = {Admin}
    /\ SeedStep("others", [seed EXCEPT !.step = "legacyFind"])
    /\ seed.rows[Admin] \in DOMAIN role
    /\ \E u \in BootstrapIds :
        LET held == IF u \in DOMAIN user THEN user[u].roles ELSE {}
            row == [roles |-> held \cup {seed.rows[Admin]}, isAdmin |-> TRUE]
        IN  IF BootstrapIds \cap DOMAIN user = {}
            THEN InsertRow(user, u, row)
            ELSE u \in DOMAIN user /\ user' = [user EXCEPT ![u] = row] /\ UNCHANGED unused
    /\ UNCHANGED <<role, permission, excuse>>

(* migrateLegacyPermissionAliases: both rows are looked up, the links are  *)
(* copied, and the legacy permission is deleted.                           *)
FindLegacy ==
    LET found == RowsWithCode(permission, Legacy)
        targets == RowsWithCode(permission, Successor)
    IN
    /\ SeedStep("legacyFind", [seed EXCEPT !.found = found, !.ids = targets, !.rows = <<>>,
           !.step = IF found = {} \/ targets = {} THEN "done" ELSE "legacyCopy"])
    /\ UNCHANGED <<tables, excuse>>

(* Mutant: the links are copied to the seeded roles only. *)
CopySeededLinks ==
    /\ SeedStep("legacyCopy", [seed EXCEPT !.step = "legacyDelete"])
    /\ seed.ids \subseteq DOMAIN permission
    /\ role' = [r \in DOMAIN role |->
           IF role[r].code \in DOMAIN RoleSeeds /\ seed.found \subseteq role[r].permissions
           THEN [role[r] EXCEPT !.permissions = @ \cup seed.ids] ELSE role[r]]
    /\ UNCHANGED <<permission, user, unused, excuse>>

CopyLegacyLinks ==
    /\ SeedStep("legacyCopy", [seed EXCEPT !.step = "legacyDelete"])
    /\ seed.ids \subseteq DOMAIN permission
    /\ role' = [r \in DOMAIN role |->
           IF seed.found \subseteq role[r].permissions
           THEN [role[r] EXCEPT !.permissions = @ \cup seed.ids] ELSE role[r]]
    /\ UNCHANGED <<permission, user, unused, excuse>>

DeleteLegacy ==
    /\ SeedStep("legacyDelete", [seed EXCEPT !.step = "done", !.found = {}, !.ids = {}])
    /\ seed.found \subseteq DOMAIN permission
    /\ DeletePermissions(seed.found)
    /\ UNCHANGED excuse

Seed ==
    \/ StartSeed \/ StopSeed
    \/ \E code \in RoleCodes : UpsertRole(code)
    \/ RolesSeeded \/ FindByCode \/ FindByPlace \/ UpsertPermission
    \/ ConnectAdmin \/ FindRolePermissions \/ ConnectRolePermissions
    \/ UpsertAdminUser \/ FindLegacy \/ CopyLegacyLinks \/ DeleteLegacy

----------------------------------------------------------------------------

AccessNext ==
    \/ \E c \in Callers :
        \/ \E u \in DOMAIN user : BeginCall(c, u)
        \/ FindDefaultRole(c) \/ UserCall(c) \/ RoleCall(c) \/ PermissionCall(c) \/ Abort(c)
    \/ Seed

AccessSpec == AccessInit /\ [][AccessNext]_accessVars

----------------------------------------------------------------------------
(* Properties *)

(* The type invariant; the links of every row name existing rows. *)
AccessTypeOK ==
    /\ IsTable(role, RoleIds, RoleRow)
    /\ IsTable(permission, PermissionIds, PermissionRow)
    /\ IsTable(user, UserIds, UserRow)
    /\ \A r \in DOMAIN role : role[r].permissions \subseteq DOMAIN permission
    /\ \A u \in DOMAIN user : user[u].roles \subseteq DOMAIN role
    /\ unused \cap (DOMAIN role \cup DOMAIN permission \cup DOMAIN user) = {}
    /\ \A c \in Callers : call[c].op \in Operations \cup {None}
    /\ calls + seed.runs \in 0..MaxWork

(* From the end of a seed run on, whatever the back office does, every     *)
(* system managed permission exists and the admin role has it, unless a    *)
(* row came by such a code after another call had checked it (seed.ts      *)
(* main, assertNotSystemManagedPermission).                                *)
SystemComplete ==
    seed.step = "done" /\ "adopted" \notin excuse =>
        \A code \in Managed : \E p \in RowsWithCode(permission, code) :
            \E r \in AdminRole : p \in role[r].permissions

(* Somebody holds the admin role as long as those who change users hold it *)
(* themselves and keep it until their calls end (assertSelfKeepsAdminRole, *)
(* assertDoesNotDeleteCurrentUser).                                        *)
AdminRoleHeld ==
    excuse \cap {"outsider", "demoted"} = {} => \E u \in DOMAIN user : HoldsAdmin(u)

(* u is new, by a call of a registration that ends with this step. *)
Registers(u) ==
    /\ u \notin DOMAIN user
    /\ \E c \in Callers : AtWrite(c, {"register"}) /\ call'[c] = NoCall /\ user'[u].roles = call[c].ids

(* A user gains a disabled role in two ways only: the role was disabled    *)
(* between the check and the write of the call that gives it               *)
(* (findAssignableRoles), or it is the default role, and the user new by a *)
(* registration, which does not ask (createUserByWeb).                     *)
NoDisabledGrant ==
    [][\A u \in DOMAIN user' :
          LET held == IF u \in DOMAIN user THEN user[u].roles ELSE {} IN
          \A r \in user'[u].roles \ held :
              \/ role[r].enabled \/ r \in excuse
              \/ role[r].code = Default /\ Registers(u)]_accessVars

(* When the seed deletes a legacy permission, no role loses what it stood  *)
(* for, unless the role was relinked or the successor taken over by a call *)
(* that had read them before (migrateLegacyPermissionAliases).             *)
LegacyLinksKept ==
    [][seed.step = "legacyDelete" /\ seed'.step = "done" /\ excuse \cap {"relinked", "adopted"} = {} =>
          \A r \in DOMAIN role : seed.found \subseteq role[r].permissions =>
              \E p \in role'[r].permissions : permission[p].code = Successor]_accessVars
=============================================================================

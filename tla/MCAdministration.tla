--------------------------- MODULE MCAdministration ---------------------------
(***************************************************************************)
(* The back office tables for TLC.  The three components share no          *)
(* variable, so a behaviour of all of them is one of each: subject, chosen *)
(* in the initial state, says which of them moves.                         *)
(***************************************************************************)
EXTENDS AccessControl, Catalog, MenuTree, TLC

CONSTANTS
    rAdmin, rUser, rNew, pSystem, pLegacy, pOwn, pNew, boot, boot2, ann, cid,
    statusType, ownType, onItem, ownItem, newItem, mailConfig, siteConfig,
    authMenu, usersMenu, menuA, menuB, menuC, newMenu, viewUsers, useOwn,
    one, two

VARIABLE subject

(* Access: the release before this one left the admin role without         *)
(* "export", which an own permission stands in the place of, and the role  *)
(* user with a legacy permission.                                          *)
MCRoleSeeds == "admin" :> {} @@ "user" :> {"view"}
MCPermissionSeeds == <<"view", "export">>
MCRoles == rAdmin :> [code |-> "admin", enabled |-> TRUE, permissions |-> {pSystem}]
        @@ rUser :> [code |-> "user", enabled |-> TRUE, permissions |-> {pLegacy}]
MCPermissions == pSystem :> [code |-> "view", place |-> "view"]
              @@ pLegacy :> [code |-> "legacy", place |-> "elsewhere"]
              @@ pOwn :> [code |-> "own", place |-> "export"]
MCUsers == boot :> [roles |-> {rAdmin}, isAdmin |-> TRUE] @@ ann :> [roles |-> {rAdmin}, isAdmin |-> FALSE]

(* Catalog: a dictionary the back office has switched off and added to, and *)
(* a parameter this release closes.                                         *)
MCDictSeeds == <<[type |-> "status", code |-> "on", value |-> "1"], [type |-> "status", code |-> "off", value |-> "0"]>>
MCConfigSeeds == <<[key |-> "site", value |-> "1", editable |-> TRUE], [key |-> "mail", value |-> "1", editable |-> FALSE]>>
MCTypes == statusType :> [code |-> "status", enabled |-> FALSE]
MCItems == onItem :> [type |-> statusType, code |-> "on", value |-> "1", enabled |-> FALSE]
        @@ ownItem :> [type |-> statusType, code |-> "own", value |-> "2", enabled |-> TRUE]
MCConfigs == mailConfig :> [key |-> "mail", value |-> "0", editable |-> TRUE]

(* Menus: a system menu this release adds, where the back office has one   *)
(* of its own, and three own menus one under the other.                    *)
MCMenuSeeds == <<[code |-> "auth", path |-> "/auth", visible |-> TRUE, parent |-> NoMenu, holds |-> {}],
                 [code |-> "auth.users", path |-> "/users", visible |-> TRUE, parent |-> "auth",
                  holds |-> {viewUsers}]>>
MCRow(code, path, parent) == [code |-> code, path |-> path, visible |-> TRUE, parent |-> parent]
MCMenus == authMenu :> MCRow("auth", "/auth", NoMenu) @@ usersMenu :> MCRow("users", "/users", authMenu)
        @@ menuA :> MCRow("a", "/own", NoMenu) @@ menuB :> MCRow("b", "/logs", menuA)
        @@ menuC :> MCRow("c", "/own", menuB)
MCHome == viewUsers :> usersMenu @@ useOwn :> menuA
MCRequested == {[code |-> "new", path |-> "/users", visible |-> FALSE],
                [code |-> "auth.users", path |-> "/own", visible |-> TRUE]}

AdministrationSymmetry == Permutations({one, two})

AdministrationInit == AccessInit /\ CatalogInit /\ MenuInit /\ subject \in {"access", "catalog", "menus"}

AdministrationNext ==
    /\ UNCHANGED subject
    /\ \/ subject = "access" /\ AccessNext /\ UNCHANGED <<catalogVars, menuVars>>
       \/ subject = "catalog" /\ CatalogNext /\ UNCHANGED <<accessVars, menuVars>>
       \/ subject = "menus" /\ MenuNext /\ UNCHANGED <<accessVars, catalogVars>>

AdministrationSpec == AdministrationInit /\ [][AdministrationNext]_<<accessVars, catalogVars, menuVars, subject>>
=============================================================================

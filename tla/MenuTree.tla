------------------------------ MODULE MenuTree ------------------------------
(***************************************************************************)
(* Menus, which are the groups the permissions live in: the back office    *)
(* endpoints of src/src/menus and src/src/permissiongroups, two services   *)
(* over one table, and the stages of the seed that write it                *)
(* (upsertMenuTree, hideLegacyMenus).  A step is one statement.  A removal *)
(* collects the descendants one query at a time and deletes them later; a  *)
(* batch removes one menu after the other.  The table refuses a parent     *)
(* that does not exist and the removal of a menu that holds permissions,   *)
(* and takes the parent away from the children of a removed menu.          *)
(***************************************************************************)
EXTENDS Naturals, Sequences, FiniteSets, SequencesExt

CONSTANTS
    MenuIds, MenuPermissions, MenuCodes, Paths,
    MenuSeeds,          \* menuTree flattened, parents first
    ManagedMenus,       \* systemManagedMenuCodes
    HiddenMenus,        \* hiddenNavigationMenuCodes
    LegacyPaths,        \* legacyMenuPaths
    LegacyMenus,        \* legacyMenuCodes
    InitialMenus, InitialHome,
    Requested,          \* what the requests put in a menu: [code, path, visible]
    MenuCallers,
    MaxMenuWork,        \* bound on the calls and the runs of the seed together
    NoMenu              \* no row, no code

MenuRow == [code : MenuCodes, path : Paths, visible : BOOLEAN, parent : MenuIds \cup {NoMenu}]
SeedEntry == [code : ManagedMenus, path : Paths, visible : BOOLEAN, parent : ManagedMenus \cup {NoMenu},
              holds : SUBSET MenuPermissions]

(* What the system menus show in the navigation. *)
Displayed(entry) == entry.visible /\ entry.code \notin HiddenMenus

(* What hideLegacyMenus looks for. *)
IsLegacy(row) == row.path \in LegacyPaths \/ row.code \in LegacyMenus

ASSUME MenuConstants ==
    /\ IsFiniteSet(MenuIds) /\ MaxMenuWork \in Nat
    /\ MenuSeeds \in Seq(SeedEntry) /\ Requested \subseteq [code : MenuCodes, path : Paths, visible : BOOLEAN]
    /\ ManagedMenus \subseteq MenuCodes /\ NoMenu \notin MenuIds \cup MenuCodes
    /\ DOMAIN InitialMenus \subseteq MenuIds /\ InitialMenus \in [DOMAIN InitialMenus -> MenuRow]
    /\ InitialHome \in [MenuPermissions -> DOMAIN InitialMenus]

(* The menus found at the start satisfy the table's two constraints: the   *)
(* code is unique, parentId is a foreign key.                              *)
ASSUME MenusInstalled ==
    \A m \in DOMAIN InitialMenus :
        /\ \A n \in DOMAIN InitialMenus : InitialMenus[m].code = InitialMenus[n].code => m = n
        /\ InitialMenus[m].parent \in DOMAIN InitialMenus \cup {NoMenu}

(* menuTree and system-managed.ts name the same menus; no two entries share *)
(* their code or their path, none is one hideLegacyMenus looks for; a tree *)
(* is three levels deep at most, and what is shown is under a menu that is. *)
ASSUME MenuSeedTree ==
    /\ \A code \in ManagedMenus : \E i \in DOMAIN MenuSeeds : MenuSeeds[i].code = code
    /\ \A i, j \in DOMAIN MenuSeeds :
           MenuSeeds[i].code = MenuSeeds[j].code \/ MenuSeeds[i].path = MenuSeeds[j].path => i = j
    /\ \A i \in DOMAIN MenuSeeds : ~IsLegacy(MenuSeeds[i])
    /\ \A i \in DOMAIN MenuSeeds : MenuSeeds[i].parent # NoMenu =>
           \E j \in 1..(i - 1) :
               /\ MenuSeeds[j].code = MenuSeeds[i].parent
               /\ Displayed(MenuSeeds[i]) => Displayed(MenuSeeds[j])
               /\ MenuSeeds[j].parent # NoMenu =>
                      \E k \in 1..(j - 1) : MenuSeeds[k].code = MenuSeeds[j].parent /\ MenuSeeds[k].parent = NoMenu

VARIABLES
    menu,           \* the rows
    spareMenus,     \* the ids the table has not given out yet
    home,           \* permission -> the menu it is in
    menuCall, menuWork, menuSeed,
    taken,          \* history: a row got a system code after a call had checked it
    late,           \* history: menus put under another while a removal ran
    knotted         \* history: there was a loop, or a menu moved while a removal ran

menuVars == <<menu, spareMenus, home, menuCall, menuWork, menuSeed, taken, late, knotted>>
tableVars == <<menu, spareMenus, late, knotted>>

IdleCall == [op |-> "idle", on |-> NoMenu, todo |-> <<>>, ids |-> {}, queries |-> 0, rest |-> <<>>]
IdleSeed == [step |-> "idle", at |-> 1, rows |-> <<>>, found |-> NoMenu]

(* Menus each of which has its parent among them. *)
Loop(table) == \E S \in SUBSET DOMAIN table : S # {} /\ \A m \in S : table[m].parent \in S

MenuInit ==
    /\ menu = InitialMenus /\ spareMenus = MenuIds \ DOMAIN InitialMenus /\ home = InitialHome
    /\ menuCall = [c \in MenuCallers |-> IdleCall]
    /\ menuWork = 0 /\ menuSeed = IdleSeed
    /\ taken = FALSE /\ late = {} /\ knotted = Loop(menu)

----------------------------------------------------------------------------
(* Statements *)

ChildrenOf(m) == {n \in DOMAIN menu : menu[n].parent = m}
CodeFits(m, code) == \A n \in DOMAIN menu \ {m} : menu[n].code # code
IsManaged(m) == menu[m].code \in ManagedMenus
ParentFits(p) == p = NoMenu \/ p \in DOMAIN menu

Removing == \E c \in MenuCallers : menuCall[c].op \in {"collect", "assert", "deleteMany", "delete"}

(* Inserts row m, or updates it. *)
PutMenu(m, row) ==
    /\ CodeFits(m, row.code) /\ ParentFits(row.parent)
    /\ menu' = [n \in DOMAIN menu \cup {m} |-> IF n = m THEN row ELSE menu[n]]
    /\ spareMenus' = spareMenus \ {m}
    /\ LET moved == m \in DOMAIN menu => menu[m].parent # row.parent IN
        /\ late' = IF Removing /\ moved THEN late \cup {m} ELSE late
        /\ knotted' = (knotted \/ Loop(menu') \/ (Removing /\ moved /\ m \in DOMAIN menu))

(* Menu m takes a code, while these callers' calls run. *)
TakeCode(m, code, callers) ==
    taken' = (taken \/ (code \in ManagedMenus /\ \E c \in callers :
                 m = menuCall[c].on \/ (menuCall[c].op = "deleteMany" /\ m \in menuCall[c].ids)))

(* Mutant: a menu that holds permissions goes too. *)
DeleteMenusAnyway(ids) ==
    /\ menu' = [n \in DOMAIN menu \ ids |->
                   IF menu[n].parent \in ids THEN [menu[n] EXCEPT !.parent = NoMenu] ELSE menu[n]]
    /\ UNCHANGED <<spareMenus, home, late, knotted>>

DeleteMenus(ids) ==
    /\ \A p \in MenuPermissions : home[p] \notin ids
    /\ menu' = [n \in DOMAIN menu \ ids |->
                   IF menu[n].parent \in ids THEN [menu[n] EXCEPT !.parent = NoMenu] ELSE menu[n]]
    /\ UNCHANGED <<spareMenus, home, late, knotted>>

----------------------------------------------------------------------------
(* Calls *)

Goto(c, op) == menuCall' = [menuCall EXCEPT ![c].op = op]
Finish(c) == menuCall' = [menuCall EXCEPT ![c] = IdleCall]

(* create reads the parent and inserts: the insert refuses what the read    *)
(* refuses, so it stands for both.  A group may bring permissions with it.  *)
CreateMenu ==
    /\ menuWork < MaxMenuWork /\ menuWork' = menuWork + 1
    /\ \E m \in spareMenus, new \in Requested, p \in MenuIds \cup {NoMenu} :
        /\ PutMenu(m, [code |-> new.code, path |-> new.path, visible |-> new.visible, parent |-> p])
        /\ \E ids \in SUBSET MenuPermissions :
               home' = [q \in MenuPermissions |-> IF q \in ids THEN m ELSE home[q]]
    /\ UNCHANGED <<menuCall, menuSeed, taken>>

(* Mutant: update asks only whether the menu exists. *)
BeginAnyUpdate(c) ==
    /\ menuCall[c].op = "idle" /\ menuWork < MaxMenuWork /\ menuWork' = menuWork + 1
    /\ \E m \in DOMAIN menu : menuCall' = [menuCall EXCEPT ![c] = [IdleCall EXCEPT !.op = "update", !.on = m]]
    /\ UNCHANGED <<tableVars, home, menuSeed, taken>>

BeginUpdate(c) ==
    /\ menuCall[c].op = "idle" /\ menuWork < MaxMenuWork /\ menuWork' = menuWork + 1
    /\ \E m \in DOMAIN menu :
        /\ ~IsManaged(m)
        /\ menuCall' = [menuCall EXCEPT ![c] = [IdleCall EXCEPT !.op = "update", !.on = m]]
    /\ UNCHANGED <<tableVars, home, menuSeed, taken>>

(* What the request leaves out stays; any existing menu will do as parent,  *)
(* and the permissions of a group's request come from wherever they are.    *)
UpdateMenu(c) ==
    LET m == menuCall[c].on IN
    /\ menuCall[c].op = "update" /\ m \in DOMAIN menu
    /\ \E new \in Requested \cup {menu[m]}, p \in MenuIds \cup {NoMenu} :
        /\ PutMenu(m, [code |-> new.code, path |-> new.path, visible |-> new.visible, parent |-> p])
        /\ TakeCode(m, new.code, MenuCallers \ {c})
    /\ \E ids \in SUBSET MenuPermissions :
           home' = [q \in MenuPermissions |-> IF q \in ids THEN m ELSE home[q]]
    /\ Finish(c)
    /\ UNCHANGED <<menuWork, menuSeed>>

(* removeMenusByIds: remove, for one id after the other. *)
BeginRemove(c) ==
    /\ menuCall[c].op = "idle" /\ menuWork < MaxMenuWork /\ menuWork' = menuWork + 1
    /\ \E m, n \in DOMAIN menu : \E batch \in {<<m>>, <<m, n>>} :
           menuCall' = [menuCall EXCEPT ![c] = [IdleCall EXCEPT !.op = "find", !.rest = batch]]
    /\ UNCHANGED <<tableVars, home, menuSeed, taken>>

FindMenu(c) ==
    /\ menuCall[c].op = "find"
    /\ LET m == Head(menuCall[c].rest) IN
        /\ m \in DOMAIN menu /\ ~IsManaged(m)
        /\ menuCall' = [menuCall EXCEPT ![c] =
               [IdleCall EXCEPT !.op = "collect", !.on = m, !.todo = <<m>>, !.rest = Tail(menuCall[c].rest)]]
    /\ UNCHANGED <<tableVars, home, menuWork, menuSeed, taken>>

(* Mutant: the recursion starts again at the menu itself. *)
CollectFromTop(c) ==
    /\ menuCall[c].op = "collect" /\ menuCall[c].todo # <<>>
    /\ menuCall[c].queries <= Cardinality(MenuIds)
    /\ \E children \in SetToSeqs(ChildrenOf(Head(menuCall[c].todo))) :
           menuCall' = [menuCall EXCEPT ![c] =
               [@ EXCEPT !.todo = [i \in DOMAIN children |-> menuCall[c].on] \o Tail(@),
                         !.ids = @ \cup ToSet(children), !.queries = @ + 1]]
    /\ UNCHANGED <<tableVars, home, menuWork, menuSeed, taken>>

(* Mutant: only the children are collected. *)
CollectChildren(c) ==
    /\ menuCall[c].op = "collect" /\ menuCall[c].todo # <<>>
    /\ \E children \in SetToSeqs(ChildrenOf(Head(menuCall[c].todo))) :
           menuCall' = [menuCall EXCEPT ![c] =
               [@ EXCEPT !.todo = <<>>, !.ids = ToSet(children), !.queries = 1]]
    /\ UNCHANGED <<tableVars, home, menuWork, menuSeed, taken>>

(* getChildMenuIds: one query for the children of the next menu, which are *)
(* then descended into, each before its next sibling.  The bound on the    *)
(* queries stops the walk of a loop, which the code never ends.            *)
Collect(c) ==
    /\ menuCall[c].op = "collect" /\ menuCall[c].todo # <<>>
    /\ menuCall[c].queries <= Cardinality(MenuIds)
    /\ LET found == ChildrenOf(Head(menuCall[c].todo)) IN
       \E children \in SetToSeqs(found) :
           menuCall' = [menuCall EXCEPT ![c] =
               [menuCall[c] EXCEPT !.todo = children \o Tail(@), !.ids = @ \cup found, !.queries = @ + 1]]
    /\ UNCHANGED <<tableVars, home, menuWork, menuSeed, taken>>

Collected(c) ==
    /\ menuCall[c].op = "collect" /\ menuCall[c].todo = <<>>
    /\ Goto(c, IF menuCall[c].ids = {} THEN "deleteMany" ELSE "assert")
    /\ UNCHANGED <<tableVars, home, menuWork, menuSeed, taken>>

(* assertNoSystemManagedMenus reads the rows that are left of the ids. *)
AssertNoneManaged(c) ==
    /\ menuCall[c].op = "assert"
    /\ \A m \in menuCall[c].ids \cap DOMAIN menu : ~IsManaged(m)
    /\ Goto(c, "deleteMany")
    /\ UNCHANGED <<tableVars, home, menuWork, menuSeed, taken>>

DeleteDescendants(c) ==
    /\ menuCall[c].op = "deleteMany"
    /\ DeleteMenus(menuCall[c].ids)
    /\ Goto(c, "delete")
    /\ UNCHANGED <<menuWork, menuSeed, taken>>

DeleteMenu(c) ==
    /\ menuCall[c].op = "delete" /\ menuCall[c].on \in DOMAIN menu
    /\ DeleteMenus({menuCall[c].on})
    /\ IF menuCall[c].rest = <<>> THEN Finish(c)
       ELSE menuCall' = [menuCall EXCEPT ![c] = [IdleCall EXCEPT !.op = "find", !.rest = menuCall[c].rest]]
    /\ UNCHANGED <<menuWork, menuSeed, taken>>

(* A check refuses, a statement fails, or the process dies. *)
AbortMenuCall(c) ==
    /\ menuCall[c].op # "idle"
    /\ Finish(c)
    /\ UNCHANGED <<tableVars, home, menuWork, menuSeed, taken>>

----------------------------------------------------------------------------
(* The seed *)

StartMenuSeed ==
    /\ menuSeed.step \in {"idle", "done"} /\ menuWork < MaxMenuWork /\ menuWork' = menuWork + 1
    /\ menuSeed' = [IdleSeed EXCEPT !.step = "byCode"]
    /\ UNCHANGED <<tableVars, home, menuCall, taken>>

StopMenuSeed ==
    /\ menuSeed.step \notin {"idle", "done"}
    /\ menuSeed' = IdleSeed
    /\ UNCHANGED <<tableVars, home, menuCall, menuWork, taken>>

AtSeed(step) == menuSeed.step = step /\ menuSeed.at \in DOMAIN MenuSeeds /\ UNCHANGED <<menuCall, menuWork>>
Entry == MenuSeeds[menuSeed.at]
EntryParent == IF Entry.parent = NoMenu THEN NoMenu ELSE menuSeed.rows[Entry.parent]

FindMenuByCode ==
    /\ AtSeed("byCode")
    /\ \/ /\ \A m \in DOMAIN menu : menu[m].code # Entry.code
          /\ menuSeed' = [menuSeed EXCEPT !.step = "byPath"]
       \/ \E m \in DOMAIN menu :
           /\ menu[m].code = Entry.code
           /\ menuSeed' = [menuSeed EXCEPT !.step = "group", !.found = m]
    /\ UNCHANGED <<tableVars, home, taken>>

FindMenuByPath ==
    /\ AtSeed("byPath")
    /\ LET there == {m \in DOMAIN menu : menu[m].path = Entry.path /\ menu[m].parent = EntryParent} IN
       \E m \in IF there = {} THEN {NoMenu} ELSE there :
           menuSeed' = [menuSeed EXCEPT !.step = "group", !.found = m]
    /\ UNCHANGED <<tableVars, home, taken>>

(* A row found by its path takes the seed's code. *)
UpsertTargets == IF menuSeed.found = NoMenu THEN spareMenus ELSE {menuSeed.found} \cap DOMAIN menu

RowsWith(code, m) ==
    [k \in DOMAIN menuSeed.rows \cup {code} |-> IF k = code THEN m ELSE menuSeed.rows[k]]

UpsertGroup ==
    \E m \in UpsertTargets :
        /\ AtSeed("group")
        /\ PutMenu(m, [code |-> Entry.code, path |-> Entry.path, visible |-> Entry.visible, parent |-> EntryParent])
        /\ TakeCode(m, Entry.code, MenuCallers)
        /\ menuSeed' = [menuSeed EXCEPT !.step = "permissions", !.rows = RowsWith(Entry.code, m)]
        /\ UNCHANGED home

UpsertPermissions ==
    /\ AtSeed("permissions")
    /\ menuSeed.rows[Entry.code] \in DOMAIN menu
    /\ home' = [p \in MenuPermissions |-> IF p \in Entry.holds THEN menuSeed.rows[Entry.code] ELSE home[p]]
    /\ menuSeed' = [menuSeed EXCEPT !.step = "byCode", !.at = @ + 1, !.found = NoMenu]
    /\ UNCHANGED <<tableVars, taken>>

HideLegacyMenus ==
    /\ menuSeed.step = "byCode" /\ menuSeed.at \notin DOMAIN MenuSeeds
    /\ menu' = [m \in DOMAIN menu |->
                   IF IsLegacy(menu[m]) THEN [menu[m] EXCEPT !.visible = FALSE] ELSE menu[m]]
    /\ menuSeed' = [IdleSeed EXCEPT !.step = "done"]
    /\ UNCHANGED <<spareMenus, late, knotted, home, menuCall, menuWork, taken>>

----------------------------------------------------------------------------

MenuCall(c) ==
    \/ BeginUpdate(c) \/ UpdateMenu(c)
    \/ BeginRemove(c) \/ FindMenu(c) \/ Collect(c) \/ Collected(c) \/ AssertNoneManaged(c)
    \/ DeleteDescendants(c) \/ DeleteMenu(c)
    \/ AbortMenuCall(c)

MenuSeed ==
    \/ StartMenuSeed \/ StopMenuSeed
    \/ FindMenuByCode \/ FindMenuByPath \/ UpsertGroup \/ UpsertPermissions \/ HideLegacyMenus

MenuNext == CreateMenu \/ (\E c \in MenuCallers : MenuCall(c)) \/ MenuSeed

MenuSpec == MenuInit /\ [][MenuNext]_menuVars

----------------------------------------------------------------------------
(* Properties *)

GivenIds == MenuIds \ spareMenus
MenuCallType ==
    [op : {"idle", "update", "find", "collect", "assert", "deleteMany", "delete"},
     on : GivenIds \cup {NoMenu}, todo : Seq(GivenIds), ids : SUBSET GivenIds,
     queries : 0..Cardinality(MenuIds) + 1, rest : Seq(GivenIds)]
MenuSeedType ==
    [step : {"idle", "byCode", "byPath", "group", "permissions", "done"},
     at : 1..Len(MenuSeeds) + 1, found : GivenIds \cup {NoMenu},
     rows : UNION {[codes -> GivenIds] : codes \in SUBSET ManagedMenus}]

(* The type invariant; a parent and a permission's menu exist, and what is *)
(* known of a menu is never said of one created later.                     *)
MenuTypeOK ==
    /\ DOMAIN menu \subseteq GivenIds /\ menu \in [DOMAIN menu -> MenuRow]
    /\ \A m \in DOMAIN menu : ParentFits(menu[m].parent)
    /\ home \in [MenuPermissions -> DOMAIN menu]
    /\ menuCall \in [MenuCallers -> MenuCallType] /\ menuSeed \in MenuSeedType
    /\ menuWork \in 0..MaxMenuWork
    /\ spareMenus \subseteq MenuIds /\ late \subseteq MenuIds /\ taken \in BOOLEAN /\ knotted \in BOOLEAN

(* findMenuByUser: the visible menus three levels deep that hold one of the *)
(* permissions or lead to one that does.                                    *)
Navigable(m) == menu[m].visible /\ menu[m].code \notin HiddenMenus
Offers(m, permissions) == \E p \in permissions : home[p] = m
InNavigation(m, permissions) ==
    LET below1 == {n \in ChildrenOf(m) : Navigable(n)}
        below2 == {n \in UNION {ChildrenOf(k) : k \in below1} : Navigable(n)}
        up == menu[m].parent
        upper == IF up = NoMenu THEN NoMenu ELSE menu[up].parent
    IN
    /\ Navigable(m)
    /\ up # NoMenu => Navigable(up)
    /\ upper # NoMenu => Navigable(upper) /\ menu[upper].parent = NoMenu
    /\ \/ Offers(m, permissions)
       \/ upper = NoMenu /\ \E n \in below1 : Offers(n, permissions)
       \/ up = NoMenu /\ \E n \in below2 : Offers(n, permissions)

(* Once the seed is through, whatever the back office does to the other    *)
(* menus, a user with a permission of a system menu the seed means to show *)
(* is shown that menu, unless a row took a system code after a call had    *)
(* found it none of the system's (assertNotSystemManagedMenu,              *)
(* findMenuByUser).                                                        *)
SystemMenusShown ==
    menuSeed.step = "done" /\ ~taken =>
        \A i \in DOMAIN MenuSeeds, m \in DOMAIN menu, p \in MenuPermissions :
            Displayed(MenuSeeds[i]) /\ menu[m].code = MenuSeeds[i].code /\ home[p] = m => InNavigation(m, {p})

(* Removing a menu removes what is under it: a menu comes to the top level *)
(* by a removal only if it was put where it is while the removal was under *)
(* way (getChildMenuIds, deleteMany).                                      *)
NothingLeftBehind ==
    [][\A m \in DOMAIN menu \cap DOMAIN menu' :
          \A c \in MenuCallers :
              DeleteDescendants(c) \/ DeleteMenu(c) =>
                  menu'[m].parent = menu[m].parent \/ m \in late]_menuVars

(* The collection of the descendants asks about no menu twice, unless the  *)
(* menus held a loop or one moved while it ran (MenusService.update).      *)
CollectionEnds ==
    \A c \in MenuCallers : menuCall[c].queries > Cardinality(MenuIds) => knotted
=============================================================================

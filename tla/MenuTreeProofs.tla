--------------------------- MODULE MenuTreeProofs ---------------------------
(***************************************************************************)
(* Proofs about MenuTree, for every set of menus, every menu tree of the   *)
(* seed and every number of calls.                                         *)
(***************************************************************************)
EXTENDS MenuTree, FiniteSetTheorems, TLAPS

RemovalOps == {"collect", "assert", "deleteMany", "delete"}

(* What a removal has gathered, and the part of it whose children it has   *)
(* asked for.                                                              *)
Gathered(c) == {menuCall[c].on} \cup menuCall[c].ids
Asked(c) == Gathered(c) \ ToSet(menuCall[c].todo)

(* A removal knows the children of every menu it has asked about, those    *)
(* put there since excepted; the descendants go before the menu.           *)
Family(c) ==
    /\ menuCall[c].on \in MenuIds
    /\ \A m \in DOMAIN menu : menu[m].parent \in Asked(c) => m \in menuCall[c].ids \cup late
    /\ menuCall[c].op # "collect" => menuCall[c].todo = <<>>
    /\ menuCall[c].op = "delete" => menuCall[c].ids \cap DOMAIN menu = {}

FamilyKnown == \A c \in MenuCallers : menuCall[c].op \in RemovalOps => Family(c)

(* Nothing above the menu to be removed is under it: U holds its ancestors. *)
Apart(c) ==
    \E U \in SUBSET DOMAIN menu :
        /\ U \cap Gathered(c) = {}
        /\ menuCall[c].on \in DOMAIN menu => menu[menuCall[c].on].parent \in U \cup {NoMenu}
        /\ \A m \in U : menu[m].parent \in U \cup {NoMenu}

(* The walk of a tree: what is to be asked about is gathered, and nothing  *)
(* was gathered twice.                                                     *)
WalkOn(c) ==
    LET todo == menuCall[c].todo IN
    /\ \A i, j \in DOMAIN todo : todo[i] = todo[j] => i = j
    /\ ToSet(todo) \subseteq Gathered(c)
    /\ menuCall[c].queries <= Cardinality(Asked(c))
    /\ \A m \in menuCall[c].ids \cap DOMAIN menu : menu[m].parent \in Asked(c) \cup {NoMenu}
    /\ Apart(c)

WalksEnd ==
    ~knotted =>
        /\ ~Loop(menu)
        /\ \A c \in MenuCallers : menuCall[c].queries <= Cardinality(MenuIds)
        /\ \A c \in MenuCallers : menuCall[c].op = "collect" => WalkOn(c)

CodesUnique == \A m, n \in DOMAIN menu : menu[m].code = menu[n].code => m = n

(* The entries of menuTree the seed has written, in this run or, when it   *)
(* is through, in the last one.                                            *)
Written(seed, i) ==
    \/ seed.step = "done"
    \/ i < seed.at
    \/ i = seed.at /\ seed.step = "permissions"

(* Row m is as entry i says. *)
Stands(table, m, i) ==
    LET entry == MenuSeeds[i] IN
    /\ m \in DOMAIN table
    /\ table[m].code = entry.code /\ table[m].path = entry.path /\ table[m].visible = entry.visible
    /\ entry.parent = NoMenu => table[m].parent = NoMenu
    /\ entry.parent # NoMenu => table[m].parent \in DOMAIN table /\ table[table[m].parent].code = entry.parent

(* Row m is none of those the seed has written. *)
Unwritten(m) == \A i \in DOMAIN MenuSeeds : Written(menuSeed, i) => menu[m].code # MenuSeeds[i].code

(* What was written stands, and the seed knows where; the row it is about  *)
(* to update is none of these.                                             *)
SeedStands ==
    /\ \A i \in DOMAIN MenuSeeds : Written(menuSeed, i) => \E m \in DOMAIN menu : Stands(menu, m, i)
    /\ menuSeed.step # "done" =>
           \A i \in DOMAIN MenuSeeds : Written(menuSeed, i) =>
               /\ MenuSeeds[i].code \in DOMAIN menuSeed.rows
               /\ Stands(menu, menuSeed.rows[MenuSeeds[i].code], i)
    /\ menuSeed.step = "group" /\ menuSeed.found \in DOMAIN menu => Unwritten(menuSeed.found)

(* What a call has checked is none of the system's menus. *)
Checked(call) == {call.on} \cup IF call.op = "deleteMany" THEN call.ids ELSE {}
ChecksHold == \A c \in MenuCallers : \A m \in Checked(menuCall[c]) \cap DOMAIN menu : ~IsManaged(m)

SystemStands == ~taken => SeedStands /\ ChecksHold

MenuInv == MenuTypeOK /\ FamilyKnown /\ WalksEnd /\ CodesUnique /\ SystemStands

----------------------------------------------------------------------------
(* Sequences and sets                                                      *)

LEMMA SeqGrows ==
    ASSUME NEW S, NEW T, S \subseteq T, NEW s \in Seq(S)
    PROVE  s \in Seq(T)
  OBVIOUS

LEMMA ToSetType ==
    ASSUME NEW S, NEW s \in Seq(S)
    PROVE  ToSet(s) \subseteq S
  BY DEF ToSet

(* An enumeration of S has each element of S once. *)
LEMMA Enumeration ==
    ASSUME NEW S, IsFiniteSet(S), NEW s \in SetToSeqs(S)
    PROVE  /\ s \in Seq(S)
           /\ ToSet(s) = S
           /\ \A i, j \in DOMAIN s : s[i] = s[j] => i = j
  <1> DEFINE D == 1..Cardinality(S)
  <1>1. Cardinality(S) \in Nat
    BY FS_CardinalityType
  <1>2. s \in [D -> S] /\ \A i, j \in D : i # j => s[i] # s[j]
    BY DEF SetToSeqs
  <1>3. IsFiniteSet(D) /\ Cardinality(D) = Cardinality(S)
    BY <1>1, FS_Interval
  <1>4. s \in Injection(D, S)
    BY <1>2 DEF Injection, IsInjective
  <1>5. s \in Surjection(D, S)
    BY <1>3, <1>4, FS_Injection
  <1>6. ToSet(s) = S
    BY <1>2, <1>5 DEF ToSet, Surjection
  <1> QED
    BY <1>1, <1>2, <1>6

LEMMA ConcatPlaces ==
    ASSUME NEW S, NEW s \in Seq(S), NEW t \in Seq(S)
    PROVE  /\ Len(s) \in Nat /\ Len(t) \in Nat /\ DOMAIN s = 1..Len(s) /\ DOMAIN t = 1..Len(t)
           /\ DOMAIN (s \o t) = 1..(Len(s) + Len(t))
           /\ \A i \in 1..Len(s) : (s \o t)[i] = s[i]
           /\ \A i \in 1..Len(t) : (s \o t)[Len(s) + i] = t[i]
           /\ \A i \in 1..(Len(s) + Len(t)) : i \notin 1..Len(s) => i - Len(s) \in 1..Len(t) /\ (s \o t)[i] = t[i - Len(s)]
  OBVIOUS

LEMMA ConcatSets ==
    ASSUME NEW S, NEW s \in Seq(S), NEW t \in Seq(S)
    PROVE  ToSet(s \o t) = ToSet(s) \cup ToSet(t)
  <1>1. ASSUME NEW x \in ToSet(s \o t) PROVE x \in ToSet(s) \cup ToSet(t)
    <2>1. PICK i \in 1..(Len(s) + Len(t)) : x = (s \o t)[i]
      BY ConcatPlaces DEF ToSet
    <2>2. CASE i \in 1..Len(s)
      BY <2>1, <2>2, ConcatPlaces DEF ToSet
    <2>3. CASE i \notin 1..Len(s)
      BY <2>1, <2>3, ConcatPlaces DEF ToSet
    <2> QED
      BY <2>2, <2>3
  <1>2. ASSUME NEW x \in ToSet(s) PROVE x \in ToSet(s \o t)
    <2>1. PICK i \in 1..Len(s) : x = s[i]
      BY <1>2, ConcatPlaces DEF ToSet
    <2>2. i \in DOMAIN (s \o t) /\ (s \o t)[i] = x
      BY <2>1, ConcatPlaces
    <2> QED
      BY <2>2 DEF ToSet
  <1>3. ASSUME NEW x \in ToSet(t) PROVE x \in ToSet(s \o t)
    <2>1. PICK i \in 1..Len(t) : x = t[i]
      BY <1>3, ConcatPlaces DEF ToSet
    <2>2. Len(s) + i \in DOMAIN (s \o t) /\ (s \o t)[Len(s) + i] = x
      BY <2>1, ConcatPlaces
    <2> QED
      BY <2>2 DEF ToSet
  <1> QED
    BY <1>1, <1>2, <1>3

LEMMA ConcatOnce ==
    ASSUME NEW S, NEW s \in Seq(S), NEW t \in Seq(S), ToSet(s) \cap ToSet(t) = {},
           \A i, j \in DOMAIN s : s[i] = s[j] => i = j,
           \A i, j \in DOMAIN t : t[i] = t[j] => i = j,
           NEW i \in DOMAIN (s \o t), NEW j \in DOMAIN (s \o t), (s \o t)[i] = (s \o t)[j]
    PROVE  i = j
  <1> DEFINE both == s \o t
  <1>1. i \in 1..(Len(s) + Len(t)) /\ j \in 1..(Len(s) + Len(t)) /\ both[i] = both[j]
    BY ConcatPlaces
  <1>2. Len(s) \in Nat /\ Len(t) \in Nat /\ DOMAIN s = 1..Len(s) /\ DOMAIN t = 1..Len(t)
    BY ConcatPlaces
  <1>3. \A k \in 1..Len(s) : both[k] = s[k] /\ both[k] \in ToSet(s)
    <2>1. \A k \in 1..Len(s) : both[k] = s[k]
      BY ConcatPlaces
    <2> HIDE DEF both
    <2> QED
      BY <1>2, <2>1 DEF ToSet
  <1>4. \A k \in 1..(Len(s) + Len(t)) : k \notin 1..Len(s) =>
            k - Len(s) \in 1..Len(t) /\ both[k] = t[k - Len(s)] /\ both[k] \in ToSet(t)
    BY <1>2, ConcatPlaces DEF ToSet
  <1> HIDE DEF both
  <1>5. CASE i \in 1..Len(s)
    <2>1. j \in 1..Len(s)
      BY <1>1, <1>3, <1>4, <1>5
    <2> QED
      BY <1>1, <1>2, <1>3, <1>5, <2>1
  <1>6. CASE i \notin 1..Len(s)
    <2>1. j \notin 1..Len(s)
      BY <1>1, <1>3, <1>4, <1>6
    <2>2. i - Len(s) = j - Len(s)
      BY <1>1, <1>2, <1>4, <1>6, <2>1
    <2> QED
      BY <1>1, <1>2, <2>2
  <1> QED
    BY <1>5, <1>6

LEMMA TailSet ==
    ASSUME NEW S, NEW s \in Seq(S), s # <<>>
    PROVE  ToSet(s) = {Head(s)} \cup ToSet(Tail(s))
  <1>1. /\ Len(s) \in Nat \ {0} /\ DOMAIN s = 1..Len(s) /\ Head(s) = s[1]
        /\ DOMAIN Tail(s) = 1..(Len(s) - 1) /\ \A i \in 1..(Len(s) - 1) : Tail(s)[i] = s[i + 1]
    OBVIOUS
  <1>2. ASSUME NEW i \in 1..Len(s), i # 1 PROVE s[i] \in ToSet(Tail(s))
    <2>1. i - 1 \in DOMAIN Tail(s) /\ Tail(s)[i - 1] = s[i]
      BY <1>1, <1>2
    <2> QED
      BY <2>1 DEF ToSet
  <1>3. ASSUME NEW i \in 1..(Len(s) - 1) PROVE Tail(s)[i] \in ToSet(s)
    <2>1. i + 1 \in DOMAIN s /\ Tail(s)[i] = s[i + 1]
      BY <1>1
    <2> QED
      BY <2>1 DEF ToSet
  <1> DEFINE t == Tail(s)
  <1>4. DOMAIN t = 1..(Len(s) - 1)
    BY <1>1
  <1> HIDE DEF t
  <1>5. ToSet(t) = {t[i] : i \in 1..(Len(s) - 1)} /\ ToSet(s) = {s[i] : i \in 1..Len(s)} /\ 1 \in 1..Len(s)
    BY <1>1, <1>4 DEF ToSet
  <1> QED
    BY <1>1, <1>2, <1>3, <1>5 DEF t

LEMMA TailOnce ==
    ASSUME NEW S, NEW s \in Seq(S), s # <<>>, \A i, j \in DOMAIN s : s[i] = s[j] => i = j
    PROVE  /\ \A i, j \in DOMAIN Tail(s) : Tail(s)[i] = Tail(s)[j] => i = j
           /\ Head(s) \notin ToSet(Tail(s))
  BY DEF ToSet

----------------------------------------------------------------------------
(* What a step does to the table                                           *)

TableTypes ==
    /\ DOMAIN menu \subseteq GivenIds /\ menu \in [DOMAIN menu -> MenuRow]
    /\ \A m \in DOMAIN menu : ParentFits(menu[m].parent)
    /\ spareMenus \subseteq MenuIds /\ late \subseteq MenuIds /\ knotted \in BOOLEAN

(* No id comes back, and what a running removal may not have seen is noted. *)
TableStep ==
    /\ DOMAIN menu' \subseteq DOMAIN menu \cup spareMenus
    /\ spareMenus' \subseteq spareMenus
    /\ late \subseteq late' /\ (knotted => knotted')
    /\ \A m \in DOMAIN menu' :
           Removing => m \in late' \/ (m \in DOMAIN menu /\ menu'[m].parent \in {menu[m].parent, NoMenu})
    /\ \A m \in DOMAIN menu' \cap DOMAIN menu :
           Removing /\ ~knotted' => menu'[m].parent \in {menu[m].parent, NoMenu}
    /\ ~knotted' /\ ~Loop(menu) => ~Loop(menu')

LEMMA PutTable ==
    ASSUME MenuTypeOK, NEW m \in DOMAIN menu \cup spareMenus, NEW row \in MenuRow, PutMenu(m, row)
    PROVE  TableTypes' /\ TableStep /\ DOMAIN menu \subseteq DOMAIN menu'
  <1>1. /\ DOMAIN menu' = DOMAIN menu \cup {m} /\ spareMenus' = spareMenus \ {m}
        /\ menu'[m] = row /\ \A n \in DOMAIN menu \ {m} : menu'[n] = menu[n]
    BY DEF PutMenu
  <1>2. menu' \in [DOMAIN menu' -> MenuRow]
    BY <1>1 DEF PutMenu, MenuTypeOK
  <1>3. DOMAIN menu' \subseteq GivenIds' /\ spareMenus' \subseteq MenuIds
    BY <1>1 DEF MenuTypeOK, GivenIds
  <1>4. \A n \in DOMAIN menu' : menu'[n].parent = NoMenu \/ menu'[n].parent \in DOMAIN menu'
    BY <1>1 DEF PutMenu, ParentFits, MenuTypeOK
  <1>5. late' \subseteq MenuIds /\ knotted' \in BOOLEAN /\ late \subseteq late' /\ (knotted => knotted')
    BY <1>1 DEF PutMenu, MenuTypeOK, GivenIds
  <1>6. TableTypes'
    BY <1>2, <1>3, <1>4, <1>5 DEF TableTypes, ParentFits
  <1>7. ASSUME NEW n \in DOMAIN menu', Removing
        PROVE  n \in late' \/ (n \in DOMAIN menu /\ menu'[n].parent \in {menu[n].parent, NoMenu})
    BY <1>1, <1>7 DEF PutMenu
  <1>8. ASSUME NEW n \in DOMAIN menu' \cap DOMAIN menu, Removing, ~knotted'
        PROVE  menu'[n].parent \in {menu[n].parent, NoMenu}
    BY <1>1, <1>8 DEF PutMenu
  <1>9. ~knotted' => ~Loop(menu')
    BY DEF PutMenu
  <1> QED
    BY <1>1, <1>5, <1>6, <1>7, <1>8, <1>9 DEF TableStep

LEMMA DeleteTable ==
    ASSUME MenuTypeOK, NEW ids \in SUBSET MenuIds, DeleteMenus(ids)
    PROVE  /\ TableTypes' /\ TableStep /\ home' \in [MenuPermissions -> DOMAIN menu']
           /\ DOMAIN menu' = DOMAIN menu \ ids
           /\ \A m \in DOMAIN menu' :
                  /\ menu'[m].code = menu[m].code /\ menu'[m].path = menu[m].path
                  /\ menu'[m].visible = menu[m].visible
                  /\ menu'[m].parent = IF menu[m].parent \in ids THEN NoMenu ELSE menu[m].parent
  <1>1. /\ DOMAIN menu' = DOMAIN menu \ ids /\ UNCHANGED <<spareMenus, home, late, knotted>>
        /\ \A m \in DOMAIN menu' :
               menu'[m] = IF menu[m].parent \in ids THEN [menu[m] EXCEPT !.parent = NoMenu] ELSE menu[m]
    BY DEF DeleteMenus
  <1>2. \A m \in DOMAIN menu' : menu[m] \in MenuRow
    BY <1>1 DEF MenuTypeOK
  <1>3. \A m \in DOMAIN menu' :
            /\ menu'[m] \in MenuRow
            /\ menu'[m].code = menu[m].code /\ menu'[m].path = menu[m].path /\ menu'[m].visible = menu[m].visible
            /\ menu'[m].parent = IF menu[m].parent \in ids THEN NoMenu ELSE menu[m].parent
    BY <1>1, <1>2 DEF MenuRow
  <1>4. menu' \in [DOMAIN menu' -> MenuRow]
    BY <1>3 DEF DeleteMenus
  <1>5. TableTypes'
    BY <1>1, <1>3, <1>4 DEF TableTypes, MenuTypeOK, ParentFits, GivenIds
  <1>6. home' \in [MenuPermissions -> DOMAIN menu']
    BY <1>1 DEF DeleteMenus, MenuTypeOK
  <1>7. ASSUME Loop(menu') PROVE Loop(menu)
    <2>1. PICK S \in SUBSET DOMAIN menu' : S # {} /\ \A m \in S : menu'[m].parent \in S
      BY <1>7 DEF Loop
    <2>2. NoMenu \notin S
      BY <1>5, <2>1, MenuConstants DEF TableTypes, GivenIds
    <2>3. S \in SUBSET DOMAIN menu /\ \A m \in S : menu[m].parent \in S
      BY <1>1, <1>3, <2>1, <2>2
    <2> QED
      BY <2>1, <2>3 DEF Loop
  <1>8. TableStep
    BY <1>1, <1>3, <1>7 DEF TableStep
  <1> QED
    BY <1>1, <1>3, <1>5, <1>6, <1>8

LEMMA HideTable ==
    ASSUME MenuTypeOK, HideLegacyMenus
    PROVE  /\ TableTypes' /\ TableStep /\ DOMAIN menu' = DOMAIN menu
           /\ \A m \in DOMAIN menu :
                  /\ menu'[m].code = menu[m].code /\ menu'[m].path = menu[m].path
                  /\ menu'[m].parent = menu[m].parent
                  /\ ~IsLegacy(menu[m]) => menu'[m].visible = menu[m].visible
  <1>1. /\ DOMAIN menu' = DOMAIN menu /\ UNCHANGED <<spareMenus, late, knotted>>
        /\ \A m \in DOMAIN menu :
               menu'[m] = IF IsLegacy(menu[m]) THEN [menu[m] EXCEPT !.visible = FALSE] ELSE menu[m]
    BY DEF HideLegacyMenus
  <1>2. \A m \in DOMAIN menu : menu[m] \in MenuRow
    BY DEF MenuTypeOK
  <1>3. \A m \in DOMAIN menu :
            /\ menu'[m] \in MenuRow
            /\ menu'[m].code = menu[m].code /\ menu'[m].path = menu[m].path /\ menu'[m].parent = menu[m].parent
            /\ ~IsLegacy(menu[m]) => menu'[m].visible = menu[m].visible
    <2> SUFFICES ASSUME NEW m \in DOMAIN menu
                 PROVE  /\ menu'[m] \in MenuRow
                        /\ menu'[m].code = menu[m].code /\ menu'[m].path = menu[m].path
                        /\ menu'[m].parent = menu[m].parent
                        /\ ~IsLegacy(menu[m]) => menu'[m].visible = menu[m].visible
      OBVIOUS
    <2>1. menu[m] \in MenuRow
      BY <1>2
    <2>2. CASE IsLegacy(menu[m])
      BY <1>1, <2>1, <2>2 DEF MenuRow
    <2>3. CASE ~IsLegacy(menu[m])
      BY <1>1, <2>1, <2>3
    <2> QED
      BY <2>2, <2>3
  <1>4. menu' \in [DOMAIN menu' -> MenuRow]
    BY <1>1, <1>3 DEF HideLegacyMenus
  <1>5. TableTypes'
    BY <1>1, <1>3, <1>4 DEF TableTypes, MenuTypeOK, ParentFits, GivenIds
  <1>6. Loop(menu') => Loop(menu)
    BY <1>1, <1>3 DEF Loop
  <1>7. TableStep
    BY <1>1, <1>3, <1>6 DEF TableStep
  <1> QED
    BY <1>1, <1>3, <1>5, <1>7

LEMMA NoTableStep ==
    ASSUME MenuTypeOK, UNCHANGED tableVars
    PROVE  TableTypes' /\ TableStep
  BY DEF tableVars, TableStep, TableTypes, MenuTypeOK, ParentFits, GivenIds, Loop

----------------------------------------------------------------------------
(* The three actions that put a menu in the table                          *)

LEMMA CreatePuts ==
    ASSUME MenuTypeOK, CreateMenu
    PROVE  /\ \E m \in spareMenus, row \in MenuRow : PutMenu(m, row)
           /\ home' \in [MenuPermissions -> DOMAIN menu']
  <1>1. PICK m \in spareMenus, new \in Requested, p \in MenuIds \cup {NoMenu} :
            /\ PutMenu(m, [code |-> new.code, path |-> new.path, visible |-> new.visible, parent |-> p])
            /\ \E ids \in SUBSET MenuPermissions :
                   home' = [q \in MenuPermissions |-> IF q \in ids THEN m ELSE home[q]]
    BY DEF CreateMenu
  <1> DEFINE row == [code |-> new.code, path |-> new.path, visible |-> new.visible, parent |-> p]
  <1>2. row \in MenuRow
    BY MenuConstants DEF MenuRow
  <1>3. PutMenu(m, row)
    BY <1>1
  <1> HIDE DEF row
  <1>4. m \in DOMAIN menu' /\ DOMAIN menu \subseteq DOMAIN menu'
    BY <1>3 DEF PutMenu
  <1>5. home' \in [MenuPermissions -> DOMAIN menu']
    BY <1>1, <1>4 DEF MenuTypeOK
  <1> QED
    BY <1>2, <1>3, <1>5

LEMMA UpdatePuts ==
    ASSUME MenuTypeOK, NEW c \in MenuCallers, UpdateMenu(c)
    PROVE  /\ menuCall[c].op = "update" /\ menuCall[c].on \in DOMAIN menu
           /\ \E row \in MenuRow :
                  PutMenu(menuCall[c].on, row) /\ TakeCode(menuCall[c].on, row.code, MenuCallers \ {c})
           /\ home' \in [MenuPermissions -> DOMAIN menu']
           /\ Finish(c) /\ UNCHANGED <<menuWork, menuSeed>>
  <1> DEFINE m == menuCall[c].on
  <1>1. m \in DOMAIN menu
    BY DEF UpdateMenu
  <1>2. PICK new \in Requested \cup {menu[m]}, p \in MenuIds \cup {NoMenu} :
            /\ PutMenu(m, [code |-> new.code, path |-> new.path, visible |-> new.visible, parent |-> p])
            /\ TakeCode(m, new.code, MenuCallers \ {c})
    BY DEF UpdateMenu
  <1> DEFINE row == [code |-> new.code, path |-> new.path, visible |-> new.visible, parent |-> p]
  <1>3. row \in MenuRow
    BY <1>1, MenuConstants DEF MenuRow, MenuTypeOK
  <1>4. PutMenu(m, row) /\ TakeCode(m, row.code, MenuCallers \ {c})
    BY <1>2
  <1> HIDE DEF row
  <1>5. m \in DOMAIN menu' /\ DOMAIN menu \subseteq DOMAIN menu'
    BY <1>4 DEF PutMenu
  <1>6. PICK ids \in SUBSET MenuPermissions :
            home' = [q \in MenuPermissions |-> IF q \in ids THEN m ELSE home[q]]
    BY DEF UpdateMenu
  <1>7. home' \in [MenuPermissions -> DOMAIN menu']
    BY <1>5, <1>6 DEF MenuTypeOK
  <1> QED
    BY <1>1, <1>3, <1>4, <1>7 DEF UpdateMenu

EntryRow == [code |-> Entry.code, path |-> Entry.path, visible |-> Entry.visible, parent |-> EntryParent]

LEMMA EntryType ==
    ASSUME MenuTypeOK, NEW step, AtSeed(step)
    PROVE  Entry \in SeedEntry /\ menuSeed.at \in DOMAIN MenuSeeds
  BY MenuConstants DEF AtSeed, Entry

LEMMA UpsertPuts ==
    ASSUME MenuTypeOK, UpsertGroup
    PROVE  \E m \in UpsertTargets :
               /\ EntryRow \in MenuRow /\ PutMenu(m, EntryRow) /\ TakeCode(m, Entry.code, MenuCallers)
               /\ menuSeed' = [menuSeed EXCEPT !.step = "permissions", !.rows = RowsWith(Entry.code, m)]
               /\ home' \in [MenuPermissions -> DOMAIN menu']
               /\ AtSeed("group")
  <1>1. PICK m \in UpsertTargets :
            /\ AtSeed("group") /\ PutMenu(m, EntryRow) /\ TakeCode(m, Entry.code, MenuCallers)
            /\ menuSeed' = [menuSeed EXCEPT !.step = "permissions", !.rows = RowsWith(Entry.code, m)]
            /\ UNCHANGED home
    BY Zenon DEF UpsertGroup, EntryRow
  <1>2. Entry \in SeedEntry
    BY <1>1, EntryType
  <1>3. EntryParent \in MenuIds \cup {NoMenu}
    BY <1>1 DEF PutMenu, ParentFits, MenuTypeOK, GivenIds, EntryRow
  <1>4. EntryRow \in MenuRow
    BY <1>2, <1>3, MenuConstants DEF SeedEntry, MenuRow, EntryRow
  <1>5. DOMAIN menu \subseteq DOMAIN menu'
    BY <1>1 DEF PutMenu
  <1>6. home' \in [MenuPermissions -> DOMAIN menu']
    BY <1>1, <1>5 DEF MenuTypeOK
  <1> QED
    BY <1>1, <1>4, <1>6, Zenon

LEMMA NextTable ==
    ASSUME MenuTypeOK, [MenuNext]_menuVars
    PROVE  TableTypes' /\ TableStep /\ home' \in [MenuPermissions -> DOMAIN menu']
  <1>1. CASE UNCHANGED <<tableVars, home>>
    BY <1>1, NoTableStep DEF MenuTypeOK, tableVars
  <1>2. CASE CreateMenu
    BY <1>2, CreatePuts, PutTable
  <1>3. ASSUME NEW c \in MenuCallers, UpdateMenu(c)
        PROVE  TableTypes' /\ TableStep /\ home' \in [MenuPermissions -> DOMAIN menu']
    BY <1>3, UpdatePuts, PutTable
  <1>4. ASSUME NEW c \in MenuCallers, DeleteDescendants(c) \/ DeleteMenu(c)
        PROVE  TableTypes' /\ TableStep /\ home' \in [MenuPermissions -> DOMAIN menu']
    <2>1. menuCall[c] \in MenuCallType
      BY DEF MenuTypeOK
    <2>2. menuCall[c].ids \in SUBSET MenuIds /\ (menuCall[c].on \in DOMAIN menu => {menuCall[c].on} \in SUBSET MenuIds)
      BY <2>1 DEF MenuTypeOK, MenuCallType, GivenIds
    <2> QED
      BY <1>4, <2>2, DeleteTable DEF DeleteDescendants, DeleteMenu
  <1>5. CASE UpsertGroup
    <2>1. PICK m \in UpsertTargets :
              EntryRow \in MenuRow /\ PutMenu(m, EntryRow) /\ home' \in [MenuPermissions -> DOMAIN menu']
      BY <1>5, UpsertPuts, Zenon
    <2>2. m \in DOMAIN menu \cup spareMenus
      BY DEF UpsertTargets
    <2> QED
      BY <2>1, <2>2, PutTable
  <1>6. CASE UpsertPermissions
    <2>1. menuSeed.rows[Entry.code] \in DOMAIN menu /\ UNCHANGED tableVars
      BY <1>6 DEF UpsertPermissions
    <2>2. home' = [p \in MenuPermissions |-> IF p \in Entry.holds THEN menuSeed.rows[Entry.code] ELSE home[p]]
      BY <1>6 DEF UpsertPermissions
    <2> QED
      BY <2>1, <2>2, NoTableStep DEF MenuTypeOK, tableVars
  <1>7. CASE HideLegacyMenus
    BY <1>7, HideTable DEF MenuTypeOK, HideLegacyMenus
  <1>8. ASSUME NEW c \in MenuCallers,
               \/ BeginUpdate(c) \/ BeginRemove(c) \/ FindMenu(c) \/ Collect(c) \/ Collected(c)
               \/ AssertNoneManaged(c) \/ AbortMenuCall(c)
        PROVE  UNCHANGED <<tableVars, home>>
    <2>1. ASSUME BeginUpdate(c) PROVE UNCHANGED <<tableVars, home>>
      BY <2>1 DEF BeginUpdate
    <2>2. ASSUME BeginRemove(c) PROVE UNCHANGED <<tableVars, home>>
      BY <2>2 DEF BeginRemove
    <2>3. ASSUME FindMenu(c) PROVE UNCHANGED <<tableVars, home>>
      BY <2>3 DEF FindMenu
    <2>4. ASSUME Collect(c) PROVE UNCHANGED <<tableVars, home>>
      BY <2>4 DEF Collect
    <2> QED
      BY <1>8, <2>1, <2>2, <2>3, <2>4 DEF Collected, AssertNoneManaged, AbortMenuCall
  <1>9. CASE StartMenuSeed \/ StopMenuSeed \/ FindMenuByCode \/ FindMenuByPath
    <2>1. UNCHANGED <<tableVars, home>>
      <3>1. CASE StartMenuSeed \/ StopMenuSeed
        BY <3>1 DEF StartMenuSeed, StopMenuSeed
      <3>2. CASE FindMenuByCode
        <4>1. UNCHANGED <<tableVars, home, taken>>
          BY <3>2, Zenon DEF FindMenuByCode
        <4> QED
          BY <4>1
      <3>3. CASE FindMenuByPath
        BY <3>3 DEF FindMenuByPath
      <3> QED
        BY <1>9, <3>1, <3>2, <3>3
    <2> QED
      BY <1>1, <2>1
  <1>10. CASE UNCHANGED menuVars
    BY <1>1, <1>10 DEF menuVars, tableVars
  <1> QED
    BY <1>1, <1>2, <1>3, <1>4, <1>5, <1>6, <1>7, <1>8, <1>9, <1>10 DEF MenuNext, MenuCall, MenuSeed

----------------------------------------------------------------------------
(* Types                                                                   *)

LEMMA CallTypeGrows ==
    ASSUME spareMenus' \subseteq spareMenus
    PROVE  \A call \in MenuCallType : call \in MenuCallType'
  <1>1. GivenIds \subseteq GivenIds'
    BY DEF GivenIds
  <1>2. \A s \in Seq(GivenIds) : s \in Seq(GivenIds')
    BY <1>1, SeqGrows
  <1> QED
    BY <1>1, <1>2 DEF MenuCallType

LEMMA SeedTypeGrows ==
    ASSUME spareMenus' \subseteq spareMenus
    PROVE  \A seed \in MenuSeedType : seed \in MenuSeedType'
  <1>1. GivenIds \subseteq GivenIds'
    BY DEF GivenIds
  <1>2. ASSUME NEW codes \in SUBSET ManagedMenus, NEW rows \in [codes -> GivenIds]
        PROVE  rows \in [codes -> GivenIds']
    BY <1>1
  <1>3. \A rows \in UNION {[codes -> GivenIds] : codes \in SUBSET ManagedMenus} :
            rows \in UNION {[codes -> GivenIds'] : codes \in SUBSET ManagedMenus}
    BY <1>2
  <1> QED
    BY <1>1, <1>3 DEF MenuSeedType

LEMMA IdleCallType == IdleCall \in MenuCallType
  <1>1. <<>> \in Seq(GivenIds) /\ 0 \in 0..Cardinality(MenuIds) + 1
    BY MenuConstants, FS_CardinalityType
  <1> QED
    BY <1>1 DEF IdleCall, MenuCallType

LEMMA CallSteps ==
    ASSUME MenuTypeOK, spareMenus' \subseteq spareMenus, NEW c \in MenuCallers, MenuCall(c)
    PROVE  \E call \in MenuCallType : call \in MenuCallType' /\ menuCall' = [menuCall EXCEPT ![c] = call]
  <1> DEFINE Moves(call) == menuCall' = [menuCall EXCEPT ![c] = call]
  <1> SUFFICES \E call \in MenuCallType : Moves(call)
    BY CallTypeGrows
  <1>1. IdleCall \in MenuCallType /\ menuCall[c] \in MenuCallType
    BY IdleCallType DEF MenuTypeOK
  <1>2. \A m \in DOMAIN menu : m \in GivenIds
    BY DEF MenuTypeOK
  <1>3. CASE BeginUpdate(c)
    <2>1. PICK m \in DOMAIN menu : Moves([IdleCall EXCEPT !.op = "update", !.on = m])
      BY <1>3, Zenon DEF BeginUpdate
    <2>2. [IdleCall EXCEPT !.op = "update", !.on = m] \in MenuCallType
      BY <1>1, <1>2 DEF MenuCallType
    <2> HIDE DEF Moves
    <2> QED
      BY <2>1, <2>2
  <1>4. CASE UpdateMenu(c)
    BY <1>1, <1>4, UpdatePuts DEF Finish
  <1>5. CASE BeginRemove(c)
    <2>1. PICK m \in DOMAIN menu, n \in DOMAIN menu :
              \E batch \in {<<m>>, <<m, n>>} : Moves([IdleCall EXCEPT !.op = "find", !.rest = batch])
      BY <1>5, Zenon DEF BeginRemove
    <2> HIDE DEF Moves
    <2> PICK batch \in {<<m>>, <<m, n>>} : Moves([IdleCall EXCEPT !.op = "find", !.rest = batch])
      BY <2>1
    <2>2. batch \in Seq(GivenIds)
      <3>1. <<m>> \in Seq(GivenIds) /\ <<m, n>> \in Seq(GivenIds)
        BY <1>2
      <3> QED
        BY <3>1
    <2>3. [IdleCall EXCEPT !.op = "find", !.rest = batch] \in MenuCallType
      BY <1>1, <2>2 DEF MenuCallType
    <2> QED
      BY <2>3
  <1>6. CASE FindMenu(c)
    <2> DEFINE m == Head(menuCall[c].rest)
               rest == Tail(menuCall[c].rest)
    <2>1. m \in DOMAIN menu /\ Moves([IdleCall EXCEPT !.op = "collect", !.on = m, !.todo = <<m>>, !.rest = rest])
      BY <1>6 DEF FindMenu
    <2>2. <<m>> \in Seq(GivenIds) /\ m \in GivenIds
      BY <1>2, <2>1
    <2>3. rest \in Seq(GivenIds)
      <3>1. menuCall[c].rest \in Seq(GivenIds)
        BY <1>1 DEF MenuCallType
      <3>2. CASE menuCall[c].rest # <<>>
        BY <3>1, <3>2
      <3>3. CASE menuCall[c].rest = <<>>
        BY <3>3
      <3> QED
        BY <3>2, <3>3
    <2> HIDE DEF m, rest
    <2>4. [IdleCall EXCEPT !.op = "collect", !.on = m, !.todo = <<m>>, !.rest = rest] \in MenuCallType
      BY <1>1, <2>2, <2>3 DEF MenuCallType
    <2> HIDE DEF Moves
    <2> QED
      BY <2>1, <2>4
  <1>7. CASE Collect(c)
    <2> DEFINE found == ChildrenOf(Head(menuCall[c].todo))
    <2>1. PICK children \in SetToSeqs(found) :
              Moves([menuCall[c] EXCEPT !.todo = children \o Tail(@), !.ids = @ \cup found, !.queries = @ + 1])
      BY <1>7, Zenon DEF Collect
    <2>2. menuCall[c].todo # <<>> /\ menuCall[c].queries <= Cardinality(MenuIds)
      BY <1>7 DEF Collect
    <2>3. found \subseteq GivenIds /\ IsFiniteSet(found)
      BY <1>2, MenuConstants, FS_Subset DEF ChildrenOf, GivenIds
    <2>4. children \in Seq(GivenIds)
      BY <2>3, Enumeration, SeqGrows
    <2>5. children \o Tail(menuCall[c].todo) \in Seq(GivenIds)
      BY <1>1, <2>2, <2>4 DEF MenuCallType
    <2>6. menuCall[c].queries + 1 \in 0..Cardinality(MenuIds) + 1
      BY <1>1, <2>2, MenuConstants, FS_CardinalityType DEF MenuCallType
    <2> DEFINE todo == children \o Tail(menuCall[c].todo)
               queries == menuCall[c].queries + 1
    <2>7. Moves([menuCall[c] EXCEPT !.todo = todo, !.ids = @ \cup found, !.queries = queries])
      BY <1>1, <2>1 DEF MenuCallType
    <2> HIDE DEF todo, queries, found
    <2>8. [menuCall[c] EXCEPT !.todo = todo, !.ids = @ \cup found, !.queries = queries] \in MenuCallType
      BY <1>1, <2>3, <2>5, <2>6 DEF MenuCallType, todo, queries
    <2> HIDE DEF Moves
    <2> QED
      BY <2>7, <2>8
  <1>8. CASE Collected(c) \/ AssertNoneManaged(c) \/ DeleteDescendants(c)
    <2>1. PICK op \in {"assert", "deleteMany", "delete"} : menuCall' = [menuCall EXCEPT ![c].op = op]
      BY <1>8 DEF Collected, AssertNoneManaged, DeleteDescendants, Goto
    <2>2. Moves([menuCall[c] EXCEPT !.op = op])
      BY <2>1 DEF MenuTypeOK
    <2>3. [menuCall[c] EXCEPT !.op = op] \in MenuCallType
      BY <1>1 DEF MenuCallType
    <2> HIDE DEF Moves
    <2> QED
      BY <2>2, <2>3
  <1>9. CASE DeleteMenu(c)
    <2>1. CASE Finish(c)
      BY <1>1, <2>1 DEF Finish
    <2>2. CASE Moves([IdleCall EXCEPT !.op = "find", !.rest = menuCall[c].rest])
      <3>1. [IdleCall EXCEPT !.op = "find", !.rest = menuCall[c].rest] \in MenuCallType
        BY <1>1 DEF MenuCallType
      <3> HIDE DEF Moves
      <3> QED
        BY <2>2, <3>1
    <2> QED
      BY <1>9, <2>1, <2>2 DEF DeleteMenu
  <1>10. CASE AbortMenuCall(c)
    BY <1>1, <1>10 DEF AbortMenuCall, Finish
  <1> QED
    BY <1>3, <1>4, <1>5, <1>6, <1>7, <1>8, <1>9, <1>10 DEF MenuCall

LEMMA IdleSeedType == IdleSeed \in MenuSeedType
  <1>1. 1 \in 1..Len(MenuSeeds) + 1
    BY MenuConstants
  <1>2. <<>> \in [{} -> GivenIds]
    OBVIOUS
  <1>3. <<>> \in UNION {[codes -> GivenIds] : codes \in SUBSET ManagedMenus}
    BY <1>2
  <1> QED
    BY <1>1, <1>3 DEF IdleSeed, MenuSeedType

LEMMA RowsType ==
    ASSUME MenuTypeOK, spareMenus' \subseteq spareMenus, NEW code \in ManagedMenus, NEW m \in GivenIds'
    PROVE  RowsWith(code, m) \in UNION {[codes -> GivenIds'] : codes \in SUBSET ManagedMenus}
  <1> DEFINE all == DOMAIN menuSeed.rows \cup {code}
  <1>1. PICK codes \in SUBSET ManagedMenus : menuSeed.rows \in [codes -> GivenIds]
    BY DEF MenuTypeOK, MenuSeedType
  <1>2. GivenIds \subseteq GivenIds'
    BY DEF GivenIds
  <1>3. all \in SUBSET ManagedMenus /\ \A k \in all : k # code => menuSeed.rows[k] \in GivenIds'
    BY <1>1, <1>2
  <1>4. RowsWith(code, m) \in [all -> GivenIds']
    BY <1>3 DEF RowsWith
  <1> QED
    BY <1>3, <1>4

LEMMA SeedSteps ==
    ASSUME MenuTypeOK, TableTypes', TableStep, MenuSeed
    PROVE  menuSeed' \in MenuSeedType' /\ UNCHANGED menuCall
  <1>1. spareMenus' \subseteq spareMenus /\ menuSeed \in MenuSeedType /\ IdleSeed \in MenuSeedType
    BY IdleSeedType DEF TableStep, MenuTypeOK
  <1>2. \A seed \in MenuSeedType : seed \in MenuSeedType'
    BY <1>1, SeedTypeGrows
  <1>3. \A m \in DOMAIN menu \cup {NoMenu} : m \in GivenIds \cup {NoMenu}
    BY DEF MenuTypeOK
  <1>4. CASE StartMenuSeed
    <2>1. menuSeed' \in MenuSeedType /\ UNCHANGED menuCall
      BY <1>1, <1>4 DEF StartMenuSeed, MenuSeedType
    <2> QED
      BY <1>2, <2>1
  <1>5. CASE StopMenuSeed
    BY <1>1, <1>2, <1>5 DEF StopMenuSeed
  <1>6. CASE FindMenuByCode
    <2>1. UNCHANGED menuCall
      BY <1>6, Zenon DEF FindMenuByCode, AtSeed
    <2>2. \/ menuSeed' = [menuSeed EXCEPT !.step = "byPath"]
          \/ \E m \in DOMAIN menu : menuSeed' = [menuSeed EXCEPT !.step = "group", !.found = m]
      BY <1>6, Zenon DEF FindMenuByCode
    <2>3. menuSeed' \in MenuSeedType
      <3>1. CASE menuSeed' = [menuSeed EXCEPT !.step = "byPath"]
        BY <1>1, <3>1 DEF MenuSeedType
      <3>2. ASSUME NEW m \in DOMAIN menu, menuSeed' = [menuSeed EXCEPT !.step = "group", !.found = m]
            PROVE  menuSeed' \in MenuSeedType
        <4>1. m \in GivenIds
          BY DEF MenuTypeOK
        <4> QED
          BY <1>1, <3>2, <4>1 DEF MenuSeedType
      <3> QED
        BY <2>2, <3>1, <3>2, Zenon
    <2> QED
      BY <1>2, <2>1, <2>3
  <1>7. CASE FindMenuByPath
    <2> DEFINE there == {m \in DOMAIN menu : menu[m].path = Entry.path /\ menu[m].parent = EntryParent}
    <2>1. UNCHANGED menuCall
      BY <1>7, Zenon DEF FindMenuByPath, AtSeed
    <2>2. \E m \in IF there = {} THEN {NoMenu} ELSE there :
              menuSeed' = [menuSeed EXCEPT !.step = "group", !.found = m]
      BY <1>7, Zenon DEF FindMenuByPath
    <2>3. there \subseteq DOMAIN menu
      OBVIOUS
    <2> HIDE DEF there
    <2>4. PICK m \in IF there = {} THEN {NoMenu} ELSE there :
              menuSeed' = [menuSeed EXCEPT !.step = "group", !.found = m]
      BY <2>2, Zenon
    <2>5. menuSeed' \in MenuSeedType
      <3>1. m \in GivenIds \cup {NoMenu}
        BY <1>3, <2>3
      <3> QED
        BY <1>1, <2>4, <3>1 DEF MenuSeedType
    <2> QED
      BY <1>2, <2>1, <2>5
  <1>8. CASE UpsertGroup
    <2>1. PICK m \in UpsertTargets :
              /\ PutMenu(m, EntryRow) /\ AtSeed("group")
              /\ menuSeed' = [menuSeed EXCEPT !.step = "permissions", !.rows = RowsWith(Entry.code, m)]
      BY <1>8, UpsertPuts, Zenon
    <2>2. Entry.code \in ManagedMenus
      BY <2>1, EntryType DEF SeedEntry
    <2>3. m \in GivenIds'
      BY <2>1 DEF PutMenu, TableTypes
    <2> DEFINE rows == RowsWith(Entry.code, m)
    <2>4. rows \in UNION {[codes -> GivenIds'] : codes \in SUBSET ManagedMenus}
      BY <1>1, <2>2, <2>3, RowsType
    <2>5. menuSeed' = [menuSeed EXCEPT !.step = "permissions", !.rows = rows] /\ menuSeed \in MenuSeedType'
      BY <1>1, <1>2, <2>1
    <2> HIDE DEF rows
    <2>6. menuSeed' \in MenuSeedType'
      BY <2>4, <2>5 DEF MenuSeedType
    <2> QED
      BY <2>1, <2>6 DEF AtSeed
  <1>9. CASE UpsertPermissions
    <2>1. AtSeed("permissions")
          /\ menuSeed' = [menuSeed EXCEPT !.step = "byCode", !.at = @ + 1, !.found = NoMenu]
      BY <1>9, Zenon DEF UpsertPermissions
    <2>2. menuSeed.at \in DOMAIN MenuSeeds /\ UNCHANGED menuCall
      BY <2>1 DEF AtSeed
    <2>3. menuSeed.at + 1 \in 1..Len(MenuSeeds) + 1
      BY <2>2, MenuConstants
    <2>4. menuSeed' \in MenuSeedType
      BY <1>1, <2>1, <2>3 DEF MenuSeedType
    <2> QED
      BY <1>2, <2>2, <2>4
  <1>10. CASE HideLegacyMenus
    <2>1. menuSeed' = [IdleSeed EXCEPT !.step = "done"] /\ UNCHANGED menuCall
      BY <1>10 DEF HideLegacyMenus
    <2>2. menuSeed' \in MenuSeedType
      BY <1>1, <2>1 DEF MenuSeedType
    <2> QED
      BY <1>2, <2>1, <2>2
  <1> QED
    BY <1>4, <1>5, <1>6, <1>7, <1>8, <1>9, <1>10 DEF MenuSeed

LEMMA NextMenuType == MenuTypeOK /\ [MenuNext]_menuVars => MenuTypeOK'
  <1> SUFFICES ASSUME MenuTypeOK, [MenuNext]_menuVars PROVE MenuTypeOK'
    OBVIOUS
  <1>1. TableTypes' /\ TableStep /\ home' \in [MenuPermissions -> DOMAIN menu']
    BY NextTable
  <1>2. spareMenus' \subseteq spareMenus
    BY <1>1 DEF TableStep
  <1>3. /\ \A call \in MenuCallType : call \in MenuCallType'
        /\ \A seed \in MenuSeedType : seed \in MenuSeedType'
    BY <1>2, CallTypeGrows, SeedTypeGrows
  <1>4. menuCall' \in [MenuCallers -> MenuCallType']
    <2>1. CASE UNCHANGED menuCall
      BY <1>3, <2>1 DEF MenuTypeOK
    <2>2. ASSUME NEW c \in MenuCallers, MenuCall(c) PROVE menuCall' \in [MenuCallers -> MenuCallType']
      BY <1>2, <1>3, <2>2, CallSteps DEF MenuTypeOK
    <2> QED
      BY <1>1, <2>1, <2>2, SeedSteps DEF MenuNext, CreateMenu, menuVars
  <1>5. menuSeed' \in MenuSeedType'
    <2>1. CASE UNCHANGED menuSeed
      BY <1>3, <2>1 DEF MenuTypeOK
    <2>2. ASSUME NEW c \in MenuCallers, MenuCall(c) PROVE UNCHANGED menuSeed
      BY <2>2, Zenon DEF MenuCall, BeginUpdate, UpdateMenu, BeginRemove, FindMenu, Collect, Collected, AssertNoneManaged,
                         DeleteDescendants, DeleteMenu, AbortMenuCall
    <2> QED
      BY <1>1, <2>1, <2>2, SeedSteps DEF MenuNext, CreateMenu, menuVars
  <1>6. menuWork' \in 0..MaxMenuWork /\ taken' \in BOOLEAN
    <2>1. CASE UNCHANGED <<menuWork, taken>>
      BY <2>1 DEF MenuTypeOK
    <2> DEFINE More == menuWork < MaxMenuWork /\ menuWork' = menuWork + 1 /\ UNCHANGED taken
    <2>2. CASE More
      BY <2>2, MenuConstants DEF MenuTypeOK
    <2>3. CASE UNCHANGED menuWork /\ taken' \in BOOLEAN
      BY <2>3 DEF MenuTypeOK
    <2>4. ASSUME NEW c \in MenuCallers, MenuCall(c)
          PROVE  More \/ UNCHANGED <<menuWork, taken>> \/ (UNCHANGED menuWork /\ taken' \in BOOLEAN)
      <3>1. CASE BeginUpdate(c) \/ BeginRemove(c)
        BY <3>1, Zenon DEF BeginUpdate, BeginRemove
      <3>2. CASE UpdateMenu(c)
        BY <3>2, UpdatePuts DEF TakeCode, MenuTypeOK
      <3> QED
        BY <2>4, <3>1, <3>2, Zenon DEF MenuCall, FindMenu, Collect, Collected, AssertNoneManaged, DeleteDescendants,
                                       DeleteMenu, AbortMenuCall
    <2>5. ASSUME MenuSeed
          PROVE  More \/ UNCHANGED <<menuWork, taken>> \/ (UNCHANGED menuWork /\ taken' \in BOOLEAN)
      <3>1. CASE StartMenuSeed
        BY <3>1, Zenon DEF StartMenuSeed
      <3>2. CASE UpsertGroup
        <4>1. PICK m \in UpsertTargets : TakeCode(m, Entry.code, MenuCallers) /\ AtSeed("group")
          BY <3>2, UpsertPuts, Zenon
        <4> QED
          BY <4>1 DEF AtSeed, TakeCode, MenuTypeOK
      <3> QED
        BY <2>5, <3>1, <3>2, Zenon DEF MenuSeed, StopMenuSeed, FindMenuByCode, FindMenuByPath, UpsertPermissions,
                                       HideLegacyMenus, AtSeed
    <2> QED
      BY <2>1, <2>2, <2>3, <2>4, <2>5 DEF MenuNext, CreateMenu, menuVars
  <1> QED
    BY <1>1, <1>4, <1>5, <1>6 DEF MenuTypeOK, TableTypes

LEMMA InitMenuType == MenuInit => MenuTypeOK
  <1> SUFFICES ASSUME MenuInit PROVE MenuTypeOK
    OBVIOUS
  <1>1. DOMAIN menu \subseteq GivenIds /\ menu \in [DOMAIN menu -> MenuRow]
    BY MenuConstants DEF MenuInit, GivenIds
  <1>2. \A m \in DOMAIN menu : ParentFits(menu[m].parent)
    BY MenusInstalled DEF MenuInit, ParentFits
  <1>3. menuCall \in [MenuCallers -> MenuCallType] /\ menuSeed \in MenuSeedType
    BY IdleCallType, IdleSeedType DEF MenuInit
  <1>4. home \in [MenuPermissions -> DOMAIN menu] /\ menuWork \in 0..MaxMenuWork
    BY MenuConstants DEF MenuInit
  <1> QED
    BY <1>1, <1>2, <1>3, <1>4 DEF MenuInit, MenuTypeOK, Loop

(* Every step of the two services and of the seed keeps the types, the     *)
(* parents and the homes of the permissions: no interleaving leaves a menu *)
(* under one that is gone, or a permission in no menu.                     *)
THEOREM MenuTypes == MenuSpec => []MenuTypeOK
  BY InitMenuType, NextMenuType, PTL DEF MenuSpec

----------------------------------------------------------------------------
(* What a step does to a removal                                           *)

LEMMA OthersStay ==
    ASSUME MenuTypeOK, [MenuNext]_menuVars
    PROVE  UNCHANGED menuCall \/ \E c \in MenuCallers :
               MenuCall(c) /\ \A d \in MenuCallers \ {c} : menuCall'[d] = menuCall[d]
  <1>1. ASSUME NEW c \in MenuCallers, MenuCall(c)
        PROVE  \A d \in MenuCallers \ {c} : menuCall'[d] = menuCall[d]
    <2>1. spareMenus' \subseteq spareMenus
      BY NextTable DEF TableStep
    <2> QED
      BY <1>1, <2>1, CallSteps DEF MenuTypeOK
  <1>2. CASE MenuSeed
    BY <1>2, NextTable, SeedSteps
  <1> QED
    BY <1>1, <1>2 DEF MenuNext, CreateMenu, menuVars

LEMMA FindMoves ==
    ASSUME MenuTypeOK, NEW c \in MenuCallers, FindMenu(c)
    PROVE  /\ menuCall'[c].on \in DOMAIN menu /\ ~IsManaged(menuCall'[c].on)
           /\ menuCall'[c].op = "collect" /\ menuCall'[c].todo = <<menuCall'[c].on>>
           /\ menuCall'[c].ids = {} /\ menuCall'[c].queries = 0
           /\ UNCHANGED tableVars
  <1> DEFINE m == Head(menuCall[c].rest)
             rest == Tail(menuCall[c].rest)
  <1>1. /\ m \in DOMAIN menu /\ ~IsManaged(m) /\ UNCHANGED tableVars
        /\ menuCall' = [menuCall EXCEPT ![c] = [IdleCall EXCEPT !.op = "collect", !.on = m, !.todo = <<m>>, !.rest = rest]]
    BY DEF FindMenu
  <1> HIDE DEF m, rest
  <1>2. menuCall'[c] = [IdleCall EXCEPT !.op = "collect", !.on = m, !.todo = <<m>>, !.rest = rest]
    BY <1>1 DEF MenuTypeOK
  <1>3. /\ menuCall'[c].op = "collect" /\ menuCall'[c].on = m /\ menuCall'[c].todo = <<m>>
        /\ menuCall'[c].ids = {} /\ menuCall'[c].queries = 0
    BY <1>2 DEF IdleCall
  <1> QED
    BY <1>1, <1>3

LEMMA CollectMoves ==
    ASSUME MenuTypeOK, NEW c \in MenuCallers, Collect(c)
    PROVE  LET call == menuCall[c]
               found == ChildrenOf(Head(call.todo))
           IN  /\ call.op = "collect" /\ call.todo # <<>> /\ UNCHANGED tableVars
               /\ \E children \in SetToSeqs(found) :
                     /\ menuCall'[c].op = "collect" /\ menuCall'[c].on = call.on
                     /\ menuCall'[c].todo = children \o Tail(call.todo)
                     /\ menuCall'[c].ids = call.ids \cup found /\ menuCall'[c].queries = call.queries + 1
  <1> DEFINE call == menuCall[c]
             found == ChildrenOf(Head(call.todo))
  <1>1. PICK children \in SetToSeqs(found) :
            menuCall' = [menuCall EXCEPT ![c] =
                [call EXCEPT !.todo = children \o Tail(@), !.ids = @ \cup found, !.queries = @ + 1]]
    BY Zenon DEF Collect
  <1>2. call \in MenuCallType
    BY DEF MenuTypeOK
  <1> HIDE DEF found
  <1>3. menuCall'[c] = [call EXCEPT !.todo = children \o Tail(@), !.ids = @ \cup found, !.queries = @ + 1]
    BY <1>1 DEF MenuTypeOK
  <1>4. /\ menuCall'[c].op = call.op /\ menuCall'[c].on = call.on
        /\ menuCall'[c].todo = children \o Tail(call.todo)
        /\ menuCall'[c].ids = call.ids \cup found /\ menuCall'[c].queries = call.queries + 1
    BY <1>2, <1>3 DEF MenuCallType
  <1>5. call.op = "collect" /\ call.todo # <<>> /\ UNCHANGED tableVars
    BY Zenon DEF Collect
  <1> QED
    BY <1>4, <1>5 DEF found

LEMMA GotoMoves ==
    ASSUME MenuTypeOK, NEW c \in MenuCallers, NEW op, Goto(c, op)
    PROVE  /\ menuCall'[c].op = op /\ menuCall'[c].on = menuCall[c].on /\ menuCall'[c].todo = menuCall[c].todo
           /\ menuCall'[c].ids = menuCall[c].ids /\ menuCall'[c].queries = menuCall[c].queries
  <1>1. menuCall[c] \in MenuCallType
    BY DEF MenuTypeOK
  <1>2. menuCall'[c] = [menuCall[c] EXCEPT !.op = op]
    BY DEF MenuTypeOK, Goto
  <1> QED
    BY <1>1, <1>2 DEF MenuCallType

LEMMA RestMoves ==
    ASSUME MenuTypeOK, NEW c \in MenuCallers, MenuCall(c),
           ~FindMenu(c), ~Collect(c), ~Collected(c), ~AssertNoneManaged(c), ~DeleteDescendants(c)
    PROVE  /\ menuCall'[c].op \notin RemovalOps /\ menuCall'[c].queries = 0 /\ menuCall'[c].ids = {}
           /\ menuCall'[c].on # NoMenu => BeginUpdate(c) /\ menuCall'[c].on \in DOMAIN menu /\ ~IsManaged(menuCall'[c].on)
  <1> USE DEF RemovalOps
  <1>1. CASE BeginUpdate(c)
    <2>1. PICK m \in DOMAIN menu :
              /\ ~IsManaged(m)
              /\ menuCall' = [menuCall EXCEPT ![c] = [IdleCall EXCEPT !.op = "update", !.on = m]]
      BY <1>1, Zenon DEF BeginUpdate
    <2>2. menuCall'[c] = [IdleCall EXCEPT !.op = "update", !.on = m]
      BY <2>1 DEF MenuTypeOK
    <2>3. /\ menuCall'[c].op = "update" /\ menuCall'[c].on = m
          /\ menuCall'[c].ids = {} /\ menuCall'[c].queries = 0
      BY <2>2 DEF IdleCall
    <2> QED
      BY <1>1, <2>1, <2>3
  <1>2. ASSUME NEW batch, menuCall' = [menuCall EXCEPT ![c] = [IdleCall EXCEPT !.op = "find", !.rest = batch]]
        PROVE  /\ menuCall'[c].op \notin RemovalOps /\ menuCall'[c].queries = 0 /\ menuCall'[c].ids = {}
               /\ menuCall'[c].on = NoMenu
    <2>1. menuCall'[c] = [IdleCall EXCEPT !.op = "find", !.rest = batch]
      BY <1>2 DEF MenuTypeOK
    <2> QED
      BY <2>1 DEF IdleCall
  <1>3. CASE BeginRemove(c)
    <2>1. PICK m \in DOMAIN menu, n \in DOMAIN menu :
              \E batch \in {<<m>>, <<m, n>>} :
                  menuCall' = [menuCall EXCEPT ![c] = [IdleCall EXCEPT !.op = "find", !.rest = batch]]
      BY <1>3, Zenon DEF BeginRemove
    <2>2. PICK batch : menuCall' = [menuCall EXCEPT ![c] = [IdleCall EXCEPT !.op = "find", !.rest = batch]]
      BY <2>1, Zenon
    <2>3. /\ menuCall'[c].op \notin RemovalOps /\ menuCall'[c].queries = 0 /\ menuCall'[c].ids = {}
          /\ menuCall'[c].on = NoMenu
      BY <1>2, <2>2, Zenon
    <2> QED
      BY <2>3
  <1>4. CASE Finish(c)
    <2>1. menuCall'[c] = IdleCall
      BY <1>4 DEF Finish, MenuTypeOK
    <2> QED
      BY <2>1 DEF IdleCall
  <1>5. CASE UpdateMenu(c)
    BY <1>4, <1>5, UpdatePuts
  <1>6. CASE DeleteMenu(c)
    <2>1. Finish(c) \/ menuCall' = [menuCall EXCEPT ![c] = [IdleCall EXCEPT !.op = "find", !.rest = menuCall[c].rest]]
      BY <1>6, Zenon DEF DeleteMenu
    <2>2. CASE ~Finish(c)
      <3>1. /\ menuCall'[c].op \notin RemovalOps /\ menuCall'[c].queries = 0 /\ menuCall'[c].ids = {}
            /\ menuCall'[c].on = NoMenu
        BY <1>2, <2>1, <2>2, Zenon
      <3> QED
        BY <3>1
    <2> QED
      BY <1>4, <2>2
  <1>7. CASE AbortMenuCall(c)
    BY <1>4, <1>7 DEF AbortMenuCall
  <1> QED
    BY <1>1, <1>3, <1>5, <1>6, <1>7 DEF MenuCall

----------------------------------------------------------------------------
(* A removal leaves nothing behind                                         *)

LEMMA GatheredType ==
    ASSUME MenuTypeOK, NEW c \in MenuCallers, menuCall[c].on \in MenuIds
    PROVE  /\ Gathered(c) \subseteq MenuIds /\ Asked(c) \subseteq Gathered(c)
           /\ NoMenu \notin Gathered(c) /\ Gathered(c) \cap spareMenus = {}
  <1>1. menuCall[c] \in MenuCallType
    BY DEF MenuTypeOK
  <1> QED
    BY <1>1, MenuConstants DEF MenuCallType, GivenIds, Gathered, Asked

(* The steps of others. *)
LEMMA FamilyKept ==
    ASSUME MenuTypeOK, TableStep, NEW c \in MenuCallers, menuCall'[c] = menuCall[c],
           menuCall[c].op \in RemovalOps, Family(c)
    PROVE  Family(c)'
  <1>1. Gathered(c) \subseteq MenuIds /\ Asked(c) \subseteq Gathered(c) /\ NoMenu \notin Gathered(c)
        /\ Gathered(c) \cap spareMenus = {}
    BY GatheredType DEF Family
  <1>2. Asked(c)' = Asked(c)
    BY DEF Asked, Gathered
  <1>3. ASSUME NEW m \in DOMAIN menu', menu'[m].parent \in Asked(c)
        PROVE  m \in menuCall[c].ids \cup late'
    <2>1. m \in late' \/ (m \in DOMAIN menu /\ menu'[m].parent \in {menu[m].parent, NoMenu})
      BY DEF TableStep, Removing, RemovalOps
    <2> QED
      BY <1>1, <1>3, <2>1 DEF Family, TableStep
  <1>4. menuCall[c].op = "delete" => menuCall[c].ids \cap DOMAIN menu' = {}
    BY <1>1 DEF TableStep, Family, Gathered
  <1> QED
    BY <1>2, <1>3, <1>4 DEF Family

(* The removal's own steps. *)
LEMMA FamilyFound ==
    ASSUME MenuTypeOK, NEW c \in MenuCallers, FindMenu(c)
    PROVE  Family(c)'
  <1>1. /\ menuCall'[c].on \in DOMAIN menu /\ menuCall'[c].op = "collect"
        /\ menuCall'[c].todo = <<menuCall'[c].on>> /\ menuCall'[c].ids = {}
    BY FindMoves
  <1>2. menuCall'[c].on \in MenuIds
    BY <1>1 DEF MenuTypeOK, GivenIds
  <1>3. Asked(c)' = {}
    BY <1>1 DEF Asked, Gathered, ToSet
  <1> QED
    BY <1>1, <1>2, <1>3 DEF Family

(* One query takes its menu from the list and puts the children there. *)
LEMMA CollectSets ==
    ASSUME MenuTypeOK, NEW c \in MenuCallers, Collect(c)
    PROVE  LET head == Head(menuCall[c].todo)
               tail == Tail(menuCall[c].todo)
           IN  /\ tail \in Seq(GivenIds) /\ ToSet(menuCall[c].todo) = {head} \cup ToSet(tail)
               /\ head \in GivenIds
               /\ Gathered(c)' = Gathered(c) \cup ChildrenOf(head)
               /\ ToSet(menuCall'[c].todo) = ChildrenOf(head) \cup ToSet(tail)
               /\ \E children \in Seq(GivenIds) :
                      /\ menuCall'[c].todo = children \o tail /\ ToSet(children) = ChildrenOf(head)
                      /\ \A i, j \in DOMAIN children : children[i] = children[j] => i = j
  <1> DEFINE call == menuCall[c]
             head == Head(call.todo)
             tail == Tail(call.todo)
             found == ChildrenOf(head)
  <1>1. call.todo \in Seq(GivenIds) /\ call.todo # <<>>
    BY CollectMoves DEF MenuTypeOK, MenuCallType
  <1>2. PICK children \in SetToSeqs(found) :
            /\ menuCall'[c].on = call.on /\ menuCall'[c].todo = children \o tail
            /\ menuCall'[c].ids = call.ids \cup found
    BY CollectMoves
  <1>3. found \subseteq GivenIds /\ IsFiniteSet(found)
    BY MenuConstants, FS_Subset DEF ChildrenOf, GivenIds, MenuTypeOK
  <1>4. /\ children \in Seq(GivenIds) /\ ToSet(children) = found
        /\ \A i, j \in DOMAIN children : children[i] = children[j] => i = j
    BY <1>3, Enumeration, SeqGrows
  <1>5. tail \in Seq(GivenIds) /\ head \in GivenIds
    BY <1>1
  <1>6. ToSet(call.todo) = {head} \cup ToSet(tail)
    BY <1>1, TailSet
  <1> HIDE DEF found, head, tail
  <1>7. ToSet(children \o tail) = found \cup ToSet(tail)
    BY <1>4, <1>5, ConcatSets
  <1>8. Gathered(c)' = Gathered(c) \cup found
    BY <1>2 DEF Gathered
  <1> QED
    BY <1>2, <1>4, <1>5, <1>6, <1>7, <1>8 DEF found, head, tail

LEMMA FamilyCollected ==
    ASSUME MenuTypeOK, NEW c \in MenuCallers, Collect(c), Family(c)
    PROVE  Family(c)'
  <1> DEFINE head == Head(menuCall[c].todo)
             tail == Tail(menuCall[c].todo)
  <1>1. /\ ToSet(menuCall[c].todo) = {head} \cup ToSet(tail)
        /\ Gathered(c)' = Gathered(c) \cup ChildrenOf(head)
        /\ ToSet(menuCall'[c].todo) = ChildrenOf(head) \cup ToSet(tail)
    BY CollectSets
  <1>2. /\ UNCHANGED tableVars /\ menuCall'[c].op = "collect" /\ menuCall'[c].on = menuCall[c].on
        /\ menuCall'[c].ids = menuCall[c].ids \cup ChildrenOf(head)
    BY CollectMoves
  <1>3. UNCHANGED <<menu, late>>
    BY <1>2 DEF tableVars
  <1>4. Asked(c)' = (Gathered(c)') \ ToSet(menuCall'[c].todo)
    BY DEF Asked
  <1>5. Asked(c)' \subseteq Asked(c) \cup {head}
    BY <1>1, <1>4 DEF Asked
  <1>6. ASSUME NEW m \in DOMAIN menu, menu[m].parent \in Asked(c)'
        PROVE  m \in menuCall'[c].ids \cup late
    <2>1. CASE menu[m].parent = head
      BY <1>2, <2>1 DEF ChildrenOf
    <2>2. CASE menu[m].parent \in Asked(c)
      BY <1>2, <2>2 DEF Family
    <2> QED
      BY <1>5, <1>6, <2>1, <2>2
  <1> QED
    BY <1>2, <1>3, <1>6 DEF Family

LEMMA FamilyGoes ==
    ASSUME MenuTypeOK, TableStep, NEW c \in MenuCallers, menuCall[c].op \in RemovalOps, Family(c),
           Collected(c) \/ AssertNoneManaged(c) \/ DeleteDescendants(c)
    PROVE  Family(c)'
  <1> DEFINE op == menuCall'[c].op
  <1>1. /\ menuCall'[c].on = menuCall[c].on /\ menuCall'[c].todo = menuCall[c].todo
        /\ menuCall'[c].ids = menuCall[c].ids
    BY GotoMoves DEF Collected, AssertNoneManaged, DeleteDescendants
  <1>2. menuCall[c].todo = <<>>
    BY DEF Collected, AssertNoneManaged, DeleteDescendants, Family
  <1>3. Asked(c)' = Asked(c)
    BY <1>1 DEF Asked, Gathered
  <1>4. Gathered(c) \subseteq MenuIds /\ Asked(c) \subseteq Gathered(c) /\ NoMenu \notin Gathered(c)
    BY GatheredType DEF Family
  <1>5. ASSUME NEW m \in DOMAIN menu', menu'[m].parent \in Asked(c)
        PROVE  m \in menuCall[c].ids \cup late'
    <2>1. m \in late' \/ (m \in DOMAIN menu /\ menu'[m].parent \in {menu[m].parent, NoMenu})
      BY DEF TableStep, Removing, RemovalOps
    <2> QED
      BY <1>4, <1>5, <2>1 DEF Family, TableStep
  <1>6. op = "delete" => menuCall[c].ids \cap DOMAIN menu' = {}
    <2>1. CASE DeleteDescendants(c)
      <3>1. menuCall[c].ids \in SUBSET MenuIds /\ DeleteMenus(menuCall[c].ids)
        BY <1>4, <2>1 DEF Gathered, DeleteDescendants
      <3>2. DOMAIN menu' = DOMAIN menu \ menuCall[c].ids
        BY <3>1, DeleteTable
      <3> QED
        BY <3>2
    <2>2. CASE Collected(c) \/ AssertNoneManaged(c)
      BY <2>2, GotoMoves DEF Collected, AssertNoneManaged
    <2> QED
      BY <2>1, <2>2
  <1> QED
    BY <1>1, <1>2, <1>3, <1>5, <1>6 DEF Family

LEMMA NextFamily == MenuTypeOK /\ FamilyKnown /\ [MenuNext]_menuVars => FamilyKnown'
  <1> SUFFICES ASSUME MenuTypeOK, FamilyKnown, [MenuNext]_menuVars,
                      NEW c \in MenuCallers, menuCall'[c].op \in RemovalOps
               PROVE  Family(c)'
    BY DEF FamilyKnown
  <1>1. TableStep
    BY NextTable
  <1>2. CASE menuCall'[c] = menuCall[c]
    BY <1>1, <1>2, FamilyKept DEF FamilyKnown
  <1>3. CASE MenuCall(c)
    <2>1. CASE FindMenu(c)
      BY <2>1, FamilyFound
    <2>2. CASE Collect(c)
      BY <2>2, CollectMoves, FamilyCollected DEF FamilyKnown, RemovalOps
    <2>3. CASE Collected(c) \/ AssertNoneManaged(c) \/ DeleteDescendants(c)
      <3>1. menuCall[c].op \in RemovalOps
        BY <2>3 DEF Collected, AssertNoneManaged, DeleteDescendants, RemovalOps
      <3> QED
        BY <1>1, <2>3, <3>1, FamilyGoes DEF FamilyKnown
    <2> QED
      BY <1>3, <2>1, <2>2, <2>3, RestMoves
  <1> QED
    BY <1>2, <1>3, OthersStay

----------------------------------------------------------------------------
(* A collection ends                                                       *)

(* Where there is no loop, what is above a menu does not hold the menu: the *)
(* menus from which every way up passes m would be one.                    *)
LEMMA AncestorsApart ==
    ASSUME MenuTypeOK, ~Loop(menu), NEW m \in DOMAIN menu
    PROVE  \E U \in SUBSET DOMAIN menu :
               /\ m \notin U /\ menu[m].parent \in U \cup {NoMenu}
               /\ \A n \in U : menu[n].parent \in U \cup {NoMenu}
  <1> DEFINE Closed(U) == \A n \in U : menu[n].parent \in U \cup {NoMenu}
             S == {n \in DOMAIN menu : \A U \in SUBSET DOMAIN menu : Closed(U) /\ n \in U => m \in U}
             p == menu[m].parent
  <1>1. \A n \in DOMAIN menu : menu[n].parent \in DOMAIN menu \cup {NoMenu}
    BY DEF MenuTypeOK, ParentFits
  <1> SUFFICES ASSUME ~ \E U \in SUBSET DOMAIN menu : m \notin U /\ p \in U \cup {NoMenu} /\ Closed(U)
               PROVE  FALSE
    OBVIOUS
  <1>2. p # NoMenu
    <2>1. {} \in SUBSET DOMAIN menu /\ m \notin {} /\ Closed({})
      OBVIOUS
    <2> QED
      BY <2>1
  <1>3. p \in S
    BY <1>1, <1>2
  <1>4. ASSUME NEW n \in S PROVE menu[n].parent \in S
    <2>1. CASE n = m
      BY <1>3, <2>1
    <2>2. CASE n # m
      <3>1. menu[n].parent # NoMenu
        <4>1. {n} \in SUBSET DOMAIN menu /\ n \in {n} /\ m \notin {n}
          BY <2>2
        <4>2. ~Closed({n})
          BY <4>1
        <4> QED
          BY <4>2
      <3>2. menu[n].parent \in DOMAIN menu
        BY <1>1, <3>1
      <3>3. ASSUME NEW V \in SUBSET DOMAIN menu, Closed(V), menu[n].parent \in V
            PROVE  m \in V
        <4>1. V \cup {n} \in SUBSET DOMAIN menu /\ Closed(V \cup {n})
          BY <3>3
        <4>2. m \in V \cup {n}
          BY <4>1
        <4> QED
          BY <2>2, <4>2
      <3> QED
        BY <3>2, <3>3
    <2> QED
      BY <2>1, <2>2
  <1>5. S \in SUBSET DOMAIN menu /\ S # {}
    BY <1>3
  <1> HIDE DEF S
  <1> QED
    BY <1>4, <1>5 DEF Loop

(* The steps of others. *)
LEMMA WalkKept ==
    ASSUME MenuTypeOK, TableTypes', TableStep, ~knotted', NEW c \in MenuCallers, menuCall'[c] = menuCall[c],
           menuCall[c].op = "collect", Family(c), WalkOn(c)
    PROVE  WalkOn(c)'
  <1>1. Asked(c)' = Asked(c) /\ Gathered(c)' = Gathered(c)
    BY DEF Asked, Gathered
  <1>2. Gathered(c) \cap spareMenus = {}
    BY GatheredType DEF Family
  <1>3. \A m \in DOMAIN menu' \cap DOMAIN menu : menu'[m].parent \in {menu[m].parent, NoMenu}
    BY DEF TableStep, Removing
  <1>4. \A m \in Gathered(c) \cap DOMAIN menu' : m \in DOMAIN menu
    BY <1>2 DEF TableStep
  <1>5. \A m \in menuCall[c].ids \cap DOMAIN menu' : menu'[m].parent \in Asked(c) \cup {NoMenu}
    BY <1>3, <1>4 DEF WalkOn, Gathered
  <1>6. Apart(c)'
    <2>1. PICK U \in SUBSET DOMAIN menu :
              /\ U \cap Gathered(c) = {}
              /\ menuCall[c].on \in DOMAIN menu => menu[menuCall[c].on].parent \in U \cup {NoMenu}
              /\ \A m \in U : menu[m].parent \in U \cup {NoMenu}
      BY DEF WalkOn, Apart
    <2> DEFINE V == U \cap DOMAIN menu'
    <2>2. \A m \in DOMAIN menu' : menu'[m].parent \in DOMAIN menu' \cup {NoMenu}
      BY DEF TableTypes, ParentFits
    <2>3. \A m \in V : menu'[m].parent \in V \cup {NoMenu}
      BY <1>3, <2>1, <2>2
    <2>4. menuCall[c].on \in DOMAIN menu' => menu'[menuCall[c].on].parent \in V \cup {NoMenu}
      BY <1>3, <1>4, <2>1, <2>2 DEF Gathered
    <2>5. V \in SUBSET DOMAIN menu' /\ V \cap Gathered(c) = {}
      BY <2>1
    <2> HIDE DEF V
    <2> QED
      BY <1>1, <2>3, <2>4, <2>5 DEF Apart
  <1> QED
    BY <1>1, <1>5, <1>6 DEF WalkOn

LEMMA WalkFound ==
    ASSUME MenuTypeOK, ~Loop(menu), NEW c \in MenuCallers, FindMenu(c)
    PROVE  WalkOn(c)'
  <1> DEFINE on == menuCall'[c].on
  <1>1. /\ on \in DOMAIN menu /\ menuCall'[c].todo = <<on>> /\ menuCall'[c].ids = {} /\ menuCall'[c].queries = 0
        /\ menu' = menu
    BY FindMoves DEF tableVars
  <1>2. Gathered(c)' = {on}
    BY <1>1 DEF Gathered
  <1>3. ToSet(menuCall'[c].todo) = {on} /\ \A i, j \in DOMAIN menuCall'[c].todo : i = j
    BY <1>1 DEF ToSet
  <1>4. Asked(c)' = {} /\ Cardinality({}) = 0
    BY <1>2, <1>3, FS_EmptySet DEF Asked
  <1>5. Apart(c)'
    BY <1>1, <1>2, AncestorsApart DEF Apart
  <1> QED
    BY <1>1, <1>2, <1>3, <1>4, <1>5 DEF WalkOn

(* The children of a menu that is asked about are new, and so is the menu. *)
LEMMA WalkAsks ==
    ASSUME MenuTypeOK, NEW c \in MenuCallers, Collect(c), Family(c), WalkOn(c)
    PROVE  LET head == Head(menuCall[c].todo) IN
           /\ ChildrenOf(head) \cap Gathered(c) = {} /\ head \in Gathered(c) \ Asked(c)
           /\ Asked(c)' = Asked(c) \cup {head}
  <1> DEFINE head == Head(menuCall[c].todo)
             tail == Tail(menuCall[c].todo)
  <1>1. /\ ToSet(menuCall[c].todo) = {head} \cup ToSet(tail) /\ head \in GivenIds
        /\ Gathered(c)' = Gathered(c) \cup ChildrenOf(head)
        /\ ToSet(menuCall'[c].todo) = ChildrenOf(head) \cup ToSet(tail)
    BY CollectSets
  <1>2. head \in Gathered(c) \ Asked(c)
    BY <1>1 DEF WalkOn, Asked
  <1>3. head # NoMenu
    BY <1>1, MenuConstants DEF GivenIds
  <1>4. ASSUME NEW n \in ChildrenOf(head), n \in Gathered(c) PROVE FALSE
    <2>1. n \in DOMAIN menu /\ menu[n].parent = head
      BY DEF ChildrenOf
    <2>2. CASE n \in menuCall[c].ids
      BY <1>2, <1>3, <2>1, <2>2 DEF WalkOn
    <2>3. CASE n = menuCall[c].on
      BY <1>2, <1>3, <2>1, <2>3 DEF WalkOn, Apart
    <2> QED
      BY <1>4, <2>2, <2>3 DEF Gathered
  <1>5. head \notin ToSet(tail)
    <2>1. menuCall[c].todo \in Seq(GivenIds) /\ menuCall[c].todo # <<>>
      BY CollectMoves DEF MenuTypeOK, MenuCallType
    <2> QED
      BY <2>1, TailOnce DEF WalkOn
  <1>6. ToSet(tail) \subseteq Gathered(c)
    BY <1>1 DEF WalkOn
  <1>7. Asked(c)' = (Gathered(c)') \ ToSet(menuCall'[c].todo)
    BY DEF Asked
  <1>8. Asked(c)' = Asked(c) \cup {head}
    BY <1>1, <1>2, <1>4, <1>5, <1>6, <1>7 DEF Asked
  <1> QED
    BY <1>2, <1>4, <1>8

LEMMA WalkCounts ==
    ASSUME MenuTypeOK, NEW c \in MenuCallers, Collect(c), Family(c), WalkOn(c)
    PROVE  menuCall'[c].queries <= Cardinality(Asked(c)') /\ menuCall'[c].queries <= Cardinality(MenuIds)
  <1> DEFINE head == Head(menuCall[c].todo)
  <1>1. head \in Gathered(c) \ Asked(c) /\ Asked(c)' = Asked(c) \cup {head}
    BY WalkAsks
  <1>2. Gathered(c) \subseteq MenuIds /\ Asked(c) \subseteq MenuIds
    BY GatheredType DEF Family
  <1>3. IsFiniteSet(MenuIds) /\ IsFiniteSet(Asked(c))
    BY <1>2, MenuConstants, FS_Subset
  <1> HIDE DEF head
  <1>4. Cardinality(Asked(c) \cup {head}) = Cardinality(Asked(c)) + 1 /\ Cardinality(Asked(c)) \in Nat
    BY <1>1, <1>3, FS_AddElement, FS_CardinalityType
  <1>5. Cardinality(Asked(c) \cup {head}) <= Cardinality(MenuIds) /\ Cardinality(MenuIds) \in Nat
    BY <1>1, <1>2, <1>3, FS_Subset, FS_CardinalityType
  <1>6. menuCall[c].queries <= Cardinality(Asked(c)) /\ menuCall'[c].queries = menuCall[c].queries + 1
    BY CollectMoves DEF WalkOn
  <1>7. menuCall[c].queries \in Nat
    BY <1>3, FS_CardinalityType DEF MenuTypeOK, MenuCallType
  <1> QED
    BY <1>1, <1>4, <1>5, <1>6, <1>7

LEMMA WalkCollected ==
    ASSUME MenuTypeOK, NEW c \in MenuCallers, Collect(c), Family(c), WalkOn(c)
    PROVE  WalkOn(c)'
  <1> DEFINE head == Head(menuCall[c].todo)
             tail == Tail(menuCall[c].todo)
             found == ChildrenOf(head)
  <1>1. /\ tail \in Seq(GivenIds) /\ ToSet(menuCall[c].todo) = {head} \cup ToSet(tail)
        /\ Gathered(c)' = Gathered(c) \cup found
        /\ ToSet(menuCall'[c].todo) = found \cup ToSet(tail)
    BY CollectSets
  <1>2. /\ found \cap Gathered(c) = {} /\ head \in Gathered(c) /\ Asked(c)' = Asked(c) \cup {head}
    BY WalkAsks
  <1>3. menu' = menu /\ menuCall'[c].on = menuCall[c].on /\ menuCall'[c].ids = menuCall[c].ids \cup found
    BY CollectMoves DEF tableVars
  <1>4. ToSet(tail) \subseteq Gathered(c)
    BY <1>1 DEF WalkOn
  <1>5. \A i, j \in DOMAIN menuCall'[c].todo : menuCall'[c].todo[i] = menuCall'[c].todo[j] => i = j
    <2>1. PICK children \in Seq(GivenIds) :
              /\ menuCall'[c].todo = children \o tail /\ ToSet(children) = found
              /\ \A i, j \in DOMAIN children : children[i] = children[j] => i = j
      BY CollectSets
    <2>2. menuCall[c].todo \in Seq(GivenIds) /\ menuCall[c].todo # <<>>
      BY CollectMoves DEF MenuTypeOK, MenuCallType
    <2>3. \A i, j \in DOMAIN tail : tail[i] = tail[j] => i = j
      BY <2>2, TailOnce DEF WalkOn
    <2>4. ToSet(children) \cap ToSet(tail) = {}
      BY <1>2, <1>4, <2>1
    <2> HIDE DEF head, tail, found
    <2>5. \A i, j \in DOMAIN (children \o tail) : (children \o tail)[i] = (children \o tail)[j] => i = j
      BY <1>1, <2>1, <2>3, <2>4, ConcatOnce
    <2> QED
      BY <2>1, <2>5
  <1>6. \A m \in found : menu[m].parent = head
    BY DEF ChildrenOf
  <1> HIDE DEF found, head, tail
  <1>7. \A m \in menuCall'[c].ids \cap DOMAIN menu : menu[m].parent \in Asked(c)' \cup {NoMenu}
    BY <1>2, <1>3, <1>6 DEF WalkOn
  <1>8. Apart(c)'
    <2>1. PICK U \in SUBSET DOMAIN menu :
              /\ U \cap Gathered(c) = {}
              /\ menuCall[c].on \in DOMAIN menu => menu[menuCall[c].on].parent \in U \cup {NoMenu}
              /\ \A m \in U : menu[m].parent \in U \cup {NoMenu}
      BY DEF WalkOn, Apart
    <2>2. head # NoMenu
      BY <1>2, GatheredType DEF Family
    <2>3. U \cap found = {}
      BY <1>2, <1>6, <2>1, <2>2
    <2>4. U \cap Gathered(c)' = {}
      BY <1>1, <2>1, <2>3
    <2>5. /\ U \in SUBSET DOMAIN menu'
          /\ menuCall'[c].on \in DOMAIN menu' => menu'[menuCall'[c].on].parent \in U \cup {NoMenu}
          /\ \A m \in U : menu'[m].parent \in U \cup {NoMenu}
      BY <1>3, <2>1
    <2> QED
      BY <2>4, <2>5 DEF Apart
  <1>9. ToSet(menuCall'[c].todo) \subseteq Gathered(c)'
    BY <1>1, <1>4
  <1>10. menuCall'[c].queries <= Cardinality(Asked(c)')
    BY WalkCounts
  <1> QED
    BY <1>3, <1>5, <1>7, <1>8, <1>9, <1>10 DEF WalkOn

LEMMA NextWalks == MenuTypeOK /\ FamilyKnown /\ WalksEnd /\ [MenuNext]_menuVars => WalksEnd'
  <1> SUFFICES ASSUME MenuTypeOK, FamilyKnown, WalksEnd, [MenuNext]_menuVars, ~knotted'
               PROVE  /\ ~Loop(menu')
                      /\ \A c \in MenuCallers :
                            /\ menuCall'[c].queries <= Cardinality(MenuIds)
                            /\ menuCall'[c].op = "collect" => WalkOn(c)'
    BY DEF WalksEnd
  <1>1. TableTypes' /\ TableStep
    BY NextTable
  <1>2. /\ ~Loop(menu) /\ ~Loop(menu')
        /\ \A c \in MenuCallers :
              /\ menuCall[c].queries <= Cardinality(MenuIds)
              /\ menuCall[c].op = "collect" => WalkOn(c)
    BY <1>1 DEF WalksEnd, TableStep
  <1>3. Cardinality(MenuIds) \in Nat
    BY MenuConstants, FS_CardinalityType
  <1>4. ASSUME NEW c \in MenuCallers
        PROVE  menuCall'[c].queries <= Cardinality(MenuIds) /\ (menuCall'[c].op = "collect" => WalkOn(c)')
    <2>1. CASE menuCall'[c] = menuCall[c]
      BY <1>1, <1>2, <2>1, WalkKept DEF FamilyKnown, RemovalOps
    <2>2. CASE MenuCall(c)
      <3>1. CASE FindMenu(c)
        BY <1>2, <1>3, <3>1, FindMoves, WalkFound
      <3>2. CASE Collect(c)
        <4>1. menuCall[c].op = "collect"
          BY <3>2, CollectMoves
        <4>2. Family(c) /\ WalkOn(c)
          BY <1>2, <4>1 DEF FamilyKnown, RemovalOps
        <4> QED
          BY <3>2, <4>2, WalkCounts, WalkCollected
      <3>3. CASE Collected(c) \/ AssertNoneManaged(c) \/ DeleteDescendants(c)
        <4>1. PICK op \in {"assert", "deleteMany", "delete"} : Goto(c, op)
          BY <3>3 DEF Collected, AssertNoneManaged, DeleteDescendants
        <4>2. menuCall'[c].op = op /\ menuCall'[c].queries = menuCall[c].queries
          BY <4>1, GotoMoves
        <4> QED
          BY <1>2, <4>2
      <3> QED
        BY <1>3, <2>2, <3>1, <3>2, <3>3, RestMoves DEF RemovalOps
    <2> QED
      BY <2>1, <2>2, OthersStay
  <1> QED
    BY <1>2, <1>4

----------------------------------------------------------------------------
(* The system menus stand                                                  *)

LEMMA TableDeletes ==
    ASSUME MenuTypeOK, NEW c \in MenuCallers, DeleteDescendants(c) \/ DeleteMenu(c)
    PROVE  \E ids \in SUBSET MenuIds : DeleteMenus(ids)
  <1>1. menuCall[c] \in MenuCallType
    BY DEF MenuTypeOK
  <1>2. menuCall[c].ids \in SUBSET MenuIds /\ (menuCall[c].on \in DOMAIN menu => {menuCall[c].on} \in SUBSET MenuIds)
    BY <1>1 DEF MenuTypeOK, MenuCallType, GivenIds
  <1> QED
    BY <1>2 DEF DeleteDescendants, DeleteMenu

(* The actions that change the table. *)
LEMMA TableChanges ==
    ASSUME MenuTypeOK, [MenuNext]_menuVars
    PROVE  \/ UNCHANGED menu
           \/ CreateMenu \/ UpsertGroup \/ HideLegacyMenus
           \/ \E c \in MenuCallers : UpdateMenu(c)
           \/ \E c \in MenuCallers : DeleteDescendants(c) \/ DeleteMenu(c)
  <1>1. ASSUME NEW c \in MenuCallers, MenuCall(c), ~UpdateMenu(c), ~DeleteDescendants(c), ~DeleteMenu(c)
        PROVE  UNCHANGED menu
    <2>1. UNCHANGED tableVars
      BY <1>1, Zenon DEF MenuCall, BeginUpdate, BeginRemove, FindMenu, Collect, Collected, AssertNoneManaged,
                         AbortMenuCall
    <2> QED
      BY <2>1 DEF tableVars
  <1>2. CASE StartMenuSeed \/ StopMenuSeed \/ FindMenuByCode \/ FindMenuByPath \/ UpsertPermissions
    <2>1. UNCHANGED tableVars
      BY <1>2, Zenon DEF StartMenuSeed, StopMenuSeed, FindMenuByCode, FindMenuByPath, UpsertPermissions
    <2> QED
      BY <2>1 DEF tableVars
  <1>3. CASE UNCHANGED menuVars
    BY <1>3 DEF menuVars
  <1> QED
    BY <1>1, <1>2, <1>3, Zenon DEF MenuNext, MenuSeed

(* The actions that put a row there. *)
LEMMA TablePuts ==
    ASSUME MenuTypeOK, CreateMenu \/ UpsertGroup \/ \E c \in MenuCallers : UpdateMenu(c)
    PROVE  \E m \in DOMAIN menu \cup spareMenus, row \in MenuRow : PutMenu(m, row)
  <1>1. CASE UpsertGroup
    <2>1. PICK m \in UpsertTargets : EntryRow \in MenuRow /\ PutMenu(m, EntryRow)
      BY <1>1, UpsertPuts, Zenon
    <2>2. m \in DOMAIN menu \cup spareMenus
      BY DEF UpsertTargets
    <2> QED
      BY <2>1, <2>2
  <1> QED
    BY <1>1, CreatePuts, UpdatePuts

LEMMA NextCodes == MenuTypeOK /\ CodesUnique /\ [MenuNext]_menuVars => CodesUnique'
  <1> SUFFICES ASSUME MenuTypeOK, CodesUnique, [MenuNext]_menuVars PROVE CodesUnique'
    OBVIOUS
  <1>1. ASSUME \A m \in DOMAIN menu' : m \in DOMAIN menu /\ menu'[m].code = menu[m].code
        PROVE  CodesUnique'
    BY <1>1 DEF CodesUnique
  <1>2. ASSUME NEW m \in DOMAIN menu \cup spareMenus, NEW row \in MenuRow, PutMenu(m, row)
        PROVE  CodesUnique'
    <2>1. /\ DOMAIN menu' = DOMAIN menu \cup {m} /\ menu'[m] = row /\ \A n \in DOMAIN menu \ {m} : menu'[n] = menu[n]
          /\ \A n \in DOMAIN menu \ {m} : menu[n].code # row.code
      BY <1>2 DEF PutMenu, CodeFits
    <2> QED
      BY <2>1 DEF CodesUnique
  <1>3. CASE UNCHANGED menu
    BY <1>3 DEF CodesUnique
  <1>4. ASSUME NEW ids \in SUBSET MenuIds, DeleteMenus(ids) PROVE CodesUnique'
    BY <1>1, <1>4, DeleteTable
  <1> QED
    BY <1>1, <1>2, <1>3, <1>4, TableChanges, TablePuts, TableDeletes, HideTable


LEMMA SeedEntries ==
    ASSUME NEW i \in DOMAIN MenuSeeds
    PROVE  /\ i \in Nat /\ MenuSeeds[i].code \in ManagedMenus /\ MenuSeeds[i].parent \in ManagedMenus \cup {NoMenu}
           /\ NoMenu \notin ManagedMenus
  <1>1. MenuSeeds[i] \in SeedEntry /\ i \in Nat
    BY MenuConstants
  <1> QED
    BY <1>1, MenuConstants DEF SeedEntry

(* The menu above a written one was written before it. *)
LEMMA WrittenParent ==
    ASSUME MenuTypeOK, NEW i \in DOMAIN MenuSeeds, Written(menuSeed, i), MenuSeeds[i].parent # NoMenu
    PROVE  \E j \in DOMAIN MenuSeeds : j < i /\ Written(menuSeed, j) /\ MenuSeeds[j].code = MenuSeeds[i].parent
  <1>1. PICK j \in 1..(i - 1) : MenuSeeds[j].code = MenuSeeds[i].parent
    BY MenuSeedTree
  <1>2. DOMAIN MenuSeeds = 1..Len(MenuSeeds) /\ Len(MenuSeeds) \in Nat
    BY MenuConstants
  <1>3. j \in DOMAIN MenuSeeds /\ j < i /\ i \in Nat /\ j \in Nat
    BY <1>2
  <1>4. menuSeed.at \in Nat
    BY <1>2 DEF MenuTypeOK, MenuSeedType
  <1> QED
    BY <1>1, <1>3, <1>4 DEF Written

(* A row of the system stands through every change of other rows. *)
LEMMA PutStands ==
    ASSUME MenuTypeOK, NEW m, NEW row, PutMenu(m, row), m \in DOMAIN menu => Unwritten(m),
           NEW i \in DOMAIN MenuSeeds, Written(menuSeed, i), NEW k, Stands(menu, k, i)
    PROVE  Stands(menu', k, i)
  <1>1. DOMAIN menu' = DOMAIN menu \cup {m} /\ \A n \in DOMAIN menu \ {m} : menu'[n] = menu[n]
    BY DEF PutMenu
  <1>2. k \in DOMAIN menu /\ k # m
    BY DEF Stands, Unwritten
  <1>3. CASE MenuSeeds[i].parent = NoMenu
    BY <1>1, <1>2, <1>3 DEF Stands
  <1>4. CASE MenuSeeds[i].parent # NoMenu
    <2>1. PICK j \in DOMAIN MenuSeeds : Written(menuSeed, j) /\ MenuSeeds[j].code = MenuSeeds[i].parent
      BY <1>4, WrittenParent
    <2>2. menu[k].parent \in DOMAIN menu /\ menu[menu[k].parent].code = MenuSeeds[j].code
      BY <1>4, <2>1 DEF Stands
    <2>3. menu[k].parent # m
      BY <2>1, <2>2 DEF Unwritten
    <2> QED
      BY <1>1, <1>2, <1>4, <2>2, <2>3 DEF Stands
  <1> QED
    BY <1>3, <1>4

LEMMA DeleteStands ==
    ASSUME MenuTypeOK, NEW ids \in SUBSET MenuIds, DeleteMenus(ids), \A m \in ids \cap DOMAIN menu : ~IsManaged(m),
           NEW i \in DOMAIN MenuSeeds, NEW k, Stands(menu, k, i)
    PROVE  Stands(menu', k, i)
  <1>1. /\ DOMAIN menu' = DOMAIN menu \ ids
        /\ \A m \in DOMAIN menu' :
               /\ menu'[m].code = menu[m].code /\ menu'[m].path = menu[m].path
               /\ menu'[m].visible = menu[m].visible
               /\ menu'[m].parent = IF menu[m].parent \in ids THEN NoMenu ELSE menu[m].parent
    BY DeleteTable
  <1>2. \A m \in DOMAIN menu : menu[m].code \in ManagedMenus => m \notin ids
    BY DEF IsManaged
  <1>3. k \in DOMAIN menu /\ menu[k].code = MenuSeeds[i].code
    BY DEF Stands
  <1>4. k \in DOMAIN menu'
    BY <1>1, <1>2, <1>3, SeedEntries
  <1>5. CASE MenuSeeds[i].parent = NoMenu
    <2>1. menu[k].parent = NoMenu
      BY <1>5 DEF Stands
    <2> QED
      BY <1>1, <1>4, <1>5, <2>1 DEF Stands
  <1>6. CASE MenuSeeds[i].parent # NoMenu
    <2>1. menu[k].parent \in DOMAIN menu /\ menu[menu[k].parent].code = MenuSeeds[i].parent
      BY <1>6 DEF Stands
    <2>2. menu[k].parent \notin ids
      BY <1>2, <1>6, <2>1, SeedEntries
    <2>3. menu'[k].parent = menu[k].parent /\ menu[k].parent \in DOMAIN menu'
      BY <1>1, <1>4, <2>1, <2>2
    <2> QED
      BY <1>1, <1>4, <1>6, <2>1, <2>3 DEF Stands
  <1> QED
    BY <1>5, <1>6

LEMMA HideStands ==
    ASSUME MenuTypeOK, HideLegacyMenus, NEW i \in DOMAIN MenuSeeds, NEW k, Stands(menu, k, i)
    PROVE  Stands(menu', k, i)
  <1>1. /\ DOMAIN menu' = DOMAIN menu
        /\ \A m \in DOMAIN menu :
               /\ menu'[m].code = menu[m].code /\ menu'[m].path = menu[m].path
               /\ menu'[m].parent = menu[m].parent
               /\ ~IsLegacy(menu[m]) => menu'[m].visible = menu[m].visible
    BY HideTable
  <1>2. ~IsLegacy(MenuSeeds[i])
    BY MenuSeedTree
  <1>3. k \in DOMAIN menu => ~IsLegacy(menu[k])
    BY <1>2 DEF IsLegacy, Stands
  <1> QED
    BY <1>1, <1>3 DEF Stands

(* The steps of the back office. *)
LEMMA SeedKept ==
    ASSUME MenuTypeOK, TableStep, CodesUnique', SeedStands, UNCHANGED menuSeed,
           \A i \in DOMAIN MenuSeeds : Written(menuSeed, i) =>
               \A k \in GivenIds : Stands(menu, k, i) => Stands(menu', k, i)
    PROVE  SeedStands'
  <1>1. ASSUME NEW i \in DOMAIN MenuSeeds, Written(menuSeed, i)
        PROVE  \E m \in DOMAIN menu' : Stands(menu', m, i) /\ menu[m].code = MenuSeeds[i].code
    <2>1. PICK m \in DOMAIN menu : Stands(menu, m, i)
      BY <1>1 DEF SeedStands
    <2>2. m \in GivenIds
      BY DEF MenuTypeOK
    <2>3. Stands(menu', m, i)
      BY <1>1, <2>1, <2>2
    <2>4. m \in DOMAIN menu' /\ menu[m].code = MenuSeeds[i].code
      BY <2>1, <2>3 DEF Stands
    <2> QED
      BY <2>3, <2>4
  <1>2. ASSUME menuSeed.step # "done", NEW i \in DOMAIN MenuSeeds, Written(menuSeed, i)
        PROVE  MenuSeeds[i].code \in DOMAIN menuSeed.rows /\ Stands(menu', menuSeed.rows[MenuSeeds[i].code], i)
    <2>1. MenuSeeds[i].code \in DOMAIN menuSeed.rows /\ Stands(menu, menuSeed.rows[MenuSeeds[i].code], i)
      BY <1>2 DEF SeedStands
    <2>2. menuSeed.rows[MenuSeeds[i].code] \in GivenIds
      BY <2>1 DEF Stands, MenuTypeOK
    <2> QED
      BY <1>2, <2>1, <2>2
  <1>3. ASSUME menuSeed.step = "group", menuSeed.found \in DOMAIN menu', NEW i \in DOMAIN MenuSeeds,
               Written(menuSeed, i), menu'[menuSeed.found].code = MenuSeeds[i].code
        PROVE  FALSE
    <2>1. menuSeed.found \in DOMAIN menu
      BY <1>3, MenuConstants DEF TableStep, MenuTypeOK, MenuSeedType, GivenIds
    <2>2. menu[menuSeed.found].code # MenuSeeds[i].code
      BY <1>3, <2>1 DEF SeedStands, Unwritten
    <2>3. PICK m \in DOMAIN menu' : Stands(menu', m, i) /\ menu[m].code = MenuSeeds[i].code
      BY <1>1, <1>3
    <2>4. m = menuSeed.found
      BY <1>3, <2>3 DEF CodesUnique, Stands
    <2> QED
      BY <2>2, <2>3, <2>4
  <1> QED
    BY <1>1, <1>2, <1>3 DEF SeedStands, Unwritten

LEMMA CallKeepsSeed ==
    ASSUME MenuTypeOK, CodesUnique', SeedStands, ChecksHold, TableStep,
           CreateMenu \/ \E c \in MenuCallers : MenuCall(c)
    PROVE  SeedStands'
  <1>1. UNCHANGED menuSeed
    BY Zenon DEF CreateMenu, MenuCall, BeginUpdate, UpdateMenu, BeginRemove, FindMenu, Collect, Collected,
                 AssertNoneManaged, DeleteDescendants, DeleteMenu, AbortMenuCall
  <1> SUFFICES ASSUME NEW i \in DOMAIN MenuSeeds, Written(menuSeed, i), NEW k \in GivenIds, Stands(menu, k, i)
               PROVE  Stands(menu', k, i)
    BY <1>1, SeedKept
  <1>2. CASE UNCHANGED menu
    BY <1>2
  <1>3. CASE CreateMenu
    <2>1. PICK m \in spareMenus, row \in MenuRow : PutMenu(m, row)
      BY <1>3, CreatePuts
    <2>2. m \notin DOMAIN menu
      BY DEF MenuTypeOK, GivenIds
    <2> QED
      BY <2>1, <2>2, PutStands
  <1>4. ASSUME NEW c \in MenuCallers, UpdateMenu(c) PROVE Stands(menu', k, i)
    <2>1. PICK row \in MenuRow : PutMenu(menuCall[c].on, row)
      BY <1>4, UpdatePuts
    <2>2. menuCall[c].on \in DOMAIN menu => ~IsManaged(menuCall[c].on)
      BY DEF ChecksHold, Checked
    <2>3. menuCall[c].on \in DOMAIN menu => Unwritten(menuCall[c].on)
      BY <2>2, SeedEntries DEF IsManaged, Unwritten
    <2> QED
      BY <2>1, <2>3, PutStands
  <1>5. ASSUME NEW c \in MenuCallers, DeleteDescendants(c) \/ DeleteMenu(c) PROVE Stands(menu', k, i)
    <2>1. menuCall[c].ids \in SUBSET MenuIds /\ menuCall[c].on \in MenuIds \cup {NoMenu}
      BY DEF MenuTypeOK, MenuCallType, GivenIds
    <2>2. CASE DeleteDescendants(c)
      <3>1. DeleteMenus(menuCall[c].ids) /\ menuCall[c].op = "deleteMany"
        BY <2>2 DEF DeleteDescendants
      <3>2. \A m \in menuCall[c].ids \cap DOMAIN menu : ~IsManaged(m)
        BY <3>1 DEF ChecksHold, Checked
      <3> QED
        BY <2>1, <3>1, <3>2, DeleteStands
    <2>3. CASE DeleteMenu(c)
      <3>1. DeleteMenus({menuCall[c].on}) /\ menuCall[c].on \in DOMAIN menu
        BY <2>3 DEF DeleteMenu
      <3>2. ~IsManaged(menuCall[c].on)
        BY <3>1 DEF ChecksHold, Checked
      <3>3. {menuCall[c].on} \in SUBSET MenuIds
        BY <3>1 DEF MenuTypeOK, GivenIds
      <3> QED
        BY <3>1, <3>2, <3>3, DeleteStands
    <2> QED
      BY <1>5, <2>2, <2>3
  <1>6. ASSUME NEW c \in MenuCallers, MenuCall(c), ~UpdateMenu(c), ~DeleteDescendants(c), ~DeleteMenu(c)
        PROVE  UNCHANGED menu
    <2>1. UNCHANGED tableVars
      BY <1>6, Zenon DEF MenuCall, BeginUpdate, BeginRemove, FindMenu, Collect, Collected, AssertNoneManaged,
                         AbortMenuCall
    <2> QED
      BY <2>1 DEF tableVars
  <1> QED
    BY <1>2, <1>3, <1>4, <1>5, <1>6

(* The steps of the seed. *)
LEMMA SeedWrites ==
    ASSUME MenuTypeOK, CodesUnique, SeedStands, UpsertGroup
    PROVE  SeedStands'
  <1>1. PICK m \in UpsertTargets :
            /\ PutMenu(m, EntryRow) /\ AtSeed("group")
            /\ menuSeed' = [menuSeed EXCEPT !.step = "permissions", !.rows = RowsWith(Entry.code, m)]
    BY UpsertPuts, Zenon
  <1> DEFINE at == menuSeed.at
             rows == RowsWith(Entry.code, m)
  <1>2. menuSeed.step = "group" /\ at \in DOMAIN MenuSeeds /\ Entry = MenuSeeds[at] /\ at \in Nat
    BY <1>1, SeedEntries DEF AtSeed, Entry
  <1>3. menuSeed'.step = "permissions" /\ menuSeed'.rows = rows /\ menuSeed'.at = at
    BY <1>1 DEF MenuTypeOK, MenuSeedType
  <1>4. \A i \in DOMAIN MenuSeeds : Written(menuSeed, i) <=> i < at
    BY <1>2, SeedEntries DEF Written
  <1>5. \A i \in DOMAIN MenuSeeds : Written(menuSeed', i) <=> (Written(menuSeed, i) \/ i = at)
    BY <1>3, <1>4 DEF Written
  <1>6. m \in DOMAIN menu => Unwritten(m)
    BY <1>2 DEF UpsertTargets, SeedStands, MenuTypeOK, GivenIds
  <1>7. ASSUME NEW i \in DOMAIN MenuSeeds, Written(menuSeed, i)
        PROVE  /\ MenuSeeds[i].code \in DOMAIN menuSeed.rows
               /\ Stands(menu', menuSeed.rows[MenuSeeds[i].code], i)
    BY <1>1, <1>2, <1>6, <1>7, PutStands DEF SeedStands
  <1>8. ASSUME NEW i \in DOMAIN MenuSeeds, Written(menuSeed, i)
        PROVE  MenuSeeds[i].code \in DOMAIN rows /\ rows[MenuSeeds[i].code] = menuSeed.rows[MenuSeeds[i].code]
    <2>1. MenuSeeds[i].code # Entry.code
      BY <1>2, <1>4, <1>8, SeedEntries, MenuSeedTree
    <2> QED
      BY <1>7, <1>8, <2>1 DEF RowsWith
  <1>9. Entry.code \in DOMAIN rows /\ rows[Entry.code] = m
    BY DEF RowsWith
  <1>10. Stands(menu', m, at)
    <2>1. /\ m \in DOMAIN menu' /\ menu'[m].code = Entry.code /\ menu'[m].path = Entry.path
          /\ menu'[m].visible = Entry.visible /\ menu'[m].parent = EntryParent
      BY <1>1 DEF PutMenu, EntryRow
    <2>2. CASE Entry.parent = NoMenu
      BY <1>2, <2>1, <2>2 DEF EntryParent, Stands
    <2>3. CASE Entry.parent # NoMenu
      <3>1. PICK j \in 1..(at - 1) : MenuSeeds[j].code = Entry.parent
        BY <1>2, <2>3, MenuSeedTree
      <3>2. j \in DOMAIN MenuSeeds /\ j < at
        BY <1>2, MenuConstants
      <3>3. Stands(menu', EntryParent, j)
        BY <1>4, <1>7, <2>3, <3>1, <3>2 DEF EntryParent
      <3> QED
        BY <1>2, <2>1, <2>3, <3>1, <3>3 DEF Stands
    <2> QED
      BY <2>2, <2>3
  <1> HIDE DEF rows, at
  <1>11. ASSUME NEW i \in DOMAIN MenuSeeds, Written(menuSeed', i)
         PROVE  MenuSeeds[i].code \in DOMAIN rows /\ Stands(menu', rows[MenuSeeds[i].code], i)
    BY <1>2, <1>5, <1>7, <1>8, <1>9, <1>10, <1>11
  <1>12. \A i \in DOMAIN MenuSeeds : Written(menuSeed', i) => \E k \in DOMAIN menu' : Stands(menu', k, i)
    BY <1>11 DEF Stands
  <1> QED
    BY <1>3, <1>11, <1>12 DEF SeedStands

LEMMA SeedFinds ==
    ASSUME MenuTypeOK, CodesUnique, SeedStands, FindMenuByCode \/ FindMenuByPath
    PROVE  SeedStands'
  <1>1. AtSeed("byCode") \/ AtSeed("byPath")
    BY Zenon DEF FindMenuByCode, FindMenuByPath
  <1>2. /\ menuSeed.step \in {"byCode", "byPath"} /\ menuSeed.at \in DOMAIN MenuSeeds
        /\ Entry = MenuSeeds[menuSeed.at] /\ menuSeed.at \in Nat
    BY <1>1, SeedEntries DEF AtSeed, Entry
  <1>3. menu' = menu
    <2>1. UNCHANGED tableVars
      BY Zenon DEF FindMenuByCode, FindMenuByPath
    <2> QED
      BY <2>1 DEF tableVars
  <1>4. /\ menuSeed'.step \in {"byPath", "group"} /\ menuSeed'.at = menuSeed.at /\ menuSeed'.rows = menuSeed.rows
        /\ menuSeed'.step = "group" /\ menuSeed'.found \in DOMAIN menu =>
               menu[menuSeed'.found].code = Entry.code \/ menu[menuSeed'.found].path = Entry.path
    <2>1. menuSeed \in MenuSeedType
      BY DEF MenuTypeOK
    <2>2. CASE menuSeed' = [menuSeed EXCEPT !.step = "byPath"]
      BY <2>1, <2>2 DEF MenuSeedType
    <2>3. ASSUME NEW m, menuSeed' = [menuSeed EXCEPT !.step = "group", !.found = m],
                 m \in DOMAIN menu => menu[m].code = Entry.code \/ menu[m].path = Entry.path
          PROVE  /\ menuSeed'.step = "group" /\ menuSeed'.at = menuSeed.at /\ menuSeed'.rows = menuSeed.rows
                 /\ menuSeed'.found \in DOMAIN menu =>
                        menu[menuSeed'.found].code = Entry.code \/ menu[menuSeed'.found].path = Entry.path
      <3>1. menuSeed'.step = "group" /\ menuSeed'.at = menuSeed.at /\ menuSeed'.rows = menuSeed.rows
            /\ menuSeed'.found = m
        BY <2>1, <2>3 DEF MenuSeedType
      <3> QED
        BY <2>3, <3>1
    <2>4. CASE FindMenuByCode
      <3>1. \/ menuSeed' = [menuSeed EXCEPT !.step = "byPath"]
            \/ \E m \in DOMAIN menu :
                   menu[m].code = Entry.code /\ menuSeed' = [menuSeed EXCEPT !.step = "group", !.found = m]
        BY <2>4, Zenon DEF FindMenuByCode
      <3>2. ASSUME NEW m \in DOMAIN menu, menu[m].code = Entry.code,
                   menuSeed' = [menuSeed EXCEPT !.step = "group", !.found = m]
            PROVE  /\ menuSeed'.step = "group" /\ menuSeed'.at = menuSeed.at /\ menuSeed'.rows = menuSeed.rows
                   /\ menuSeed'.found \in DOMAIN menu =>
                          menu[menuSeed'.found].code = Entry.code \/ menu[menuSeed'.found].path = Entry.path
        BY <2>3, <3>2, Zenon
      <3> HIDE <2>3
      <3>3. CASE \E m \in DOMAIN menu :
                     menu[m].code = Entry.code /\ menuSeed' = [menuSeed EXCEPT !.step = "group", !.found = m]
        <4>1. /\ menuSeed'.step = "group" /\ menuSeed'.at = menuSeed.at /\ menuSeed'.rows = menuSeed.rows
              /\ menuSeed'.found \in DOMAIN menu =>
                     menu[menuSeed'.found].code = Entry.code \/ menu[menuSeed'.found].path = Entry.path
          BY <3>2, <3>3, Zenon
        <4> QED
          BY <4>1
      <3> QED
        BY <2>2, <3>1, <3>3, Zenon
    <2>5. CASE FindMenuByPath
      <3> DEFINE there == {m \in DOMAIN menu : menu[m].path = Entry.path /\ menu[m].parent = EntryParent}
      <3>1. \E m \in IF there = {} THEN {NoMenu} ELSE there :
                menuSeed' = [menuSeed EXCEPT !.step = "group", !.found = m]
        BY <2>5, Zenon DEF FindMenuByPath
      <3>2. \A m \in IF there = {} THEN {NoMenu} ELSE there : m \in DOMAIN menu => menu[m].path = Entry.path
        BY MenuConstants DEF MenuTypeOK, GivenIds
      <3> HIDE DEF there
      <3>3. PICK m \in IF there = {} THEN {NoMenu} ELSE there :
                menuSeed' = [menuSeed EXCEPT !.step = "group", !.found = m]
        BY <3>1, Zenon
      <3>4. m \in DOMAIN menu => menu[m].path = Entry.path
        BY <3>2
      <3>5. /\ menuSeed'.step = "group" /\ menuSeed'.at = menuSeed.at /\ menuSeed'.rows = menuSeed.rows
            /\ menuSeed'.found \in DOMAIN menu =>
                   menu[menuSeed'.found].code = Entry.code \/ menu[menuSeed'.found].path = Entry.path
        BY <2>3, <3>3, <3>4, Zenon
      <3> QED
        BY <3>5
    <2> QED
      BY <2>4, <2>5
  <1>5. \A i \in DOMAIN MenuSeeds : (Written(menuSeed, i) <=> i < menuSeed.at) /\ (Written(menuSeed', i) <=> i < menuSeed.at)
    BY <1>2, <1>4, SeedEntries DEF Written
  <1>6. ASSUME menuSeed'.step = "group", menuSeed'.found \in DOMAIN menu, NEW i \in DOMAIN MenuSeeds,
               Written(menuSeed, i), menu[menuSeed'.found].code = MenuSeeds[i].code
        PROVE  FALSE
    <2>1. PICK m \in DOMAIN menu : Stands(menu, m, i)
      BY <1>6 DEF SeedStands
    <2>2. m = menuSeed'.found
      BY <1>6, <2>1 DEF Stands, CodesUnique
    <2>3. MenuSeeds[i].code = Entry.code \/ MenuSeeds[i].path = Entry.path
      BY <1>4, <1>6, <2>1, <2>2 DEF Stands
    <2>4. i = menuSeed.at
      BY <1>2, <2>3, MenuSeedTree
    <2> QED
      BY <1>2, <1>5, <1>6, <2>4
  <1>7. /\ \A i \in DOMAIN MenuSeeds : Written(menuSeed', i) => \E m \in DOMAIN menu : Stands(menu, m, i)
        /\ \A i \in DOMAIN MenuSeeds : Written(menuSeed', i) =>
               /\ MenuSeeds[i].code \in DOMAIN menuSeed.rows
               /\ Stands(menu, menuSeed.rows[MenuSeeds[i].code], i)
    BY <1>2, <1>5 DEF SeedStands
  <1>8. menuSeed'.step = "group" /\ menuSeed'.found \in DOMAIN menu =>
            \A i \in DOMAIN MenuSeeds : Written(menuSeed', i) => menu[menuSeed'.found].code # MenuSeeds[i].code
    BY <1>5, <1>6
  <1> QED
    BY <1>3, <1>4, <1>7, <1>8 DEF SeedStands, Unwritten

LEMMA SeedGoesOn ==
    ASSUME MenuTypeOK, SeedStands, StartMenuSeed \/ StopMenuSeed \/ UpsertPermissions \/ HideLegacyMenus
    PROVE  SeedStands'
  <1>1. \A i \in DOMAIN MenuSeeds : i \in 1..Len(MenuSeeds)
    BY MenuConstants
  <1>2. menuSeed \in MenuSeedType /\ menuSeed.at \in Nat
    BY DEF MenuTypeOK, MenuSeedType
  <1>3. CASE StartMenuSeed \/ StopMenuSeed
    <2>1. menuSeed'.step \in {"byCode", "idle"} /\ menuSeed'.at = 1
      BY <1>3 DEF StartMenuSeed, StopMenuSeed, IdleSeed
    <2>2. \A i \in DOMAIN MenuSeeds : ~Written(menuSeed', i)
      BY <1>1, <2>1 DEF Written
    <2> QED
      BY <2>1, <2>2 DEF SeedStands
  <1>4. CASE UpsertPermissions
    <2>1. AtSeed("permissions") /\ UNCHANGED tableVars
          /\ menuSeed' = [menuSeed EXCEPT !.step = "byCode", !.at = @ + 1, !.found = NoMenu]
      BY <1>4, Zenon DEF UpsertPermissions
    <2>2. menuSeed.step = "permissions" /\ menu' = menu
      BY <2>1 DEF AtSeed, tableVars
    <2>3. menuSeed'.step = "byCode" /\ menuSeed'.at = menuSeed.at + 1 /\ menuSeed'.rows = menuSeed.rows
      BY <1>2, <2>1 DEF MenuSeedType
    <2>4. \A i \in DOMAIN MenuSeeds : Written(menuSeed', i) <=> Written(menuSeed, i)
      BY <1>1, <1>2, <2>2, <2>3 DEF Written
    <2> QED
      BY <2>2, <2>3, <2>4 DEF SeedStands
  <1>5. CASE HideLegacyMenus
    <2>1. menuSeed.step = "byCode" /\ menuSeed.at \notin DOMAIN MenuSeeds /\ menuSeed'.step = "done"
      BY <1>5 DEF HideLegacyMenus, IdleSeed
    <2>2. menuSeed.at \in 1..Len(MenuSeeds) + 1 /\ DOMAIN MenuSeeds = 1..Len(MenuSeeds) /\ Len(MenuSeeds) \in Nat
      BY <1>2, MenuConstants DEF MenuSeedType
    <2>3. \A i \in DOMAIN MenuSeeds : Written(menuSeed, i)
      BY <2>1, <2>2 DEF Written
    <2>4. ASSUME NEW i \in DOMAIN MenuSeeds PROVE \E m \in DOMAIN menu' : Stands(menu', m, i)
      <3>1. PICK m \in DOMAIN menu : Stands(menu, m, i)
        BY <2>3 DEF SeedStands
      <3>2. Stands(menu', m, i)
        BY <1>5, <3>1, HideStands
      <3> QED
        BY <3>2 DEF Stands
    <2> QED
      BY <2>1, <2>4 DEF SeedStands
  <1> QED
    BY <1>3, <1>4, <1>5

LEMMA NextSeedStands ==
    MenuTypeOK /\ CodesUnique /\ SeedStands /\ ChecksHold /\ [MenuNext]_menuVars => SeedStands'
  <1> SUFFICES ASSUME MenuTypeOK, CodesUnique, SeedStands, ChecksHold, [MenuNext]_menuVars PROVE SeedStands'
    OBVIOUS
  <1>1. CodesUnique' /\ TableStep
    BY NextCodes, NextTable
  <1>2. CASE UNCHANGED menuVars
    BY <1>2 DEF menuVars, SeedStands, Unwritten
  <1> QED
    BY <1>1, <1>2, CallKeepsSeed, SeedWrites, SeedFinds, SeedGoesOn DEF MenuNext, MenuSeed

LEMMA TakenStays == MenuTypeOK /\ [MenuNext]_menuVars /\ taken => taken'
  <1> SUFFICES ASSUME MenuTypeOK, [MenuNext]_menuVars, taken PROVE taken'
    OBVIOUS
  <1>1. ASSUME NEW c \in MenuCallers, MenuCall(c) PROVE taken'
    <2>1. CASE UpdateMenu(c)
      BY <2>1, UpdatePuts DEF TakeCode
    <2>2. CASE ~UpdateMenu(c)
      <3>1. UNCHANGED taken
        BY <1>1, <2>2, Zenon DEF MenuCall, BeginUpdate, BeginRemove, FindMenu, Collect, Collected, AssertNoneManaged,
                                 DeleteDescendants, DeleteMenu, AbortMenuCall
      <3> QED
        BY <3>1
    <2> QED
      BY <2>1, <2>2
  <1>2. CASE UpsertGroup
    <2>1. PICK m \in UpsertTargets : TakeCode(m, Entry.code, MenuCallers)
      BY <1>2, UpsertPuts, Zenon
    <2> QED
      BY <2>1 DEF TakeCode
  <1>3. CASE StartMenuSeed \/ StopMenuSeed \/ FindMenuByCode \/ FindMenuByPath \/ UpsertPermissions \/ HideLegacyMenus
    <2>1. UNCHANGED taken
      BY <1>3, Zenon DEF StartMenuSeed, StopMenuSeed, FindMenuByCode, FindMenuByPath, UpsertPermissions, HideLegacyMenus
    <2> QED
      BY <2>1
  <1> QED
    BY <1>1, <1>2, <1>3 DEF MenuNext, MenuSeed, CreateMenu, menuVars

(* What a call has checked stays none of the system's, unless a row takes  *)
(* a system code.                                                          *)
LEMMA ChecksStay ==
    ASSUME MenuTypeOK, ChecksHold, NEW c \in MenuCallers, menuCall'[c] = menuCall[c],
           \A m \in Checked(menuCall[c]) \cap DOMAIN menu' :
               m \in DOMAIN menu /\ (menu'[m].code \in ManagedMenus => menu[m].code \in ManagedMenus)
    PROVE  \A m \in Checked(menuCall'[c]) \cap DOMAIN menu' : menu'[m].code \notin ManagedMenus
  BY DEF ChecksHold, IsManaged

LEMMA PutChecks ==
    ASSUME MenuTypeOK, ChecksHold, NEW c \in MenuCallers, menuCall'[c] = menuCall[c],
           NEW m \in DOMAIN menu \cup spareMenus, NEW row, PutMenu(m, row),
           NEW callers, m \in spareMenus \/ (TakeCode(m, row.code, callers) /\ c \in callers), ~taken'
    PROVE  \A n \in Checked(menuCall'[c]) \cap DOMAIN menu' : menu'[n].code \notin ManagedMenus
  <1>1. DOMAIN menu' = DOMAIN menu \cup {m} /\ menu'[m] = row /\ \A n \in DOMAIN menu \ {m} : menu'[n] = menu[n]
    BY DEF PutMenu
  <1>2. Checked(menuCall[c]) \subseteq GivenIds \cup {NoMenu} /\ NoMenu \notin DOMAIN menu \cup spareMenus
    BY MenuConstants DEF MenuTypeOK, MenuCallType, Checked, GivenIds
  <1>3. m \in Checked(menuCall[c]) => m \in DOMAIN menu /\ row.code \notin ManagedMenus
    <2>1. m \in spareMenus => m \notin Checked(menuCall[c])
      BY <1>2 DEF GivenIds
    <2>2. TakeCode(m, row.code, callers) /\ c \in callers /\ row.code \in ManagedMenus => m \notin Checked(menuCall[c])
      BY DEF TakeCode, Checked
    <2> QED
      BY <2>1, <2>2
  <1> QED
    BY <1>1, <1>3, ChecksStay

LEMMA NextChecks ==
    MenuTypeOK /\ ChecksHold /\ [MenuNext]_menuVars /\ ~taken' => ChecksHold'
  <1> SUFFICES ASSUME MenuTypeOK, ChecksHold, [MenuNext]_menuVars, ~taken', NEW c \in MenuCallers
               PROVE  \A m \in Checked(menuCall'[c]) \cap DOMAIN menu' : menu'[m].code \notin ManagedMenus
    BY DEF ChecksHold, IsManaged
  <1>1. NoMenu \notin DOMAIN menu /\ NoMenu \notin DOMAIN menu'
    BY NextTable, MenuConstants DEF TableTypes, MenuTypeOK, GivenIds
  <1>2. CASE \A m \in DOMAIN menu' : m \in DOMAIN menu /\ menu'[m].code = menu[m].code
    <2>1. CASE menuCall'[c] = menuCall[c]
      BY <1>2, <2>1, ChecksStay
    <2>2. CASE MenuCall(c) /\ ~Collected(c) /\ ~AssertNoneManaged(c) /\ ~DeleteDescendants(c)
      <3>1. menuCall'[c].op # "deleteMany"
        BY <2>2, FindMoves, CollectMoves, RestMoves DEF RemovalOps
      <3>2. menuCall'[c].on \in DOMAIN menu => menu[menuCall'[c].on].code \notin ManagedMenus
        <4>1. CASE FindMenu(c)
          BY <4>1, FindMoves DEF IsManaged
        <4>2. CASE Collect(c)
          <5>1. menuCall'[c].on = menuCall[c].on
            BY <4>2, CollectMoves
          <5> QED
            BY <5>1 DEF ChecksHold, Checked, IsManaged
        <4>3. CASE ~FindMenu(c) /\ ~Collect(c)
          BY <1>1, <2>2, <4>3, RestMoves DEF IsManaged
        <4> QED
          BY <4>1, <4>2, <4>3
      <3> QED
        BY <1>2, <3>1, <3>2 DEF Checked
    <2>3. CASE Collected(c) \/ AssertNoneManaged(c) \/ DeleteDescendants(c)
      <3>1. menuCall'[c].on = menuCall[c].on /\ menuCall'[c].ids = menuCall[c].ids
        BY <2>3, GotoMoves DEF Collected, AssertNoneManaged, DeleteDescendants
      <3>2. menuCall[c].on \in DOMAIN menu => menu[menuCall[c].on].code \notin ManagedMenus
        BY DEF ChecksHold, Checked, IsManaged
      <3>3. CASE Collected(c)
        <4>1. menuCall'[c].op = "deleteMany" => menuCall[c].ids = {}
          BY <3>3, GotoMoves DEF Collected
        <4> QED
          BY <1>2, <3>1, <3>2, <4>1 DEF Checked
      <3>4. CASE AssertNoneManaged(c)
        <4>1. \A m \in menuCall[c].ids \cap DOMAIN menu : menu[m].code \notin ManagedMenus
          BY <3>4 DEF AssertNoneManaged, IsManaged
        <4> QED
          BY <1>2, <3>1, <3>2, <4>1 DEF Checked
      <3>5. CASE DeleteDescendants(c)
        <4>1. menuCall'[c].op = "delete"
          BY <3>5, GotoMoves DEF DeleteDescendants
        <4> QED
          BY <1>2, <3>1, <3>2, <4>1 DEF Checked
      <3> QED
        BY <2>3, <3>3, <3>4, <3>5
    <2> QED
      BY <2>1, <2>2, <2>3, OthersStay
  <1>3. CASE CreateMenu
    <2>1. PICK m \in spareMenus, row \in MenuRow : PutMenu(m, row)
      BY <1>3, CreatePuts
    <2>2. menuCall'[c] = menuCall[c]
      BY <1>3 DEF CreateMenu
    <2> QED
      BY <2>1, <2>2, PutChecks
  <1>4. ASSUME NEW d \in MenuCallers, UpdateMenu(d)
        PROVE  \A m \in Checked(menuCall'[c]) \cap DOMAIN menu' : menu'[m].code \notin ManagedMenus
    <2>1. PICK row \in MenuRow :
              PutMenu(menuCall[d].on, row) /\ TakeCode(menuCall[d].on, row.code, MenuCallers \ {d})
      BY <1>4, UpdatePuts
    <2>2. Finish(d) /\ menuCall[d].on \in DOMAIN menu
      BY <1>4, UpdatePuts
    <2>3. CASE c = d
      <3>1. menuCall'[c] = IdleCall
        BY <2>2, <2>3 DEF Finish, MenuTypeOK
      <3> QED
        BY <1>1, <3>1 DEF IdleCall, Checked
    <2>4. CASE c # d
      <3>1. menuCall'[c] = menuCall[c] /\ c \in MenuCallers \ {d}
        BY <2>2, <2>4 DEF Finish, MenuTypeOK
      <3> QED
        BY <2>1, <2>2, <3>1, PutChecks
    <2> QED
      BY <2>3, <2>4
  <1>5. CASE UpsertGroup
    <2>1. PICK m \in UpsertTargets :
              PutMenu(m, EntryRow) /\ TakeCode(m, Entry.code, MenuCallers) /\ AtSeed("group")
      BY <1>5, UpsertPuts, Zenon
    <2>2. menuCall'[c] = menuCall[c] /\ m \in DOMAIN menu \cup spareMenus /\ EntryRow.code = Entry.code
      BY <2>1 DEF AtSeed, UpsertTargets, EntryRow
    <2> QED
      BY <2>1, <2>2, PutChecks
  <1>6. ASSUME NEW ids \in SUBSET MenuIds, DeleteMenus(ids)
        PROVE  \A m \in DOMAIN menu' : m \in DOMAIN menu /\ menu'[m].code = menu[m].code
    BY <1>6, DeleteTable
  <1>7. CASE UNCHANGED menu
    BY <1>2, <1>7
  <1>8. CASE HideLegacyMenus
    BY <1>2, <1>8, HideTable
  <1>9. CASE \E d \in MenuCallers : DeleteDescendants(d) \/ DeleteMenu(d)
    BY <1>2, <1>6, <1>9, TableDeletes
  <1> QED
    BY <1>3, <1>4, <1>5, <1>7, <1>8, <1>9, TableChanges

(* The row that has a system code is the one the seed wrote. *)
LEMMA ShownRow ==
    ASSUME CodesUnique, SeedStands, menuSeed.step = "done",
           NEW i \in DOMAIN MenuSeeds, NEW m \in DOMAIN menu, menu[m].code = MenuSeeds[i].code
    PROVE  Stands(menu, m, i)
  <1>1. PICK k \in DOMAIN menu : Stands(menu, k, i)
    BY DEF SeedStands, Written
  <1>2. k = m
    BY <1>1 DEF Stands, CodesUnique
  <1> QED
    BY <1>1, <1>2

LEMMA StandsShown ==
    ASSUME MenuTypeOK, CodesUnique, SeedStands, menuSeed.step = "done",
           NEW i \in DOMAIN MenuSeeds, NEW m \in DOMAIN menu, NEW p \in MenuPermissions,
           Displayed(MenuSeeds[i]), menu[m].code = MenuSeeds[i].code, home[p] = m
    PROVE  InNavigation(m, {p})
  <1> DEFINE up == menu[m].parent
             upper == IF up = NoMenu THEN NoMenu ELSE menu[up].parent
  <1>1. ASSUME NEW j \in DOMAIN MenuSeeds, NEW n, Displayed(MenuSeeds[j]), Stands(menu, n, j)
        PROVE  Navigable(n)
    BY <1>1 DEF Stands, Displayed, Navigable
  <1>2. Stands(menu, m, i)
    BY ShownRow
  <1>3. Navigable(m) /\ Offers(m, {p})
    BY <1>1, <1>2 DEF Offers
  <1>4. NoMenu \notin DOMAIN menu /\ DOMAIN MenuSeeds = 1..Len(MenuSeeds) /\ Len(MenuSeeds) \in Nat
    BY MenuConstants DEF MenuTypeOK, GivenIds
  <1>5. (up # NoMenu => Navigable(up)) /\ (upper # NoMenu => Navigable(upper) /\ menu[upper].parent = NoMenu)
    <2>1. CASE MenuSeeds[i].parent = NoMenu
      BY <1>2, <2>1 DEF Stands
    <2>2. CASE MenuSeeds[i].parent # NoMenu
      <3>1. PICK j \in 1..(i - 1) :
                /\ MenuSeeds[j].code = MenuSeeds[i].parent /\ Displayed(MenuSeeds[j])
                /\ MenuSeeds[j].parent # NoMenu =>
                       \E k \in 1..(j - 1) : MenuSeeds[k].code = MenuSeeds[j].parent /\ MenuSeeds[k].parent = NoMenu
        BY <2>2, MenuSeedTree
      <3>2. j \in DOMAIN MenuSeeds
        BY <1>4
      <3>3. up \in DOMAIN menu /\ menu[up].code = MenuSeeds[j].code
        BY <1>2, <2>2, <3>1 DEF Stands
      <3>4. Stands(menu, up, j)
        BY <3>2, <3>3, ShownRow
      <3>5. Navigable(up)
        BY <1>1, <3>1, <3>2, <3>4
      <3>6. CASE MenuSeeds[j].parent = NoMenu
        BY <1>4, <3>3, <3>4, <3>5, <3>6 DEF Stands
      <3>7. CASE MenuSeeds[j].parent # NoMenu
        <4>1. PICK k \in 1..(j - 1) : MenuSeeds[k].code = MenuSeeds[j].parent /\ MenuSeeds[k].parent = NoMenu
          BY <3>1, <3>7
        <4>2. k \in DOMAIN MenuSeeds
          BY <1>4, <3>2
        <4>3. Displayed(MenuSeeds[k])
          <5>1. PICK l \in 1..(j - 1) : MenuSeeds[l].code = MenuSeeds[j].parent /\ Displayed(MenuSeeds[l])
            BY <3>1, <3>2, <3>7, MenuSeedTree
          <5>2. l \in DOMAIN MenuSeeds
            BY <1>4, <3>2
          <5>3. l = k
            BY <4>1, <4>2, <5>1, <5>2, MenuSeedTree
          <5> QED
            BY <5>1, <5>3
        <4>4. menu[up].parent \in DOMAIN menu /\ menu[menu[up].parent].code = MenuSeeds[k].code
          BY <3>4, <3>7, <4>1 DEF Stands
        <4>5. Stands(menu, menu[up].parent, k)
          BY <4>2, <4>4, ShownRow
        <4>6. Navigable(menu[up].parent) /\ menu[menu[up].parent].parent = NoMenu
          BY <1>1, <4>1, <4>2, <4>3, <4>5 DEF Stands
        <4> QED
          BY <1>4, <3>3, <3>5, <4>6
      <3> QED
        BY <3>6, <3>7
    <2> QED
      BY <2>1, <2>2
  <1> QED
    BY <1>3, <1>5 DEF InNavigation

----------------------------------------------------------------------------
(* The inductive invariant and what follows from it                        *)

LEMMA InitMenuInv == MenuInit => MenuInv
  <1> SUFFICES ASSUME MenuInit PROVE MenuInv
    OBVIOUS
  <1>1. MenuTypeOK
    BY InitMenuType
  <1>2. FamilyKnown
    BY DEF MenuInit, IdleCall, FamilyKnown, RemovalOps
  <1>3. WalksEnd
    <2>1. Cardinality(MenuIds) \in Nat
      BY MenuConstants, FS_CardinalityType
    <2> QED
      BY <2>1 DEF MenuInit, IdleCall, WalksEnd
  <1>4. CodesUnique
    BY MenusInstalled DEF MenuInit, CodesUnique
  <1>5. SystemStands
    <2>1. menuSeed.step = "idle" /\ menuSeed.at = 1 /\ NoMenu \notin DOMAIN menu
      BY MenuConstants DEF MenuInit, IdleSeed
    <2>2. SeedStands
      BY <2>1, SeedEntries, MenuConstants DEF SeedStands, Written
    <2>3. ChecksHold
      BY <2>1 DEF MenuInit, IdleCall, ChecksHold, Checked
    <2> QED
      BY <2>2, <2>3 DEF SystemStands
  <1> QED
    BY <1>1, <1>2, <1>3, <1>4, <1>5 DEF MenuInv

LEMMA NextMenuInv == MenuInv /\ [MenuNext]_menuVars => MenuInv'
  <1> SUFFICES ASSUME MenuInv, [MenuNext]_menuVars PROVE MenuInv'
    OBVIOUS
  <1>1. MenuTypeOK' /\ FamilyKnown' /\ WalksEnd' /\ CodesUnique'
    BY NextMenuType, NextFamily, NextWalks, NextCodes DEF MenuInv
  <1>2. SystemStands'
    <2>1. ~taken' => ~taken
      BY TakenStays DEF MenuInv
    <2> QED
      BY <2>1, NextSeedStands, NextChecks DEF SystemStands, MenuInv
  <1> QED
    BY <1>1, <1>2 DEF MenuInv

LEMMA LeavesNothing ==
    ASSUME MenuTypeOK, FamilyKnown, NEW m \in DOMAIN menu \cap DOMAIN menu', NEW c \in MenuCallers,
           DeleteDescendants(c) \/ DeleteMenu(c), menu'[m].parent # menu[m].parent
    PROVE  m \in late
  <1>1. menuCall[c].op \in RemovalOps
    BY DEF DeleteDescendants, DeleteMenu, RemovalOps
  <1>2. Family(c) /\ Gathered(c) \subseteq MenuIds
    BY <1>1, GatheredType DEF FamilyKnown, Family
  <1>3. Asked(c) = Gathered(c)
    BY <1>2 DEF Family, DeleteDescendants, DeleteMenu, Asked, ToSet
  <1>4. ASSUME NEW ids \in SUBSET MenuIds, DeleteMenus(ids) PROVE m \notin ids /\ menu[m].parent \in ids
    <2>1. DOMAIN menu' = DOMAIN menu \ ids
          /\ menu'[m].parent = IF menu[m].parent \in ids THEN NoMenu ELSE menu[m].parent
      BY <1>4, DeleteTable
    <2> QED
      BY <2>1
  <1>5. CASE DeleteDescendants(c)
    BY <1>2, <1>3, <1>4, <1>5 DEF DeleteDescendants, Family, Gathered
  <1>6. CASE DeleteMenu(c)
    <2>1. {menuCall[c].on} \in SUBSET MenuIds
      BY <1>2 DEF Gathered
    <2> QED
      BY <1>2, <1>3, <1>4, <1>6, <2>1 DEF DeleteMenu, Family, Gathered
  <1> QED
    BY <1>5, <1>6

(* Removing a menu removes what is under it, for every menu and however    *)
(* many calls move menus about: what a removal takes the parent away from  *)
(* had been put there after the removal asked for the children of that     *)
(* parent (getChildMenuIds, deleteMany).                                   *)
THEOREM NothingIsLeftBehind == MenuSpec => NothingLeftBehind
  <1>1. MenuInv /\ [MenuNext]_menuVars =>
            [\A m \in DOMAIN menu \cap DOMAIN menu' :
                \A c \in MenuCallers :
                    DeleteDescendants(c) \/ DeleteMenu(c) => menu'[m].parent = menu[m].parent \/ m \in late]_menuVars
    BY LeavesNothing DEF MenuInv
  <1> QED
    BY <1>1, InitMenuInv, NextMenuInv, PTL DEF MenuSpec, NothingLeftBehind

(* The descendants of a menu are collected with as many queries as there   *)
(* are menus at the most: a collection that asks on has met a loop, or a   *)
(* menu that was moved while a removal ran (getChildMenuIds, update).      *)
THEOREM CollectionsEnd == MenuSpec => []CollectionEnds
  <1>1. MenuInv => CollectionEnds
    <2> SUFFICES ASSUME MenuInv, ~knotted, NEW c \in MenuCallers
                 PROVE  ~(menuCall[c].queries > Cardinality(MenuIds))
      BY DEF CollectionEnds
    <2>1. Cardinality(MenuIds) \in Nat /\ menuCall[c].queries \in Nat
      BY MenuConstants, FS_CardinalityType DEF MenuInv, MenuTypeOK, MenuCallType
    <2> QED
      BY <2>1 DEF MenuInv, WalksEnd
  <1> QED
    BY <1>1, InitMenuInv, NextMenuInv, PTL DEF MenuSpec

(* Once the seed is through, the system menus it means to show are shown   *)
(* to whoever has a permission of theirs, for every tree of the seed,      *)
(* however many calls of the back office run: none takes one from under    *)
(* another, hides it or removes it, unless a row took a system code after  *)
(* a call had checked it.                                                  *)
THEOREM SystemMenusStayShown == MenuSpec => []SystemMenusShown
  <1>1. MenuInv => SystemMenusShown
    BY StandsShown DEF MenuInv, SystemStands, SystemMenusShown
  <1> QED
    BY <1>1, InitMenuInv, NextMenuInv, PTL DEF MenuSpec

=============================================================================

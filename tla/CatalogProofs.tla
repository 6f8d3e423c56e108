---------------------------- MODULE CatalogProofs ----------------------------
(***************************************************************************)
(* What holds of Catalog for any dictionaries, parameters and callers, and *)
(* any seed that lists no entry twice.  An entry the seed is through with  *)
(* is served (Behind); while it writes the items of a type, the row it     *)
(* upserted is that type (CurrentType), or a call has renamed or removed   *)
(* it, and the row does not pass for a type it is through with             *)
(* (RenamedType): else the items of one would be written into another.     *)
(***************************************************************************)
EXTENDS Catalog, TLAPS

SeedSteps == {"idle", "type", "item", "config", "done"}

(* The entries the loop of the seed is through with. *)
Processed == IF catalogSeed.step \in {"config", "done"} THEN DOMAIN DictSeeds
             ELSE IF catalogSeed.step = "idle" THEN {}
             ELSE {e \in DOMAIN DictSeeds : e < catalogSeed.at}

SeedPlace ==
    /\ catalogSeed \in [step : SeedSteps, at : Nat \ {0}, type : DictTypeIds \cup {Nobody}]
    /\ catalogSeed.step = "item" => /\ catalogSeed.at \in DOMAIN DictSeeds
                                    /\ catalogSeed.type \in DictTypeIds \ spare

Behind == \A e \in Processed \ touched : Served(DictSeeds[e])

SeededType == DictSeeds[catalogSeed.at].type

CurrentType == catalogSeed.step = "item" =>
    \A e \in DOMAIN DictSeeds \ touched :
        DictSeeds[e].type = SeededType =>
            /\ catalogSeed.type \in DOMAIN dictType
            /\ dictType[catalogSeed.type] = [code |-> SeededType, enabled |-> TRUE]

RenamedType == catalogSeed.step = "item" /\ catalogSeed.type \in DOMAIN dictType =>
    \A e \in Processed \ touched :
        DictSeeds[e].type = dictType[catalogSeed.type].code => SeededType = DictSeeds[e].type

(* Whoever edits a parameter read it open; only the seed closes it. *)
EditsOpen == \A c \in CatalogCallers : edit[c].op = "updateConfig" =>
    /\ edit[c].on \in DOMAIN config
    /\ config[edit[c].on].editable \/ edit[c].on \in frozen

CatalogInv == CatalogTypeOK /\ SeedPlace /\ Behind /\ CurrentType /\ RenamedType /\ EditsOpen

USE CatalogConstants, CatalogIds

LEMMA WithoutRows ==
    ASSUME NEW t, NEW ids, NEW Row, IsRows(t, ids, Row), NEW gone
    PROVE  /\ IsRows(Without(t, gone), ids, Row)
           /\ DOMAIN Without(t, gone) = DOMAIN t \ gone
           /\ \A i \in DOMAIN t \ gone : Without(t, gone)[i] = t[i]
BY DEF IsRows, Without

LEMMA SeedTypes ==
    /\ \A e \in DOMAIN DictSeeds : /\ e \in Nat \ {0}
                                  /\ DictSeeds[e] \in [type : TypeCodes, code : ItemCodes, value : Values]
    /\ \A e \in DOMAIN ConfigSeeds : ConfigSeeds[e] \in ConfigRow
<1>1. ASSUME NEW S, NEW q \in Seq(S) PROVE \A e \in DOMAIN q : e \in Nat \ {0} /\ q[e] \in S
  OBVIOUS
<1>2. ConfigSeeds \in Seq(ConfigRow)
  OBVIOUS
<1>3. \A e \in DOMAIN ConfigSeeds : ConfigSeeds[e] \in ConfigRow
  BY <1>1, <1>2
<1>4. DictSeeds \in Seq([type : TypeCodes, code : ItemCodes, value : Values])
  OBVIOUS
<1>5. QED
  BY <1>1, <1>3, <1>4

LEMMA InitCatalog == CatalogInit => CatalogInv
BY CatalogInstalled DEF CatalogInit, CatalogInv, CatalogTypeOK, SeedPlace, SeedSteps, Behind, Processed, CurrentType,
    RenamedType, EditsOpen, NoSeedRun, NoEdit, Edits, IsRows

----------------------------------------------------------------------------
(* Types *)

LEMMA EditType ==
    ASSUME CatalogTypeOK, SeedPlace, NEW c \in CatalogCallers, Edit(c)
    PROVE  CatalogTypeOK' /\ SeedPlace'
<1>0. IsRows(dictItem, DictItemIds, ItemRow)
  BY DEF CatalogTypeOK
<1>a. ASSUME NEW gone
      PROVE  /\ IsRows(Without(dictItem, gone), DictItemIds, ItemRow)
             /\ DOMAIN Without(dictItem, gone) = DOMAIN dictItem \ gone
             /\ \A i \in DOMAIN dictItem \ gone : Without(dictItem, gone)[i] = dictItem[i]
  BY <1>0, WithoutRows
<1> USE DEF CatalogTypeOK, SeedPlace, catalogTables
<1>1. CASE BeginEdit(c)
  BY <1>1 DEF BeginEdit, Edits
<1>2. ASSUME NEW op, EndEdit(c, op) PROVE edit' \in [CatalogCallers -> Edits] /\ UNCHANGED <<catalogSeed, catalogWork>>
  BY <1>2 DEF EndEdit, Edits
<1>3. CASE AbortEdit(c)
  BY <1>2, <1>3 DEF AbortEdit
<1>4. CASE UpdateType(c)
  BY <1>2, <1>4 DEF UpdateType, IsRows
<1>5. CASE RemoveType(c)
  <2>1. IsRows(dictType', DictTypeIds, TypeRow) /\ DOMAIN dictType' = DOMAIN dictType \ {edit[c].on}
    BY <1>5, WithoutRows DEF RemoveType
  <2> DEFINE gone == {i \in DOMAIN dictItem : dictItem[i].type = edit[c].on}
  <2>2. dictItem' = Without(dictItem, gone)
    BY <1>5 DEF RemoveType
  <2>3. /\ IsRows(dictItem', DictItemIds, ItemRow) /\ DOMAIN dictItem' = DOMAIN dictItem \ gone
        /\ \A i \in DOMAIN dictItem' : dictItem'[i] = dictItem[i]
    <3> HIDE DEF gone
    <3> QED
      BY <2>2, <1>a
  <2>4. \A i \in DOMAIN dictItem' : dictItem'[i].type \in DOMAIN dictType'
    BY <2>1, <2>3
  <2>5. UNCHANGED <<config, spare>> /\ EndEdit(c, "removeType")
    BY <1>5 DEF RemoveType
  <2>6. QED
    BY <1>2, <2>1, <2>3, <2>4, <2>5
<1>6. CASE CreateItem(c)
  <2>1. PICK i \in spare \cap DictItemIds, row \in ItemRow :
            row.type = edit[c].on /\ dictItem' = With(dictItem, i, row) /\ spare' = spare \ {i}
    BY <1>6 DEF CreateItem
  <2>2. /\ IsRows(dictItem', DictItemIds, ItemRow) /\ DOMAIN dictItem' = DOMAIN dictItem \cup {i}
        /\ dictItem'[i] = row /\ \A j \in DOMAIN dictItem \ {i} : dictItem'[j] = dictItem[j]
    <3> HIDE DEF CatalogTypeOK, SeedPlace
    <3>1. i \in DictItemIds /\ row \in ItemRow /\ dictItem' = With(dictItem, i, row)
      BY <2>1
    <3>2. QED
      BY <3>1, <1>0 DEF With, IsRows
  <2>3. edit[c].on \in DOMAIN dictType /\ UNCHANGED <<dictType, config>> /\ EndEdit(c, "createItem")
    BY <1>6 DEF CreateItem
  <2>4. i \notin DOMAIN dictType \cup DOMAIN config
    BY DEF IsRows
  <2>5. QED
    BY <1>2, <2>1, <2>2, <2>3, <2>4
<1>7. CASE UpdateItem(c)
  BY <1>2, <1>7 DEF UpdateItem, IsRows
<1>8. CASE RemoveItem(c)
  <2>1. /\ IsRows(dictItem', DictItemIds, ItemRow) /\ DOMAIN dictItem' = DOMAIN dictItem \ {edit[c].on}
        /\ \A i \in DOMAIN dictItem' : dictItem'[i] = dictItem[i]
    <3> HIDE DEF CatalogTypeOK, SeedPlace
    <3>1. dictItem' = Without(dictItem, {edit[c].on})
      BY <1>8 DEF RemoveItem
    <3>2. QED
      BY <3>1, <1>a
  <2>2. UNCHANGED <<dictType, config, spare>> /\ EndEdit(c, "removeItem")
    BY <1>8 DEF RemoveItem
  <2>3. QED
    BY <1>2, <2>1, <2>2
<1>9. CASE UpdateConfig(c)
  <2>1. PICK v \in Values : config' = [config EXCEPT ![edit[c].on].value = v]
    BY <1>9 DEF UpdateConfig
  <2>2. IsRows(config', ConfigIds, ConfigRow) /\ DOMAIN config' = DOMAIN config
    <3>1. edit[c].on \in DOMAIN config /\ config \in [DOMAIN config -> ConfigRow]
      BY <1>9 DEF UpdateConfig, IsRows
    <3>2. config' \in [DOMAIN config -> ConfigRow]
      BY <2>1, <3>1 DEF ConfigRow
    <3>3. QED
      BY <3>2 DEF IsRows
  <2>3. UNCHANGED <<dictType, dictItem, spare>> /\ EndEdit(c, "updateConfig")
    BY <1>9 DEF UpdateConfig
  <2>4. QED
    BY <1>2, <2>2, <2>3
<1>10. QED
  BY <1>1, <1>3, <1>4, <1>5, <1>6, <1>7, <1>8, <1>9 DEF Edit

LEMMA SeedRunType ==
    ASSUME CatalogTypeOK, SeedPlace,
           StartCatalogSeed \/ StopCatalogSeed \/ UpsertType \/ UpsertItem \/ DictsSeeded \/ UpsertConfig \/ ConfigsSeeded
    PROVE  CatalogTypeOK' /\ SeedPlace'
<1>1. CASE StartCatalogSeed \/ StopCatalogSeed \/ DictsSeeded \/ ConfigsSeeded
  BY <1>1 DEF StartCatalogSeed, StopCatalogSeed, DictsSeeded, ConfigsSeeded, CatalogTypeOK, SeedPlace, SeedSteps,
              NoSeedRun, catalogTables
<1>2. CASE UpsertType
  <2> DEFINE row == [code |-> DictSeeds[catalogSeed.at].type, enabled |-> TRUE]
  <2>1. PICK t \in DictTypeIds :
            /\ SeedAt("type", [catalogSeed EXCEPT !.step = "item", !.type = t])
            /\ \/ t \in DOMAIN dictType /\ dictType[t].code = row.code /\ UNCHANGED spare
               \/ t \in spare /\ spare' = spare \ {t}
            /\ dictType' = With(dictType, t, row)
            /\ UNCHANGED <<dictItem, config>>
    BY <1>2 DEF UpsertType
  <2>2. catalogSeed.step = "type" /\ catalogSeed.at \in DOMAIN DictSeeds
    BY <2>1 DEF SeedAt, SeedsOf
  <2>3. row \in TypeRow
    BY <2>2, SeedTypes DEF TypeRow
  <2>4. /\ IsRows(dictType', DictTypeIds, TypeRow) /\ DOMAIN dictType' = DOMAIN dictType \cup {t}
    <3>1. IsRows(dictType, DictTypeIds, TypeRow)
      BY DEF CatalogTypeOK
    <3> QED
      BY <2>1, <2>3, <3>1 DEF With, IsRows
  <2>5. t \notin DOMAIN dictItem \cup DOMAIN config /\ t \notin spare'
    BY <2>1 DEF CatalogTypeOK, IsRows
  <2>6. /\ spare' \cap (DOMAIN dictType' \cup DOMAIN dictItem' \cup DOMAIN config') = {}
        /\ \A i \in DOMAIN dictItem' : dictItem'[i].type \in DOMAIN dictType'
    <3>1. UNCHANGED <<dictItem, config>> /\ spare' \subseteq spare
      BY <2>1
    <3>2. QED
      BY <3>1, <2>4, <2>5 DEF CatalogTypeOK
  <2>7. SeedPlace' /\ catalogSeed'.step = "item" /\ UNCHANGED <<edit, catalogWork>>
    BY <2>1, <2>2, <2>5 DEF SeedAt, SeedPlace, SeedSteps
  <2>8. QED
    BY <2>1, <2>4, <2>6, <2>7 DEF CatalogTypeOK
<1>3. CASE UpsertItem
  <2>1. PICK i \in DictItemIds :
            /\ SeedAt("item", NextEntry)
            /\ catalogSeed.type \in DOMAIN dictType
            /\ \/ i \in DOMAIN dictItem /\ UNCHANGED spare
               \/ i \in spare /\ spare' = spare \ {i}
            /\ dictItem' = With(dictItem, i, ItemOfSeed)
            /\ UNCHANGED <<dictType, config>>
    BY <1>3 DEF UpsertItem
  <2>2. catalogSeed.step = "item" /\ catalogSeed.at \in DOMAIN DictSeeds /\ UNCHANGED <<edit, catalogWork>>
    BY <2>1 DEF SeedAt, SeedsOf
  <2>3. ItemOfSeed \in ItemRow /\ ItemOfSeed.type = catalogSeed.type
    BY <2>2, SeedTypes DEF ItemOfSeed, ItemRow, SeedPlace
  <2>4. /\ IsRows(dictItem', DictItemIds, ItemRow) /\ DOMAIN dictItem' = DOMAIN dictItem \cup {i}
        /\ dictItem'[i] = ItemOfSeed /\ \A j \in DOMAIN dictItem \ {i} : dictItem'[j] = dictItem[j]
    <3>1. IsRows(dictItem, DictItemIds, ItemRow)
      BY DEF CatalogTypeOK
    <3> QED
      BY <2>1, <2>3, <3>1 DEF With, IsRows
  <2>5. i \notin DOMAIN dictType \cup DOMAIN config /\ i \notin spare'
    BY <2>1 DEF CatalogTypeOK, IsRows
  <2>6. /\ spare' \cap (DOMAIN dictType' \cup DOMAIN dictItem' \cup DOMAIN config') = {}
        /\ \A j \in DOMAIN dictItem' : dictItem'[j].type \in DOMAIN dictType'
    BY <2>1, <2>3, <2>4, <2>5 DEF CatalogTypeOK
  <2>7. SeedPlace' /\ catalogSeed'.step \in {"item", "type"}
    <3>1. catalogSeed' = NextEntry /\ spare' \subseteq spare
      BY <2>1 DEF SeedAt
    <3>2. QED
      <4>1. catalogSeed.at \in Nat \ {0} /\ catalogSeed.at + 1 \in Nat \ {0}
        BY DEF SeedPlace
      <4>2. PICK step \in {"item", "type"} :
                /\ catalogSeed' = [catalogSeed EXCEPT !.at = catalogSeed.at + 1, !.step = step]
                /\ step = "item" => catalogSeed.at + 1 \in DOMAIN DictSeeds
        BY <3>1 DEF NextEntry
      <4>3. QED
        BY <2>2, <3>1, <4>1, <4>2 DEF SeedPlace, SeedSteps
  <2>8. QED
    BY <2>1, <2>2, <2>4, <2>6, <2>7 DEF CatalogTypeOK
<1>4. CASE UpsertConfig
  <2> DEFINE new == ConfigSeeds[catalogSeed.at]
  <2>1. PICK k \in ConfigIds :
            /\ SeedAt("config", [catalogSeed EXCEPT !.at = @ + 1])
            /\ \/ /\ k \in DOMAIN config /\ UNCHANGED spare
                  /\ config' = [config EXCEPT ![k].editable = new.editable]
               \/ k \in spare /\ spare' = spare \ {k} /\ config' = With(config, k, new)
            /\ UNCHANGED <<dictType, dictItem>>
    BY <1>4 DEF UpsertConfig
  <2>2. catalogSeed.step = "config" /\ catalogSeed.at \in DOMAIN ConfigSeeds /\ UNCHANGED <<edit, catalogWork>>
        /\ catalogSeed' = [catalogSeed EXCEPT !.at = @ + 1]
    BY <2>1 DEF SeedAt, SeedsOf
  <2>3. new \in ConfigRow
    BY <2>2
  <2>4. IsRows(config, ConfigIds, ConfigRow)
    BY DEF CatalogTypeOK
  <2>5. IsRows(config', ConfigIds, ConfigRow) /\ DOMAIN config' = DOMAIN config \cup {k}
    <3>1. CASE k \in DOMAIN config /\ config' = [config EXCEPT ![k].editable = new.editable]
      <4>1. config \in [DOMAIN config -> ConfigRow] /\ new.editable \in BOOLEAN
        BY <2>3, <2>4 DEF IsRows, ConfigRow
      <4>2. config' \in [DOMAIN config -> ConfigRow]
        <5> HIDE DEF new
        <5> QED
          BY <3>1, <4>1 DEF ConfigRow
      <4>3. QED
        BY <3>1, <2>4, <4>2 DEF IsRows
    <3>2. CASE config' = With(config, k, new)
      BY <3>2, <2>3, <2>4 DEF With, IsRows
    <3>3. QED
      BY <2>1, <3>1, <3>2
  <2>6. k \notin DOMAIN dictType \cup DOMAIN dictItem /\ k \notin spare' /\ spare' \subseteq spare
    BY <2>1 DEF CatalogTypeOK, IsRows
  <2>7. SeedPlace' /\ catalogSeed'.step = "config"
    BY <2>2 DEF SeedPlace
  <2>8. QED
    BY <2>1, <2>2, <2>5, <2>6, <2>7 DEF CatalogTypeOK
<1>5. QED
  BY <1>1, <1>2, <1>3, <1>4

LEMMA CatalogTypeStep ==
    CatalogTypeOK /\ SeedPlace /\ [CatalogNext]_catalogVars => CatalogTypeOK' /\ SeedPlace'
<1> SUFFICES ASSUME CatalogTypeOK, SeedPlace, [CatalogNext]_catalogVars PROVE CatalogTypeOK' /\ SeedPlace'
  OBVIOUS
<1>1. CASE CreateType
  <2>1. PICK t \in spare \cap DictTypeIds, row \in TypeRow :
            dictType' = With(dictType, t, row) /\ spare' = spare \ {t}
    BY <1>1 DEF CreateType
  <2>2. /\ IsRows(dictType', DictTypeIds, TypeRow) /\ DOMAIN dictType' = DOMAIN dictType \cup {t}
    <3>1. IsRows(dictType, DictTypeIds, TypeRow)
      BY DEF CatalogTypeOK
    <3> QED
      BY <2>1, <3>1 DEF With, IsRows
  <2>3. t \notin DOMAIN dictItem \cup DOMAIN config
    BY DEF CatalogTypeOK, IsRows
  <2>4. QED
    BY <1>1, <2>1, <2>2, <2>3 DEF CreateType, CatalogTypeOK, SeedPlace
<1>2. CASE UNCHANGED catalogVars
  BY <1>2 DEF catalogVars, catalogTables, CatalogTypeOK, SeedPlace
<1>3. QED
  BY <1>1, <1>2, EditType, SeedRunType DEF CatalogNext

----------------------------------------------------------------------------
(* The entries served *)

LEMMA EditKeepsType ==
    ASSUME CatalogTypeOK, CreateType \/ \E c \in CatalogCallers : Edit(c),
           NEW t \in DOMAIN dictType, EntriesOfType(t) \ touched' # {}
    PROVE  t \in DOMAIN dictType' /\ dictType'[t] = dictType[t]
<1>1. CASE CreateType
  <2>1. PICK u \in spare \cap DictTypeIds, row \in TypeRow : dictType' = With(dictType, u, row)
    BY <1>1 DEF CreateType
  <2>2. u # t
    BY DEF CatalogTypeOK
  <2>3. QED
    BY <2>1, <2>2 DEF With
<1>2. ASSUME NEW c \in CatalogCallers, Edit(c) PROVE t \in DOMAIN dictType' /\ dictType'[t] = dictType[t]
  <2>1. CASE UpdateType(c)
    BY <2>1 DEF UpdateType
  <2>2. CASE RemoveType(c)
    BY <2>2 DEF RemoveType, Without
  <2>3. CASE UNCHANGED dictType
    BY <2>3
  <2>4. QED
    BY <1>2, <2>1, <2>2, <2>3
       DEF Edit, BeginEdit, AbortEdit, CreateItem, UpdateItem, RemoveItem, UpdateConfig, catalogTables
<1>3. QED
  BY <1>1, <1>2

LEMMA EditKeepsItem ==
    ASSUME CatalogTypeOK, CreateType \/ \E c \in CatalogCallers : Edit(c),
           NEW i \in DOMAIN dictItem, EntriesOfItem(i) \ touched' # {}
    PROVE  i \in DOMAIN dictItem' /\ dictItem'[i] = dictItem[i]
<1>1. CASE CreateType
  BY <1>1 DEF CreateType
<1>2. ASSUME NEW c \in CatalogCallers, Edit(c) PROVE i \in DOMAIN dictItem' /\ dictItem'[i] = dictItem[i]
  <2>1. CASE RemoveType(c)
    <3>1. dictItem[i].type # edit[c].on
      BY <2>1 DEF RemoveType, EntriesOfItem
    <3>2. QED
      BY <2>1, <3>1 DEF RemoveType, Without
  <2>2. CASE CreateItem(c)
    <3>1. PICK j \in spare \cap DictItemIds, row \in ItemRow : dictItem' = With(dictItem, j, row)
      BY <2>2 DEF CreateItem
    <3>2. j # i
      BY DEF CatalogTypeOK
    <3>3. QED
      BY <3>1, <3>2 DEF With
  <2>3. CASE UpdateItem(c)
    BY <2>3 DEF UpdateItem
  <2>4. CASE RemoveItem(c)
    BY <2>4 DEF RemoveItem, Without
  <2>5. CASE UNCHANGED dictItem
    BY <2>5
  <2>6. QED
    BY <1>2, <2>1, <2>2, <2>3, <2>4, <2>5
       DEF Edit, BeginEdit, AbortEdit, UpdateType, UpdateConfig, catalogTables
<1>3. QED
  BY <1>1, <1>2

LEMMA EditServes ==
    ASSUME CatalogTypeOK, CreateType \/ \E c \in CatalogCallers : Edit(c),
           NEW e \in DOMAIN DictSeeds \ touched', Served(DictSeeds[e])
    PROVE  Served(DictSeeds[e])'
<1>1. PICK t \in DOMAIN dictType, i \in DOMAIN dictItem :
          /\ dictType[t] = [code |-> DictSeeds[e].type, enabled |-> TRUE]
          /\ dictItem[i] = [type |-> t, code |-> DictSeeds[e].code, value |-> DictSeeds[e].value, enabled |-> TRUE]
  BY DEF Served
<1>2. e \in EntriesOfType(t) /\ e \in EntriesOfItem(i)
  BY <1>1 DEF EntriesOfType, EntriesOfItem
<1>3. t \in DOMAIN dictType' /\ dictType'[t] = dictType[t]
  BY <1>2, EditKeepsType
<1>4. i \in DOMAIN dictItem' /\ dictItem'[i] = dictItem[i]
  BY <1>2, EditKeepsItem
<1>5. QED
  BY <1>1, <1>3, <1>4 DEF Served

(* A row takes the code of no other. *)
LEMMA EditRenames ==
    ASSUME CatalogTypeOK, CreateType \/ \E c \in CatalogCallers : Edit(c),
           NEW t \in DOMAIN dictType' \ spare, NEW u \in DOMAIN dictType, dictType[u].code = dictType'[t].code
    PROVE  t \in DOMAIN dictType /\ dictType[t].code = dictType'[t].code
<1>1. CASE CreateType
  BY <1>1 DEF CreateType, With
<1>2. ASSUME NEW c \in CatalogCallers, Edit(c) PROVE t \in DOMAIN dictType /\ dictType[t].code = dictType'[t].code
  <2>1. CASE UpdateType(c)
    <3>1. PICK row \in TypeRow :
              TypeFits(edit[c].on, row) /\ dictType' = [dictType EXCEPT ![edit[c].on] = row]
      BY <2>1 DEF UpdateType
    <3>2. CASE t = edit[c].on
      <4>1. t \in DOMAIN dictType /\ dictType'[t] = row
        BY <3>1, <3>2
      <4>2. u = t
        BY <3>1, <3>2, <4>1 DEF TypeFits
      <4>3. QED
        BY <4>1, <4>2
    <3>3. QED
      BY <3>1, <3>2
  <2>2. CASE RemoveType(c)
    BY <2>2 DEF RemoveType, Without
  <2>3. CASE UNCHANGED dictType
    BY <2>3
  <2>4. QED
    BY <1>2, <2>1, <2>2, <2>3
       DEF Edit, BeginEdit, AbortEdit, CreateItem, UpdateItem, RemoveItem, UpdateConfig, catalogTables
<1>3. QED
  BY <1>1, <1>2

EntriesInv == Behind /\ CurrentType /\ RenamedType

LEMMA EntriesEdit ==
    ASSUME CatalogTypeOK, SeedPlace, EntriesInv, CreateType \/ \E c \in CatalogCallers : Edit(c)
    PROVE  EntriesInv'
<1>1. UNCHANGED catalogSeed /\ touched \subseteq touched'
  BY DEF CreateType, Edit, BeginEdit, AbortEdit, UpdateType, RemoveType, CreateItem, UpdateItem, RemoveItem, UpdateConfig,
         EndEdit
<1>2. Processed' = Processed /\ SeededType' = SeededType
  BY <1>1 DEF Processed, SeededType
<1>3. Behind'
  BY <1>1, <1>2, EditServes DEF EntriesInv, Behind, Processed
<1>4. CurrentType'
  <2>1. SUFFICES ASSUME catalogSeed.step = "item", NEW e \in DOMAIN DictSeeds \ touched', DictSeeds[e].type = SeededType
                 PROVE  /\ catalogSeed.type \in DOMAIN dictType'
                        /\ dictType'[catalogSeed.type] = [code |-> SeededType, enabled |-> TRUE]
    BY <1>1, <1>2 DEF CurrentType
  <2>2. /\ catalogSeed.type \in DOMAIN dictType
        /\ dictType[catalogSeed.type] = [code |-> SeededType, enabled |-> TRUE]
    BY <1>1, <2>1 DEF EntriesInv, CurrentType
  <2>3. e \in EntriesOfType(catalogSeed.type)
    BY <2>1, <2>2 DEF EntriesOfType
  <2>4. QED
    BY <2>2, <2>3, EditKeepsType
<1>5. RenamedType'
  <2>1. SUFFICES ASSUME catalogSeed.step = "item", catalogSeed.type \in DOMAIN dictType',
                        NEW e \in Processed \ touched', DictSeeds[e].type = dictType'[catalogSeed.type].code
                 PROVE  SeededType = DictSeeds[e].type
    BY <1>1, <1>2 DEF RenamedType
  <2>2. PICK u \in DOMAIN dictType : dictType[u].code = DictSeeds[e].type
    BY <1>1, <2>1 DEF EntriesInv, Behind, Served
  <2>3. catalogSeed.type \notin spare
    BY <2>1 DEF SeedPlace
  <2>4. catalogSeed.type \in DOMAIN dictType /\ dictType[catalogSeed.type].code = dictType'[catalogSeed.type].code
    BY <2>1, <2>2, <2>3, EditRenames
  <2>5. QED
    BY <1>1, <2>1, <2>4 DEF EntriesInv, RenamedType
<1>6. QED
  BY <1>3, <1>4, <1>5 DEF EntriesInv

LEMMA EntriesUpsertType ==
    ASSUME CatalogTypeOK, SeedPlace, EntriesInv, UpsertType
    PROVE  EntriesInv'
<1> DEFINE row == [code |-> SeededType, enabled |-> TRUE]
<1>1. PICK t \in DictTypeIds :
          /\ SeedAt("type", [catalogSeed EXCEPT !.step = "item", !.type = t])
          /\ \/ t \in DOMAIN dictType /\ dictType[t].code = row.code
             \/ t \in spare
          /\ dictType' = With(dictType, t, row)
          /\ UNCHANGED <<dictItem, touched>>
  BY DEF UpsertType, SeedAt, SeededType
<1>2. /\ catalogSeed.step = "type" /\ catalogSeed'.step = "item"
      /\ catalogSeed'.at = catalogSeed.at /\ catalogSeed'.type = t
  BY <1>1 DEF SeedAt, SeedPlace
<1>3. Processed' = Processed /\ SeededType' = SeededType
  BY <1>2 DEF Processed, SeededType
<1>4. t \in DOMAIN dictType' /\ dictType'[t] = row
  BY <1>1 DEF With
<1>5. Behind'
  <2>1. SUFFICES ASSUME NEW e \in Processed \ touched PROVE Served(DictSeeds[e])'
    BY <1>1, <1>3 DEF Behind, Processed
  <2>2. PICK u \in DOMAIN dictType, i \in DOMAIN dictItem :
          /\ dictType[u] = [code |-> DictSeeds[e].type, enabled |-> TRUE]
          /\ dictItem[i] = [type |-> u, code |-> DictSeeds[e].code, value |-> DictSeeds[e].value, enabled |-> TRUE]
    BY <2>1 DEF EntriesInv, Behind, Served
  <2>3. u \in DOMAIN dictType' /\ dictType'[u] = dictType[u]
    <3>1. CASE u = t
      <4>1. t \in DOMAIN dictType /\ dictType[t].code = SeededType
        BY <1>1, <3>1 DEF CatalogTypeOK
      <4>2. QED
        BY <1>4, <2>2, <3>1, <4>1
    <3>2. CASE u # t
      BY <1>1, <3>2 DEF With
    <3>3. QED
      BY <3>1, <3>2
  <2>4. QED
    BY <1>1, <2>2, <2>3 DEF Served
<1>6. CurrentType' /\ RenamedType'
  BY <1>2, <1>3, <1>4 DEF CurrentType, RenamedType
<1>7. QED
  BY <1>5, <1>6 DEF EntriesInv

LEMMA EntriesUpsertItem ==
    ASSUME CatalogTypeOK, SeedPlace, EntriesInv, UpsertItem
    PROVE  EntriesInv'
<1> DEFINE t == catalogSeed.type
           at == catalogSeed.at
<1>1. PICK i \in DictItemIds :
          /\ SeedAt("item", NextEntry)
          /\ \/ /\ i \in DOMAIN dictItem
                /\ dictItem[i].type = ItemOfSeed.type /\ dictItem[i].code = ItemOfSeed.code
             \/ i \in spare
          /\ dictItem' = With(dictItem, i, ItemOfSeed)
          /\ UNCHANGED <<dictType, touched>>
  BY DEF UpsertItem, SeedAt
<1>2. /\ catalogSeed.step = "item" /\ at \in DOMAIN DictSeeds /\ catalogSeed' = NextEntry
  BY <1>1 DEF SeedAt, SeedsOf
<1>3. /\ catalogSeed'.at = at + 1 /\ catalogSeed'.type = t /\ catalogSeed'.step \in {"item", "type"}
      /\ catalogSeed'.step = "item" => SeededType' = SeededType
  BY <1>2 DEF NextEntry, SeedPlace, SeededType
<1>4. Processed' = Processed \cup {at}
  <2>1. Processed' = {e \in DOMAIN DictSeeds : e < at + 1} /\ Processed = {e \in DOMAIN DictSeeds : e < at}
    BY <1>2, <1>3 DEF Processed
  <2>2. at \in Nat /\ \A e \in DOMAIN DictSeeds : e \in Nat
    BY SeedTypes DEF SeedPlace
  <2>3. QED
    BY <1>2, <2>1, <2>2
<1>5. at \notin Processed
  BY <1>2 DEF Processed, SeedPlace
<1>6. ItemOfSeed = [type |-> t, code |-> DictSeeds[at].code, value |-> DictSeeds[at].value, enabled |-> TRUE]
  BY DEF ItemOfSeed
<1>7. i \in DOMAIN dictItem' /\ dictItem'[i] = ItemOfSeed
  BY <1>1 DEF With
<1>8. ASSUME NEW e \in Processed \ touched PROVE Served(DictSeeds[e])'
  <2>1. PICK u \in DOMAIN dictType, j \in DOMAIN dictItem :
          /\ dictType[u] = [code |-> DictSeeds[e].type, enabled |-> TRUE]
          /\ dictItem[j] = [type |-> u, code |-> DictSeeds[e].code, value |-> DictSeeds[e].value, enabled |-> TRUE]
    BY <1>8 DEF EntriesInv, Behind, Served
  <2>2. j # i
    <3>1. SUFFICES ASSUME j = i PROVE FALSE
      OBVIOUS
    <3>2. dictItem[j].type = t /\ dictItem[j].code = DictSeeds[at].code
      BY <1>1, <1>6, <3>1 DEF CatalogTypeOK
    <3>3. u = t /\ DictSeeds[e].code = DictSeeds[at].code
      BY <2>1, <3>2
    <3>4. dictType[t].code = DictSeeds[e].type
      BY <2>1, <3>3
    <3>5. SeededType = DictSeeds[e].type
      BY <1>2, <1>8, <3>3, <3>4 DEF EntriesInv, RenamedType
    <3>6. e = at
      BY <1>2, <3>3, <3>5, DictSeedsDiffer DEF SeededType, Processed
    <3>7. QED
      BY <1>5, <3>6
  <2>3. j \in DOMAIN dictItem' /\ dictItem'[j] = dictItem[j]
    BY <1>1, <2>2 DEF With
  <2>4. QED
    BY <1>1, <2>1, <2>3 DEF Served
<1>9. ASSUME NEW e \in DOMAIN DictSeeds \ touched, e = at PROVE Served(DictSeeds[e])'
  <2>1. t \in DOMAIN dictType /\ dictType[t] = [code |-> DictSeeds[e].type, enabled |-> TRUE]
    BY <1>2, <1>9 DEF EntriesInv, CurrentType, SeededType
  <2>2. /\ t \in DOMAIN dictType' /\ dictType'[t] = [code |-> DictSeeds[e].type, enabled |-> TRUE]
        /\ i \in DOMAIN dictItem'
        /\ dictItem'[i] = [type |-> t, code |-> DictSeeds[e].code, value |-> DictSeeds[e].value, enabled |-> TRUE]
    BY <1>1, <1>6, <1>7, <1>9, <2>1
  <2>3. QED
    BY <2>2 DEF Served
<1>10. Behind'
  <2>1. SUFFICES ASSUME NEW e \in (Processed \cup {at}) \ touched PROVE Served(DictSeeds[e])'
    BY <1>1, <1>4 DEF Behind
  <2>2. CASE e = at
    BY <1>2, <1>9, <2>1, <2>2
  <2>3. CASE e # at
    BY <1>8, <2>1, <2>3
  <2>4. QED
    BY <2>2, <2>3
<1>11. CurrentType'
  BY <1>1, <1>2, <1>3 DEF EntriesInv, CurrentType
<1>12. RenamedType'
  <2>1. SUFFICES ASSUME SeededType' = SeededType, t \in DOMAIN dictType,
                        NEW e \in (Processed \cup {at}) \ touched, DictSeeds[e].type = dictType[t].code
                 PROVE  SeededType = DictSeeds[e].type
    BY <1>1, <1>3, <1>4 DEF RenamedType
  <2>2. QED
    BY <1>2, <2>1 DEF EntriesInv, RenamedType, SeededType
<1>13. QED
  BY <1>10, <1>11, <1>12 DEF EntriesInv

LEMMA EntriesStep ==
    CatalogTypeOK /\ SeedPlace /\ EntriesInv /\ [CatalogNext]_catalogVars => EntriesInv'
<1> SUFFICES ASSUME CatalogTypeOK, SeedPlace, EntriesInv, [CatalogNext]_catalogVars PROVE EntriesInv'
  OBVIOUS
<1>1. CASE UNCHANGED <<dictType, dictItem, touched, catalogSeed>>
  <2>1. Processed' = Processed /\ SeededType' = SeededType
    BY <1>1 DEF Processed, SeededType
  <2>2. QED
    BY <1>1, <2>1 DEF EntriesInv, Behind, CurrentType, RenamedType, Served
<1>2. CASE StartCatalogSeed \/ StopCatalogSeed
  <2>1. Processed' = {} /\ catalogSeed'.step # "item"
    <3>1. CASE StopCatalogSeed
      BY <3>1 DEF StopCatalogSeed, NoSeedRun, Processed
    <3>2. CASE StartCatalogSeed
      <4>1. catalogSeed'.step = "type" /\ catalogSeed'.at = 1
        BY <3>2 DEF StartCatalogSeed, NoSeedRun
      <4>2. \A e \in DOMAIN DictSeeds : ~ (e < 1)
        BY SeedTypes
      <4>3. QED
        BY <4>1, <4>2 DEF Processed
    <3>3. QED
      BY <1>2, <3>1, <3>2
  <2>2. QED
    BY <2>1 DEF EntriesInv, Behind, CurrentType, RenamedType
<1>3. CASE DictsSeeded \/ ConfigsSeeded \/ UpsertConfig
  <2>1. UNCHANGED <<dictType, dictItem, touched>> /\ catalogSeed'.step \in {"config", "done"}
    BY <1>3 DEF DictsSeeded, ConfigsSeeded, UpsertConfig, SeedAt, catalogTables, NoSeedRun, SeedPlace
  <2>2. Processed = DOMAIN DictSeeds
    <3>1. CASE DictsSeeded
      <4>1. catalogSeed.step = "type" /\ catalogSeed.at \in Nat \ {0} /\ catalogSeed.at \notin DOMAIN DictSeeds
        BY <3>1 DEF DictsSeeded, SeedPlace
      <4>2. DOMAIN DictSeeds = 1..Len(DictSeeds) /\ Len(DictSeeds) \in Nat
        <5>1. ASSUME NEW S, NEW q \in Seq(S) PROVE DOMAIN q = 1..Len(q) /\ Len(q) \in Nat
          OBVIOUS
        <5>2. QED
          BY <5>1
      <4>3. \A e \in DOMAIN DictSeeds : e < catalogSeed.at
        BY <4>1, <4>2
      <4>4. QED
        BY <4>1, <4>3 DEF Processed
    <3>2. CASE ConfigsSeeded \/ UpsertConfig
      BY <3>2 DEF ConfigsSeeded, UpsertConfig, SeedAt, Processed
    <3>3. QED
      BY <1>3, <3>1, <3>2
  <2>3. Processed' = DOMAIN DictSeeds
    BY <2>1 DEF Processed
  <2>4. QED
    BY <2>1, <2>2, <2>3 DEF EntriesInv, Behind, CurrentType, RenamedType, Served
<1>4. QED
  BY <1>1, <1>2, <1>3, EntriesEdit, EntriesUpsertType, EntriesUpsertItem DEF CatalogNext, catalogVars, catalogTables

----------------------------------------------------------------------------
(* The parameters *)

LEMMA EditsOpenStep ==
    CatalogTypeOK /\ EditsOpen /\ [CatalogNext]_catalogVars => EditsOpen'
<1> SUFFICES ASSUME CatalogTypeOK, EditsOpen, [CatalogNext]_catalogVars, NEW c \in CatalogCallers,
                    edit'[c].op = "updateConfig"
             PROVE  /\ edit'[c].on \in DOMAIN config'
                    /\ config'[edit'[c].on].editable \/ edit'[c].on \in frozen'
  BY DEF EditsOpen
<1>1. ASSUME edit'[c] = edit[c] PROVE /\ edit[c].on \in DOMAIN config
                                      /\ config[edit[c].on].editable \/ edit[c].on \in frozen
  BY <1>1 DEF EditsOpen
<1>2. ASSUME NEW d \in CatalogCallers, Edit(d)
      PROVE  /\ edit'[c].on \in DOMAIN config'
             /\ config'[edit'[c].on].editable \/ edit'[c].on \in frozen'
  <2>1. CASE BeginEdit(d)
    <3>1. CASE c = d
      <4>1. PICK op \in EditOps, id \in DictTypeIds \cup DictItemIds \cup ConfigIds :
                /\ Passes(op, id)
                /\ edit' = [edit EXCEPT ![d] = [op |-> op, on |-> id]]
        BY <2>1 DEF BeginEdit
      <4>2. edit'[c] = [op |-> op, on |-> id]
        BY <3>1, <4>1 DEF CatalogTypeOK
      <4>3. id \in DOMAIN config /\ config[id].editable
        BY <4>1, <4>2 DEF Passes
      <4>4. QED
        BY <2>1, <4>2, <4>3 DEF BeginEdit, catalogTables
    <3>2. CASE c # d
      BY <1>1, <2>1, <3>2 DEF BeginEdit, catalogTables, CatalogTypeOK
    <3>3. QED
      BY <3>1, <3>2
  <2>2. ASSUME NEW op, EndEdit(d, op) PROVE edit'[c] = edit[c]
    BY <2>2 DEF EndEdit, NoEdit, CatalogTypeOK
  <2>3. CASE UpdateConfig(d)
    <3>1. edit'[c] = edit[c]
      BY <2>2, <2>3 DEF UpdateConfig
    <3>2. DOMAIN config' = DOMAIN config /\ UNCHANGED frozen
      BY <2>3 DEF UpdateConfig
    <3>3. config'[edit[c].on].editable = config[edit[c].on].editable
      <4>1. PICK v : config' = [config EXCEPT ![edit[d].on].value = v]
        BY <2>3 DEF UpdateConfig
      <4>2. config[edit[c].on] \in ConfigRow /\ edit[c].on \in DOMAIN config
        BY <1>1, <3>1 DEF CatalogTypeOK, IsRows
      <4>3. QED
        BY <4>1, <4>2 DEF ConfigRow
    <3>4. QED
      BY <1>1, <3>1, <3>2, <3>3
  <2>4. CASE UNCHANGED <<config, frozen>> /\ \E op : EndEdit(d, op)
    BY <1>1, <2>2, <2>4
  <2>5. QED
    BY <1>2, <2>1, <2>3, <2>4
       DEF Edit, AbortEdit, UpdateType, RemoveType, CreateItem, UpdateItem, RemoveItem, catalogTables
<1>3. CASE UpsertConfig
  <2>1. edit'[c] = edit[c]
    BY <1>3 DEF UpsertConfig, SeedAt
  <2>2. PICK k \in ConfigIds :
            \/ /\ k \in DOMAIN config
               /\ config' = [config EXCEPT ![k].editable = ConfigSeeds[catalogSeed.at].editable]
               /\ frozen' = IF \E d \in CatalogCallers : edit[d] = [op |-> "updateConfig", on |-> k]
                            THEN frozen \cup {k} ELSE frozen
            \/ k \in spare /\ config' = With(config, k, ConfigSeeds[catalogSeed.at]) /\ UNCHANGED frozen
    BY <1>3 DEF UpsertConfig
  <2>3. edit[c].on \in DOMAIN config'
    BY <1>1, <2>1, <2>2 DEF With
  <2>4. CASE edit[c].on = k
    <3>1. k \notin spare
      BY <1>1, <2>1, <2>4 DEF CatalogTypeOK
    <3>2. edit[c] = [op |-> "updateConfig", on |-> k]
      BY <2>1, <2>4 DEF CatalogTypeOK, Edits, NoEdit
    <3>3. QED
      BY <2>1, <2>2, <2>3, <2>4, <3>1, <3>2
  <2>5. CASE edit[c].on # k
    <3>1. config'[edit[c].on] = config[edit[c].on]
      BY <1>1, <2>1, <2>2, <2>5 DEF With
    <3>2. QED
      BY <1>1, <2>1, <2>2, <2>3, <3>1
  <2>6. QED
    BY <2>4, <2>5
<1>4. CASE UNCHANGED <<config, frozen, edit>>
  BY <1>1, <1>4
<1>5. QED
  BY <1>2, <1>3, <1>4
     DEF CatalogNext, CreateType, StartCatalogSeed, StopCatalogSeed, UpsertType, UpsertItem, SeedAt, DictsSeeded,
         ConfigsSeeded, catalogVars, catalogTables

(* A step that changes a value that is kept. *)
LEMMA ValueStep ==
    ASSUME CatalogTypeOK, EditsOpen, [CatalogNext]_catalogVars, NEW k \in DOMAIN config,
           config'[k].value # config[k].value
    PROVE  catalogSeed' = catalogSeed /\ (config[k].editable \/ k \in frozen)
<1>1. PICK c \in CatalogCallers : UpdateConfig(c)
  <2>1. CASE UpsertConfig
    <3>1. PICK j \in ConfigIds :
              \/ config' = [config EXCEPT ![j].editable = ConfigSeeds[catalogSeed.at].editable]
              \/ j \in spare /\ config' = With(config, j, ConfigSeeds[catalogSeed.at])
      BY <2>1 DEF UpsertConfig
    <3>2. config[k] \in ConfigRow /\ k \notin spare
      BY DEF CatalogTypeOK, IsRows
    <3>3. config'[k].value = config[k].value
      BY <3>1, <3>2 DEF With, ConfigRow
    <3>4. QED
      BY <3>3
  <2>2. UNCHANGED config \/ UpsertConfig \/ \E c \in CatalogCallers : UpdateConfig(c)
    BY DEF CatalogNext, CreateType, StartCatalogSeed, StopCatalogSeed, UpsertType, UpsertItem, DictsSeeded,
           ConfigsSeeded, catalogVars, catalogTables, Edit, BeginEdit, AbortEdit, UpdateType, RemoveType, CreateItem,
           UpdateItem, RemoveItem
  <2>3. QED
    BY <2>1, <2>2
<1>2. edit[c].on = k /\ edit[c].op = "updateConfig" /\ catalogSeed' = catalogSeed
  BY <1>1 DEF UpdateConfig, EndEdit
<1>3. QED
  BY <1>2 DEF EditsOpen

----------------------------------------------------------------------------

LEMMA CatalogInvariant == CatalogSpec => []CatalogInv
<1>1. CatalogInv /\ [CatalogNext]_catalogVars => CatalogInv'
  BY CatalogTypeStep, EntriesStep, EditsOpenStep DEF CatalogInv, EntriesInv
<1>2. QED
  BY <1>1, InitCatalog, PTL DEF CatalogSpec

(* Type correctness: every statement of the calls and of the seed leaves   *)
(* rows of the four tables where rows are expected, and every dictionary   *)
(* item keeps its type, also when the type is removed while items are      *)
(* being created or seeded (DictsService.removeType, onDelete: Cascade).   *)
THEOREM CatalogTypes == CatalogSpec => []CatalogTypeOK
<1>1. CatalogInv => CatalogTypeOK
  BY DEF CatalogInv
<1>2. QED
  BY <1>1, CatalogInvariant, PTL

(* Whatever the back office did to the dictionaries, and does while the    *)
(* seed runs: once upsertDictTypes is through, every entry it lists that   *)
(* no call has changed since is answered by findItemsByTypeCode.           *)
THEOREM SeedServesEntries == CatalogSpec => []SeededEntriesServed
<1>1. CatalogInv => SeededEntriesServed
  BY DEF CatalogInv, Behind, Processed, SeededEntriesServed
<1>2. QED
  BY <1>1, CatalogInvariant, PTL

(* upsertSystemConfigs never writes a value that is there, and             *)
(* SystemConfigService.update writes that of a parameter that is closed    *)
(* only when the seed closed it after the call had read it.                *)
THEOREM ValuesAreKept == CatalogSpec => ConfigValuesKept
<1>1. CatalogInv /\ [CatalogNext]_catalogVars =>
          [\A k \in DOMAIN config : config'[k].value # config[k].value =>
              catalogSeed' = catalogSeed /\ (config[k].editable \/ k \in frozen)]_catalogVars
  BY ValueStep DEF CatalogInv
<1>2. QED
  BY <1>1, CatalogInvariant, PTL DEF CatalogSpec, ConfigValuesKept
=============================================================================

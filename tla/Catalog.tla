------------------------------ MODULE Catalog ------------------------------
(***************************************************************************)
(* Dictionaries and system parameters: the back office endpoints           *)
(* (src/src/dicts, src/src/system-config) and the stages of the seed that  *)
(* write the same tables (upsertDictTypes, upsertSystemConfigs).  A step   *)
(* is one statement.  A call checks that its row exists, or that the       *)
(* parameter is editable, and writes in a second statement; the seed has   *)
(* no transaction and may die between any two.  Refused statements (a      *)
(* missing row, a unique index) end a call and kill the seed.              *)
(***************************************************************************)
EXTENDS Naturals, Sequences, FiniteSets

CONSTANTS
    DictTypeIds, DictItemIds, ConfigIds,
    TypeCodes, ItemCodes, Values, ConfigKeys,
    DictSeeds,      \* dictTypeSeeds flattened: a sequence of [type, code, value]
    ConfigSeeds,    \* systemConfigSeeds: a sequence of [key, value, editable]
    InitialTypes, InitialItems, InitialConfigs,
    CatalogCallers,
    MaxCatalogWork, \* bound on the calls and the runs of the seed together
    Nobody          \* no row

TypeRow == [code : TypeCodes, enabled : BOOLEAN]
ItemRow == [type : DictTypeIds, code : ItemCodes, value : Values, enabled : BOOLEAN]
ConfigRow == [key : ConfigKeys, value : Values, editable : BOOLEAN]

IsRows(t, ids, row) == DOMAIN t \subseteq ids /\ t \in [DOMAIN t -> row]

ASSUME CatalogConstants ==
    /\ DictSeeds \in Seq([type : TypeCodes, code : ItemCodes, value : Values])
    /\ ConfigSeeds \in Seq(ConfigRow)
    /\ IsRows(InitialTypes, DictTypeIds, TypeRow) /\ IsRows(InitialItems, DictItemIds, ItemRow)
    /\ IsRows(InitialConfigs, ConfigIds, ConfigRow)
    /\ Nobody \notin DictTypeIds \cup DictItemIds \cup ConfigIds
    /\ MaxCatalogWork \in Nat

(* An id is of one table. *)
ASSUME CatalogIds ==
    /\ DictTypeIds \cap DictItemIds = {} /\ DictTypeIds \cap ConfigIds = {} /\ DictItemIds \cap ConfigIds = {}

(* dictTypeSeeds lists no code twice, and a type no item twice. *)
ASSUME DictSeedsDiffer ==
    \A e, f \in DOMAIN DictSeeds :
        DictSeeds[e].type = DictSeeds[f].type /\ DictSeeds[e].code = DictSeeds[f].code => e = f

(* The foreign key of dict_items. *)
ASSUME CatalogInstalled ==
    \A i \in DOMAIN InitialItems : InitialItems[i].type \in DOMAIN InitialTypes

VARIABLES
    dictType, dictItem, config,
    spare,          \* row ids no row has had yet
    edit,           \* what each call is doing
    catalogSeed,    \* how far the seed is
    catalogWork,    \* calls and runs begun
    touched,        \* history: seeded entries a call changed since the seed began
    frozen          \* history: parameters the seed closed while a call was editing them

catalogTables == <<dictType, dictItem, config, spare>>
catalogVars == <<catalogTables, edit, catalogSeed, catalogWork, touched, frozen>>

NoEdit == [op |-> "none", on |-> Nobody]
EditOps == {"updateType", "removeType", "createItem", "updateItem", "removeItem", "updateConfig"}
Edits == {NoEdit} \cup [op : EditOps, on : DictTypeIds \cup DictItemIds \cup ConfigIds]
NoSeedRun == [step |-> "idle", at |-> 1, type |-> Nobody]

CatalogInit ==
    /\ dictType = InitialTypes /\ dictItem = InitialItems /\ config = InitialConfigs
    /\ spare = (DictTypeIds \ DOMAIN dictType) \cup (DictItemIds \ DOMAIN dictItem)
                   \cup (ConfigIds \ DOMAIN config)
    /\ edit = [c \in CatalogCallers |-> NoEdit]
    /\ catalogSeed = NoSeedRun
    /\ catalogWork = 0
    /\ touched = {} /\ frozen = {}

----------------------------------------------------------------------------
(* Statements *)

With(t, id, row) == [i \in DOMAIN t \cup {id} |-> IF i = id THEN row ELSE t[i]]
Without(t, ids) == [i \in DOMAIN t \ ids |-> t[i]]

(* The unique indexes, for a row that takes the place of row id. *)
TypeFits(id, row) == \A t \in DOMAIN dictType \ {id} : dictType[t].code # row.code
ItemFits(id, row) ==
    \A i \in DOMAIN dictItem \ {id} :
        dictItem[i].type = row.type => dictItem[i].code # row.code /\ dictItem[i].value # row.value

(* The seeded entries that live in a dictionary row. *)
EntriesOfType(t) == {e \in DOMAIN DictSeeds : DictSeeds[e].type = dictType[t].code}
EntriesOfItem(i) == {e \in EntriesOfType(dictItem[i].type) : DictSeeds[e].code = dictItem[i].code}

----------------------------------------------------------------------------
(* dicts.service.ts *)

CreateType ==
    /\ catalogWork < MaxCatalogWork
    /\ catalogWork' = catalogWork + 1
    /\ \E t \in spare \cap DictTypeIds, row \in TypeRow :
        /\ TypeFits(t, row)
        /\ dictType' = With(dictType, t, row)
        /\ spare' = spare \ {t}
    /\ UNCHANGED <<dictItem, config, edit, catalogSeed, touched, frozen>>

(* assertTypeExists, assertItemExists, and findOne with the test of editable. *)
Passes(op, id) ==
    \/ op \in {"updateType", "removeType", "createItem"} /\ id \in DOMAIN dictType
    \/ op \in {"updateItem", "removeItem"} /\ id \in DOMAIN dictItem
    \/ op = "updateConfig" /\ id \in DOMAIN config /\ config[id].editable

BeginEdit(c) ==
    /\ edit[c] = NoEdit /\ catalogWork < MaxCatalogWork
    /\ catalogWork' = catalogWork + 1
    /\ \E op \in EditOps, id \in DictTypeIds \cup DictItemIds \cup ConfigIds :
        /\ Passes(op, id)
        /\ edit' = [edit EXCEPT ![c] = [op |-> op, on |-> id]]
    /\ UNCHANGED <<catalogTables, catalogSeed, touched, frozen>>

EndEdit(c, op) ==
    /\ edit[c].op = op
    /\ edit' = [edit EXCEPT ![c] = NoEdit]
    /\ UNCHANGED <<catalogSeed, catalogWork>>

AbortEdit(c) ==
    /\ edit[c] # NoEdit
    /\ EndEdit(c, edit[c].op)
    /\ UNCHANGED <<catalogTables, touched, frozen>>

(* The fields the request leaves out keep their value: any row may result. *)
UpdateType(c) ==
    LET t == edit[c].on IN
    /\ EndEdit(c, "updateType")
    /\ t \in DOMAIN dictType
    /\ \E row \in TypeRow : TypeFits(t, row) /\ dictType' = [dictType EXCEPT ![t] = row]
    /\ touched' = touched \cup EntriesOfType(t)
    /\ UNCHANGED <<dictItem, config, spare, frozen>>

(* Mutant: the items of a deleted type stay. *)
RemoveTypeOnly(c) ==
    /\ EndEdit(c, "removeType")
    /\ edit[c].on \in DOMAIN dictType
    /\ dictType' = Without(dictType, {edit[c].on})
    /\ UNCHANGED <<dictItem, config, spare, touched, frozen>>

(* The items go with their type (onDelete: Cascade). *)
RemoveType(c) ==
    LET t == edit[c].on IN
    /\ EndEdit(c, "removeType")
    /\ t \in DOMAIN dictType
    /\ dictType' = Without(dictType, {t})
    /\ dictItem' = Without(dictItem, {i \in DOMAIN dictItem : dictItem[i].type = t})
    /\ touched' = touched \cup EntriesOfType(t)
    /\ UNCHANGED <<config, spare, frozen>>

CreateItem(c) ==
    /\ EndEdit(c, "createItem")
    /\ edit[c].on \in DOMAIN dictType
    /\ \E i \in spare \cap DictItemIds, row \in ItemRow :
        /\ row.type = edit[c].on /\ ItemFits(i, row)
        /\ dictItem' = With(dictItem, i, row)
        /\ spare' = spare \ {i}
    /\ UNCHANGED <<dictType, config, touched, frozen>>

(* The item may move to another type. *)
UpdateItem(c) ==
    LET i == edit[c].on IN
    /\ EndEdit(c, "updateItem")
    /\ i \in DOMAIN dictItem
    /\ \E row \in ItemRow :
        /\ row.type \in DOMAIN dictType /\ ItemFits(i, row)
        /\ dictItem' = [dictItem EXCEPT ![i] = row]
    /\ touched' = touched \cup EntriesOfItem(i)
    /\ UNCHANGED <<dictType, config, spare, frozen>>

RemoveItem(c) ==
    LET i == edit[c].on IN
    /\ EndEdit(c, "removeItem")
    /\ i \in DOMAIN dictItem
    /\ dictItem' = Without(dictItem, {i})
    /\ touched' = touched \cup EntriesOfItem(i)
    /\ UNCHANGED <<dictType, config, spare, frozen>>

----------------------------------------------------------------------------
(* system-config.service.ts: the update asks for the id only *)

UpdateConfig(c) ==
    LET k == edit[c].on IN
    /\ EndEdit(c, "updateConfig")
    /\ k \in DOMAIN config
    /\ \E v \in Values : config' = [config EXCEPT ![k].value = v]
    /\ UNCHANGED <<dictType, dictItem, spare, touched, frozen>>

----------------------------------------------------------------------------
(* The seed *)

StartCatalogSeed ==
    /\ catalogSeed.step \in {"idle", "done"} /\ catalogWork < MaxCatalogWork
    /\ catalogWork' = catalogWork + 1
    /\ catalogSeed' = [NoSeedRun EXCEPT !.step = "type"]
    /\ touched' = {}
    /\ UNCHANGED <<catalogTables, edit, frozen>>

StopCatalogSeed ==
    /\ catalogSeed.step \notin {"idle", "done"}
    /\ catalogSeed' = NoSeedRun
    /\ UNCHANGED <<catalogTables, edit, catalogWork, touched, frozen>>

SeedsOf(step) == IF step = "config" THEN ConfigSeeds ELSE DictSeeds

(* The entry under the loop's index; the type is upserted before its first item. *)
SeedAt(step, to) ==
    /\ catalogSeed.step = step /\ catalogSeed.at \in DOMAIN SeedsOf(step)
    /\ catalogSeed' = to
    /\ UNCHANGED <<edit, catalogWork, touched>>

UpsertType ==
    \E t \in DictTypeIds :
        LET row == [code |-> DictSeeds[catalogSeed.at].type, enabled |-> TRUE] IN
        /\ SeedAt("type", [catalogSeed EXCEPT !.step = "item", !.type = t])
        /\ TypeFits(t, row)
        /\ \/ t \in DOMAIN dictType /\ dictType[t].code = row.code /\ UNCHANGED spare
           \/ t \in spare /\ spare' = spare \ {t}
        /\ dictType' = With(dictType, t, row)
        /\ UNCHANGED <<dictItem, config, frozen>>

ItemOfSeed == [type |-> catalogSeed.type, code |-> DictSeeds[catalogSeed.at].code,
               value |-> DictSeeds[catalogSeed.at].value, enabled |-> TRUE]

NextEntry ==
    LET next == catalogSeed.at + 1
        same == next \in DOMAIN DictSeeds /\ DictSeeds[next].type = DictSeeds[catalogSeed.at].type
    IN  [catalogSeed EXCEPT !.at = next, !.step = IF same THEN "item" ELSE "type"]

(* Mutant: an item that exists stays as enabled as it was. *)
UpsertItemKeepsFlag ==
    \E i \in DictItemIds :
        /\ SeedAt("item", NextEntry)
        /\ ItemFits(i, ItemOfSeed) /\ catalogSeed.type \in DOMAIN dictType
        /\ \/ /\ i \in DOMAIN dictItem
              /\ dictItem[i].type = ItemOfSeed.type /\ dictItem[i].code = ItemOfSeed.code
              /\ dictItem' = [dictItem EXCEPT ![i].value = ItemOfSeed.value]
              /\ UNCHANGED spare
           \/ /\ i \in spare /\ spare' = spare \ {i}
              /\ dictItem' = With(dictItem, i, ItemOfSeed)
        /\ UNCHANGED <<dictType, config, frozen>>

UpsertItem ==
    \E i \in DictItemIds :
        /\ SeedAt("item", NextEntry)
        /\ ItemFits(i, ItemOfSeed) /\ catalogSeed.type \in DOMAIN dictType
        /\ \/ /\ i \in DOMAIN dictItem
              /\ dictItem[i].type = ItemOfSeed.type /\ dictItem[i].code = ItemOfSeed.code
              /\ UNCHANGED spare
           \/ i \in spare /\ spare' = spare \ {i}
        /\ dictItem' = With(dictItem, i, ItemOfSeed)
        /\ UNCHANGED <<dictType, config, frozen>>

DictsSeeded ==
    /\ catalogSeed.step = "type" /\ catalogSeed.at \notin DOMAIN DictSeeds
    /\ catalogSeed' = [NoSeedRun EXCEPT !.step = "config"]
    /\ UNCHANGED <<catalogTables, edit, catalogWork, touched, frozen>>

(* Mutant: the seed's value replaces the one in use. *)
UpsertConfigValue ==
    \E k \in ConfigIds :
        /\ SeedAt("config", [catalogSeed EXCEPT !.at = @ + 1])
        /\ IF k \in DOMAIN config THEN config[k].key = ConfigSeeds[catalogSeed.at].key ELSE k \in spare
        /\ config' = With(config, k, ConfigSeeds[catalogSeed.at])
        /\ spare' = spare \ {k}
        /\ UNCHANGED <<dictType, dictItem, frozen>>

(* The update leaves value alone. *)
UpsertConfig ==
    \E k \in ConfigIds :
        LET new == ConfigSeeds[catalogSeed.at]
            old == \E j \in DOMAIN config : config[j].key = new.key
        IN
        /\ SeedAt("config", [catalogSeed EXCEPT !.at = @ + 1])
        /\ IF old
           THEN /\ k \in DOMAIN config /\ config[k].key = new.key
                /\ config' = [config EXCEPT ![k].editable = new.editable]
                /\ UNCHANGED spare
                /\ frozen' = IF \E c \in CatalogCallers : edit[c] = [op |-> "updateConfig", on |-> k]
                             THEN frozen \cup {k} ELSE frozen
           ELSE /\ k \in spare /\ spare' = spare \ {k}
                /\ config' = With(config, k, new)
                /\ UNCHANGED frozen
        /\ UNCHANGED <<dictType, dictItem>>

ConfigsSeeded ==
    /\ catalogSeed.step = "config" /\ catalogSeed.at \notin DOMAIN ConfigSeeds
    /\ catalogSeed' = [NoSeedRun EXCEPT !.step = "done"]
    /\ UNCHANGED <<catalogTables, edit, catalogWork, touched, frozen>>

----------------------------------------------------------------------------

Edit(c) ==
    \/ BeginEdit(c) \/ AbortEdit(c)
    \/ UpdateType(c) \/ RemoveType(c) \/ CreateItem(c) \/ UpdateItem(c) \/ RemoveItem(c)
    \/ UpdateConfig(c)

CatalogNext ==
    \/ CreateType \/ \E c \in CatalogCallers : Edit(c)
    \/ StartCatalogSeed \/ StopCatalogSeed
    \/ UpsertType \/ UpsertItem \/ DictsSeeded \/ UpsertConfig \/ ConfigsSeeded

CatalogSpec == CatalogInit /\ [][CatalogNext]_catalogVars

----------------------------------------------------------------------------
(* Properties *)

(* The type invariant; every item has its type. *)
CatalogTypeOK ==
    /\ IsRows(dictType, DictTypeIds, TypeRow)
    /\ IsRows(dictItem, DictItemIds, ItemRow)
    /\ IsRows(config, ConfigIds, ConfigRow)
    /\ \A i \in DOMAIN dictItem : dictItem[i].type \in DOMAIN dictType
    /\ edit \in [CatalogCallers -> Edits]
    /\ spare \cap (DOMAIN dictType \cup DOMAIN dictItem \cup DOMAIN config) = {}
    /\ catalogSeed.step \in {"idle", "type", "item", "config", "done"}
    /\ catalogWork \in 0..MaxCatalogWork

(* findItemsByTypeCode answers with the entry. *)
Served(entry) ==
    \E t \in DOMAIN dictType, i \in DOMAIN dictItem :
        /\ dictType[t] = [code |-> entry.type, enabled |-> TRUE]
        /\ dictItem[i] = [type |-> t, code |-> entry.code, value |-> entry.value, enabled |-> TRUE]

(* Once the seed is through its dictionaries, every entry it lists is      *)
(* served, whatever the back office had made of the dictionaries before,   *)
(* unless a call changed that entry since the run began (upsertDictTypes). *)
SeededEntriesServed ==
    catalogSeed.step \in {"config", "done"} =>
        \A e \in DOMAIN DictSeeds \ touched : Served(DictSeeds[e])

(* The seed never changes the value a parameter has, and a call changes    *)
(* that of a parameter that is not editable only when the seed closed the  *)
(* parameter after the call had read it (SystemConfigService.update).      *)
ConfigValuesKept ==
    [][\A k \in DOMAIN config : config'[k].value # config[k].value =>
          catalogSeed' = catalogSeed /\ (config[k].editable \/ k \in frozen)]_catalogVars
=============================================================================

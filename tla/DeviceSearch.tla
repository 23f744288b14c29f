----------------------------- MODULE DeviceSearch -----------------------------
(***************************************************************************)
(* What a spoken command is meant for (app/src/protocol_conversion.c):     *)
(* generate_ctrl_protocol_data goes through the table of devices, or of    *)
(* scenes, and packs what answers the search, attribute by attribute; the  *)
(* thread that hears the GUI has the tables read again                     *)
(* (refresh_search_config).  A mutex keeps the two apart.                  *)
(*                                                                         *)
(* Names are compared with one name, spaces with one space: a table says   *)
(* what the comparison answers.  A NULL table is the empty one.  A field   *)
(* that is not there is a NULL pointer; where the code reads through it    *)
(* the process dies, and the mutex with it ("fault").  A field that is     *)
(* there is a string.                                                      *)
(***************************************************************************)
EXTENDS Naturals, Sequences

CONSTANTS
    DeviceTables, \* what the table of devices may be, one after the other
    SceneTables,  \* and that of scenes
    MaxSearches,  \* how many searches are made
    MaxRefreshes  \* how often the tables change

SearchTypes == {"DEV_NAME", "DEV_TYPE", "LOC_DEV_NAME", "LOC_DEV_TYPE", "SCENE_NAME"}
ByName      == {"DEV_NAME", "LOC_DEV_NAME"}
ByPlace     == {"LOC_DEV_NAME", "LOC_DEV_TYPE"}

\* PK and serial: are they there?  The type of the PK, 0 if unknown; the name has the name
\* searched; the space is the one searched, another, or not there; the attributes.
Attribute == [name : {"asked", "other", "absent"}, identifier : {"wanted", "other", "absent"}]
Device    == [pk : BOOLEAN, serial : BOOLEAN, type : Nat, named : BOOLEAN,
              space : {"here", "elsewhere", "absent"}, attribute : Seq(Attribute)]
Scene     == [ok : BOOLEAN, named : BOOLEAN]

ASSUME TablesAssumption   == DeviceTables \subseteq Seq(Device) /\ SceneTables \subseteq Seq(Scene)
ASSUME SearchesAssumption == MaxSearches \in Nat /\ MaxRefreshes \in Nat

VARIABLES
    dev_array_js,     \* the table of devices
    sence_array_js,   \* the table of scenes
    config_lock,      \* who holds g_config_lock
    search_pc,        \* where the search is
    search_info,      \* what is searched
    item_num,         \* the items when the loop began
    item,             \* i
    attr,             \* j
    find_dev_flag,    \* is the device packed?
    out_name_matched, \* has its name the name searched?
    out_js,           \* what is packed: the devices' places with their attributes'
    refresh_pc,       \* where the refresh is
    searches,         \* the searches made
    refreshes         \* the refreshes made

tableVars   == <<dev_array_js, sence_array_js>>
loopVars    == <<item_num, item, attr, find_dev_flag, out_name_matched, out_js>>
refreshVars == <<refresh_pc, refreshes>>
searchVars  == <<tableVars, config_lock, search_pc, search_info, loopVars, refreshVars, searches>>

SearchTypeOK ==
    /\ dev_array_js \in DeviceTables \cup {<<>>}
    /\ sence_array_js \in SceneTables \cup {<<>>}
    /\ config_lock \in {"free", "search", "refresh"}
    /\ search_pc \in {"idle", "lock", "item", "attribute", "unlock", "fault"}
    /\ search_info \in [search_type : SearchTypes, dev_type : 0 .. 1]
    /\ item_num \in Nat /\ item \in 1 .. item_num + 1 /\ attr \in Nat \ {0}
    /\ find_dev_flag \in BOOLEAN /\ out_name_matched \in BOOLEAN
    /\ out_js \in Seq([device : Nat, attributes : Seq(Nat)])
    /\ refresh_pc \in {"idle", "delete", "devices", "scenes", "unlock"}
    /\ searches \in 0 .. MaxSearches /\ refreshes \in 0 .. MaxRefreshes

SearchInit ==
    /\ dev_array_js \in DeviceTables /\ sence_array_js \in SceneTables
    /\ config_lock = "free"
    /\ search_pc = "idle" /\ search_info = [search_type |-> "DEV_NAME", dev_type |-> 0]
    /\ item_num = 0 /\ item = 1 /\ attr = 1
    /\ find_dev_flag = FALSE /\ out_name_matched = FALSE /\ out_js = <<>>
    /\ refresh_pc = "idle" /\ searches = 0 /\ refreshes = 0
-------------------------------------------------------------------------------
NoDevice == [pk |-> FALSE, serial |-> FALSE, type |-> 0, named |-> FALSE, space |-> "absent",
             attribute |-> <<>>]
NoScene  == [ok |-> FALSE, named |-> FALSE]

\* cJSON_GetArrayItem: past the end there is nothing.
ItemOf(items, i, nothing) == IF i \in 1 .. Len(items) THEN items[i] ELSE nothing

TheDevice == ItemOf(dev_array_js, item, NoDevice)
TheScene  == ItemOf(sence_array_js, item, NoScene)

\* attr_opt_ctrl_by_voice, scene_opt_ctrl_by_voice: type 0 is any, but for a search by type.
Ask(t, d) ==
    /\ search_pc = "idle" /\ searches < MaxSearches
    /\ t \notin ByName => d # 0 \/ t = "SCENE_NAME"
    /\ searches' = searches + 1
    /\ search_info' = [search_type |-> t, dev_type |-> d]
    /\ search_pc' = "lock"
    /\ UNCHANGED <<tableVars, config_lock, loopVars, refreshVars>>

\* The mutex is taken, and the items are counted.
SearchLocks ==
    /\ search_pc = "lock" /\ config_lock = "free"
    /\ config_lock' = "search"
    /\ item_num' = IF search_info.search_type = "SCENE_NAME" THEN Len(sence_array_js)
                                                            ELSE Len(dev_array_js)
    /\ item' = 1 /\ out_js' = <<>> /\ attr' = 1
    /\ search_pc' = "item"
    /\ find_dev_flag' = FALSE /\ out_name_matched' = FALSE
    /\ UNCHANGED <<tableVars, search_info, searches, refreshVars>>

searchRest == <<tableVars, config_lock, search_info, item_num, searches, refreshVars>>

ItemsOver ==
    /\ search_pc = "item" /\ item > item_num
    /\ search_pc' = "unlock"
    /\ UNCHANGED <<item, attr, find_dev_flag, out_name_matched, out_js, searchRest>>

\* A search by place and type looks up the string of the PK before it asks for the PK.
NullPk(d) == search_info.search_type = "LOC_DEV_TYPE" /\ ~d.pk

\* The tests before the attributes: a "continue" each.
Passes(d) ==
    /\ d.pk /\ d.serial /\ d.type # 0
    /\ \/ search_info.dev_type = d.type
       \/ search_info.search_type \in ByName /\ search_info.dev_type = 0
    /\ search_info.search_type \in ByPlace => d.space = "here"

AtDevice == search_pc = "item" /\ item <= item_num /\ search_info.search_type # "SCENE_NAME"

\* Slip: the last device's flags are kept.
DeviceFlagsKept ==
    /\ AtDevice /\ ~NullPk(TheDevice)
    /\ out_name_matched' = (out_name_matched \/ TheDevice.named)
    /\ attr' = 1
    /\ \/ Passes(TheDevice) /\ search_pc' = "attribute" /\ UNCHANGED item
       \/ ~Passes(TheDevice) /\ item' = item + 1 /\ UNCHANGED search_pc
    /\ UNCHANGED <<find_dev_flag, out_js, searchRest>>

DeviceTested ==
    /\ AtDevice /\ ~NullPk(TheDevice)
    /\ find_dev_flag' = FALSE
    /\ out_name_matched' = (search_info.search_type \in ByName /\ Passes(TheDevice)
                            /\ TheDevice.named)
    /\ attr' = 1
    /\ \/ Passes(TheDevice) /\ search_pc' = "attribute" /\ UNCHANGED item
       \/ ~Passes(TheDevice) /\ item' = item + 1 /\ UNCHANGED search_pc
    /\ UNCHANGED <<out_js, searchRest>>

AtAnAttribute == search_pc = "attribute" /\ attr <= Len(TheDevice.attribute)
TheAttribute  == TheDevice.attribute[attr]

\* The identifier is looked at, whether it is there or not: behind the name, in a search by name.
Compared(a) ==
    /\ a.name # "absent"
    /\ search_info.search_type \in ByName => a.name = "asked" \/ out_name_matched

\* An attribute of the device: the first that answers packs the device.
AttributeTested ==
    /\ AtAnAttribute /\ ~(Compared(TheAttribute) /\ TheAttribute.identifier = "absent")
    /\ LET chosen == Compared(TheAttribute) /\ TheAttribute.identifier = "wanted"
           last   == Len(out_js)
       IN \/ ~chosen /\ UNCHANGED <<out_js, find_dev_flag>>
          \/ /\ chosen /\ ~find_dev_flag
             /\ find_dev_flag' = TRUE
             /\ out_js' = Append(out_js, [device |-> item, attributes |-> <<attr>>])
          \/ /\ chosen /\ find_dev_flag
             /\ out_js' = [out_js EXCEPT ![last].attributes = Append(@, attr)]
             /\ UNCHANGED find_dev_flag
    /\ attr' = attr + 1
    /\ UNCHANGED <<search_pc, item, out_name_matched, searchRest>>

AttributesOver ==
    /\ search_pc = "attribute" /\ attr > Len(TheDevice.attribute)
    /\ item' = item + 1 /\ search_pc' = "item"
    /\ UNCHANGED <<attr, find_dev_flag, out_name_matched, out_js, searchRest>>

SceneTested ==
    /\ search_pc = "item" /\ item <= item_num /\ search_info.search_type = "SCENE_NAME"
    /\ out_js' = IF TheScene.ok /\ TheScene.named
                 THEN Append(out_js, [device |-> item, attributes |-> <<>>]) ELSE out_js
    /\ item' = item + 1
    /\ UNCHANGED <<search_pc, attr, find_dev_flag, out_name_matched, searchRest>>

\* The process reads through a NULL pointer, and dies.
SearchFaults ==
    /\ \/ AtDevice /\ NullPk(TheDevice)
       \/ AtAnAttribute /\ Compared(TheAttribute) /\ TheAttribute.identifier = "absent"
    /\ search_pc' = "fault"
    /\ UNCHANGED <<item, attr, find_dev_flag, out_name_matched, out_js, searchRest>>

\* What is packed is sent to the GUI (GuiLink).
SearchUnlocks ==
    /\ search_pc = "unlock"
    /\ config_lock' = "free" /\ search_pc' = "idle"
    /\ UNCHANGED <<tableVars, search_info, loopVars, searches, refreshVars>>

Generate == \/ SearchLocks \/ ItemsOver \/ DeviceTested \/ AttributeTested \/ AttributesOver
            \/ SceneTested \/ SearchFaults \/ SearchUnlocks
-------------------------------------------------------------------------------
\* refresh_search_config: the mutex, the old table deleted, the new one read, or none.
refreshRest == <<search_pc, search_info, loopVars, searches>>

\* Slip: the mutex is not taken.
RefreshUnlocked ==
    /\ refresh_pc = "idle" /\ refreshes < MaxRefreshes
    /\ refresh_pc' = "delete" /\ refreshes' = refreshes + 1
    /\ UNCHANGED <<tableVars, config_lock, refreshRest>>

RefreshLocks ==
    /\ refresh_pc = "idle" /\ config_lock = "free" /\ refreshes < MaxRefreshes
    /\ config_lock' = "refresh" /\ refresh_pc' = "delete" /\ refreshes' = refreshes + 1
    /\ UNCHANGED <<tableVars, refreshRest>>

\* CONFIG_TYPE_DEVICE or CONFIG_TYPE_SCENE
RefreshDeletes ==
    /\ refresh_pc = "delete"
    /\ \/ dev_array_js' = <<>> /\ refresh_pc' = "devices" /\ UNCHANGED sence_array_js
       \/ sence_array_js' = <<>> /\ refresh_pc' = "scenes" /\ UNCHANGED dev_array_js
    /\ UNCHANGED <<config_lock, refreshes, refreshRest>>

RefreshReads ==
    /\ \/ /\ refresh_pc = "devices"
          /\ dev_array_js' \in DeviceTables \cup {<<>>} /\ UNCHANGED sence_array_js
       \/ /\ refresh_pc = "scenes"
          /\ sence_array_js' \in SceneTables \cup {<<>>} /\ UNCHANGED dev_array_js
    /\ refresh_pc' = "unlock"
    /\ UNCHANGED <<config_lock, refreshes, refreshRest>>

RefreshUnlocks ==
    /\ refresh_pc = "unlock"
    /\ refresh_pc' = "idle" /\ config_lock' = "free"
    /\ UNCHANGED <<tableVars, refreshes, refreshRest>>

Refresh == RefreshLocks \/ RefreshDeletes \/ RefreshReads \/ RefreshUnlocks

SearchNext == \/ Generate \/ Refresh
              \/ \E t \in SearchTypes, d \in 0 .. 1 : Ask(t, d)

SearchSpec == SearchInit /\ [][SearchNext]_searchVars
-------------------------------------------------------------------------------
\* What a search is to find: of the devices that pass, the attributes that do.
Named(d) ==
    {j \in 1 .. Len(d.attribute) :
        /\ d.attribute[j].name # "absent"
        /\ \/ search_info.search_type \notin ByName
           \/ d.named \/ d.attribute[j].name = "asked"}

Chosen(d) == {j \in Named(d) : d.attribute[j].identifier = "wanted"}

\* What it dies of: no PK, or no identifier where it has to be compared.
Nulls(d) == {j \in Named(d) : d.attribute[j].identifier = "absent"}

Fatal(d) == NullPk(d) \/ (Passes(d) /\ Nulls(d) # {})

FatalDevices == {i \in 1 .. Len(dev_array_js) : /\ search_info.search_type # "SCENE_NAME"
                                                /\ Fatal(dev_array_js[i])}

FoundDevices ==
    {i \in 1 .. Len(dev_array_js) : Passes(dev_array_js[i]) /\ Chosen(dev_array_js[i]) # {}}

FoundScenes ==
    {i \in 1 .. Len(sence_array_js) : sence_array_js[i].ok /\ sence_array_js[i].named}

\* s is S in order.
IsListing(s, S) == /\ {s[k] : k \in 1 .. Len(s)} = S
                   /\ \A k, l \in 1 .. Len(s) : k < l => s[k] < s[l]

(***************************************************************************)
(* What is packed answers the search, of the tables as they are when it is *)
(* over: no flag of one device decides for the next, and no refresh comes  *)
(* in between.  The process survives the search of the tables that have    *)
(* every field the search reads through, and of no other: neither a device *)
(* that is passed over nor an attribute that is not compared can end it.   *)
(***************************************************************************)
SearchExact ==
    /\ search_pc = "unlock" =>
        /\ FatalDevices = {}
        /\ IsListing([k \in 1 .. Len(out_js) |-> out_js[k].device],
                     IF search_info.search_type = "SCENE_NAME" THEN FoundScenes ELSE FoundDevices)
        /\ \A k \in 1 .. Len(out_js) :
              IsListing(out_js[k].attributes,
                        IF search_info.search_type = "SCENE_NAME"
                        THEN {} ELSE Chosen(dev_array_js[out_js[k].device]))
    /\ search_pc = "fault" => FatalDevices # {}
===============================================================================

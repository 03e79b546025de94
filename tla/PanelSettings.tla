--------------------------- MODULE PanelSettings ---------------------------
(***************************************************************************)
(* core/settings.py behind the panel's settings route.  Requests run in    *)
(* threads of their own, each query is a step, and the panel may end       *)
(* between two of them.                                                    *)
(***************************************************************************)
EXTENDS Integers, SequencesExt

CONSTANTS
  SettingKey,  \* DEFAULTS, without recent_values
  Setting,     \* values; Default is one of them
  Default,
  Patcher,     \* PATCH requests
  Remembered,  \* values given to remember_value()
  Keep         \* remember_value's keep

ASSUME SettingsAssumption == Default \in Setting /\ Keep \in Nat

VARIABLES
  row,         \* the settings table: key -> value, Default without a row
  recent,      \* its row recent_values, for one argument name, or NoRow
  defaults,    \* the list in DEFAULTS, which the process changes in place
  patcher,     \* per request: [patch, left, data, pc]
  reader,      \* per remembered value: the list its caller loaded, NotLoaded, or
               \* NoRow for the one in DEFAULTS
  lastSet      \* history: key -> the last value persisted for it

settingVars == <<row, recent, defaults, patcher, reader, lastSet>>

NotLoaded == <<"not loaded">>
NoRow == <<"no row">>
NoPatch == [pc |-> "idle", patch |-> << >>, left |-> {}, data |-> [k \in SettingKey |-> Default]]

-----------------------------------------------------------------------------
\* update_settings(): _load() everything, then persist each key of the patch.
PatchStarts(p) ==
  /\ patcher[p].pc = "idle"
  /\ \E keys \in SUBSET SettingKey \ {{}} : \E patch \in [keys -> Setting] :
       patcher' = [patcher EXCEPT ![p] =
         [pc |-> "persist", patch |-> patch, left |-> keys, data |-> row]]
  /\ UNCHANGED <<row, recent, defaults, reader, lastSet>>

\* _persist_key(): one row, and no other.
PersistedAll(p, k) == [patcher[p].data EXCEPT ![k] = patcher[p].patch[k]]
Persisted(p, k) == [row EXCEPT ![k] = patcher[p].patch[k]]

Persists(p, k) ==
  /\ patcher[p].pc = "persist" /\ k \in patcher[p].left
  /\ row' = Persisted(p, k)
  /\ lastSet' = [lastSet EXCEPT ![k] = patcher[p].patch[k]]
  /\ patcher' = [patcher EXCEPT ![p].left = @ \ {k}, ![p].data[k] = patcher[p].patch[k]]
  /\ UNCHANGED <<recent, defaults, reader>>

\* The answer is the data loaded before, with the patch on it.
PatchAnswers(p) ==
  /\ patcher[p].pc = "persist" /\ patcher[p].left = {}
  /\ patcher' = [patcher EXCEPT ![p].pc = "answered"]
  /\ UNCHANGED <<row, recent, defaults, reader, lastSet>>

PatchForgotten(p) ==
  /\ patcher[p].pc = "answered"
  /\ patcher' = [patcher EXCEPT ![p] = NoPatch]
  /\ UNCHANGED <<row, recent, defaults, reader, lastSet>>

\* The panel ends: keys persisted so far stay, the rest was never answered.
PanelRestarts ==
  /\ patcher' = [p \in Patcher |-> NoPatch]
  /\ reader' = [v \in Remembered |-> NotLoaded] /\ defaults' = << >>
  /\ UNCHANGED <<row, recent, lastSet>>

-----------------------------------------------------------------------------
\* remember_value(): load, move to the front, persist the whole list.  Callers
\* that load before there is a row all hold the one list of DEFAULTS.
LoadsRecent(v) ==
  /\ reader[v] = NotLoaded
  /\ reader' = [reader EXCEPT ![v] = recent]
  /\ UNCHANGED <<row, recent, defaults, patcher, lastSet>>

Remember(list, v) ==
  LET moved == <<v>> \o RemoveFirst(list, v)
  IN SubSeq(moved, 1, IF Len(moved) < Keep THEN Len(moved) ELSE Keep)

PersistsRecent(v) ==
  /\ reader[v] # NotLoaded
  /\ recent' = Remember(IF reader[v] = NoRow THEN defaults ELSE reader[v], v)
  /\ defaults' = IF reader[v] = NoRow THEN recent' ELSE defaults
  /\ reader' = [reader EXCEPT ![v] = NotLoaded]
  /\ UNCHANGED <<row, patcher, lastSet>>

-----------------------------------------------------------------------------
SettingsInit ==
  /\ row = [k \in SettingKey |-> Default] /\ lastSet = [k \in SettingKey |-> Default]
  /\ recent = NoRow /\ defaults = << >> /\ reader = [v \in Remembered |-> NotLoaded]
  /\ patcher = [p \in Patcher |-> NoPatch]

SettingsNext ==
  \/ \E p \in Patcher : \/ PatchStarts(p) \/ PatchAnswers(p) \/ PatchForgotten(p)
                        \/ \E k \in SettingKey : Persists(p, k)
  \/ \E v \in Remembered : LoadsRecent(v) \/ PersistsRecent(v)
  \/ PanelRestarts

SettingsSpec == SettingsInit /\ [][SettingsNext]_settingVars

SettingsTypeOK ==
  /\ row \in [SettingKey -> Setting] /\ lastSet \in [SettingKey -> Setting]
  /\ \A list \in {recent, defaults} \ {NoRow} :
       IsInjective(list) /\ ToSet(list) \subseteq Remembered /\ Len(list) <= Keep

(* Whatever patches overlap or are cut short, each setting is the last value
   somebody set for it, and an answered patch shows its own values: a patch
   never puts back what another changed (update_settings persists the keys it
   was given and no others).                                                  *)
PatchesDoNotUndoEachOther ==
  /\ row = lastSet
  /\ \A p \in Patcher : patcher[p].pc = "answered" =>
       \A k \in DOMAIN patcher[p].patch : patcher[p].data[k] = patcher[p].patch[k]
=============================================================================

-------------------------- MODULE NzbdavExporter --------------------------
(***************************************************************************)
(* nzbdav-exporter/exporter.py: a background thread scrapes NzbDAV round   *)
(* after round and replaces samples one by one; /metrics renders whatever  *)
(* is there at any moment (render_metrics holds the lock that every _set   *)
(* and _remove_family takes, so a page is one state of "samples").         *)
(*                                                                         *)
(* NzbDAV is external: each call answers, fails, or (the queue) answers    *)
(* with slots the code after the validation cannot process.  What is kept  *)
(* of a sample is whether this round set it.                               *)
(***************************************************************************)
EXTENDS Integers

CONSTANTS
  Label,   \* categories, statuses
  Config,  \* values of the configuration NzbDAV reports
  Unset    \* _last_config before the first answer

ASSUME ExporterAssumption == Unset \notin Config

VARIABLES
  at,       \* the scraper's place: a step of Round, or "asleep"
  slots,    \* queue slots of this round: their labels per family
  samples,  \* per family: the labels that have a sample, each "now" or "old"
  up, configOk, publishedConfig,   \* nzbdav_up, nzbdav_config_scrape_success, nzbdav_config_*
  config, lastConfig,              \* the local variable and _last_config
  success,  \* scrape_success
  failures, \* history: the calls of this round that failed
  reported  \* history: the last configuration NzbDAV answered

vars == <<at, slots, samples, up, configOk, publishedConfig, config, lastConfig,
          success, failures, reported>>
configs == <<configOk, publishedConfig, config, lastConfig, reported>>

QueueFamily == {"category", "status"}
Family == QueueFamily \cup {"preflight"}

\* The places of the scraper before it clears and while it fills a family.
ClearAt == [category |-> "clear category", status |-> "clear status"]
FillAt  == [category |-> "fill category", status |-> "fill status"]

Empty == [f \in QueueFamily |-> {}]

\* _set and _remove_family on the samples of one family.
NoClear(f) == samples[f]
Cleared(f) == [l \in {} |-> "now"]
WithSample(f, l) ==
  [samples EXCEPT ![f] = [k \in DOMAIN @ \cup {l} |-> IF k = l THEN "now" ELSE @[k]]]

-----------------------------------------------------------------------------
\* time.sleep is over: what is there now is from an older round.
Wake ==
  /\ at = "asleep"
  /\ at' = "queue"
  /\ samples' = [f \in Family |-> [l \in DOMAIN samples[f] |-> "old"]]
  /\ slots' = Empty
  /\ success' = TRUE /\ failures' = {}
  /\ UNCHANGED <<up, configs>>

\* A call that failed, or answered something of the wrong shape.
CallFails(call) ==
  /\ failures' = failures \cup {call}
  /\ success' = FALSE

QueueCall ==
  /\ at = "queue"
  /\ at' = "clear category"
  /\ \/ slots' \in [QueueFamily -> SUBSET Label] /\ UNCHANGED <<success, failures>>
     \/ CallFails("queue") /\ slots' = Empty
  /\ UNCHANGED <<samples, up, configs>>

\* A slot breaks the sums or the grouping (a category that is a list, a total
\* that overflows): the exception leaves _scrape(), _scraper() reports it.
ScraperDies == "dead"
AfterException == "asleep"

Exception ==
  /\ at \in {"clear category", "fill category", "fill status"}
  /\ "queue" \notin failures
  /\ at' = AfterException
  /\ failures' = failures \cup {"slots"}
  /\ up' = FALSE
  /\ UNCHANGED <<slots, samples, success, configs>>

Clear(f) ==
  /\ at = ClearAt[f]
  /\ at' = FillAt[f]
  /\ samples' = [samples EXCEPT ![f] = Cleared(f)]
  /\ UNCHANGED <<slots, up, success, failures, configs>>

FillOne(f, l) ==
  /\ at = FillAt[f] /\ l \in slots[f]
  /\ samples' = WithSample(f, l)
  /\ slots' = [slots EXCEPT ![f] = @ \ {l}]
  /\ UNCHANGED <<at, up, success, failures, configs>>

Filled(f) ==
  /\ at = FillAt[f] /\ slots[f] = {}
  /\ at' = IF f = "category" THEN "clear status" ELSE "history"
  /\ UNCHANGED <<slots, samples, up, success, failures, configs>>

HistoryCall ==
  /\ at = "history"
  /\ at' = "config"
  /\ UNCHANGED <<success, failures>> \/ CallFails("history")
  /\ UNCHANGED <<slots, samples, up, configs>>

\* A failed config call keeps the last known values.
ForgetOnFailure == Unset
OnConfigFailure == lastConfig

ConfigCall ==
  /\ at = "config"
  /\ at' = "publish config"
  /\ \/ /\ \E c \in Config : config' = c /\ lastConfig' = c /\ reported' = c
        /\ configOk' = TRUE
        /\ UNCHANGED <<success, failures>>
     \/ /\ CallFails("config")
        /\ config' = OnConfigFailure /\ configOk' = FALSE
        /\ UNCHANGED <<lastConfig, reported>>
  /\ UNCHANGED <<slots, samples, up, publishedConfig>>

PublishConfig ==
  /\ at = "publish config"
  /\ at' = "clear preflight"
  /\ publishedConfig' = config
  /\ UNCHANGED <<slots, samples, up, success, failures, configOk, config, lastConfig, reported>>

\* The preflight mode is a label: config.get("preflight.mode") or "unknown".
ClearPreflight ==
  /\ at = "clear preflight"
  /\ at' = "set preflight"
  /\ samples' = [samples EXCEPT !["preflight"] = Cleared("preflight")]
  /\ UNCHANGED <<slots, up, success, failures, configs>>

SetPreflight ==
  /\ at = "set preflight"
  /\ at' = "up"
  /\ samples' = WithSample("preflight", config)
  /\ UNCHANGED <<slots, up, success, failures, configs>>

SetUp ==
  /\ at = "up"
  /\ at' = "asleep"
  /\ up' = success
  /\ UNCHANGED <<slots, samples, success, failures, configs>>

-----------------------------------------------------------------------------
Init ==
  /\ at = "asleep" /\ slots = Empty
  /\ samples = [f \in Family |-> [l \in {} |-> "now"]]
  /\ up = FALSE /\ configOk = FALSE
  /\ publishedConfig = Unset /\ config = Unset /\ lastConfig = Unset
  /\ success = TRUE /\ failures = {"start"}
  /\ reported = Unset

Next ==
  \/ Wake \/ QueueCall \/ Exception
  \/ \E f \in QueueFamily : Clear(f) \/ Filled(f) \/ \E l \in Label : FillOne(f, l)
  \/ HistoryCall \/ ConfigCall \/ PublishConfig
  \/ ClearPreflight \/ SetPreflight \/ SetUp

Spec == Init /\ [][Next]_vars

\* The thread is scheduled and every call has a timeout.
FairSpec == Spec /\ WF_vars(Next)

-----------------------------------------------------------------------------
(* "Remove stale labeled samples before the next scrape": no page, at whatever
   moment it is rendered, shows labels of two rounds in one family, so a
   category or status that is gone cannot be added to those that are there, and
   one preflight mode is shown at most.                                      *)
LabelsFromOneRound ==
  /\ \A f \in Family : \A k, l \in DOMAIN samples[f] : samples[f][k] = samples[f][l]
  /\ \A k, l \in DOMAIN samples["preflight"] : k = l

(* Between rounds the published configuration is the last one NzbDAV answered,
   however many rounds have failed since; a success flag of 1 vouches for it.
   The one exception is a round that an exception cut before the config call:
   it leaves the configuration of the round before it, which is the same.     *)
ConfigIsLastReported ==
  at = "asleep" => publishedConfig = reported /\ (configOk => reported # Unset)

(* No answer of NzbDAV ends the scraper thread: rounds go on.                *)
ScrapesForever == []<>(at = "asleep") /\ []<>(at # "asleep")
=============================================================================

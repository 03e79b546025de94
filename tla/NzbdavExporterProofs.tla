------------------------ MODULE NzbdavExporterProofs ------------------------
(*****************************************************************************)
(* Proofs about the exporter, for every set of labels and configurations:   *)
(* what a scrape shows, wherever it falls in a round.                       *)
(*****************************************************************************)
EXTENDS NzbdavExporter, TLAPS

(* Where the scraper thread can be.                                        *)
Place == {"asleep", "queue", "clear category", "fill category", "clear status", "fill status",
          "history", "config", "publish config", "clear preflight", "set preflight", "up"}

(* The places of a round before its config call is answered.               *)
BeforeConfig == {"queue", "clear category", "fill category", "clear status", "fill status",
                 "history", "config"}

(* All samples of a family are of one round.                               *)
Alike(r) == \A k, l \in DOMAIN r : r[k] = r[l]

(* All of them are of this round.                                          *)
AllNow(r) == \A l \in DOMAIN r : r[l] = "now"

(* The family has at most one label.                                       *)
AtMostOne(r) == \A k, l \in DOMAIN r : k = l

(* Types of the thread and the samples.                                    *)
SampleTypes ==
  /\ at \in Place
  /\ DOMAIN samples = Family
  /\ slots \in [QueueFamily -> SUBSET Label]
  /\ config \in Config \cup {Unset} /\ lastConfig \in Config \cup {Unset}

(* All labels of a family are of one round, and those of the family that is     *)
(* being filled are of this one.                                                *)
SamplesInv ==
  /\ SampleTypes
  /\ \A f \in Family : Alike(samples[f])
  /\ \A f \in QueueFamily : at = FillAt[f] => AllNow(samples[f])
  /\ at = "set preflight" => DOMAIN samples["preflight"] = {}
  /\ AtMostOne(samples["preflight"])

(* The local variable and the published value follow the last answer.           *)
ConfigInv ==
  /\ at \in Place
  /\ lastConfig = reported
  /\ at = "publish config" => config = reported
  /\ at # "publish config" => publishedConfig = reported
  /\ configOk => reported # Unset

(* The families and where they are emptied and filled.                     *)
LEMMA FamilyFacts ==
  /\ QueueFamily = {"category", "status"} /\ QueueFamily \subseteq Family /\ "preflight" \in Family
  /\ "preflight" \notin QueueFamily
  /\ ClearAt["category"] = "clear category" /\ ClearAt["status"] = "clear status"
  /\ FillAt["category"] = "fill category" /\ FillAt["status"] = "fill status"
BY DEF QueueFamily, Family, ClearAt, FillAt

(* Nothing has been reported.                                              *)
LEMMA ConfigInvInit == Init => ConfigInv
BY DEF Init, ConfigInv, Place

(* Every step of the thread and of NzbDAV keeps it.                        *)
LEMMA ConfigInvStep == ConfigInv /\ [Next]_vars => ConfigInv'
<1> SUFFICES ASSUME ConfigInv, [Next]_vars PROVE ConfigInv'
  OBVIOUS
<1> USE DEF ConfigInv, Place, configs
<1>1. CASE Wake
  BY <1>1 DEF Wake
<1>2. CASE QueueCall
  BY <1>2 DEF QueueCall
<1>3. CASE Exception
  BY <1>3 DEF Exception, AfterException
<1>4. ASSUME NEW f \in QueueFamily, Clear(f) PROVE ConfigInv'
  BY <1>4, FamilyFacts DEF Clear
<1>5. ASSUME NEW f \in QueueFamily, Filled(f) PROVE ConfigInv'
  BY <1>5, FamilyFacts DEF Filled
<1>6. ASSUME NEW f \in QueueFamily, NEW l \in Label, FillOne(f, l) PROVE ConfigInv'
  BY <1>6 DEF FillOne
<1>7. CASE HistoryCall
  BY <1>7 DEF HistoryCall
<1>8. CASE ConfigCall
  <2>1. at' = "publish config" /\ publishedConfig' = publishedConfig
    BY <1>8 DEF ConfigCall
  <2>2. CASE \E c \in Config : config' = c /\ lastConfig' = c /\ reported' = c
    <3>1. config' = reported' /\ lastConfig' = reported' /\ reported' # Unset
      BY <2>2, ExporterAssumption
    <3> QED BY <2>1, <3>1
  <2>3. CASE config' = lastConfig /\ ~configOk' /\ UNCHANGED <<lastConfig, reported>>
    BY <2>1, <2>3
  <2> QED BY <1>8, <2>2, <2>3 DEF ConfigCall, OnConfigFailure
<1>9. CASE PublishConfig
  BY <1>9 DEF PublishConfig
<1>10. CASE ClearPreflight
  BY <1>10 DEF ClearPreflight
<1>11. CASE SetPreflight
  BY <1>11 DEF SetPreflight
<1>12. CASE SetUp
  BY <1>12 DEF SetUp
<1>13. CASE UNCHANGED vars
  BY <1>13 DEF vars
<1> QED BY <1>1, <1>2, <1>3, <1>4, <1>5, <1>6, <1>7, <1>8, <1>9, <1>10, <1>11, <1>12, <1>13 DEF Next

(* Between rounds the published configuration is the last one NzbDAV
   answered, however many rounds failed since (_scrape in nzbdav-
   exporter/exporter.py), for every set of configurations.                 *)
THEOREM ConfigCorrectness == Spec => []ConfigIsLastReported
<1>1. ConfigInv => ConfigIsLastReported
  BY DEF ConfigInv, ConfigIsLastReported
<1> QED BY ConfigInvInit, ConfigInvStep, <1>1, PTL DEF Spec

-----------------------------------------------------------------------------

(* Families of one round.                                                  *)
LEMMA AlikeFacts ==
  /\ \A r : AllNow(r) \/ AtMostOne(r) => Alike(r)
  /\ \A r : DOMAIN r = {} => AllNow(r) /\ AtMostOne(r)
BY DEF Alike, AllNow, AtMostOne

(* No family has a sample.                                                 *)
LEMMA SamplesInvInit == Init => SamplesInv
<1> SUFFICES ASSUME Init PROVE SamplesInv
  OBVIOUS
<1>1. DOMAIN samples = Family /\ \A f \in Family : DOMAIN samples[f] = {}
  BY DEF Init
<1>2. "preflight" \in Family
  BY DEF Family
<1>3. SampleTypes
  BY <1>1 DEF Init, SampleTypes, Place, Empty
<1> QED BY <1>1, <1>2, <1>3, AlikeFacts, FamilyFacts DEF Init, SamplesInv

(* Steps that leave the samples alone keep what is said of them, as long as     *)
(* they do not come to the place that fills a family.                           *)
LEMMA SamplesStay ==
  ASSUME SamplesInv, samples' = samples, SampleTypes', 
         \A f \in QueueFamily : at' = FillAt[f] => at = FillAt[f],
         at' = "set preflight" => at = "set preflight"
  PROVE  SamplesInv'
BY DEF SamplesInv

(* A family is emptied.                                                         *)
LEMMA ClearedFacts ==
  ASSUME NEW f \in Family, samples' = [samples EXCEPT ![f] = Cleared(f)], DOMAIN samples = Family
  PROVE  /\ DOMAIN samples' = Family /\ DOMAIN samples'[f] = {}
         /\ \A g \in Family : g # f => samples'[g] = samples[g]
BY DEF Cleared

(* A family gets a sample of this round.                                        *)
LEMMA SampleFacts ==
  ASSUME NEW f \in Family, NEW l, samples' = WithSample(f, l), DOMAIN samples = Family
  PROVE  /\ DOMAIN samples' = Family
         /\ AllNow(samples[f]) => AllNow(samples'[f])
         /\ DOMAIN samples[f] = {} => AtMostOne(samples'[f])
         /\ \A g \in Family : g # f => samples'[g] = samples[g]
<1> DEFINE s == [k \in DOMAIN samples[f] \cup {l} |-> IF k = l THEN "now" ELSE samples[f][k]]
<1>1. samples' = [samples EXCEPT ![f] = s]
  BY DEF WithSample
<1>2. AllNow(samples[f]) => AllNow(s)
  BY DEF AllNow
<1>3. DOMAIN samples[f] = {} => AtMostOne(s)
  BY DEF AtMostOne
<1> HIDE DEF s
<1>4. samples'[f] = s
  BY <1>1
<1>5. DOMAIN samples' = Family /\ \A g \in Family : g # f => samples'[g] = samples[g]
  BY <1>1
<1> QED BY <1>2, <1>3, <1>4, <1>5

(* Every step keeps it.                                                    *)
LEMMA SamplesInvStep == SamplesInv /\ [Next]_vars => SamplesInv'
<1> SUFFICES ASSUME SamplesInv, [Next]_vars PROVE SamplesInv'
  OBVIOUS
<1> USE DEF SamplesInv, SampleTypes, Place, configs
<1>1. CASE Wake
  <2>1. /\ at' = "queue" /\ slots' = Empty /\ UNCHANGED <<config, lastConfig>>
        /\ samples' = [f \in Family |-> [l \in DOMAIN samples[f] |-> "old"]]
    BY <1>1 DEF Wake
  <2>2. DOMAIN samples' = Family /\ \A f \in Family : samples'[f] = [l \in DOMAIN samples[f] |-> "old"]
    BY <2>1
  <2>3. ASSUME NEW f \in Family PROVE Alike(samples'[f])
    <3>1. samples'[f] = [l \in DOMAIN samples[f] |-> "old"]
      BY <2>2
    <3>2. Alike([l \in DOMAIN samples[f] |-> "old"])
      BY DEF Alike
    <3> QED BY <3>1, <3>2, Zenon
  <2>4. AtMostOne(samples'["preflight"])
    BY <2>2, FamilyFacts DEF AtMostOne
  <2>5. SampleTypes'
    BY <2>1, <2>2, FamilyFacts DEF Empty
  <2>6. at' \notin {FillAt[f] : f \in QueueFamily} \cup {"set preflight"}
    BY <2>1, FamilyFacts
  <2> QED BY <2>3, <2>4, <2>5, <2>6
<1>2. CASE QueueCall
  <2>1. at' = "clear category" /\ samples' = samples /\ UNCHANGED <<config, lastConfig>>
        /\ slots' \in [QueueFamily -> SUBSET Label]
    BY <1>2 DEF QueueCall, Empty
  <2> QED BY <2>1, FamilyFacts, SamplesStay
<1>3. CASE Exception
  <2>1. at' = "asleep" /\ samples' = samples /\ UNCHANGED <<config, lastConfig>> /\ slots' = slots
    BY <1>3 DEF Exception, AfterException
  <2> QED BY <2>1, FamilyFacts, SamplesStay
<1>4. ASSUME NEW f \in QueueFamily, Clear(f) PROVE SamplesInv'
  <2>1. at = ClearAt[f] /\ at' = FillAt[f] /\ UNCHANGED <<config, lastConfig>> /\ slots' = slots
    BY <1>4 DEF Clear
  <2>2. /\ DOMAIN samples' = Family /\ DOMAIN samples'[f] = {}
        /\ \A g \in Family : g # f => samples'[g] = samples[g]
    BY <1>4, FamilyFacts, ClearedFacts DEF Clear
  <2>3. \A g \in QueueFamily : at' = FillAt[g] => g = f
    BY <2>1, FamilyFacts
  <2>4. AllNow(samples'[f]) /\ Alike(samples'[f])
    BY <2>2, AlikeFacts
  <2>5. SampleTypes' /\ at' # "set preflight" /\ f # "preflight"
    BY <2>1, <2>2, FamilyFacts
  <2>6. \A g \in Family : Alike(samples'[g])
    BY <2>2, <2>4
  <2>7. AtMostOne(samples'["preflight"])
    BY <2>2, <2>5, FamilyFacts
  <2> QED BY <2>3, <2>4, <2>5, <2>6, <2>7
<1>5. ASSUME NEW f \in QueueFamily, Filled(f) PROVE SamplesInv'
  <2>1. /\ at' = (IF f = "category" THEN "clear status" ELSE "history")
        /\ samples' = samples /\ UNCHANGED <<config, lastConfig>> /\ slots' = slots
    BY <1>5 DEF Filled
  <2> QED BY <2>1, FamilyFacts, SamplesStay
<1>6. ASSUME NEW f \in QueueFamily, NEW l \in Label, FillOne(f, l) PROVE SamplesInv'
  <2>1. at = FillAt[f] /\ at' = at /\ UNCHANGED <<config, lastConfig>> /\ slots' = [slots EXCEPT ![f] = slots[f] \ {l}]
    BY <1>6 DEF FillOne
  <2>2. /\ DOMAIN samples' = Family /\ (AllNow(samples[f]) => AllNow(samples'[f]))
        /\ \A g \in Family : g # f => samples'[g] = samples[g]
    BY <1>6, FamilyFacts, SampleFacts DEF FillOne
  <2>3. AllNow(samples'[f]) /\ Alike(samples'[f])
    BY <2>1, <2>2, AlikeFacts
  <2>4. SampleTypes'
    BY <2>1, <2>2
  <2>5. at' # "set preflight" /\ f # "preflight" /\ \A g \in QueueFamily : at' = FillAt[g] => g = f
    BY <2>1, FamilyFacts
  <2>6. \A g \in Family : Alike(samples'[g])
    BY <2>2, <2>3
  <2>7. AtMostOne(samples'["preflight"])
    BY <2>2, <2>5, FamilyFacts
  <2> QED BY <2>3, <2>4, <2>5, <2>6, <2>7
<1>7. CASE HistoryCall
  <2>1. at' = "config" /\ samples' = samples /\ UNCHANGED <<config, lastConfig>> /\ slots' = slots
    BY <1>7 DEF HistoryCall
  <2> QED BY <2>1, FamilyFacts, SamplesStay
<1>8. CASE ConfigCall
  <2>1. at' = "publish config" /\ samples' = samples /\ slots' = slots
    BY <1>8 DEF ConfigCall
  <2>2. config' \in Config \cup {Unset} /\ lastConfig' \in Config \cup {Unset}
    BY <1>8 DEF ConfigCall, OnConfigFailure
  <2> QED BY <2>1, <2>2, FamilyFacts, SamplesStay
<1>9. CASE PublishConfig
  <2>1. at' = "clear preflight" /\ samples' = samples /\ UNCHANGED <<config, lastConfig>> /\ slots' = slots
    BY <1>9 DEF PublishConfig
  <2> QED BY <2>1, FamilyFacts, SamplesStay
<1>10. CASE ClearPreflight
  <2>1. at' = "set preflight" /\ UNCHANGED <<config, lastConfig>> /\ slots' = slots
    BY <1>10 DEF ClearPreflight
  <2>2. /\ DOMAIN samples' = Family /\ DOMAIN samples'["preflight"] = {}
        /\ \A g \in Family : g # "preflight" => samples'[g] = samples[g]
    BY <1>10, FamilyFacts, ClearedFacts DEF ClearPreflight
  <2>3. AtMostOne(samples'["preflight"]) /\ \A g \in Family : Alike(samples'[g])
    BY <2>2, AlikeFacts
  <2>4. SampleTypes' /\ \A f \in QueueFamily : at' # FillAt[f]
    BY <2>1, <2>2, FamilyFacts
  <2> QED BY <2>2, <2>3, <2>4
<1>11. CASE SetPreflight
  <2>1. at = "set preflight" /\ at' = "up" /\ UNCHANGED <<config, lastConfig>> /\ slots' = slots
    BY <1>11 DEF SetPreflight
  <2>2. /\ DOMAIN samples' = Family /\ (DOMAIN samples["preflight"] = {} => AtMostOne(samples'["preflight"]))
        /\ \A g \in Family : g # "preflight" => samples'[g] = samples[g]
    BY <1>11, FamilyFacts, SampleFacts DEF SetPreflight
  <2>3. AtMostOne(samples'["preflight"]) /\ \A g \in Family : Alike(samples'[g])
    BY <2>1, <2>2, AlikeFacts
  <2>4. SampleTypes' /\ \A f \in QueueFamily : at' # FillAt[f]
    BY <2>1, <2>2, FamilyFacts
  <2> HIDE DEF SampleTypes
  <2> QED BY <2>1, <2>3, <2>4
<1>12. CASE SetUp
  <2>1. at' = "asleep" /\ samples' = samples /\ UNCHANGED <<config, lastConfig>> /\ slots' = slots
    BY <1>12 DEF SetUp
  <2> QED BY <2>1, FamilyFacts, SamplesStay
<1>13. CASE UNCHANGED vars
  <2>1. at' = at /\ samples' = samples /\ UNCHANGED <<config, lastConfig>> /\ slots' = slots
    BY <1>13 DEF vars
  <2> QED BY <2>1, SamplesStay
<1> QED BY <1>1, <1>2, <1>3, <1>4, <1>5, <1>6, <1>7, <1>8, <1>9, <1>10, <1>11, <1>12, <1>13 DEF Next

(* The labels a scrape of the exporter shows are all of one round, wherever
   it falls and wherever a round was cut (_scrape in nzbdav-
   exporter/exporter.py), for every set of labels.                         *)
THEOREM LabelCorrectness == Spec => []LabelsFromOneRound
<1>1. SamplesInv => LabelsFromOneRound
  BY DEF SamplesInv, LabelsFromOneRound, Alike, AtMostOne
<1> QED BY SamplesInvInit, SamplesInvStep, <1>1, PTL DEF Spec
=============================================================================

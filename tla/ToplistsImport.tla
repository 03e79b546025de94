--------------------------- MODULE ToplistsImport ---------------------------
(***************************************************************************)
(* scripts/mdblist_toplists_import.py: register every list that MDBList's  *)
(* toplists page links to with Radarr, Sonarr or both, by the kinds of     *)
(* item it holds.  The lists of both apps are read once, before the loop;  *)
(* the owner adds and removes lists meanwhile, and an answer may be lost   *)
(* whose request was carried out.                                          *)
(***************************************************************************)
CONSTANTS
  Toplist,     \* urls of the page that have the shape LIST_URL_RE knows
  ListTitle,   \* what MDBList may call a list: an owner renames it
  ByHand       \* the name of a list the owner added

ASSUME ToplistAssumption == ByHand \notin ListTitle

ListApp == {"radarr", "sonarr"}
ListName == ListTitle \cup {ByHand}
Exit == {"none", "0", "1", "died"}

VARIABLES
  lists,       \* app -> url -> names under which it has the url
  existing,    \* app -> urls it had when the run read it
  importer,    \* "idle", "radarr" or "sonarr" (to be read), "loop", "targets"
  dryRun,
  urls,        \* scraped, and not looked up yet
  current,     \* the url at hand and the title it was looked up with, or <<>>
  targets,     \* apps it has still to be offered to
  anyFailed,   \* failed # 0
  exit,        \* of the last run
  wanted,      \* history: app -> urls this run found to be of its kind
  doubled,     \* history: app -> urls the owner added beside a run or a list
  undone       \* history: app -> urls the owner removed since the run began

theRun == <<existing, importer, dryRun, urls, current, targets, anyFailed, exit, wanted>>
toplistVars == <<lists, theRun, doubled, undone>>

NoUrls == [a \in ListApp |-> {}]
AddTo(f, a, t) == [f EXCEPT ![a] = @ \cup {t}]

HasRead(a) == importer \in {"loop", "targets"} \/ (a = "radarr" /\ importer = "sonarr")

-----------------------------------------------------------------------------
\* The owner, or another script, through the app itself.
OwnerAddsList(a, t) ==
  /\ ByHand \notin lists[a][t]
  /\ lists' = [lists EXCEPT ![a][t] = @ \cup {ByHand}]
  /\ doubled' = IF lists[a][t] # {} \/ HasRead(a)
                THEN AddTo(doubled, a, t) ELSE doubled
  /\ UNCHANGED <<theRun, undone>>

OwnerRemovesList(a, t) ==
  /\ lists[a][t] # {}
  /\ lists' = [lists EXCEPT ![a][t] = {}]
  /\ doubled' = [doubled EXCEPT ![a] = @ \ {t}]
  /\ undone' = AddTo(undone, a, t)
  /\ UNCHANGED theRun

-----------------------------------------------------------------------------
ImportStops(result) ==
  /\ importer' = "idle" /\ exit' = result
  /\ urls' = {} /\ targets' = {} /\ anyFailed' = FALSE
  /\ existing' = NoUrls /\ current' = <<>>

\* scrape_toplist_urls; a page without a link, or without an answer, is the
\* end of a run that did nothing.
ScrapesToplists ==
  /\ importer = "idle"
  /\ dryRun' \in BOOLEAN
  /\ urls' \in (SUBSET Toplist) \ {{}}
  /\ importer' = "radarr" /\ exit' = "none"
  /\ wanted' = NoUrls /\ undone' = NoUrls
  /\ UNCHANGED <<lists, existing, current, targets, anyFailed, doubled>>

\* Mutant: urls compared as written, by apps that keep the script's with a slash.
HasUrlAsWritten(a, t) == ByHand \in lists[a][t]
HasUrl(a, t) == lists[a][t] # {}

\* existing_import_lists.
ReadsLists(a) ==
  /\ importer = a
  /\ existing' = [existing EXCEPT ![a] = {t \in Toplist : HasUrl(a, t)}]
  /\ importer' = IF a = "radarr" THEN "sonarr" ELSE "loop"
  /\ UNCHANGED <<lists, dryRun, urls, current, targets, anyFailed, exit, wanted, doubled, undone>>

\* list_meta: what the list is called and the kinds of item in it.  An empty
\* list is skipped, and so is one whose lookup failed.
LooksUpToplist ==
  /\ importer = "loop" /\ urls # {}
  /\ \E t \in urls, title \in ListTitle, kinds \in SUBSET ListApp :
       /\ urls' = urls \ {t}
       /\ current' = <<t, title>> /\ targets' = kinds
       /\ importer' = IF kinds = {} THEN "loop" ELSE "targets"
       /\ wanted' = [a \in ListApp |-> wanted[a] \cup (IF a \in kinds THEN {t} ELSE {})]
  /\ UNCHANGED <<lists, existing, dryRun, anyFailed, exit, doubled, undone>>

\* Radarr's turn comes first.
Target(a) == importer = "targets" /\ a \in targets /\ (a = "sonarr" => "radarr" \notin targets)
Continues(a) ==
  /\ targets' = targets \ {a}
  /\ importer' = IF targets = {a} THEN "loop" ELSE "targets"
  /\ UNCHANGED <<existing, dryRun, urls, current, exit, wanted, doubled, undone>>

AlreadyRegistered(a) == current[1] \in existing[a]

SkipsTarget(a) ==
  /\ Target(a) /\ (AlreadyRegistered(a) \/ dryRun)
  /\ Continues(a)
  /\ UNCHANGED <<lists, anyFailed>>

MustRegister(a) == Target(a) /\ ~AlreadyRegistered(a) /\ ~dryRun
Takes(a) ==
  /\ current[2] \notin lists[a][current[1]]
  /\ lists' = [lists EXCEPT ![a][current[1]] = @ \cup {current[2]}]

RegisterSucceeds(a) == MustRegister(a) /\ Takes(a) /\ Continues(a) /\ UNCHANGED anyFailed

\* "Radarr/Sonarr both reject a duplicate import-list name outright", and
\* lists they find nothing in.
RegisterRefused(a) ==
  /\ MustRegister(a) /\ Continues(a)
  /\ anyFailed' = TRUE
  /\ UNCHANGED lists

\* The request got no answer, or one without the JSON it is taken apart as.
RegisterUnanswered(a) ==
  /\ MustRegister(a)
  /\ Takes(a) \/ UNCHANGED lists
  /\ ImportStops("died")
  /\ UNCHANGED <<dryRun, wanted, doubled, undone>>

\* A read raised, or somebody ended the run.
ImportDies ==
  /\ importer # "idle" /\ ImportStops("died")
  /\ UNCHANGED <<lists, dryRun, wanted, doubled, undone>>

Result == IF anyFailed THEN "1" ELSE "0"
ImportEnds ==
  /\ importer = "loop" /\ urls = {} /\ ImportStops(Result)
  /\ UNCHANGED <<lists, dryRun, wanted, doubled, undone>>

-----------------------------------------------------------------------------
ToplistInit ==
  /\ lists = [a \in ListApp |-> [t \in Toplist |-> {}]]
  /\ existing = NoUrls /\ importer = "idle" /\ dryRun = FALSE
  /\ urls = {} /\ targets = {} /\ anyFailed = FALSE /\ exit = "none"
  /\ current = <<>>
  /\ wanted = NoUrls /\ doubled = NoUrls /\ undone = NoUrls

ToplistNext ==
  \/ \E a \in ListApp, t \in Toplist : OwnerAddsList(a, t) \/ OwnerRemovesList(a, t)
  \/ ScrapesToplists \/ LooksUpToplist \/ ImportEnds \/ ImportDies
  \/ \E a \in ListApp :
       \/ ReadsLists(a) \/ SkipsTarget(a)
       \/ RegisterSucceeds(a) \/ RegisterRefused(a) \/ RegisterUnanswered(a)

ToplistSpec == ToplistInit /\ [][ToplistNext]_toplistVars

-----------------------------------------------------------------------------
(* Types of the apps' lists and of the run.                                *)
ToplistTypeOK ==
  /\ lists \in [ListApp -> [Toplist -> SUBSET ListName]]
  /\ {existing, wanted, doubled, undone} \subseteq [ListApp -> SUBSET Toplist]
  /\ importer \in {"idle", "radarr", "sonarr", "loop", "targets"}
  /\ dryRun \in BOOLEAN /\ anyFailed \in BOOLEAN
  /\ urls \subseteq Toplist /\ targets \subseteq ListApp
  /\ current \in (Toplist \X ListTitle) \cup {<<>>} /\ exit \in Exit

(* However often the script is run, cut short or left without an answer,   *)
(* and whatever MDBList renames between (already_registered, register): no *)
(* app has a url twice unless the owner added it beside the script, and a  *)
(* run that exits 0 and wrote left every list it looked up in each app of  *)
(* its kinds, but for those the owner removed.                             *)
ToplistsAreRegisteredOnce ==
  \A a \in ListApp, t \in Toplist :
    /\ \A n, o \in lists[a][t] : n = o \/ t \in doubled[a]
    /\ (exit = "0" /\ ~dryRun /\ t \in wanted[a] \ undone[a]) => lists[a][t] # {}
=============================================================================

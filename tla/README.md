# TLA+ models and proofs for media-stack

The repository runs a self-hosted media stack: a Docker Compose project (Plex,
Radarr, Sonarr, NzbDAV with an rclone FUSE mount, ...), a Django control panel
that operates it, a root helper on the host, a Prometheus exporter and about
thirty scripts run by systemd timers or by hand. This directory holds the TLA+
modules that model its parts, the TLC configurations that check them and the
proofs that TLAPS checks. Paths below are relative to the repository.

Run from this directory: `tlc -config fleet_restart.cfg MCFleetRestart`,
`tlapm FleetRestartProofs.tla`. `PROJECT.json` lists components, runs, the lines
each definition models (`map`), a mutation for every property, the findings,
the hazards and the theorems.

## Inventory of the system

| Part | Source | State it keeps | Operations | What is hard |
|---|---|---|---|---|
| Plex watchdog | `scripts/plex-health-monitor.py`, its unit | locals of one loop: last progress, lag clock, open alert, last restart, failed polls | one iteration per poll: classify, alert, restart, recover | long sequences of polls, failed polls in between, restarts that fail, the daemon's own restarts |
| Fleet operations | `control-panel-django/host/services.py`, `core/docker_client.py` | none of its own; containers, their health and mounts are Docker's | restart, stop, start, restart-all (background thread) | overlapping workers, mount order, failed or slow restarts, the panel ending halfway |
| Software catalog | `control-panel-django/catalog/` | none of its own; containers, volumes | install, remove, list, status | check-then-act over a slow pull, half-done operations, stale handles |
| Host actions | `core/host_helper_client.py`, `host_actions/`, `scripts/host-helper/` | socket backlog, the request being served, a log | reboot, pacman sync, pacman upgrade | client gives up before the daemon, daemon exits, the host goes down |
| Webhook listener | `scripts/plex-webhook-listener.py` | in-memory queue, one worker | acknowledge, enqueue, post, retry | rate limits, ambiguous errors, a dead worker, restarts |
| NzbDAV exporter | `nzbdav-exporter/exporter.py` | sample table under a lock, last configuration | scrape round, render | pages rendered in mid-round, failed calls, exceptions |
| *arr queue repair | `core/arr_client.py`, `core/import_starvation.py` | the apps' queues and commands | delete-and-search, clear backlog, storm guard | retries after ambiguous timeouts, stale reads. No route calls these today |
| Queue status | `queue_app/services.py` | none | two samples, bucket every item | items that come and go between the samples |
| NzbDAV client | `nzbdav/services.py`, `core/nzbdav_client.py`, `bearmount-prune-history.py` | NzbDAV's history | delete failures (20 threads), in the panel and in a timer's script | the two delete the same entries |
| Settings | `core/settings.py`, `core/models.py` | one row per key | patch, remember a value | overlapping requests, a default list that is changed in place |
| Authentication | `core/authentication.py`, `core/permissions.py`, `core/middleware.py`, `auth_app/` | Django sessions | login, bearer and API-key checks | stateless decisions |
| State-file jobs | `plex-library-report.py`, `check-container-health.sh`, `check-upstream-updates.sh`, `arr-app-backup.py` | a state file each (the backup: the apps' commands) | read, compare, notify, save | a crash or a failed notification between two of these |
| Library reports | `checkrr-badfiles-report.py`, `plex-arr-reconcile.py`, `radarr-orphan-empty-folders.py`, `audit-tmdb-links.py` | none | classify files against the apps' records, remove empty folders | an app that answers half of the questions, a library that changes meanwhile |
| Provisioning | `provision-cleanuparr-instances.py`, `watchstate-provision.py`, `enable-recycle-bin.py`, `setup_wizard.py`, `watchstate/`, `cleanuparr/` | the apps' configuration, `.env` | read, compare, create or change | lost answers, repeated and interrupted runs, stale forms |
| CVE scan | `weekly-cve-scan.sh`, `trivy-scan.sh` | one file per scan | scan every image, compare with the scan before | images that cannot be scanned, runs that die |
| WatchState routes | `watchstate/services.py` | none; WatchState's backends, task and history | status, queue an import | four reads of a system that goes on |
| Fish tooling | `fish-functions-install.py`, `fish-rename.py` and generators | a directory of links, the tree of the repository | link, relink, prune; edit, move, grep | runs cut short, files that change meanwhile |
| Toplists importer | `mdblist_toplists_import.py` | the apps' import lists | read, look up, register | lists read once, lost answers, repeated runs |
| Other importers, fish functions, CI, compose | `letterboxd-sync.py`, `poster-sync-fanart.py`, `fish-functions/`, `.github/`, `docker-compose.yml` | - | one pass each | text, parsing, configuration |

Interactions: fish functions, the browser and the watchdog call the panel over
HTTP; the panel calls Docker, the *arr apps, NzbDAV and the host helper; Docker
restarts containers and runs health checks on its own; the containers share the
FUSE mount that `nzbdav_rclone` owns; scripts talk to Discord. What makes each
part correct is stated with its module below.

The watchdog polls `/api/plex/scan-health` and posts to
`/api/container/plex/restart`; the present panel serves `/api/v2/...` only, so
today every poll of it fails. The endpoint is the environment of the model,
which therefore covers both a panel that answers and one that never does.

## Modules

### PlexHealthMonitor

One action is one iteration of `main()`'s loop (a single thread, locals nobody
else reads): `PollFails`, `PollHealthyEnough`, `PollAndRestart`, and
`RestartRequestCrashes` for an error answer that `api_post` cannot read and that
raises out of `main()`. `DaemonRestarted` is systemd starting the process anew.
Operators carry the computation: `Classify`, `LagClockAfter`, `Lag`,
`ShouldRestart`, `AlertAfter`. An answer is reduced to what `classify()` and
`scan_progress()` read. The `time.time()` of iterations is `now`; iterations are
any gap of `Gaps` apart.

* `AlertMatchesCondition`: the open alert is the failure of the last good poll.
* `CooldownBetweenRestarts`: requests of one run are a cooldown apart, failed
  requests included.
* `LagRestartHasEvidence` (action property): a restart for lag has one
  percentage read over the whole threshold behind it.
* `PersistentLagIsActedOn`: a percentage stuck over the threshold was answered
  with a request, now or within the cooldown.

### FleetRestart

The containers, their health and the mount are Docker's and rclone's (external:
`Started`, `Stopped`, `EngineFails`, `ProviderMounts`, `HealthCheck`,
`MountLost`). `stale` are the running containers whose bind is not of the live
mount. `RestartAll(w)` starts worker thread `w`, whose seven loops are the
seven sets of `Stage`: `phase[w]` is the loop, `todo[w]` what it has still to
visit. A visit is one engine call, or one `wait_for_healthy()` that sees
"healthy" or passes its deadline. Iteration order inside a loop is Docker's list
order, hence any. Single operations interleave with the workers.

The history variable `disturbed` becomes true when something happens that the
mount order cannot repair: a restart that raised, a provider that had not
mounted at the deadline, an operation on the provider outside `restart_all`, a
dead rclone, a panel that ended.

* `StaleBindersAreOwed`: undisturbed, each container with a dead reference still
  has its restart ahead in some worker, and while the mount is down some worker
  waits for it.
* `QuiescentFleetIsFresh`: undisturbed and with all workers ended, the mount is
  live and every binder but the panel is on it.
* `ImplementsCascade` (refinement): every step is a step of `MountCascade`, with
  `owed` and `awaited` read off the workers' loops.
* `RestartAllEnds` (liveness): every restart-all ends, under weak fairness of
  its thread.

### MountCascade

The abstract specification of restart-all: no workers, stages or health checks,
only who has undertaken what. The mount goes down only while somebody awaits it
and owes every binder a restart; the wait ends only on a live mount; an owed
restart is discharged only by a container that comes up on a live mount. The
promise ends with the first disturbance.

### Catalog

Every Docker call of `install()` and `remove()` is a step; up to four requests
overlap with each other, with containers that exit and come back, with other
containers on the same port, with the panel's disk prune and with its end.
A container is identified by the install that created it (its id): `remove()`
looks up by name once and then acts by id.

* `HalfInstalledHasCause`: a container that was created but never started (and
  makes the next install say "already installed") stems from an engine failure,
  the end of the panel, or a container created after the port check - never
  from a container that existed at the check, running or stopped.
* `RemoveSparesReinstall`: an overtaken remove never deletes a newer container.
* `ReportedVolumesAreGone`: a remove that reports no failed volume left none.

### HostHelper

Client, systemd socket and daemon. `Call`/`CallerGivesUp` are
`call_host_helper()`; `Activate`, `Accept`, `VerbReturns`, `LogsRequest`,
`Answers`, `AnswerBreaksPipe`, `AcceptWouldBlock` are systemd and the daemon's
loop; `HostStops` is the host going down after a successful reboot verb. Two
ways out of the daemon are not visible in its text: `sendall()` to a caller that
closed its socket raises `BrokenPipeError` out of `serve()`, and
`NonBlocking=true` in the unit makes `accept()` raise `BlockingIOError` when the
backlog is empty. In both cases systemd keeps the listening socket and starts
the service again while a connection is pending. systemd's start limit (5 starts
in 10 s) is not modelled. Time is counted in 300 s; only verbs and waiting take
time.

* `RunsAreLogged`: whoever has gone, a verb that ran is in the audit log, except
  when the host it rebooted stopped first.
* `PendingRequestsAreServed` (liveness): a request behind a daemon that exits is
  served by the next one.
* `ImplementsAudit` (refinement): every step is a step of `AuditedVerbs`, or a
  stutter.

### AuditedVerbs

The abstract specification of the host helper: no socket, no backlog, no time
limits, no daemon that comes and goes. A request is asked, its verb runs at most
once, is logged before another one runs, and its caller is told its own outcome
after that, or nothing. `HostGoesDown` catches requests that were asked, at least
the one that ran and is not logged; nothing goes on for those. `asked` maps to the
callers that reached the socket, `told` to those that got an answer.

### WebhookListener

Handler threads (`Acknowledge`, then `Drop` or `Enqueue`), the worker's steps and
`Crash`. A worker that has no webhook to post to takes events off the queue and
is done with them (`Discard`; `configured`, as `.env` has it when the process
starts). An error other than 429 is ambiguous: Discord may show the message.

* `NeverShownTwice`: an ambiguous error is never retried.
* `AcknowledgedIsHandled` (liveness): an acknowledged event is dropped, lost with
  the process, or handled, unless the worker has raised.
* `ImplementsAtMostOnce` (refinement): every step is a step of `AtMostOnce`, or a
  stutter.

`Readable` is the set of outcomes of `float(Retry-After)`. Discord documents a
number; an HTTP date raises outside every `try` of the worker, which then stands
at "raised" until the process ends, with the queue behind it. The run takes both
outcomes: the liveness property says that this is the only answer that ends the
worker.

### AtMostOnce

The abstract specification of the listener: events come, their fate is open
(`pending`: with a handler, in the queue, or before the worker's last answer), and
is closed once, by a post that is shown or by giving the event up. A post whose
answer is ambiguous closes it too, which is why an error other than 429 must not
be retried.

### NzbdavExporter

The scraper thread's round, one step per call to NzbDAV and per labelled sample;
`_set`, `_remove_family` and `render_metrics` take one lock, so a page is one
state of the model and an invariant speaks of every page. A sample is "now" or
"old" by the round that set it, which needs no bound on rounds.

* `LabelsFromOneRound`: no page mixes labels of two rounds in a family.
* `ConfigIsLastReported`: the retained configuration, between rounds, also after
  an exception in mid-round.
* `ScrapesForever` (liveness): no answer ends the scraper.

In mid-round a page can show zeros of a failed queue call beside
`nzbdav_up 1` of the round before; the help texts speak of completed rounds.

### MCJobs and the self-contained jobs

The components below share no state with each other. `MCJobs` composes them
for one run: `job` is drawn once and names the only component that steps
(`OthersRest`), so the state space is the sum of theirs and not the product. Each has its own
specification (`ReportSpec`, `ArrSpec`, ...) and can be checked alone.

#### LibraryReport, HealthCheck, UpstreamCheck, CveScan, ArrBackup

Read, compare, notify, save, each call a step; the process may die between any
two, a call may raise, a notification may be lost. The order of the effects is a
sequence (`Order`, `Effects`, `UpstreamEffects`), since it is what the properties
depend on. History variables hold what the world was told.

* `RemovalsToldOnce`: a removed title is posted, still to be found, in the
  run's hands, or dropped by a failure; never posted twice.
* `FiledFailuresWereAnnounced`: state file and Discord agree between runs, up to
  failed posts and runs that died.
* `ReleasesAlertedOnce`: between runs the version on file is the one alerted last
  or, its alert lost or left out because "unknown" was on file, the one filed
  since; no two alerts in a row name the same version. A tag that goes back, a
  failed lookup and a run that dies anywhere are among the steps. The exception is
  an upstream in `unfiled`: `jq > tmp && mv` is a list that `set -e` does not end
  the script for, so a run whose `jq` fails alerts what it has not stored, and the
  next run alerts it again.
* `CriticalRiseIsAlerted`: neither scans with images missing nor torn files hide a
  rise of critical vulnerabilities between two complete scans.
* `ReportedBackupsAreDone`: "ok" is a completed command; green covers all apps.

#### BadFilesReport, Reconcile, OrphanFolders, TmdbAudit

One pass over several systems that change meanwhile. Histories (`wasHeld`,
`wasAbsent`, `moved`, `blind`, `addedSince`) record what was true at some moment
of the run, which is all that a report on a moving world can claim.

* `ReportHasEvidence`: what the re-download commands name had a record at some
  moment of the run and, unless verifying was switched off, is no disc image; an
  orphan lacked a record at some moment, or its series could not be read; no dead
  file of a library is left out, unless the library's app has no block in
  `checkrr.yaml` (`skipped`: a warning and `continue`). An answer that breaks off
  in the middle makes a whole app "unknown", one that is no JSON ends the script.
* `BucketsAreTrue`: the bucket of a path that did not move is right unless a
  failed call hid it or it is the one path, `untested`, that the sweep never
  tests: the paths are joined without a newline behind the last one, and the
  shell's `while read` leaves that one out. A printed report warns of every
  library an app or Plex showed in part; a failing `docker exec` and `--json`
  warn of nothing. Exit status 0 means that nothing that was read and tested is
  missing or gone.
* `OnlyOrphansRemoved`: no file is destroyed; a removed folder whose movie Radarr
  has was added after the ids were read.
* `OutageIsNotUnmatched`: every query made for a deletion candidate was answered,
  with the year and without, whichever of the two an outage hits, and an empty
  answer to the query with the year was followed by the other.

#### Provisioning, SetupWizard, FishInstall, FishRename, ToplistsImport, ConfigEdits

Runs that are repeated over what earlier runs, cut short anywhere, left behind.
A request is answered, refused, or carried out with its answer lost.

* `RerunsConverge`: no Cleanuparr instance twice, exit 0 is full coverage, and
  the webhook that plex.tv posts to is never orphaned by the script.
* `AnswersAreKept`: `.env` holds for each key the last value anybody gave it, in a
  form by changing a field or by hand at any moment, through queued requests,
  blank and untouched fields and a wizard that ends anywhere. The history says
  what was given, and never what the wizard made of it: a field left as it was
  rendered gives nothing. Two things lose a value, and only they (`overwritten`):
  a form rendered before it was given is submitted with the field untouched, or it
  was written by hand between the wizard's read of `.env` and its replace.
* `RunInstallsRepository`: a run under which nothing else changed installs the
  repository exactly, and leaves helpers alone that it does not have.
* `RenameIsComplete`: a run that comes to its end, after any number of runs cut
  short, within a write too, has named every old name that is left, but for those
  brought back after it looked (`late`) and those whose `git grep` failed
  (`ungrepped`: an error prints nothing and counts as no hit); and undisturbed no
  text it edits has an old name, the files are renamed and fish loads what the
  tree has.
* `ToplistsAreRegisteredOnce`: no app has a url twice but by the owner's doing,
  and a run that exits 0 left every list it looked up in the apps of its kinds.
* `EditsAreConfined` (action property): the three pieces of code that put back a
  whole configuration page change only what is due, unless the owner edited the
  page between their read and their write.

`fish-rename.py` lists all old names itself (`RENAMES`), is tracked, no target of
its own edits and no record file; `base.html:293` and a saved page under
`docs/images/` have some too. `untouched` is that set. It is full at the start, so
every run of this commit exits 1 unless a `git grep` fails for each of the names;
exit 0 is otherwise reached only after somebody took the script out of the index
(`OthersChange`). The record files, which both the edits and the grep skip, are
left out.

`FishInstall` stands for one directory; completions are a second pass of the
same `plan()` and `apply()`. `ConfigEdits` picks one of the three settings per
behaviour, since they are on different pages; exit statuses are left out.

#### ArrQueue, NzbHistory, QueueStatus, PanelSettings, WatchStatus

Services of the panel with overlapping callers.

* `NothingLostSilently`: a monitored item with a movie or episode id that a repair
  took out of the queue is in a repair's hands, in a search, was searched, or is
  named in an answer's errors; what loses it without a word is a starvation check
  that cancels its search, and nothing else (`cancelled`). The check's answer
  has only numbers, and none when the other app's reading raises, so it excuses
  nothing. A record without an id (`Unmatched`) counts as monitored, is removed,
  named as fixed and never searched for: it is never `owed`.
* `CountedDeletionsAreReal`: what a call counts as deleted is gone, and every
  entry it listed is counted.
* `BucketsAreObserved`: "downloading" shrank between the two samples of that
  app, "stalled" did not.
* `PatchesDoNotUndoEachOther`: each setting is the last value somebody set.
* `StatusCountsItsImport`: a WatchState status that names an import counts its
  items, unless the history was emptied of them, because the task is read before
  the history; and one that asks for provisioning was asked for while there was
  no backend.

## Runs

| Run | Checks | Bounds and why they are enough |
|---|---|---|
| `plex_monitor` | the watchdog's properties | two percentages, gaps that reach below and above each threshold, `MaxTime` past a second cooldown, two runs of the daemon: every branch of the loop, and every pair of branches around a cooldown |
| `plex_monitor_analysis` | the docstring on analysis, violated | same instance, a counterexample of a few polls |
| `fleet_restart` | fleet properties, refinement of `MountCascade` and liveness | one container of each role (prerequisite, provider, dependent, other, panel), two overlapping workers; the roles are what the code distinguishes, and two workers already interleave all loops |
| `panel_mount_view` | `mount_health`'s promise, violated | same instance |
| `host_helper` | host actions, refinement of `AuditedVerbs` and liveness | three requests (one served, one waiting, one retried), all three verbs, limits 1 and 6 against a client timeout of 2 |
| `host_reboot_report` | `RebootView`'s promise, violated | same instance |
| `catalog` | catalog properties | one entry with two volumes and one port; four requests are what an overtaken remove needs (install, remove, overtaking remove, reinstall); symmetric requests |
| `webhook` | listener properties, refinement of `AtMostOnce` and liveness | three events, one crash: one posted, one queued, one in its handler; a readable and an unreadable Retry-After, a process with and one without a webhook url |
| `exporter` | exporter properties with liveness | two labels per family, two configurations, unbounded rounds |
| `jobs` | the components of `MCJobs` | the table below; 941,019 states, a minute and a half |
| `badfiles_orphans` | the orphan comment, violated | the instance of `jobs` |
| `health_alerts` | the header of the health check, violated | two containers |

The instances of `jobs`:

| Component | Instance |
|---|---|
| `LibraryReport` | two sections, one title each: one section read, one to read or unlisted |
| `HealthCheck` | two containers: one newly bad while the other recovers |
| `UpstreamCheck` | one upstream, `MaxRelease` 3, any of which may become the latest at any time: a first, an alerted and a missed one; upstreams only share the post |
| `CveScan` | two images, `MaxCount` 1, `HighMargin` 1 for 10: one image scanned, one missed; sums 0..2 lie on both sides of the margin |
| `BadFilesReport` | a film, an episode and a disc image of two series, a file outside every library |
| `Reconcile` | one path in each of two libraries, one of them unsupported |
| `OrphanFolders` | two folders with tags |
| `TmdbAudit` | two movies, three candidates (good, good of another year, poor), `Retries` 3, `MinRatio` 60 |
| `Provisioning` | two instances, `MaxToken` 2; the loops visit them in one fixed order; one script runs at a time, and a rebuild empties the database |
| `SetupWizard` | two keys, one of them post-boot, two values, two tabs, so that one form is submitted while another is stale; a submitted form changes at most one field; .env is edited by hand at any moment |
| `FishInstall` | a command and a helper |
| `ArrQueue` | an item with an id and one without, two repairs of either beside one check, `MaxSearches` 1: a repair's search and a backfill's compete for the one place, and a queued one starts or is cancelled |
| `NzbHistory` | two entries, two callers; each thread deletes one entry |
| `QueueStatus` | one record of an app and one of NzbDAV, `Size` 2 |
| `PanelSettings` | two keys of two values, two patches, two remembered values, `Keep` 1 |
| `ArrBackup` | two apps, `MaxPolls` 2 |
| `ConfigEdits` | two apps, two editors |
| `ToplistsImport` | one url under two titles: urls meet only in the exit status |
| `FishRename` | one command, one document and both names of its file: commands meet only in the exit status |
| `WatchStatus` | one client, `MaxImports` 2: clients share nothing but the queued import |

`CHECK_DEADLOCK FALSE` is set where the instance really ends: the watchdog at
`MaxTime`, the host helper and the catalog when every request slot is used, the
listener when Plex sends nothing more, and the jobs that are one pass.

### Fairness

Weak fairness only, on what a scheduler or a timeout guarantees: a worker thread
of `restart_all` (engine calls and `wait_for_healthy()` return), the helper
daemon together with systemd's activation and the subprocess timeouts, the
listener's threads (every HTTP call has a timeout), the exporter's thread. No
fairness is assumed of health checks, mounts, answers or callers.

The jobs are checked for safety only: their runs may be killed and their calls
refused any number of times, and nothing in the code bounds that.

## What the code does not keep

Found by a run (`findings` quotes the lines):

* An analysis does not stop the watchdog's lag clock: the first poll after it
  measures the whole analysis as lag and restarts Plex
  (`plex_monitor_analysis`; docstring lines 31-32).
* The panel binds `/mnt` too and cannot restart itself: after a restart-all
  `mount_health` looks through a dead mount (`panel_mount_view`).
* A reboot asked for during an upgrade is reported as failed after ten minutes
  and then carried out (`host_reboot_report`).
* Dead files of a series that could not be read are reported as orphans
  (`badfiles_orphans`; `checkrr-badfiles-report.py:301` against `:461`).
* Only containers that are unhealthy and restarting at once are announced
  (`health_alerts`; `check-container-health.sh:22` against `:2`).

Read in the code while modelling, without a run of their own:

* The restart cooldown does not survive a restart of the watchdog
  (`plex-health-monitor.py:76`, `:199`), and a failure during which polls fail
  for a while is never reported as recovered (`:56`, `:229`).
* A failed lookup may be announced as version "null" or "" or follow "unknown"
  (`check-upstream-updates.sh`); "+10 or more HIGH" is more than ten
  (`weekly-cve-scan.sh:101`).
* A `jq` that fails while the versions are stored ends nothing: they are alerted
  unstored, and again by the next run (`check-upstream-updates.sh:89-96`, an `&&`
  list under `set -e`).
* The last path of every sweep counts as gone (`plex-arr-reconcile.py:163-166`):
  a present file is reported as `file_gone`, or an orphan as stale. With `--json`
  the problems are not in the report (`:234-236`).
* Dead files of a library without a block in `checkrr.yaml` are in no report, only
  in a warning (`checkrr-badfiles-report.py:441-444`).
* An unmatched movie may have had a candidate that clears `MIN_CANDIDATE_RATIO`:
  the best score decides, and the year weighs in the score
  (`audit-tmdb-links.py:152`).
* A targeted single-item search "must not be cancelled"
  (`import_starvation.py:51-53`), but `SEARCH_COMMANDS` holds `MovieSearch`,
  `MoviesSearch` and `EpisodeSearch`, which is what `blocklist_and_research`
  submits: the check cancels a repair's own search, and the repair has already
  answered that its items are fixed. `clear_search_backlog` returns numbers
  (`:187`), and they are lost when `check_all` raises at the other app
  (`:195-199`).
* A queue record without a movie or episode id is removed, blocklisted and named
  as fixed without a search (`arr_client.py:160-161`, `:199-201`).
* An *arr record that has nothing left and is not importing shows as queued
  (`queue_app/services.py`).
* `setup_wizard.py` drops lines of `.env` whose key `.env.example` does not have;
  a stale form undoes newer values with its untouched fields (`:159`), and an edit
  by hand between `:236` and `:171` is lost.
* `fish-rename.py` takes a `git grep` that fails for one without a hit
  (`:149-155`), and cannot exit 0 while the script itself is tracked (`:23-36`,
  `:66-73`).
* `provision-cleanuparr-instances.py` exits 0 when the seeker could not be read.
* A time-out while an answer is read ends `arr-app-backup.py` with a traceback.
* `reset_log_levels` says no app was at debug also when no app could be read
  (`host/services.py:411`).
* Between the calls of a round a page of the exporter can show zeros of a failed
  queue call beside `nzbdav_up 1` of the round before.

## Proofs

TLC checks one instance; the theorems hold for all constants that satisfy the
modules' named assumptions (`FleetAssumption`, `HelperAssumption`, ...), which say
what the code fixes: who is a container, that a limit is positive, that the
registry gives no two entries a port in common. `tlapm` checks every proof to its
last leaf, and every safety invariant, action property and refinement of a passing
run is a theorem: what is left to TLC alone is liveness.

Each proof has one shape. An inductive invariant adds to the property what the
locals and histories of the component mean in mid-operation. One lemma shows that
it holds initially, one per action or group of actions that it is kept, one step
per conjunct the action can disturb; the last step is temporal. The properties
alone are not inductive: most speak of the end of an operation and say nothing
of its middle.

| Theorem | Property | What the inductive invariant adds |
|---|---|---|
| `PlexHealthMonitorProofs`: `AlertCorrectness`, `CooldownCorrectness`, `LagResponse`, `LagEvidence` | `AlertMatchesCondition`, `CooldownBetweenRestarts`, `PersistentLagIsActedOn`, `LagRestartHasEvidence` | `IInv`: what was read is at most `now`, all read since `lastProgressTs` shows the last progress, the lag clock stands at `lastProgressTs` when it runs, the requests of this run are at or before `lastRestart`. Without the meaning of the clock neither lag property is inductive |
| `FleetRestartProofs`: `OwedCorrectness`, `QuiescenceCorrectness`, `CascadeRefinement`, `CascadePromise` | `StaleBindersAreOwed`, `QuiescentFleetIsFresh`, `ImplementsCascade` | `IInv`: `todo` is a subset of the loop's set. The hard case is a second worker that restarts the provider while the first is past it: what it makes stale is owed by the second (`OwedBeforeMount`, `EngineOnProvider`) |
| `HostHelperProofs`: `JournalCorrectness` | `RunsAreLogged` | `HelperInv`: a request is in the backlog once or is the job, its caller still waits or has gone, and a job past its log step is in the log (`ServedOnce`) |
| `HostHelperProofs`: `AuditRefinement`, `AuditPromise` | `ImplementsAudit` | `AuditInv`: a request has an outcome exactly from the end of its verb on, is logged only after that, and what is pending or has not called was not caught by the host's stop |
| `WebhookListenerProofs`: `ListenerCorrectness` | `NeverShownTwice` | `ListenerInv`: an event is in one place - its handler, once in the queue, with the worker - and not shown before the worker has its last answer |
| `WebhookListenerProofs`: `DeliveryRefinement`, `DeliveryPromise` | `ImplementsAtMostOnce` | the same `ListenerInv`; an event that is posted is in no other place, so that closing its fate removes it from `pending` |
| `NzbdavExporterProofs`: `ConfigCorrectness`, `LabelCorrectness` | `ConfigIsLastReported`, `LabelsFromOneRound` | `SamplesInv`, `ConfigInv`: what the family being filled holds at each step of a round, and the local variable behind the published configuration |
| `CatalogProofs`: `InstallCorrectness`, `ReinstallCorrectness`, `PurgeCorrectness` | `HalfInstalledHasCause`, `RemoveSparesReinstall`, `ReportedVolumesAreGone` | `CatalogInv`: a port that is in use under an install past its check was taken after the check (`PortsKnown`), and a volume a purge is through with is gone, noted as an error or made again (`VolumesKnown`) |
| `ReportProofs`: `ReportCorrectness` | `RemovalsToldOnce` | `ReportInv`: what the run compared, what the snapshot holds and who was told of what |
| `ReportProofs`: `CheckCorrectness` | `FiledFailuresWereAnnounced` | `CheckInv`: what was announced is on file, or will be once the run saves |
| `ReportProofs`: `UpstreamCorrectness` | `ReleasesAlertedOnce` | `UpstreamInv`: what the run has found is news against the file as it was (`NewsInv`), and for an upstream whose news were always stored, the version on file is the last one told or filed silently, or is in the run's hand (`InHandOf`) |
| `ReportProofs`: `CveCorrectness` | `CriticalRiseIsAlerted` | `CveInv`: unless somebody was warned, no scan on file is above the last complete one |
| `ReportProofs`: `BackupCorrectness` | `ReportedBackupsAreDone` | `BackupInv`: apps from the current one on have no result, and a completed command stays so |
| `ReportProofs`: `BadFilesCorrectness` | `ReportHasEvidence` | `FileInv`: what was read so far, whose dead files are still to be asked for, and that each row is what an app once said of its file (`RowEvidence`) |
| `ReportProofs`: `ReconcileCorrectness` | `BucketsAreTrue` | `ReconcileInv`: what was read of paths that stayed is right but for the one never tested, and what a failed call hid is a problem in the report |
| `ReportProofs`: `OrphanCorrectness`, `AuditCorrectness` | `OnlyOrphansRemoved`, `OutageIsNotUnmatched` | what is still to be removed had no movie when the ids were read; a movie is waiting, searched or has its row, and all its queries but the one being made were answered |
| `ServiceProofs`: `RepairCorrectness` | `NothingLostSilently` | `ArrInv`: every item to be searched again is answered for (`Accounted`) by a repair that holds it and found it monitored (`Holds`), a search, or the record of what became of it |
| `ServiceProofs`: `DeletionCorrectness` | `CountedDeletionsAreReal` | `PruneInv`: what a caller listed had failed, and what it counts as deleted is deleted |
| `ServiceProofs`: `BucketCorrectness` | `BucketsAreObserved` | `QueueInv`: what each of the two samples saw of each download, and what a bucket says of the two |
| `ServiceProofs`: `PatchCorrectness` | `PatchesDoNotUndoEachOther` | `PatchInv`: what a patch has left to persist is among its keys, and what it has persisted is in the data it will answer |
| `ServiceProofs`: `SettingsTypeCorrectness` | `SettingsTypeOK`: recent values are distinct and at most `Keep` | `RecentInv`: so are those of the default list and of every caller's copy, and a copy keeps that when one value is moved to its front (`RemoveFirstFacts`, `RememberFacts`) |
| `ServiceProofs`: `EditCorrectness` | `EditsAreConfined` (action property) | `EditInv`: a copy held over a page the owner left alone agrees with the page |
| `ServiceProofs`: `ProvisionCorrectness` | `RerunsConverge` | `ProvisionInv`: what the running script found is still so, unless the database was rebuilt or the backend removed under it |
| `ServiceProofs`: `WizardCorrectness` | `AnswersAreKept` | `WizardInv`: a form shows what was given to each key it is not stale in (`FormShows`), and what will be written is, key by key, what was entered or what was given, but for the keys the form holds an older value of (`WillWrite`) |
| `ServiceProofs`: `InstallCorrectness` | `RunInstallsRepository` | `InstallInv`: undisturbed, each name is as it should be or on one of the run's lists |
| `ServiceProofs`: `ToplistCorrectness` | `ToplistsAreRegisteredOnce` | `ToplistInv`: but for the owner, what a run has not offered and did not read is not there, and what it read or offered is |
| `ServiceProofs`: `RenameCorrectness` | `RenameIsComplete` | `RenameInv`: an old name that is left is in the answer, came back, was passed over by a failing grep or is still to be grepped for (`RenameLeft`), and undisturbed each pass has done its part (`RenameCalm`) |
| `ServiceProofs`: `StatusCorrectness` | `StatusCountsItsImport` | `WatchInv`: the history has the last import or was emptied of it, and a backend a reader did not see was missing while it looked |

The `...TypeCorrectness` theorems give the type invariants, for every value of
the constants; the runs leave `TypeOK` and `JobsTypeOK` to them.

Composition: `JobsImplementComponents` shows that a behaviour of `JobsSpec`, which
the run `jobs` explores, is a behaviour of each of the twenty component
specifications (`JobsStep`: a step is one of the component that `job` names, and
`OthersRest` makes it a stutter of the others). `JobsCorrectness` and
`JobsTypeCorrectness` then follow from the components' theorems without another
induction: each property of the run holds of the composition.

Three components have an abstract specification. Each proof has an `AbstractSteps`
lemma, which restates the abstract actions over the concrete variables, and lemmas
that show which abstract action a concrete step is.

`CascadeRefinement` is the refinement of `MountCascade`: starting a worker is `Undertake`, a stage with
nothing to visit is a stutter or `StopAwaiting`, a restart is `MountGoes`,
`Freshens` or `GoesStale` by the container's role, and whatever the mount order
cannot repair is `Disturbance`. `IInv` is needed: an owed restart is discharged
only on a live mount because the loops come in their order.

`DeliveryRefinement`: acknowledging is `Arrives`; a shown post is `IsShown`, of an
event that by `ListenerInv` is nowhere else; dropping, discarding, giving up and a
crash are `AreGivenUp`; queueing, taking and backing off change no abstract state.
`AuditRefinement`: calling is `Asks`, the end of a verb `Runs`, logging `IsLogged`,
an answer `IsTold`, the host's stop `HostGoesDown`; time-outs, broken pipes,
activation and exits of the daemon are stutters, which is what the audit log is
for.

An abstract specification that allowed anything would be implemented by anything.
`CascadePromise`, `DeliveryPromise` and `AuditPromise` are proved of the abstract
specifications alone: they imply the fleet's two safety properties,
`NeverShownTwice`, and that no caller is told an outcome that is not its own
verb's or not in the log (`ToldTruly`), nor two verbs run that it has not
(`LoggedInTurn`).

Only model-checked:

* Liveness (`RestartAllEnds`, `PendingRequestsAreServed`, `AcknowledgedIsHandled`,
  `ScrapesForever`): fairness and `ENABLED` are beyond the prover.
* The five violated statements, which are findings.

## Plan

Done: every module model-checked; every safety property, action property and
refinement proved for all constants, also for the composition that `jobs` runs.

What could follow:

* Lemmas that say what the operators of the models compute where it is not
  obvious (`Merged`, `BucketFor`, `Surge`, `Verdict`), stated once and cited.
* The parts of the panel that keep no state between two calls, should they come to
  keep any.

What holds in place of two of the violated statements is among the proved
properties: `QuiescentFleetIsFresh` for every container but the panel, and
`ReportHasEvidence` for orphans of series that could be read.

## Not modelled

* Rendering, parsing, formatting and logging.
* Read-only diagnostics of the panel and its single-call proxies to the apps
  (`cleanuparr/`, the rest of `watchstate/`, most of `core/arr_client.py`): no
  state between two calls.
* Authentication: stateless decisions; sessions are Django's.
* The Letterboxd and poster importers: one call per parsed entry, to panel routes
  (`/api/arr/...`, `/api/posters/...`) that the present panel does not serve.
* Fish functions, their generators, compose, dashboards and CI: configuration
  and text.

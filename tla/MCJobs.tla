------------------------------- MODULE MCJobs -------------------------------
(***************************************************************************)
(* One run for the components that are complete in themselves: scripts     *)
(* that timers and people start, and services of the panel.  They share no *)
(* state, so their interleavings say nothing and are not explored: job     *)
(* names the one component that steps, for the whole behaviour.            *)
(***************************************************************************)
EXTENDS LibraryReport, HealthCheck, UpstreamCheck, CveScan, MCBadFilesReport,
        Reconcile, OrphanFolders, TmdbAudit, Provisioning, SetupWizard, FishInstall,
        ArrQueue, NzbHistory, QueueStatus, PanelSettings, ArrBackup,
        ConfigEdits, ToplistsImport, FishRename, WatchStatus

VARIABLE job

Job == {"library_report", "health_check", "upstream_check", "cve_scan",
        "bad_files", "reconcile", "orphan_folders", "tmdb_audit",
        "provisioning", "setup_wizard", "fish_install", "arr_queue",
        "nzb_history", "queue_status", "panel_settings", "arr_backup",
        "config_edits", "toplists_import", "fish_rename",
        "watch_status"}

MCPath    == {"iso", "ep"}
MCLibrary == [iso |-> "radarr", ep |-> "sonarr"]

\* A good title, a good title of another year, a poor one of the right year.
MCFound == {[ratio |-> 95, delta |-> 0], [ratio |-> 65, delta |-> 3], [ratio |-> 58, delta |-> 0]}

MCArrApps == <<"radarr", "sonarr">>

MCSourceOf == [movie |-> "radarr", nzb |-> "nzbdav"]

-----------------------------------------------------------------------------
JobsInit ==
  /\ job \in Job
  /\ ReportInit /\ CheckInit /\ UpstreamInit /\ CveInit
  /\ FileInit /\ ReconcileInit /\ OrphanInit /\ AuditInit
  /\ ProvisionInit /\ WizardInit /\ FishInit /\ ArrInit
  /\ HistoryInit /\ QueueInit /\ SettingsInit /\ BackupInit
  /\ EditInit /\ ToplistInit /\ RenameInit /\ WatchInit

\* The components that do not step keep their state, and job stays.
OthersRest ==
  /\ UNCHANGED job
  /\ job # "library_report"  => UNCHANGED reportVars
  /\ job # "health_check"    => UNCHANGED checkVars
  /\ job # "upstream_check"  => UNCHANGED upstreamVars
  /\ job # "cve_scan"        => UNCHANGED cveVars
  /\ job # "bad_files"       => UNCHANGED fileVars
  /\ job # "reconcile"       => UNCHANGED reconcileVars
  /\ job # "orphan_folders"  => UNCHANGED orphanVars
  /\ job # "tmdb_audit"      => UNCHANGED auditVars
  /\ job # "provisioning"    => UNCHANGED provisionVars
  /\ job # "setup_wizard"    => UNCHANGED wizardVars
  /\ job # "fish_install"    => UNCHANGED fishVars
  /\ job # "arr_queue"       => UNCHANGED arrVars
  /\ job # "nzb_history"     => UNCHANGED historyVars
  /\ job # "queue_status"    => UNCHANGED queueVars
  /\ job # "panel_settings"  => UNCHANGED settingVars
  /\ job # "arr_backup"      => UNCHANGED backupVars
  /\ job # "config_edits"    => UNCHANGED editVars
  /\ job # "toplists_import" => UNCHANGED toplistVars
  /\ job # "fish_rename"     => UNCHANGED renameVars
  /\ job # "watch_status"    => UNCHANGED watchVars

ReportJob    == job = "library_report" /\ OthersRest /\ ReportNext
CheckJob     == job = "health_check" /\ OthersRest /\ CheckNext
UpstreamJob  == job = "upstream_check" /\ OthersRest /\ UpstreamNext
CveJob       == job = "cve_scan" /\ OthersRest /\ CveNext
FileJob      == job = "bad_files" /\ OthersRest /\ FileNext
ReconcileJob == job = "reconcile" /\ OthersRest /\ ReconcileNext
OrphanJob    == job = "orphan_folders" /\ OthersRest /\ OrphanNext
AuditJob     == job = "tmdb_audit" /\ OthersRest /\ AuditNext
ProvisionJob == job = "provisioning" /\ OthersRest /\ ProvisionNext
WizardJob    == job = "setup_wizard" /\ OthersRest /\ WizardNext
FishJob      == job = "fish_install" /\ OthersRest /\ FishNext
ArrJob       == job = "arr_queue" /\ OthersRest /\ ArrNext
HistoryJob   == job = "nzb_history" /\ OthersRest /\ HistoryNext
QueueJob     == job = "queue_status" /\ OthersRest /\ QueueNext
SettingsJob  == job = "panel_settings" /\ OthersRest /\ SettingsNext
BackupJob    == job = "arr_backup" /\ OthersRest /\ BackupNext
EditJob      == job = "config_edits" /\ OthersRest /\ EditNext
ToplistJob   == job = "toplists_import" /\ OthersRest /\ ToplistNext
RenameJob    == job = "fish_rename" /\ OthersRest /\ RenameNext
WatchJob     == job = "watch_status" /\ OthersRest /\ WatchNext

JobsNext ==
  \/ ReportJob \/ CheckJob \/ UpstreamJob \/ CveJob
  \/ FileJob \/ ReconcileJob \/ OrphanJob \/ AuditJob
  \/ ProvisionJob \/ WizardJob \/ FishJob \/ ArrJob
  \/ HistoryJob \/ QueueJob \/ SettingsJob \/ BackupJob
  \/ EditJob \/ ToplistJob \/ RenameJob \/ WatchJob

JobsVars ==
  <<job, reportVars, checkVars, upstreamVars, cveVars, fileVars,
    reconcileVars, orphanVars, auditVars, provisionVars, wizardVars,
    fishVars, arrVars, historyVars, queueVars, settingVars, backupVars,
    editVars, toplistVars, renameVars, watchVars>>

JobsSpec == JobsInit /\ [][JobsNext]_JobsVars

(* Every component keeps the types of its variables.                       *)
JobsTypeOK ==
  /\ ReportTypeOK /\ CheckTypeOK /\ UpstreamTypeOK /\ CveTypeOK
  /\ FileTypeOK /\ ReconcileTypeOK /\ OrphanTypeOK /\ AuditTypeOK
  /\ ProvisionTypeOK /\ WizardTypeOK /\ FishTypeOK /\ ArrTypeOK
  /\ HistoryTypeOK /\ QueueTypeOK /\ SettingsTypeOK /\ BackupTypeOK
  /\ EditTypeOK /\ ToplistTypeOK /\ RenameTypeOK /\ WatchTypeOK
=============================================================================

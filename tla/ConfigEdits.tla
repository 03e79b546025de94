---------------------------- MODULE ConfigEdits ----------------------------
(***************************************************************************)
(* The code that changes one setting of an app by reading the whole        *)
(* configuration page and putting all of it back: enable-recycle-bin.py    *)
(* (all apps in turn), reset_log_levels (the same, in the panel) and       *)
(* disable_autoredownload_if_storm (one app).  A page is its setting and   *)
(* what else is on it; the owner edits either at any time.  The three      *)
(* settings are on different pages, so a behaviour is about one of them.   *)
(***************************************************************************)
EXTENDS Naturals

CONSTANTS
  PageApp,     \* APPS, LOG_LEVEL_APPS, ARR_APPS
  Editor       \* runs of the script, or requests of the panel

VARIABLES
  kind,        \* the setting edited, "none" before the first editor
  page,        \* app -> [setting, other]
  editor,      \* [pc, left, copy]: its place, apps to visit, the page it read
  contested    \* history: apps whose owner edited a page some editor held

editVars == <<kind, page, editor, contested>>

\* Due: no recycle bin, level "debug", autoRedownloadFailed true.
PageType == [setting : {"due", "set", "own"}, other : 0..1]
Fresh == [setting |-> "due", other |-> 0]

\* The order of the loop: the same one in every run.
Visits(e) == CHOOSE a \in editor[e].left : TRUE
Held == {Visits(e) : e \in {f \in Editor : editor[f].pc = "put"}}

-----------------------------------------------------------------------------
OwnerEdits(a) ==
  /\ \E p \in PageType \ {page[a]} : page' = [page EXCEPT ![a] = p]
  /\ contested' = IF a \in Held THEN contested \cup {a} ELSE contested
  /\ UNCHANGED <<kind, editor>>

\* The step of an editor: what becomes of its locals.
Becomes(e, l) ==
  /\ editor' = [editor EXCEPT ![e] = l]
  /\ contested' = contested \cap Held'

Idle == [pc |-> "idle", left |-> {}, copy |-> Fresh]
Visiting(left) == [pc |-> "get", left |-> left, copy |-> Fresh]

\* A storm is one app's, and over the threshold.
PageSetting == {"recycleBin", "logLevel", "autoRedownload"}
Targets(k) == IF k = "autoRedownload" THEN {{a} : a \in PageApp} ELSE {PageApp}

EditStarts(e) ==
  /\ editor[e].pc = "idle"
  /\ kind' \in IF kind = "none" THEN PageSetting ELSE {kind}
  /\ \E left \in Targets(kind') : Becomes(e, Visiting(left))
  /\ UNCHANGED page

NeverSet(p) == FALSE
AlreadySet(p) == p.setting # "due"

\* The GET: left alone, or no answer, and on to the next; or on to the PUT.
ReadsPage(e) ==
  /\ editor[e].pc = "get" /\ editor[e].left # {}
  /\ LET a == Visits(e)
         left == editor[e].left IN
     \/ Becomes(e, Visiting(left \ {a}))
     \/ ~AlreadySet(page[a]) /\ Becomes(e, [pc |-> "put", left |-> left, copy |-> page[a]])
  /\ UNCHANGED <<kind, page>>

\* The PUT of the page as it was read, with the one setting changed; or refused.
Puts(e, a) == page' = [page EXCEPT ![a] = [editor[e].copy EXCEPT !.setting = "set"]]

WritesPage(e) ==
  /\ editor[e].pc = "put"
  /\ Puts(e, Visits(e)) \/ UNCHANGED page
  /\ Becomes(e, Visiting(editor[e].left \ {Visits(e)})) /\ UNCHANGED kind

\* An answer that is lost, or a directory that cannot be made: uncaught.
BinAnswerLost(e) ==
  /\ editor[e].pc = "put"
  /\ Puts(e, Visits(e)) \/ UNCHANGED page
  /\ Becomes(e, Idle) /\ UNCHANGED kind

\* The end of the loop, of the script or of the panel.
EditEnds(e) == editor[e].pc # "idle" /\ Becomes(e, Idle) /\ UNCHANGED <<kind, page>>

EnableRecycleBin(e) == kind = "recycleBin" /\ (ReadsPage(e) \/ WritesPage(e) \/ BinAnswerLost(e))
ResetLogLevels(e) == kind = "logLevel" /\ (ReadsPage(e) \/ WritesPage(e))
DisableAutoRedownload(e) == kind = "autoRedownload" /\ (ReadsPage(e) \/ WritesPage(e))

-----------------------------------------------------------------------------
EditInit ==
  /\ kind = "none"
  /\ page = [a \in PageApp |-> Fresh] /\ editor = [e \in Editor |-> Idle]
  /\ contested = {}

EditNext ==
  \/ \E a \in PageApp : OwnerEdits(a)
  \/ \E e \in Editor : EditStarts(e) \/ EnableRecycleBin(e) \/ ResetLogLevels(e)
                       \/ DisableAutoRedownload(e) \/ EditEnds(e)

EditSpec == EditInit /\ [][EditNext]_editVars

EditTypeOK ==
  /\ kind \in PageSetting \cup {"none"}
  /\ page \in [PageApp -> PageType] /\ contested \subseteq Held
  /\ editor \in [Editor -> [pc : {"idle", "get", "put"}, left : SUBSET PageApp, copy : PageType]]

(* "Already set, left alone", and nothing else of the page touched: an editor
   changes a page only from due to set, whoever else edits it, unless the owner
   edited it between the editor's read and its write; then the whole page goes
   back to what was read (enable_recycle_bin, reset_log_levels,
   disable_autoredownload_if_storm).                                         *)
EditsAreConfined ==
  [][\A a \in PageApp \ contested :
       editor' # editor /\ page'[a] # page[a] =>
         /\ page[a].setting = "due"
         /\ page'[a] = [page[a] EXCEPT !.setting = "set"]]_editVars
=============================================================================

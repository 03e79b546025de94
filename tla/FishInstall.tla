---------------------------- MODULE FishInstall ----------------------------
(***************************************************************************)
(* scripts/fish-functions-install.py: link every command and helper of the *)
(* repository into the directory fish loads, and prune commands the        *)
(* repository no longer has.  plan() looks once, apply() works through the *)
(* lists, one unlink or symlink at a time, and may be cut short between    *)
(* any two; the repository and the directory may change under it.          *)
(***************************************************************************)
EXTENDS Integers

CONSTANTS
  Command,     \* stack-*.fish
  Helper       \* __stack_*.fish

ASSUME FishAssumption == Command \cap Helper = {}

Name == Command \cup Helper
Kind == {"absent", "link", "elsewhere", "copy"}   \* link: to the repository's source

VARIABLES
  sources,     \* names the repository has
  installed,   \* name -> what is in the directory
  installPc,   \* "idle", "apply" or "done"
  toLink,      \* link and relink
  toPrune,
  unlinked,    \* a target unlinked and not linked yet
  planned,     \* history: the directory at the plan
  still        \* history: nothing but the run changed since

fishVars == <<sources, installed, installPc, toLink, toPrune, unlinked, planned, still>>

Changed(n, kind) == installed' = [installed EXCEPT ![n] = kind]
\* A link whose source is gone is dangling, but there.
Present(n) == installed[n] # "absent"

-----------------------------------------------------------------------------
RepoChanges(n) ==
  /\ sources' = IF n \in sources THEN sources \ {n} ELSE sources \cup {n}
  /\ still' = FALSE
  /\ UNCHANGED <<installed, installPc, toLink, toPrune, unlinked, planned>>

UserChanges(n) ==
  /\ \E kind \in Kind \ {installed[n]} : Changed(n, kind)
  /\ still' = FALSE
  /\ UNCHANGED <<sources, installPc, toLink, toPrune, unlinked, planned>>

\* plan(): right links stay, everything else with a source is linked anew.
KeepsAny(n) == Present(n)
Keeps(n) == installed[n] = "link"
Prunable(n) == n \in Command \ sources

Plans ==
  /\ installPc # "apply"
  /\ toLink' = {n \in sources : ~Keeps(n)}
  /\ toPrune' = {n \in Name : Present(n) /\ Prunable(n)}
  /\ installPc' = "apply" /\ planned' = installed /\ still' = TRUE
  /\ UNCHANGED <<sources, installed, unlinked>>

\* apply(), one target: out of the way, if there is something, then linked.
Unlinks(n) ==
  /\ installPc = "apply" /\ n \in toLink /\ unlinked = {} /\ Present(n)
  /\ Changed(n, "absent")
  /\ unlinked' = {n}
  /\ UNCHANGED <<sources, installPc, toLink, toPrune, planned, still>>

Links(n) ==
  /\ installPc = "apply" /\ n \in toLink /\ unlinked \in {{}, {n}} /\ ~Present(n)
  /\ Changed(n, "link")
  /\ toLink' = toLink \ {n} /\ unlinked' = {}
  /\ UNCHANGED <<sources, installPc, toPrune, planned, still>>

Prunes(n) ==
  /\ installPc = "apply" /\ toLink = {} /\ n \in toPrune /\ Present(n)
  /\ Changed(n, "absent")
  /\ toPrune' = toPrune \ {n}
  /\ UNCHANGED <<sources, installPc, toLink, unlinked, planned, still>>

InstallEnds(pc) == installPc' = pc /\ toLink' = {} /\ toPrune' = {} /\ unlinked' = {}

InstallReturns ==
  /\ installPc = "apply" /\ toLink = {} /\ toPrune = {}
  /\ InstallEnds("done")
  /\ UNCHANGED <<sources, installed, planned, still>>

\* Cut short, or raised by a target somebody made or removed in between.
InstallStops ==
  /\ installPc = "apply"
  /\ InstallEnds("idle")
  /\ UNCHANGED <<sources, installed, planned, still>>

-----------------------------------------------------------------------------
FishInit ==
  /\ sources = Name /\ installed = [n \in Name |-> "absent"]
  /\ installPc = "idle" /\ toLink = {} /\ toPrune = {} /\ unlinked = {}
  /\ planned = installed /\ still = FALSE

FishNext ==
  \/ \E n \in Name : \/ RepoChanges(n) \/ UserChanges(n)
                     \/ Unlinks(n) \/ Links(n) \/ Prunes(n)
  \/ Plans \/ InstallReturns \/ InstallStops

FishSpec == FishInit /\ [][FishNext]_fishVars

FishTypeOK ==
  /\ installed \in [Name -> Kind] /\ planned \in [Name -> Kind]
  /\ sources \subseteq Name /\ installPc \in {"idle", "apply", "done"}
  /\ toLink \cup unlinked \subseteq Name /\ toPrune \subseteq Command

(* After a run under which nothing else changed the directory holds every
   source as a link and no command without one, whatever earlier runs were cut
   short or users left there; and a helper the repository does not have, the
   only copy there is, is as it was (plan, apply, _is_prunable_name).         *)
RunInstallsRepository ==
  installPc = "done" /\ still =>
    /\ \A n \in sources : installed[n] = "link"
    /\ \A n \in Command \ sources : ~Present(n)
    /\ \A n \in Helper \ sources : installed[n] = planned[n]
=============================================================================

---------------------------- MODULE MountCascade ----------------------------
(***************************************************************************)
(* What restart_all() promises of the FUSE mount, without workers, stages  *)
(* or health checks ("restart nearly every container in FUSE-safe mount    *)
(* order", control-panel-django/host/services.py): nobody takes the mount  *)
(* down without having undertaken to await it and to restart every         *)
(* container that binds it, and a restart counts as done only when the     *)
(* container has come up on the live mount.                                *)
(***************************************************************************)
EXTENDS Integers

CONSTANTS
  Container,
  Panel,      \* the one container the panel cannot restart
  Binders     \* containers that bind the mount

VARIABLES
  mounted,    \* the mount is live
  stale,      \* binders that hold a dead reference
  owed,       \* containers somebody has undertaken to restart
  awaited,    \* somebody has undertaken to wait for the mount
  disturbed   \* something failed, or touched the mount from outside

cascadeVars == <<mounted, stale, owed, awaited, disturbed>>

CascadeInit ==
  /\ mounted = TRUE /\ stale = {} /\ owed = {} /\ awaited = FALSE /\ disturbed = FALSE

\* The promise ends with the first disturbance.
Disturbance == disturbed'

Undertake ==
  /\ awaited' = TRUE
  /\ owed \cup (Binders \ {Panel}) \subseteq owed' /\ owed' \subseteq Container
  /\ UNCHANGED <<mounted, stale, disturbed>>

\* Only under an undertaking that still covers every binder.
MountGoes ==
  /\ awaited /\ Binders \ {Panel} \subseteq owed
  /\ mounted' = FALSE /\ stale' \subseteq Binders
  /\ UNCHANGED <<owed, awaited, disturbed>>

MountComes ==
  /\ ~mounted /\ mounted' = TRUE
  /\ UNCHANGED <<stale, owed, awaited, disturbed>>

StopAwaiting ==
  /\ mounted /\ awaited' = FALSE
  /\ UNCHANGED <<mounted, stale, owed, disturbed>>

\* A container stops, or starts on a live mount: it holds no dead reference.  A
\* restart that was owed is done only by the latter.
Freshens(c) ==
  /\ stale' = stale \ {c}
  /\ owed' = owed \/ (mounted /\ owed' = owed \ {c})
  /\ UNCHANGED <<mounted, awaited, disturbed>>

\* It starts while the mount is down: it is stale and its restart stays owed.
GoesStale(c) ==
  /\ ~mounted /\ c \in Binders
  /\ stale' = stale \cup {c}
  /\ UNCHANGED <<mounted, owed, awaited, disturbed>>

CascadeNext ==
  \/ Disturbance \/ Undertake \/ MountGoes \/ MountComes \/ StopAwaiting
  \/ \E c \in Container : Freshens(c) \/ GoesStale(c)

CascadeSpec == CascadeInit /\ [][CascadeNext]_cascadeVars
=============================================================================

---------------------------- MODULE SetupWizard ----------------------------
(***************************************************************************)
(* scripts/setup_wizard.py: a form over .env, filled from .env.example and *)
(* from the .env that is there, and written back as a whole.  The wizard   *)
(* is run again for the keys that only exist after the first boot; browser *)
(* tabs outlive it, so a form may be older than the .env it is merged into.*)
(* It serves one request at a time and stops after the first form, though  *)
(* requests that arrive before it has noticed are still served.            *)
(***************************************************************************)
EXTENDS Integers

CONSTANTS
  Key,         \* the KEY= lines of .env.example
  PostBoot,    \* POST_BOOT_KEYS
  Value,       \* what fields hold
  Example,     \* "changeme": the values of .env.example
  Blank,       \* a field left empty, which parse_qs drops
  Absent,      \* no such line in .env
  Tab

ASSUME WizardAssumption ==
  /\ PostBoot \subseteq Key
  /\ Example \in Value /\ Blank \notin Value /\ Absent \notin Value \cup {Blank}

VARIABLES
  env,         \* .env: key -> value or Absent
  form,        \* tab -> key -> value its form was rendered with, or Absent
  wizard,      \* "down", "serving", "writing", "answering" or "stopping"
  posted,      \* the form being handled
  content,     \* what do_POST made of it
  advice,      \* next_step of this wizard's last answer: "none", "up" or "recreate"
  hadKeys,     \* had_arr_keys_before
  \* History.  A value is given by an edit of .env, or in a form by a field that
  \* is changed and not blank; a field left as it was rendered gives nothing.
  meant,       \* per key, the value last given
  stale,       \* per tab, keys given a value since the form in it was rendered
  entered,     \* keys given a value in the form being handled
  behind,      \* keys that form holds an older value of
  overwritten  \* keys whose last value such a form has overwritten

givenVars == <<meant, stale, entered, behind, overwritten>>
wizardVars == <<env, form, wizard, posted, content, advice, hadKeys, givenVars>>

NoLines == [k \in Key |-> Absent]

Staler(keys) == [t \in Tab |-> IF form[t] = NoLines THEN {} ELSE stale[t] \cup keys]

-----------------------------------------------------------------------------
\* The owner edits .env by hand at any moment, or an older one lacks a key.
EditsEnv(k) ==
  /\ \E v \in (Value \cup {Absent}) \ {env[k]} :
       env' = [env EXCEPT ![k] = v] /\ meant' = [meant EXCEPT ![k] = v]
  /\ stale' = Staler({k})
  /\ behind' = IF wizard = "writing" THEN behind \cup {k} ELSE behind
  /\ overwritten' = overwritten \ {k}
  /\ UNCHANGED <<form, wizard, posted, content, advice, hadKeys, entered>>

WizardStarts ==
  /\ wizard = "down" /\ wizard' = "serving"
  /\ UNCHANGED <<env, form, posted, content, advice, hadKeys, givenVars>>

InitialValue(k) == IF env[k] = Absent THEN Example ELSE env[k]

\* do_GET
RendersForm(t) ==
  /\ wizard \in {"serving", "stopping"}
  /\ form' = [form EXCEPT ![t] = [k \in Key |-> InitialValue(k)]]
  /\ stale' = [stale EXCEPT ![t] = {}]
  /\ UNCHANGED <<env, wizard, posted, content, advice, hadKeys, meant, entered, behind, overwritten>>

\* render_env_file(): a blank field keeps what .env has, else the example's.
BlankIsExample(fields) ==
  [k \in Key |-> IF fields[k] = Blank THEN Example ELSE fields[k]]
Merged(fields) ==
  [k \in Key |-> IF fields[k] = Blank THEN InitialValue(k) ELSE fields[k]]

HasKeys(lines) == \E k \in PostBoot : lines[k] \notin {Absent, Example}

\* do_POST of a form in which at most one field was changed.
Submits(t) ==
  /\ wizard \in {"serving", "stopping"} /\ form[t] # NoLines
  /\ \E k \in Key, v \in Value \cup {Blank} : posted' = [form[t] EXCEPT ![k] = v]
  /\ content' = Merged(posted') /\ hadKeys' = HasKeys(env)
  /\ wizard' = "writing" /\ form' = [form EXCEPT ![t] = NoLines]
  /\ entered' = {k \in Key : posted'[k] \notin {form[t][k], Blank}}
  /\ behind' = {k \in stale[t] : posted'[k] = form[t][k]}
  /\ stale' = [stale EXCEPT ![t] = {}]
  /\ UNCHANGED <<env, advice, meant, overwritten>>

\* Both post-boot keys that were posted and those kept count as there now.
HasKeysNow ==
  \E k \in PostBoot : (IF posted[k] # Blank THEN posted[k] ELSE content[k]) # Example

\* write_env_atomic(): os.replace of a temporary file, which a wizard that ends
\* before leaves behind, torn perhaps, and nobody reads.
ReplacesEnv ==
  /\ wizard = "writing" /\ wizard' = "answering"
  /\ env' = content
  /\ advice' = IF HasKeysNow /\ ~hadKeys THEN "recreate" ELSE "up"
  /\ posted' = NoLines /\ content' = NoLines /\ hadKeys' = FALSE
  /\ meant' = [k \in Key |-> IF k \in entered THEN posted[k] ELSE meant[k]]
  /\ stale' = Staler(entered)
  /\ overwritten' = (overwritten \cup behind) \ entered
  /\ entered' = {} /\ behind' = {}
  /\ UNCHANGED form

AnswersForm ==
  /\ wizard = "answering" /\ wizard' = "stopping"
  /\ UNCHANGED <<env, form, posted, content, advice, hadKeys, givenVars>>

\* Its shutdown() noticed, or Ctrl-C, or the container stopped: anywhere.
WizardEnds ==
  /\ wizard # "down" /\ wizard' = "down" /\ advice' = "none"
  /\ posted' = NoLines /\ content' = NoLines /\ hadKeys' = FALSE
  /\ entered' = {} /\ behind' = {}
  /\ UNCHANGED <<env, form, meant, stale, overwritten>>

-----------------------------------------------------------------------------
WizardInit ==
  /\ env = NoLines /\ form = [t \in Tab |-> NoLines]
  /\ wizard = "down" /\ posted = NoLines /\ content = NoLines
  /\ advice = "none" /\ hadKeys = FALSE
  /\ meant = env /\ stale = [t \in Tab |-> {}] /\ entered = {} /\ behind = {} /\ overwritten = {}

WizardNext ==
  \/ \E k \in Key : EditsEnv(k)
  \/ \E t \in Tab : RendersForm(t) \/ Submits(t)
  \/ WizardStarts \/ ReplacesEnv \/ AnswersForm \/ WizardEnds

WizardSpec == WizardInit /\ [][WizardNext]_wizardVars

WizardTypeOK ==
  /\ env \in [Key -> Value \cup {Absent}] /\ meant \in [Key -> Value \cup {Absent}]
  /\ form \in [Tab -> [Key -> Value] \cup {NoLines}]
  /\ wizard \in {"down", "serving", "writing", "answering", "stopping"}
  /\ posted \in [Key -> Value \cup {Blank}] \cup {NoLines}
  /\ content \in [Key -> Value] \cup {NoLines}
  /\ advice \in {"none", "up", "recreate"} /\ hadKeys \in BOOLEAN
  /\ stale \in [Tab -> SUBSET Key] /\ entered \cup behind \cup overwritten \subseteq Key

Shown(v) == IF v = Absent THEN Example ELSE v

(* "anything left blank keeps its current value" and "only the fields that
   actually changed need retyping": .env holds, for each key, the value somebody
   last gave it, or the example's when its line was deleted, through queued
   requests, blank and untouched fields, a wizard that ends anywhere and runs
   again.  What undoes a value is one of two things only: a form rendered before
   it was given is submitted with that field untouched, or it was written into
   .env by hand while a form was being handled.                                *)
AnswersAreKept ==
  \A k \in Key \ overwritten : env[k] \in {meant[k], Shown(meant[k])}

=============================================================================

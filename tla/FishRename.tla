----------------------------- MODULE FishRename -----------------------------
(***************************************************************************)
(* scripts/fish-rename.py: give twelve commands new names in every file    *)
(* that uses them.  Texts are edited one after the other, then the .fish   *)
(* files are moved, then the installer runs, then git grep looks for the   *)
(* old names.  The run may be cut short anywhere, also within a write, and *)
(* somebody may work in the tree meanwhile.  The record files, which keep  *)
(* the old names, are left out: neither loop looks at them.  The script is *)
(* not one of them: its own table has every old name.                      *)
(***************************************************************************)
CONSTANTS
  Renamed,     \* keys of RENAMES
  Doc          \* the texts of targets() that are no function file

Function == Renamed \X {"old", "new"}     \* command and the name of its file
Text == Doc \cup Function

ASSUME RenameAssumption == Doc \cap Function = {}

VARIABLES
  functions,   \* the function files there are
  naming,      \* text -> commands it names by the old name
  untouched,   \* commands so named in a tracked file that targets() does not list
  loaded,      \* function files that fish loads
  renamePc,    \* "idle", "edit", "move", "install" or "grep"
  unedited,    \* texts of targets() to be edited
  pending,     \* commands this loop has not come to
  leftovers,   \* old names found, of the last run
  renameExit,  \* "none", "0", "1" or "died"
  calm,        \* history: nobody else changed the tree since the run began
  late,        \* history: old names somebody brought back after their grep
  ungrepped    \* history: old names whose grep failed

tree == <<functions, naming, untouched>>
rename == <<renamePc, unedited, pending, leftovers, renameExit>>
renameVars == <<tree, loaded, rename, calm, late, ungrepped>>

InTree == Doc \cup functions

\* The loops' order: the same one in every run.
First(S) == CHOOSE x \in S : TRUE

-----------------------------------------------------------------------------
\* Somebody writes old names, as a merge of an older branch does.  One change
\* a run; it may come at any time.
Intrudes(names) ==
  /\ calm /\ calm' = FALSE
  /\ late' = IF renamePc = "grep" THEN late \cup (names \ pending)
             ELSE IF renamePc = "idle" THEN late \cup names ELSE late
  /\ UNCHANGED <<loaded, rename, ungrepped>>

TextChanges(x, c) ==
  /\ x \in InTree /\ naming' = [naming EXCEPT ![x] = @ \cup {c}]
  /\ Intrudes({c})
  /\ UNCHANGED <<functions, untouched>>

\* A file outside targets() gets an old name, or loses it: the script itself,
\* when somebody takes it out of the index.
OthersChange(c) ==
  /\ untouched' = IF c \in untouched THEN untouched \ {c} ELSE untouched \cup {c}
  /\ Intrudes({c})
  /\ UNCHANGED <<functions, naming>>

\* A function file under its old name defines the function of that name.
OldFileReturns(c) ==
  /\ <<c, "old">> \notin functions
  /\ functions' = functions \cup {<<c, "old">>}
  /\ naming' = [naming EXCEPT ![<<c, "old">>] = {c}]
  /\ Intrudes({c})
  /\ UNCHANGED untouched

FunctionGoes(f) ==
  /\ functions' = functions \ {f} /\ naming' = [naming EXCEPT ![f] = {}]
  /\ Intrudes({})
  /\ UNCHANGED untouched

-----------------------------------------------------------------------------
Enters(at, commands) ==
  /\ renamePc' = at /\ pending' = commands
  /\ UNCHANGED <<renameExit, calm, late>>

Exits(result) ==
  /\ renamePc' = "idle" /\ renameExit' = result
  /\ unedited' = {} /\ pending' = {}
  /\ UNCHANGED <<leftovers, calm, late, ungrepped>>

RenameStarts ==
  /\ renamePc = "idle"
  /\ renamePc' = "edit" /\ unedited' = InTree /\ renameExit' = "none"
  /\ leftovers' = {} /\ calm' = TRUE /\ late' = {} /\ ungrepped' = {}
  /\ UNCHANGED <<tree, loaded, pending>>

\* rename_text leaves no old name, one pass over all of them.
RenameText(names) == names \ Renamed

\* A text that is gone by its turn raises.
Turn(x) == renamePc = "edit" /\ unedited # {} /\ x = First(unedited) /\ x \in InTree

Edits(x) ==
  /\ Turn(x)
  /\ naming' = [naming EXCEPT ![x] = RenameText(@)]
  /\ unedited' = unedited \ {x}
  /\ UNCHANGED <<functions, untouched, loaded, renamePc, pending, leftovers, renameExit,
                 calm, late, ungrepped>>

\* write_text empties the file first: cut there, the text is lost and the
\* next run finds no old name in it.
DiesInWrite(x) ==
  /\ Turn(x) /\ naming[x] # {}
  /\ naming' = [naming EXCEPT ![x] = {}]
  /\ Exits("died")
  /\ UNCHANGED <<functions, untouched, loaded>>

EditsAll ==
  /\ renamePc = "edit" /\ unedited = {} /\ Enters("move", Renamed)
  /\ UNCHANGED <<tree, loaded, unedited, leftovers, ungrepped>>

\* git mv refuses when the new file is there, which ends the run.
MovesFile(c) ==
  /\ renamePc = "move" /\ pending # {} /\ c = First(pending)
  /\ <<c, "old">> \in functions /\ <<c, "new">> \notin functions
  /\ functions' = (functions \ {<<c, "old">>}) \cup {<<c, "new">>}
  /\ naming' = [naming EXCEPT ![<<c, "new">>] = naming[<<c, "old">>], ![<<c, "old">>] = {}]
  /\ Enters("move", pending \ {c})
  /\ UNCHANGED <<untouched, loaded, unedited, leftovers, ungrepped>>

HasNoOldFile(c) ==
  /\ renamePc = "move" /\ pending # {} /\ c = First(pending)
  /\ <<c, "old">> \notin functions
  /\ Enters("move", pending \ {c})
  /\ UNCHANGED <<tree, loaded, unedited, leftovers, ungrepped>>

MovesAll ==
  /\ renamePc = "move" /\ pending = {} /\ Enters("install", {})
  /\ UNCHANGED <<tree, loaded, unedited, leftovers, ungrepped>>

\* fish-functions-install.py, by what FishInstall shows of a finished run.
RunsInstaller ==
  /\ renamePc = "install"
  /\ loaded' = functions
  /\ Enters("grep", Renamed)
  /\ UNCHANGED <<tree, unedited, leftovers, ungrepped>>

\* Mutant: looks only where the first loop edits.
HitsInTargets(c) == \E x \in InTree : c \in naming[x]

Hits(c) == c \in untouched \/ \E x \in InTree : c \in naming[x]

\* Its return code is not looked at: a git grep that fails prints nothing and
\* counts as no hit.
GrepsFor(c) ==
  /\ renamePc = "grep" /\ pending # {} /\ c = First(pending)
  /\ \/ leftovers' = (IF Hits(c) THEN leftovers \cup {c} ELSE leftovers) /\ UNCHANGED ungrepped
     \/ ungrepped' = ungrepped \cup {c} /\ UNCHANGED leftovers
  /\ Enters("grep", pending \ {c})
  /\ UNCHANGED <<tree, loaded, unedited>>

RenameEnds ==
  /\ renamePc = "grep" /\ pending = {}
  /\ Exits(IF leftovers = {} THEN "0" ELSE "1")
  /\ UNCHANGED <<tree, loaded>>

RenameDies == renamePc # "idle" /\ Exits("died") /\ UNCHANGED <<tree, loaded>>

-----------------------------------------------------------------------------
RenameInit ==
  /\ functions = Renamed \X {"old"} /\ loaded = functions
  /\ naming = [x \in Text |-> IF x \in Doc THEN Renamed ELSE {c \in Renamed : x = <<c, "old">>}]
  /\ untouched = Renamed
  /\ renamePc = "idle" /\ unedited = {} /\ pending = {} /\ leftovers = {}
  /\ renameExit = "none" /\ calm = TRUE /\ late = {} /\ ungrepped = {}

RenameNext ==
  \/ \E c \in Renamed :
       \/ OthersChange(c) \/ OldFileReturns(c) \/ \E x \in Text : TextChanges(x, c)
       \/ MovesFile(c) \/ HasNoOldFile(c) \/ GrepsFor(c)
  \/ \E f \in functions : FunctionGoes(f)
  \/ \E x \in Text : Edits(x) \/ DiesInWrite(x)
  \/ RenameStarts \/ EditsAll \/ MovesAll \/ RunsInstaller \/ RenameEnds \/ RenameDies

RenameSpec == RenameInit /\ [][RenameNext]_renameVars

-----------------------------------------------------------------------------
(* Types of the tree and of the run.                                       *)
RenameTypeOK ==
  /\ functions \subseteq Function /\ loaded \subseteq Function
  /\ naming \in [Text -> SUBSET Renamed]
  /\ renamePc \in {"idle", "edit", "move", "install", "grep"}
  /\ unedited \subseteq Text
  /\ {untouched, pending, leftovers, late, ungrepped} \subseteq SUBSET Renamed
  /\ renameExit \in {"none", "0", "1", "died"}
  /\ calm \in BOOLEAN

(* "the script proves it by grepping for each old name afterwards": however *)
(* many runs were cut short before it and whoever works in the tree, a run  *)
(* that ends has named every old name that is left, but for those brought   *)
(* back after it looked and those whose git grep failed, which it passes    *)
(* over; and unless somebody interfered no text it edits has an old name,   *)
(* no function file has one, and fish loads what the tree has.              *)
RenameIsComplete ==
  renameExit \in {"0", "1"} =>
    /\ \A c \in Renamed \ (leftovers \cup ungrepped \cup late) :
         c \notin untouched /\ \A x \in InTree : c \notin naming[x]
    /\ calm => /\ functions \subseteq Renamed \X {"new"} /\ loaded = functions
               /\ \A x \in InTree : naming[x] = {}
=============================================================================

--------------------------- MODULE OrphanFolders ---------------------------
(***************************************************************************)
(* scripts/radarr-orphan-empty-folders.py --apply: remove folders Radarr   *)
(* reports as unmapped, whose {tmdb-N} id it does not know, and which are  *)
(* empty.  Radarr adds, imports and deletes movies between the script's    *)
(* four looks at the world; a movie stands for its id, a folder for its    *)
(* movie.                                                                  *)
(***************************************************************************)
EXTENDS Integers

CONSTANTS Folder, Tagged   \* Tagged: folders with a {tmdb-N} tag

VARIABLES
  movies,      \* folders whose id Radarr knows
  elsewhere,   \* of these, the movies Radarr keeps in another folder
  folders,     \* folders on disk
  filled,      \* folders with a file in them
  orphanPc,    \* 0 start, 1 unmapped read, 2 ids read, 3 deleting, 4 done
  names,       \* unmapped folders, then those still to classify or to delete
  known,       \* the ids read
  deletable, removed, failed,
  destroyed,   \* history: folders removed with a file in them
  addedSince   \* history: movies added after the ids were read

radarrVars == <<movies, elsewhere, folders, filled>>
orphanVars ==
  <<radarrVars, orphanPc, names, known, deletable, removed, failed, destroyed, addedSince>>
scriptVars == <<orphanPc, names, known, deletable, removed, failed, destroyed>>

-----------------------------------------------------------------------------
\* createEmptyMovieFolders: the folder is made when the movie is added.
MovieAdded(f) ==
  /\ f \notin movies
  /\ movies' = movies \cup {f}
  /\ \/ folders' = folders \cup {f} /\ UNCHANGED elsewhere
     \/ elsewhere' = elsewhere \cup {f} /\ UNCHANGED folders
  /\ addedSince' = IF orphanPc >= 2 THEN addedSince \cup {f} ELSE addedSince
  /\ UNCHANGED <<filled, scriptVars>>

\* A file arrives in a folder: an import, or somebody's copy.
FileArrives(f) ==
  /\ f \in folders /\ filled' = filled \cup {f}
  /\ UNCHANGED <<movies, elsewhere, folders, scriptVars, addedSince>>

\* deleteEmptyFolders is off: the folder stays, with or without its file.
MovieDeleted(f) ==
  /\ f \in movies
  /\ movies' = movies \ {f} /\ elsewhere' = elsewhere \ {f}
  /\ filled' = filled \/ filled' = filled \ {f}
  /\ UNCHANGED <<folders, scriptVars, addedSince>>

ReadsUnmapped ==
  /\ orphanPc = 0 /\ orphanPc' = 1
  /\ names' = folders \ (movies \ elsewhere)
  /\ UNCHANGED <<radarrVars, known, deletable, removed, failed, destroyed, addedSince>>

ReadsIds ==
  /\ orphanPc = 1 /\ orphanPc' = 2
  /\ known' = movies
  /\ UNCHANGED <<radarrVars, names, deletable, removed, failed, destroyed, addedSince>>

\* The conditions classify() has besides emptiness.
TagOnly(f) == f \in Tagged
Candidate(f) == f \in Tagged /\ f \notin known

\* One name of classify(): listdir only looks at the candidates.
Classifies(f) ==
  /\ orphanPc = 2 /\ f \in names
  /\ names' = names \ {f}
  /\ deletable' = IF Candidate(f) /\ f \in folders \ filled THEN deletable \cup {f} ELSE deletable
  /\ UNCHANGED <<radarrVars, orphanPc, known, removed, failed, destroyed, addedSince>>

\* --apply; a dry run ends here.
StartsDeleting ==
  /\ orphanPc = 2 /\ names = {}
  /\ names' = deletable
  /\ orphanPc' \in {3, 4}
  /\ UNCHANGED <<radarrVars, known, deletable, removed, failed, destroyed, addedSince>>

\* One os.rmdir(): it fails when the folder has a file or is gone.
RmdirSucceeds(f) == f \in folders \ filled

Removes(f) ==
  /\ orphanPc = 3 /\ f \in names
  /\ names' = names \ {f}
  /\ IF RmdirSucceeds(f)
     THEN /\ folders' = folders \ {f} /\ removed' = removed \cup {f}
          /\ destroyed' = destroyed \cup ({f} \cap filled) /\ filled' = filled \ {f}
          /\ UNCHANGED failed
     ELSE failed' = failed \cup {f} /\ UNCHANGED <<folders, filled, removed, destroyed>>
  /\ orphanPc' = IF names = {f} THEN 4 ELSE 3
  /\ UNCHANGED <<movies, elsewhere, known, deletable, addedSince>>

-----------------------------------------------------------------------------
OrphanInit ==
  /\ movies = {} /\ elsewhere = {} /\ folders = {} /\ filled = {}
  /\ orphanPc = 0 /\ names = {} /\ known = {} /\ deletable = {} /\ removed = {}
  /\ failed = {} /\ destroyed = {} /\ addedSince = {}

OrphanNext ==
  \/ ReadsUnmapped \/ ReadsIds \/ StartsDeleting
  \/ \E f \in Folder : \/ MovieAdded(f) \/ FileArrives(f) \/ MovieDeleted(f)
                       \/ Classifies(f) \/ Removes(f)

OrphanSpec == OrphanInit /\ [][OrphanNext]_orphanVars

OrphanTypeOK ==
  /\ {movies, folders, names, known, deletable, removed, failed, addedSince} \subseteq SUBSET Folder
  /\ elsewhere \subseteq movies /\ filled \subseteq folders
  /\ orphanPc \in 0..4

(* "The caller never deletes on a guess": no folder goes with a file in it, and
   a folder removed although Radarr has its movie belongs to one added after the
   script read the ids - which reading the ids last is for.                   *)
OnlyOrphansRemoved ==
  /\ destroyed = {}
  /\ removed \cap movies \subseteq addedSince
=============================================================================

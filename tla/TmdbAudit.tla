----------------------------- MODULE TmdbAudit -----------------------------
(***************************************************************************)
(* scripts/audit-tmdb-links.py: for each movie without a TMDb link, search *)
(* TMDb by title and year, then by title, each query with retries, and     *)
(* pick the best candidate.  A query that never gets an answer raises      *)
(* TMDbUnavailable.  Ratios and scores are in percent.                     *)
(***************************************************************************)
EXTENDS Integers

CONSTANTS
  Movie,
  Found,     \* candidates TMDb may return: [ratio |-> 0..100, delta |-> years]
  Retries,   \* 3
  MinRatio   \* MIN_CANDIDATE_RATIO, 60

ASSUME AuditAssumption == Retries \in Nat \ {0} /\ MinRatio \in 0..100

VARIABLES
  auditPc,   \* "idle", "searching", "written" or "aborted"
  todoMovies,\* movies not audited yet
  query,     \* of the movie being searched: [movie, withYear, attempt], or NoQuery
  status,    \* rows: movie -> status
  asked,     \* history: per movie its queries, with the year (TRUE) or without
  answers,   \* history: those of them that TMDb answered
  results    \* history: per movie, the candidates of its last answer

auditVars == <<auditPc, todoMovies, query, status, asked, answers, results>>

NoQuery == [movie |-> "none", withYear |-> FALSE, attempt |-> 0]

\* best_candidate(): the best score decides, the threshold is on its ratio.
Score(c) == c.ratio - 5 * c.delta
Best(cands) == {c \in cands : \A d \in cands : Score(d) <= Score(c)}
Matches(cands) == \E c \in Best(cands) : c.ratio >= MinRatio
Misses(cands) == cands = {} \/ \E c \in Best(cands) : c.ratio < MinRatio

Row(m, s) ==
  /\ status' = [x \in DOMAIN status \cup {m} |-> IF x = m THEN s ELSE status[x]]
  /\ query' = NoQuery

-----------------------------------------------------------------------------
AuditStarts ==
  /\ auditPc = "idle" /\ auditPc' = "searching"
  /\ todoMovies' = Movie
  /\ UNCHANGED <<query, status, asked, answers, results>>

AlreadyLinked(m) ==
  /\ auditPc = "searching" /\ query = NoQuery /\ m \in todoMovies
  /\ todoMovies' = todoMovies \ {m}
  /\ Row(m, "matched")
  /\ UNCHANGED <<auditPc, asked, answers, results>>

\* tmdb_search(): a movie without a year is searched by title alone.
Searches(m) ==
  /\ auditPc = "searching" /\ query = NoQuery /\ m \in todoMovies
  /\ todoMovies' = todoMovies \ {m}
  /\ \E year \in BOOLEAN :
       /\ query' = [movie |-> m, withYear |-> year, attempt |-> 1]
       /\ asked' = [asked EXCEPT ![m] = {year}]
  /\ UNCHANGED <<auditPc, status, answers, results>>

\* A timeout, an HTTP error or a 429.  After the last attempt the movie is a
\* search error, whatever the query before said.
AsUnmatched == "unmatched"
WhenExhausted == "search_error"

AttemptFails ==
  /\ query # NoQuery
  /\ IF query.attempt < Retries
     THEN query' = [query EXCEPT !.attempt = @ + 1] /\ UNCHANGED status
     ELSE Row(query.movie, WhenExhausted)
  /\ UNCHANGED <<auditPc, todoMovies, asked, answers, results>>

\* int() of a Retry-After that is a date: nothing catches the ValueError.
RetryAfterIsADate ==
  /\ query # NoQuery
  /\ auditPc' = "aborted" /\ query' = NoQuery
  /\ UNCHANGED <<todoMovies, status, asked, answers, results>>

\* An answer: an empty one to the query with the year asks again without.
Answered ==
  /\ query # NoQuery
  /\ \E cands \in SUBSET Found :
       /\ results' = [results EXCEPT ![query.movie] = cands]
       /\ answers' = [answers EXCEPT ![query.movie] = @ \cup {query.withYear}]
       /\ IF cands = {} /\ query.withYear
          THEN /\ query' = [query EXCEPT !.withYear = FALSE, !.attempt = 1]
               /\ asked' = [asked EXCEPT ![query.movie] = @ \cup {FALSE}]
               /\ UNCHANGED status
          ELSE /\ \/ Matches(cands) /\ Row(query.movie, "fixable")
                  \/ Misses(cands) /\ Row(query.movie, "unmatched")
               /\ UNCHANGED asked
  /\ UNCHANGED <<auditPc, todoMovies>>

\* The CSV is written once, at the end.
WritesAudit ==
  /\ auditPc = "searching" /\ todoMovies = {} /\ query = NoQuery
  /\ auditPc' = "written"
  /\ UNCHANGED <<todoMovies, query, status, asked, answers, results>>

-----------------------------------------------------------------------------
AuditInit ==
  /\ auditPc = "idle" /\ todoMovies = {} /\ query = NoQuery
  /\ status = [m \in {} |-> "matched"]
  /\ asked = [m \in Movie |-> {}] /\ answers = [m \in Movie |-> {}]
  /\ results = [m \in Movie |-> {}]

AuditNext ==
  \/ AuditStarts \/ AttemptFails \/ RetryAfterIsADate \/ Answered \/ WritesAudit
  \/ \E m \in Movie : AlreadyLinked(m) \/ Searches(m)

AuditSpec == AuditInit /\ [][AuditNext]_auditVars

AuditTypeOK ==
  /\ auditPc \in {"idle", "searching", "written", "aborted"}
  /\ todoMovies \subseteq Movie /\ DOMAIN status \subseteq Movie
  /\ query.attempt \in 0..Retries
  /\ auditPc = "written" => DOMAIN status = Movie

(* The report lists unmatched movies as deletion candidates, so an outage must
   never look like one.  Whatever queries failed, and whatever the first one said
   before the second failed: every query made for an unmatched movie was
   answered, an empty answer to one with the year was followed by one without,
   and in the last answer no candidate that clears the threshold scored best
   alone.                                                                     *)
OutageIsNotUnmatched ==
  \A m \in DOMAIN status : status[m] = "unmatched" =>
    /\ asked[m] # {} /\ answers[m] = asked[m]
    /\ results[m] = {} => FALSE \in answers[m]
    /\ Misses(results[m])

=============================================================================

-------------------------- MODULE TranscriptSearch --------------------------
(***************************************************************************)
(* transcript_search() over the store of past sessions                     *)
(* (tools/transcript_tools.py), which an import that runs for hours fills  *)
(* while it is searched.  The store and its ranking are external: a        *)
(* session is where it ran, in the project that the call asks for,         *)
(* elsewhere, or not recorded.                                             *)
(***************************************************************************)
EXTENDS Naturals, Sequences

CONSTANTS
  Overfetch, OverfetchMax,   \* _PROJECT_OVERFETCH, _PROJECT_OVERFETCH_MAX
  MaxTopK, MaxSessions,      \* bounds on a request and on the store
  NoStore

Ran == {"project", "elsewhere", "unrecorded"}

ASSUME TranscriptAssumption ==
  /\ Overfetch \in Nat \ {0} /\ OverfetchMax \in Nat \ {0}
  /\ MaxTopK \in Nat \ {0} /\ MaxSessions \in Nat
  /\ NoStore \notin Seq(Ran)

VARIABLES
  ranking,   \* the sessions in the store, best match first; or NoStore
  fit,       \* width of the embedder and of the index: "same", "differs", "unreadable"
  searchAt,        \* where the search is
  top, byProject,
  matches,   \* what the store returned
  searched,  \* history: the ranking then
  says       \* the reply

searchVars == <<ranking, fit, searchAt, top, byProject, matches, searched, says>>

Least(a, b) == IF a < b THEN a ELSE b
Fetch == IF byProject THEN Least(top * Overfetch, OverfetchMax) ELSE top
InProject(results) == SelectSeq(results, LAMBDA s : s = "project")
Unrecorded(results) == Len(SelectSeq(results, LAMBDA s : s = "unrecorded"))
Says(kind) == [kind |-> kind, shown |-> 0, unrecorded |-> 0, windowed |-> FALSE]

TranscriptInit ==
  /\ ranking \in {NoStore, <<>>} /\ fit \in {"same", "differs", "unreadable"}
  /\ searchAt = "idle" /\ top = 0 /\ byProject = FALSE
  /\ matches = <<>> /\ searched = <<>> /\ says = Says("none")

\* An unusable query or source ends the call, and so does a store that is not there.
AskTranscripts(k, p, usable) ==
  /\ searchAt = "idle"
  /\ top' = k /\ byProject' = p
  /\ IF usable /\ ranking # NoStore THEN searchAt' = "probe" /\ UNCHANGED says
     ELSE searchAt' = "told" /\ says' = Says(IF usable THEN "not_imported" ELSE "refused")
  /\ UNCHANGED <<ranking, fit, matches, searched>>

\* Mutant of Probe: an embedder of another width goes on to search.
MProbe == searchAt = "probe" /\ searchAt' = "search" /\ UNCHANGED <<ranking, fit, top, byProject, matches, searched, says>>

\* _embedder_mismatch(); a width that cannot be read does not stop the search.
Probe ==
  /\ searchAt = "probe"
  /\ IF fit = "differs" THEN searchAt' = "told" /\ says' = Says("mismatch")
     ELSE searchAt' = "search" /\ UNCHANGED says
  /\ UNCHANGED <<ranking, fit, top, byProject, matches, searched>>

\* The store is opened, once per process, and searched; to a query of another width it
\* answers nothing.
SearchStore ==
  /\ searchAt = "search" /\ searchAt' = "filter"
  /\ \/ fit # "differs" /\ matches' = SubSeq(ranking, 1, Least(Fetch, Len(ranking)))
     \/ fit # "same" /\ matches' = <<>>
  /\ searched' = ranking
  /\ UNCHANGED <<ranking, fit, top, byProject, says>>

StoreFails ==
  /\ searchAt = "search" /\ searchAt' = "told" /\ says' = Says("failed")
  /\ UNCHANGED <<ranking, fit, top, byProject, matches, searched>>

\* Mutant of Windowed: the window is told only where matches of it were cut off.
MWindowed(kept) == Len(kept) > top

\* truncated or len(results) == want
Windowed(kept) == Len(kept) >= top

Narrow ==
  /\ searchAt = "filter" /\ searchAt' = "told"
  /\ LET kept == InProject(matches) IN
       says' = IF byProject
               THEN [kind |-> IF kept = <<>> THEN "nothing" ELSE "hits",
                     shown |-> Least(Len(kept), top),
                     unrecorded |-> Unrecorded(matches), windowed |-> Windowed(kept)]
               ELSE [kind |-> IF matches = <<>> THEN "nothing" ELSE "hits",
                     shown |-> Len(matches), unrecorded |-> 0, windowed |-> FALSE]
  /\ UNCHANGED <<ranking, fit, top, byProject, matches, searched>>

EndSearch ==
  /\ searchAt = "told" /\ searchAt' = "idle"
  /\ top' = 0 /\ byProject' = FALSE /\ matches' = <<>> /\ searched' = <<>> /\ says' = Says("none")
  /\ UNCHANGED <<ranking, fit>>

\* `transcripts index` creates the store, and adds a session of any rank.
Import ==
  /\ IF ranking = NoStore THEN ranking' = <<>>
     ELSE /\ Len(ranking) < MaxSessions
          /\ \E s \in Ran, i \in 0 .. Len(ranking) :
               ranking' = SubSeq(ranking, 1, i) \o <<s>> \o SubSeq(ranking, i + 1, Len(ranking))
  /\ UNCHANGED <<fit, searchAt, top, byProject, matches, searched, says>>

TranscriptNext ==
  \/ \E k \in 1 .. MaxTopK, p \in BOOLEAN, usable \in BOOLEAN : AskTranscripts(k, p, usable)
  \/ Probe \/ SearchStore \/ StoreFails \/ Narrow \/ EndSearch
  \/ Import

TranscriptSpec == TranscriptInit /\ [][TranscriptNext]_searchVars

-----------------------------------------------------------------------------
\* "no results" never reads as "no such session" (transcript_search()): it is told only
\* of a store whose embeddings the query can match, with the sessions that could not be
\* placed; and where a session of the project that was in the store is not shown, the
\* window is told.  Not so when the window was full and held fewer than were wanted, nor
\* where the width of the index cannot be read.
AbsenceIsTold ==
  searchAt = "told" /\ says.kind \in {"nothing", "hits"} =>
    /\ fit # "differs"
    /\ fit = "same" /\ says.kind = "nothing" => byProject \/ searched = <<>>
    /\ byProject => says.unrecorded = Unrecorded(matches)
    /\ fit = "same" /\ byProject /\ Len(InProject(searched)) > says.shown =>
         says.windowed \/ (Len(searched) > Fetch /\ says.shown < top)
=============================================================================

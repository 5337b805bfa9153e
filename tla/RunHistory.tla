----------------------------- MODULE RunHistory -----------------------------
(***************************************************************************)
(* The run library of the browser: one IndexedDB store that every tab      *)
(* reads, changes and writes back whole.  A mutation is a task of its tab's*)
(* queue; where the browser has navigator.locks it also holds the lock of  *)
(* the library, elsewhere nothing keeps two tabs apart.                    *)
(*                                                                         *)
(* A record is what the operations look at: its identity, the inputs and   *)
(* the output it can be replayed with, star, warning, date and bundle.  Every  *)
(* record is one that parseRecord accepts.                                 *)
(***************************************************************************)
EXTENDS Integers, FiniteSets

CONSTANTS
  Tabs,
  RunIds,
  InputsOf,      \* what a run was computed from, NoInputs if it cannot be replayed
  OutputOf,      \* its result digest
  NoInputs,
  MaxEntries, MaxBytes, MaxStarred, Retention,
  RecordBytes, BundleBytes,
  MaxTime        \* bound on the days that pass

ASSUME SizesAssumption ==
  /\ IsFiniteSet(RunIds)
  /\ {MaxEntries, MaxBytes, MaxStarred, Retention, RecordBytes, BundleBytes, MaxTime} \subseteq Nat

\* Starred records and one more always fit: 6 of 24 entries, and six bundles of
\* 2 MB with their summaries in 20 MB.
Room ==
  /\ MaxStarred < MaxEntries
  /\ MaxStarred * (RecordBytes + BundleBytes) + RecordBytes <= MaxBytes

VARIABLES
  locks,    \* whether the browser has navigator.locks
  stored,   \* the object store
  task,     \* the mutation a tab is in
  now,      \* the date
  ran       \* the runs that have ended

libraryVars == <<locks, stored, task, now, ran>>

Records ==
  [id : RunIds, run : RunIds, star : BOOLEAN, warn : BOOLEAN, last : 0..MaxTime,
   bundle : BOOLEAN]

InputsIn(x) == InputsOf[x.run]
OutputIn(x) == OutputOf[x.run]

-----------------------------------------------------------------------------
(* fitForStorage                                                           *)

Bytes(S) == RecordBytes * Cardinality(S) + BundleBytes * Cardinality({x \in S : x.bundle})

Unstarred(S) == {x \in S : ~x.star}
Bundled(S)   == {x \in Unstarred(S) : x.bundle}

\* recordSort: the later one first, then by id (a record's own date is unique).
Oldest(S, n) == {x \in S : Cardinality({y \in S : y.last < x.last}) < n}

Fresh(S)      == {x \in S : x.star \/ x.last + Retention >= now}
Surplus(S)    == IF Cardinality(S) > MaxEntries THEN Cardinality(S) - MaxEntries ELSE 0
Counted(S)    == S \ Oldest(Unstarred(S), Surplus(S))
Strip(S, n)   == {IF x \in Oldest(Bundled(S), n) THEN [x EXCEPT !.bundle = FALSE] ELSE x : x \in S}
Drop(S, n)    == S \ Oldest(Unstarred(S), n)

\* A loop ends with the first round after which S fits, or with its last.
FirstRound(ok, last) ==
  CHOOSE n \in ok \union {last} : \A k \in ok \union {last} : n <= k

StripRounds(S) == Cardinality(Bundled(S))
DropRounds(S)  == Cardinality(Unstarred(S))
Stripped(S) ==
  Strip(S, FirstRound({n \in 0..StripRounds(S) : Bytes(Strip(S, n)) <= MaxBytes}, StripRounds(S)))
Dropped(S)  ==
  Drop(S, FirstRound({n \in 0..DropRounds(S) : Bytes(Drop(S, n)) <= MaxBytes}, DropRounds(S)))

Fit(S) == Dropped(Stripped(Counted(Fresh(S))))

\* The loops end in an error when only starred records are left.
Fits(S) ==
  /\ Cardinality(Fit(S)) <= MaxEntries
  /\ Bytes(Fit(S)) <= MaxBytes

-----------------------------------------------------------------------------
(* What each mutation makes of the records it has read.                    *)

BaseRecord(run, replayable) ==
  [id |-> run, run |-> run, star |-> FALSE, warn |-> FALSE, last |-> now, bundle |-> replayable]

\* Failed and cancelled runs, and those whose inputs may not be kept, have no bundle.
NewRecord(run) == BaseRecord(run, InputsOf[run] # NoInputs)

SameInputs(x, y) == InputsIn(x) # NoInputs /\ InputsIn(x) = InputsIn(y)
Repeats(x, y)    == x.run = y.run \/ (SameInputs(x, y) /\ OutputIn(x) = OutputIn(y))
Conflicts(x, y)  == SameInputs(x, y) /\ OutputIn(x) # OutputIn(y)

AddedUnflagged(S, x) ==
  IF \E y \in S : Repeats(y, x) THEN S
  ELSE S \union {[x EXCEPT !.warn = \E y \in S : Conflicts(y, x)]}

\* findIndex takes the first one in the order the store returned, by id.
Added(S, x) ==
  IF \E y \in S : Repeats(y, x)
  THEN LET previous == CHOOSE y \in S : Repeats(y, x)
       IN (S \ {previous}) \union {[x EXCEPT !.id = previous.id, !.star = previous.star, !.warn = previous.warn]}
  ELSE {[y EXCEPT !.warn = @ \/ Conflicts(y, x)] : y \in S}
         \union {[x EXCEPT !.warn = \E y \in S : Conflicts(y, x)]}

StarAllowed(S, id, star) ==
  \A x \in S : x.id = id /\ star /\ ~x.star => Cardinality({y \in S : y.star}) < MaxStarred

Starred(S, id, star) == {IF x.id = id THEN [x EXCEPT !.star = star] ELSE x : x \in S}

-----------------------------------------------------------------------------
(* Tasks.                                                                  *)

Idle == [at |-> "idle"]

\* runLocal records a run that has ended; its date is taken here, not when
\* the task gets its turn.
EndRun(t, run) ==
  /\ task[t] = Idle
  /\ run \notin ran
  /\ now < MaxTime
  /\ task' = [task EXCEPT ![t] = [at |-> "queued", x |-> NewRecord(run)]]
  /\ ran' = ran \union {run}
  /\ now' = now + 1
  /\ UNCHANGED <<locks, stored>>

TurnAlways(t) == TRUE

\* serializeMutation: the tab's own queue is its one task.
Turn(t) == locks => \A u \in Tabs \ {t} : task[u].at # "reading"

ReadFor(t, op, id, x) ==
  /\ Turn(t)
  /\ task' = [task EXCEPT ![t] = [at |-> "reading", op |-> op, id |-> id, x |-> x, seen |-> stored]]
  /\ UNCHANGED <<locks, stored, now, ran>>

ReadToAdd(t) ==
  /\ task[t].at = "queued"
  /\ ReadFor(t, "add", task[t].x.id, task[t].x)

\* A button of the Run library panel, for a record of a list that may be old.
ReadToChange(t, op, id) ==
  /\ task[t] = Idle
  /\ id \in ran
  /\ ReadFor(t, op, id, Idle)

\* Its Clear button, and a page that loads.
ReadToTidy(t, op) ==
  /\ task[t] = Idle
  /\ ReadFor(t, op, Idle, Idle)

\* The page is closed, or the database cannot be opened, read or written: the
\* task ends, and a write leaves what was there.
Fails(t) ==
  /\ task[t] # Idle
  /\ task' = [task EXCEPT ![t] = Idle]
  /\ UNCHANGED <<locks, stored, now, ran>>

WriteBack(S) == stored' = IF Fits(S) THEN Fit(S) ELSE stored

Finishes(t, op) ==
  /\ task[t].at = "reading"
  /\ task[t].op = op
  /\ task' = [task EXCEPT ![t] = Idle]
  /\ UNCHANGED <<locks, now, ran>>

AddRecord(t) ==
  /\ Finishes(t, "add")
  /\ WriteBack(Added(task[t].seen, task[t].x))

UpdateStar(t, star) ==
  LET seen == task[t].seen
      id   == task[t].id
  IN /\ Finishes(t, IF star THEN "star" ELSE "unstar")
     /\ IF (\E x \in seen : x.id = id) /\ StarAllowed(seen, id, star)
        THEN WriteBack(Starred(seen, id, star))
        ELSE UNCHANGED stored

RemoveRecord(t) ==
  /\ Finishes(t, "remove")
  /\ WriteBack({x \in task[t].seen : x.id # task[t].id})

ClearAll(t) ==
  /\ Finishes(t, "clear")
  /\ stored' = {}

LoadLibrary(t) ==
  LET seen == task[t].seen IN
  /\ Finishes(t, "load")
  /\ IF Cardinality(Fit(seen)) # Cardinality(seen)
     THEN WriteBack(seen)
     ELSE UNCHANGED stored

Day ==
  /\ now < MaxTime
  /\ now' = now + 1
  /\ UNCHANGED <<locks, stored, task, ran>>

LibraryInit ==
  /\ locks \in BOOLEAN
  /\ stored = {}
  /\ task = [t \in Tabs |-> Idle]
  /\ now = 0
  /\ ran = {}

LibraryNext ==
  \/ \E t \in Tabs :
       \/ \E run \in RunIds : EndRun(t, run)
       \/ \E op \in {"star", "unstar", "remove"}, id \in RunIds : ReadToChange(t, op, id)
       \/ \E op \in {"clear", "load"} : ReadToTidy(t, op)
       \/ \E star \in BOOLEAN : UpdateStar(t, star)
       \/ ReadToAdd(t) \/ AddRecord(t) \/ RemoveRecord(t) \/ ClearAll(t) \/ LoadLibrary(t) \/ Fails(t)
  \/ Day

LibrarySpec == LibraryInit /\ [][LibraryNext]_libraryVars

-----------------------------------------------------------------------------
\* Whatever tabs interleave, with or without the lock: the store is within its
\* three bounds, has one record per id and per replay, and two records that
\* claim different outputs of the same inputs both carry the warning.
StoreIsSound ==
  /\ Cardinality(stored) <= MaxEntries
  /\ Bytes(stored) <= MaxBytes
  /\ Cardinality({x \in stored : x.star}) <= MaxStarred
  /\ \A x, y \in stored : x # y => x.id # y.id /\ ~Repeats(x, y)
  /\ \A x, y \in stored : Conflicts(x, y) => x.warn /\ y.warn

\* With the lock, tabs that work at once implement the library one operation at
\* a time: no star, removal or run is lost to another tab's write.
Contents == {[id |-> x.id, star |-> x.star, last |-> x.last] : x \in stored}
Library  == INSTANCE RunLibrary WITH
              lib <- Contents, Entries <- [id : RunIds, star : BOOLEAN, last : 0..MaxTime]
RefinesLibrary == Library!Init /\ [][locks => Library!Next]_Contents
=============================================================================

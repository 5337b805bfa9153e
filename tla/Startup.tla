------------------------------ MODULE Startup ------------------------------
(***************************************************************************)
(* Deployment of a release: its migrate container brings the schema up to  *)
(* date, then the API's replicas answer readiness probes from a cache of   *)
(* two seconds.                                                            *)
(*                                                                         *)
(* A migrate run is one connection.  Migrations are numbered in file order;*)
(* an older image has fewer of them.  SQL, its row in schema_migrations and*)
(* COMMIT are one transaction; a run may die or be refused at any          *)
(* statement, and may not hear that its COMMIT succeeded.                  *)
(***************************************************************************)
EXTENDS Integers

CONSTANTS
  Migrators,     \* runs of migrate.js
  Files,         \* how many migrations the image of each run has
  Needed,        \* the version ready() asks for
  Replicas,      \* API processes
  CacheTime,     \* 2000 ms: how long a readiness answer is kept
  HeartbeatTime, \* 20 s: how old the last heartbeat may be
  QueryTime      \* bound on the ticks a readiness query takes

\* One of the images is the newest.
ASSUME StartupAssumption ==
  /\ Files \in [Migrators -> Nat]
  /\ \E newest \in Migrators : \A m \in Migrators : Files[m] <= Files[newest]
  /\ CacheTime \in Nat /\ HeartbeatTime \in Nat /\ QueryTime \in Nat

VARIABLES
  runner,     \* where each migrate run is
  next,       \* the migration it looks at
  recorded,   \* schema_migrations
  applied,    \* how often the SQL of a migration has taken effect (history)
  beat,       \* age of the newest row of worker_heartbeats
  cache,      \* readinessValue and its age, and the query under way
  sound       \* ticks since ready() would last have been true (history)

migration == <<runner, next, recorded, applied>>
startupVars      == <<migration, beat, cache, sound>>

Latest == CHOOSE n \in {Files[m] : m \in Migrators} : \A m \in Migrators : Files[m] <= n
Versions == 1..Latest
\* Ages are counted no further than they matter.
Old  == QueryTime + CacheTime + 1
\* What the query of ready() finds now.
Sees(done, age) == Needed \in done /\ age < HeartbeatTime
Healthy == Sees(recorded, beat)
Older(age, limit) == IF age < limit THEN age + 1 ELSE limit

-----------------------------------------------------------------------------
(* migrate.js                                                              *)

LockFreeAlways(m) == TRUE

\* The session's advisory lock, held until the run unlocks or its connection ends.
LockFree(m) == \A n \in Migrators \ {m} : runner[n] \notin {"looking", "applying", "reconciling"}

Lock(m) ==
  /\ runner[m] = "new"
  /\ LockFree(m)
  /\ runner' = [runner EXCEPT ![m] = "looking"]
  /\ UNCHANGED <<next, recorded, applied, beat, cache, sound>>

\* SELECT 1 FROM schema_migrations: skip what is recorded.
Look(m) ==
  /\ runner[m] = "looking"
  /\ IF next[m] > Files[m]
     THEN runner' = [runner EXCEPT ![m] = "reconciling"] /\ UNCHANGED next
     ELSE IF next[m] \in recorded
     THEN next' = [next EXCEPT ![m] = @ + 1] /\ UNCHANGED runner
     ELSE runner' = [runner EXCEPT ![m] = "applying"] /\ UNCHANGED next
  /\ UNCHANGED <<recorded, applied, beat, cache, sound>>

\* BEGIN, the SQL, INSERT ... ON CONFLICT DO NOTHING, COMMIT.
Apply(m) ==
  /\ runner[m] = "applying"
  /\ recorded' = recorded \union {next[m]}
  /\ applied' = [applied EXCEPT ![next[m]] = @ + 1]
  /\ \/ /\ runner' = [runner EXCEPT ![m] = "looking"]
        /\ next' = [next EXCEPT ![m] = @ + 1]
     \/ runner' = [runner EXCEPT ![m] = "failed"] /\ UNCHANGED next
  /\ UNCHANGED <<beat, cache>>
  /\ sound' = IF Sees(recorded \union {next[m]}, beat) THEN 0 ELSE sound

\* The run hashes the raw tokens that an older image has written, and unlocks.
Finish(m) ==
  /\ runner[m] = "reconciling"
  /\ runner' = [runner EXCEPT ![m] = "done"]
  /\ UNCHANGED <<next, recorded, applied, beat, cache, sound>>

\* A statement fails (ROLLBACK, unlock, rethrow), or the process is killed and
\* PostgreSQL does the same.  The container is not restarted.
Fail(m) ==
  /\ runner[m] \in {"new", "looking", "applying", "reconciling"}
  /\ runner' = [runner EXCEPT ![m] = "failed"]
  /\ UNCHANGED <<next, recorded, applied, beat, cache, sound>>

-----------------------------------------------------------------------------
(* readiness()                                                             *)

\* A probe that neither the cache nor a query under way can answer.
Probe(r) ==
  /\ cache[r].age >= CacheTime
  /\ cache[r].query = "none"
  /\ cache' = [cache EXCEPT ![r].query = "sent", ![r].waits = 0]
  /\ UNCHANGED <<migration, beat, sound>>

\* PostgreSQL reads its snapshot; a query that fails is caught and means no.
QueryReads(r) ==
  /\ cache[r].query = "sent"
  /\ \E found \in {FALSE, Healthy} :
       cache' = [cache EXCEPT ![r].query = IF found THEN "yes" ELSE "no"]
  /\ UNCHANGED <<migration, beat, sound>>

QueryReturns(r) ==
  /\ cache[r].query \in {"yes", "no"}
  /\ cache' = [cache EXCEPT ![r] = [ready |-> @.query = "yes", age |-> 0,
                                    query |-> "none", waits |-> 0]]
  /\ UNCHANGED <<migration, beat, sound>>

\* What a probe of r is told when the cache answers it.
TellsReady(r) == cache[r].ready /\ cache[r].age < CacheTime

-----------------------------------------------------------------------------
Beat ==
  /\ beat # 0
  /\ beat' = 0
  /\ sound' = IF Sees(recorded, 0) THEN 0 ELSE sound
  /\ UNCHANGED <<migration, cache>>

Tick ==
  /\ \A r \in Replicas : cache[r].query # "none" => cache[r].waits < QueryTime
  /\ beat' = Older(beat, HeartbeatTime)
  /\ cache' = [r \in Replicas |->
                 [cache[r] EXCEPT !.age = Older(@, CacheTime),
                                  !.waits = IF cache[r].query # "none" THEN @ + 1 ELSE @]]
  /\ UNCHANGED migration
  /\ sound' = IF Sees(recorded, Older(beat, HeartbeatTime)) THEN 0 ELSE Older(sound, Old)

StartupInit ==
  /\ runner = [m \in Migrators |-> "new"]
  /\ next = [m \in Migrators |-> 1]
  /\ recorded = {}
  /\ applied = [v \in Versions |-> 0]
  /\ beat = HeartbeatTime
  /\ cache = [r \in Replicas |-> [ready |-> FALSE, age |-> CacheTime, query |-> "none", waits |-> 0]]
  /\ sound = Old

StartupNext ==
  \/ \E m \in Migrators : Lock(m) \/ Look(m) \/ Apply(m) \/ Finish(m) \/ Fail(m)
  \/ \E r \in Replicas : Probe(r) \/ QueryReads(r) \/ QueryReturns(r)
  \/ Beat
  \/ Tick

StartupSpec == StartupInit /\ [][StartupNext]_startupVars

-----------------------------------------------------------------------------
StartupTypeOK ==
  /\ runner \in [Migrators -> {"new", "looking", "applying", "reconciling", "done", "failed"}]
  /\ next \in [Migrators -> Nat \ {0}]
  /\ recorded \in SUBSET Versions
  /\ applied \in [Versions -> Nat]
  /\ beat \in 0..HeartbeatTime
  /\ cache \in [Replicas -> [ready : BOOLEAN, age : 0..CacheTime,
                             query : {"none", "sent", "yes", "no"}, waits : 0..QueryTime]]
  /\ sound \in 0..Old

\* Every migration takes effect once, in file order, and exactly when it is
\* recorded, whatever runs overlap, die between statements or do not hear that
\* they have committed; a run that reports success leaves nothing of its image
\* out.  And a replica says it is ready only if the schema was there and the
\* worker alive no longer ago than a query takes and an answer is kept.
AppliedOnceInOrder ==
  /\ \A v \in Versions : applied[v] = IF v \in recorded THEN 1 ELSE 0
  /\ \A v \in recorded : 1..v \subseteq recorded
  /\ \A m \in Migrators : runner[m] = "done" => 1..Files[m] \subseteq recorded
  /\ \A r \in Replicas : TellsReady(r) => Needed \in recorded /\ sound <= QueryTime + CacheTime
=============================================================================

----------------------------- MODULE WorkerJob ------------------------------
(***************************************************************************)
(* One long computation in a worker of its own, the protocol shared by     *)
(* lib/replayComparison.ts, lib/robustnessAnalysis.ts, lib/localSolver.ts  *)
(* and lib/localShareDecoder.ts with their workers.  The page's session    *)
(* settles once, by an answer, an error of the worker, its own timeout or  *)
(* a cancel, and then terminates the worker; messages already posted may   *)
(* still arrive.  The worker computes slice by slice between timers and    *)
(* watches the clock itself.                                               *)
(*                                                                         *)
(* As every job has its worker, a worker never finds another job active    *)
(* and its "cancelled" answers come too late to be heard: both are left    *)
(* out.  Messages carry the job's number for the request identity.         *)
(***************************************************************************)
EXTENDS Integers, Sequences

CONSTANTS
  Slices,     \* kind of job -> timers it takes; 0 answers in the message handler
  Digesting,  \* the kinds that digest their result before they answer
  MaxJobs,    \* bound on the jobs
  NoJob

ASSUME SlicesAssumption == \A kind \in DOMAIN Slices : Slices[kind] \in Nat

VARIABLES
  job,      \* the last session the page started
  worker,   \* its worker: where it is and how many slices are done
  posted,   \* messages of workers on their way to the page
  late      \* whether the job's wall-clock limit has passed

jobVars == <<job, worker, posted, late>>

JobInit == job = NoJob /\ worker = NoJob /\ posted = <<>> /\ late = FALSE

Number == IF job = NoJob THEN 0 ELSE job.id
AtWork == job # NoJob /\ job.state = "running"

\* start...: the checks before a worker exists refuse at once.
OpenJob(kind, input, refused) ==
  /\ Number < MaxJobs
  /\ job' = [id |-> Number + 1, kind |-> kind, input |-> input,
             state |-> IF refused THEN "error" ELSE "running"]
  /\ worker' = IF refused THEN NoJob ELSE [at |-> "start", done |-> 0]
  /\ late' = FALSE
  /\ UNCHANGED posted

\* cancel(): nothing when the session is settled.
Cancelled(session) ==
  IF session # NoJob /\ session.state = "running" THEN [session EXCEPT !.state = "cancelled"] ELSE session

CancelJob ==
  /\ job' = Cancelled(job) /\ worker' = NoJob /\ UNCHANGED <<posted, late>>

-----------------------------------------------------------------------------
(* The worker.                                                             *)

Say(type) == posted' = Append(posted, [job |-> job.id, type |-> type])
Goes(at, done) == worker' = [at |-> at, done |-> done]
Working(at) == worker # NoJob /\ worker.at = at /\ UNCHANGED <<job, late>>

\* The start command: validated again, with the same outcome as on the page.  The job
\* is announced and its first slice is left to a timer.
Announced == Say("progress") /\ Goes("slices", 0)

WorkerAccepts == Working("start") /\ Slices[job.kind] > 0 /\ Announced

Answers == \E type \in {"complete", "error"} : Say(type) /\ Goes("over", worker.done)

\* One timer: a simulation, which may throw, between looks at the clock.
WorkerSlice ==
  /\ Working("slices")
  /\ \/ Say("error") /\ Goes("over", worker.done)
     \/ /\ worker.done + 1 < Slices[job.kind] \/ job.kind \in Digesting
        /\ Say("progress")
        /\ Goes(IF worker.done + 1 < Slices[job.kind] THEN "slices" ELSE "digest", worker.done + 1)
     \/ /\ worker.done + 1 = Slices[job.kind] /\ job.kind \notin Digesting
        /\ posted' = posted \o << [job |-> job.id, type |-> "progress"],
                                  [job |-> job.id, type |-> "complete"] >>
        /\ Goes("over", worker.done + 1)

\* summarizeSynchronizedReplayComparison, or all the work of a job without slices.
WorkerAnswers ==
  \/ Working("digest") /\ Answers
  \/ Working("start") /\ Slices[job.kind] = 0 /\ Answers

DeadlinePasses == AtWork /\ ~late /\ late' = TRUE /\ UNCHANGED <<job, worker, posted>>

JobNext == WorkerAccepts \/ WorkerSlice \/ WorkerAnswers \/ DeadlinePasses

-----------------------------------------------------------------------------
(* What the page's session hears.                                          *)

Heard == posted # <<>> /\ posted' = Tail(posted)
Current == AtWork /\ Head(posted).job = job.id

SettledAs(outcome) ==
  /\ job' = [job EXCEPT !.state = outcome]
  /\ worker' = NoJob /\ UNCHANGED late

Answered(outcome) == Heard /\ Current /\ Head(posted).type = outcome /\ SettledAs(outcome)

WorkerFails == AtWork /\ worker.at # "over" /\ UNCHANGED posted /\ SettledAs("error")

\* Mutant: the page leaves the clock to the worker.
TimesOutInWorker == AtWork /\ late /\ worker.at = "over" /\ UNCHANGED posted /\ SettledAs("error")

TimesOut == AtWork /\ late /\ UNCHANGED posted /\ SettledAs("error")

\* The session settles: by a message, by worker.onerror, or by its timeout.
JobEnds(outcome) == Answered(outcome) \/ (outcome = "error" /\ (WorkerFails \/ TimesOut))

HearProgress == Heard /\ Current /\ Head(posted).type = "progress" /\ UNCHANGED <<job, worker, late>>

\* A message of a worker whose session is settled.
HearLate == Heard /\ ~Current /\ UNCHANGED <<job, worker, late>>
=============================================================================

---------------------------- MODULE LocalSession ----------------------------
(***************************************************************************)
(* One browser tab that plays local simulations: the Lab store's half      *)
(* (useLabStore), the page's session object (startLocalSimulation) and the *)
(* worker that recomputes and plays back (simulation.worker).  Page and    *)
(* worker share nothing: commands and answers travel through two FIFO      *)
(* queues, so each side acts on a view of the other that may be old.       *)
(*                                                                         *)
(* The engine is any function of the schedule of actions that returns a    *)
(* frame per second and a list of events.  What it does with an action is  *)
(* not assumed to be causal: an action may show before the second that it  *)
(* targets, and the worker must notice.                                    *)
(***************************************************************************)
EXTENDS Integers, SequencesExt

CONSTANTS
  Simulate(_),   \* the engine: schedule -> frames and events
  Frames, Events, \* what a frame and an event can be
  LastSecond,    \* durationSeconds: the frames are the seconds 0..LastSecond
  BatchSize,     \* frames per batch
  Lags,          \* how many seconds before its target an action may show
  Kinds,         \* the kinds of action: inject-incident, apply-intervention
  MaxActions,    \* MAX_SIMULATION_ACTIONS, 64 in the code
  MaxRuns,       \* bound: runs started in the tab
  MaxQueue,      \* bound: commands under way to the worker, answers under way to the page
  NoRun, NoFork, NoResult

ASSUME SizeAssumption ==
  /\ LastSecond \in Nat \ {0}
  /\ BatchSize \in Nat \ {0}
  /\ Lags \subseteq {0, 1}
  /\ MaxActions \in Nat
  /\ MaxRuns \in Nat
  /\ MaxQueue \in Nat

VARIABLES
  page,      \* the session object: state, settled, actionRecomputePending, safety timeout armed
  store,     \* the Lab store: localRunSession.state, frames, events, actions, fork, result
  run,       \* the worker's active run, or NoRun
  toWorker,  \* commands posted and not yet handled
  toPage,    \* messages posted by the worker and not yet received
  runs       \* runs started so far

vars == <<page, store, run, toWorker, toPage, runs>>

-----------------------------------------------------------------------------
(* The engine and the delivered prefix                                     *)

\* An action as the store posts it; shows is when this engine may let it show.
Action(kind, number, second, lag) ==
  [id |-> <<kind, number>>, at |-> second, shows |-> second - lag]

Actions == {Action(kind, number, second, lag) : kind \in Kinds, number \in 1 .. MaxActions + 1,
                                                second \in 1 .. LastSecond, lag \in Lags}
Schedules == BoundedSeq(Actions, MaxActions)

\* Array.slice(0, n)
Slice(s, n) == SubSeq(s, 1, Min({n, Len(s)}))

DeliveredPrefix(result, nextFrame, nextEvent) ==
  [frames |-> Slice(result.frames, nextFrame),
   events |-> Slice(result.events, nextEvent)]

\* -1 stands for null: nothing has been delivered.
LastDelivered(frames) == IF frames = <<>> THEN -1 ELSE Last(frames).second

DeliveredSecondFor(result, nextFrame) ==
  IF nextFrame \in DOMAIN result.frames THEN result.frames[nextFrame].second ELSE -1

\* The loop that moves an event cursor over every event up to second s.
EventsUpTo(events, from, s) ==
  CHOOSE n \in from .. Len(events) :
    /\ \A i \in from + 1 .. n : events[i].second <= s
    /\ n < Len(events) => events[n + 1].second > s

ASSUME EngineAssumption ==
  \A acts \in Schedules :
    LET result == Simulate(acts)
    IN /\ result \in [frames : Seq(Frames), events : Seq(Events)]
       /\ Len(result.frames) = LastSecond + 1
       /\ \A i \in 1 .. LastSecond + 1 : result.frames[i].second = i - 1
       /\ \A i \in 1 .. Len(result.events) : result.events[i].second \in 0 .. LastSecond

\* Before the second it targets an action changes events only where it changes frames.
ASSUME EventsFollowFrames ==
  \A acts \in Schedules, a \in Actions, s \in 0 .. LastSecond :
    Append(acts, a) \in Schedules /\ (\A i \in DOMAIN acts : acts[i].id # a.id) /\ s < a.at =>
      LET before == Simulate(acts)
          after  == Simulate(Append(acts, a))
      IN Slice(before.frames, s + 1) = Slice(after.frames, s + 1) =>
           EventsUpTo(before.events, 0, s) = EventsUpTo(after.events, 0, s)

RunType == [mode : {"running", "paused"}, acts : Schedules, nextFrame : Nat, nextEvent : Nat, timer : BOOLEAN]
ASSUME NoRunAssumption == NoRun \notin RunType

-----------------------------------------------------------------------------
(* The worker.  Each command is handled to its end before the next one.    *)

Handle(type) ==
  /\ toWorker # <<>>
  /\ Len(toPage) < MaxQueue
  /\ Head(toWorker).type = type
  /\ toWorker' = Tail(toWorker)
  /\ UNCHANGED <<page, store, runs>>

Post(messages) == toPage' = toPage \o messages

Note(type) == <<[type |-> type]>>

Reject(type) ==
  /\ Post(<<[type |-> "command-rejected", command |-> type]>>)
  /\ UNCHANGED run

\* The event cursor behind the given frame; the last frame takes every event along.
\* Mutant: the events of the last delivered second are left for the next batch.
EventCursorBehind(result, from, frame) ==
  IF frame = Len(result.frames) THEN Len(result.events)
  ELSE EventsUpTo(result.events, from, result.frames[frame].second - 1)

EventCursor(result, from, frame) ==
  IF frame = Len(result.frames) THEN Len(result.events)
  ELSE EventsUpTo(result.events, from, result.frames[frame].second)

Delivered(result, frame, event) == frame >= Len(result.frames) /\ event >= Len(result.events)

\* What a restore must match before the worker resumes from it.
Restorable(fork) ==
  LET result == Simulate(fork.acts)
      nextFrame == fork.nextFrame
      second == DeliveredSecondFor(result, nextFrame)
      expected == IF nextFrame >= Len(result.frames)
                    THEN Len(result.events) ELSE EventsUpTo(result.events, 0, second)
  IN /\ nextFrame <= Len(result.frames)
     /\ fork.nextEvent = expected
     /\ fork.deliveredSecond = second
     /\ fork.prefix = DeliveredPrefix(result, nextFrame, fork.nextEvent)
     /\ fork.result = result

WorkerStart ==
  /\ Handle("start")
  /\ LET fork == Head(toWorker).restore
     IN \/ /\ fork = NoFork
           /\ run' = [mode |-> "running", acts |-> <<>>, nextFrame |-> 0, nextEvent |-> 0, timer |-> TRUE]
           /\ Post(Note("started"))
        \/ /\ fork # NoFork
           /\ Restorable(fork)
           /\ run' = [mode |-> "paused", acts |-> fork.acts, nextFrame |-> fork.nextFrame,
                      nextEvent |-> fork.nextEvent, timer |-> FALSE]
           /\ Post(Note("started") \o Note("paused"))
        \/ /\ fork # NoFork
           /\ ~Restorable(fork)
           /\ Post(<<[type |-> "error", why |-> "restore"]>>)
           /\ UNCHANGED run
        \/ /\ Post(<<[type |-> "error", why |-> "engine"]>>)   \* simulate throws
           /\ UNCHANGED run

\* Deliver up to size frames with their events; the last batch ends the run.
EmitBatch(r, size, remainPaused) ==
  LET result == Simulate(r.acts)
      frame == Min({r.nextFrame + size, Len(result.frames)})
      event == EventCursor(result, r.nextEvent, frame)
      batch == <<[type |-> "batch", frameOffset |-> r.nextFrame, eventOffset |-> r.nextEvent,
                  frames |-> SubSeq(result.frames, r.nextFrame + 1, frame),
                  events |-> SubSeq(result.events, r.nextEvent + 1, event)]>>
      moved == [r EXCEPT !.nextFrame = frame, !.nextEvent = event, !.timer = ~remainPaused]
  IN IF Delivered(result, frame, event)
       THEN run' = NoRun /\ Post(batch \o <<[type |-> "complete", result |-> result]>>)
       ELSE run' = moved /\ Post(batch \o IF remainPaused THEN Note("paused") ELSE <<>>)

Tick ==
  /\ run # NoRun
  /\ run.timer
  /\ Len(toPage) < MaxQueue
  /\ EmitBatch(run, BatchSize, FALSE)
  /\ UNCHANGED <<page, store, toWorker, runs>>

WorkerPause ==
  /\ run # NoRun
  /\ Handle("pause")
  /\ run' = [run EXCEPT !.mode = "paused", !.timer = FALSE]
  /\ Post(Note("paused"))

WorkerResume ==
  /\ run # NoRun
  /\ Handle("resume")
  /\ run' = [run EXCEPT !.mode = "running", !.timer = TRUE]
  /\ Post(Note("running"))

WorkerStep ==
  /\ run # NoRun
  /\ Handle("step")
  /\ IF run.mode = "paused" THEN EmitBatch(run, BatchSize, TRUE) ELSE Reject("step")

\* emitRemaining: everything that is left in one batch.
WorkerFinish ==
  /\ run # NoRun
  /\ Handle("finish")
  /\ IF run.mode = "paused" THEN EmitBatch(run, LastSecond + 1, FALSE) ELSE Reject("finish")

\* Mutant: the timer is cleared and not set again.
WorkerSpeedStops ==
  /\ run # NoRun
  /\ Handle("set-speed")
  /\ run' = [run EXCEPT !.timer = FALSE]
  /\ Post(Note("speed"))

WorkerSpeed ==
  /\ run # NoRun
  /\ Handle("set-speed")
  /\ run' = [run EXCEPT !.timer = (run.mode = "running")]
  /\ Post(Note("speed"))

\* sessionSnapshot: the fingerprints stand for what they are computed from.
SessionSnapshot(r) ==
  LET result == Simulate(r.acts)
  IN [acts |-> r.acts, nextFrame |-> r.nextFrame, nextEvent |-> r.nextEvent,
      deliveredSecond |-> DeliveredSecondFor(result, r.nextFrame),
      prefix |-> DeliveredPrefix(result, r.nextFrame, r.nextEvent),
      result |-> result]

WorkerFork ==
  /\ run # NoRun
  /\ Handle("fork")
  /\ IF run.mode = "paused"
       THEN Post(<<[type |-> "fork-created", fork |-> SessionSnapshot(run)]>>) /\ UNCHANGED run
       ELSE Reject("fork")

\* The conditions under which the worker takes an action into its schedule.
Applicable(r, action) ==
  LET result == Simulate(r.acts)
      candidate == Simulate(Append(r.acts, action))
  IN /\ r.mode = "paused"
     /\ action.at > DeliveredSecondFor(result, r.nextFrame)
     /\ Len(r.acts) < MaxActions
     /\ \A i \in DOMAIN r.acts : r.acts[i].id # action.id
     /\ DeliveredPrefix(result, r.nextFrame, r.nextEvent)
          = DeliveredPrefix(candidate, r.nextFrame, r.nextEvent)

\* applyAction.  The recomputation may also throw: a rejection without a cause here.
WorkerAct ==
  /\ run # NoRun
  /\ Handle("act")
  /\ LET action == Head(toWorker).action
     IN \/ /\ Applicable(run, action)
           /\ run' = [run EXCEPT !.acts = Append(@, action)]
           /\ Post(<<[type |-> "action-applied", action |-> action]>>)
        \/ Reject("act")

\* A command that finds no active run is dropped.
WorkerIgnores ==
  /\ run = NoRun
  /\ \E type \in {"pause", "resume", "step", "finish", "set-speed", "fork", "act"} : Handle(type)
  /\ UNCHANGED <<run, toPage>>

WorkerNext ==
  \/ WorkerStart \/ WorkerPause \/ WorkerResume \/ WorkerStep \/ WorkerFinish
  \/ WorkerSpeed \/ WorkerFork \/ WorkerAct \/ WorkerIgnores

-----------------------------------------------------------------------------
(* The page: what the user does.  The store lets a command through only in *)
(* the session state it shows, which may be behind the worker's.           *)

NoSession == [state |-> "none", settled |-> TRUE, pending |-> FALSE, armed |-> FALSE]

EmptyStore ==
  [state |-> "none", frames |-> <<>>, events |-> <<>>, actions |-> <<>>,
   fork |-> NoFork, opening |-> FALSE, result |-> NoResult]

Active == ~page.settled

\* runLocal: the session that is still active is cancelled, a new worker is
\* started, and what an old worker still has to say reaches only the settled session.
Start(fork, shown) ==
  /\ runs < MaxRuns
  /\ runs' = runs + 1
  /\ page' = [state |-> "starting", settled |-> FALSE, pending |-> FALSE, armed |-> TRUE]
  /\ store' = shown
  /\ run' = NoRun
  /\ toWorker' = <<[type |-> "start", restore |-> fork]>>
  /\ toPage' = <<>>

\* runLocal has no guard of its own: the buttons decide when it is offered.
RunLocal == Start(NoFork, [EmptyStore EXCEPT !.state = "starting"])

ForkShown(fork, frames, events) ==
  [EmptyStore EXCEPT !.state = "starting", !.frames = frames, !.events = events,
                     !.actions = fork.acts, !.opening = TRUE]

\* openLocalRunFork, offered while the run is paused.
OpenFork ==
  LET fork == store.fork
      frames == Slice(store.frames, fork.nextFrame)
      events == Slice(store.events, fork.nextEvent)
  IN /\ store.state = "paused"
     /\ fork # NoFork
     /\ Len(frames) = fork.nextFrame
     /\ Len(events) = fork.nextEvent
     /\ LastDelivered(frames) = fork.deliveredSecond
     /\ Start(fork, ForkShown(fork, frames, events))

ArmSafetyTimeout(p) == [p EXCEPT !.armed = TRUE]

Command(c) ==
  /\ Active
  /\ Len(toWorker) < MaxQueue
  /\ toWorker' = Append(toWorker, c)
  /\ UNCHANGED <<store, run, toPage, runs>>

Simple(type) == Command([type |-> type]) /\ UNCHANGED page

Pause == store.state = "running" /\ Simple("pause")
Resume == store.state = "paused" /\ Simple("resume")
Step == store.state = "paused" /\ Simple("step")
Finish == store.state = "paused" /\ Simple("finish")
CaptureFork == store.state = "paused" /\ Simple("fork")
SetSpeed == store.state # "none" /\ Simple("set-speed")

NextSecond == IF store.frames = <<>> THEN 1 ELSE LastDelivered(store.frames) + 1

\* injectLocalNodeOutage and applyLocalIntervention.  The identifier counts the
\* actions the store has seen applied; the session posts one action at a time.
Act(kind, lag) ==
  /\ store.state = "paused"
  /\ NextSecond <= LastSecond
  /\ ~page.pending
  /\ page' = ArmSafetyTimeout([page EXCEPT !.pending = TRUE])
  /\ Command([type |-> "act", action |-> Action(kind, Len(store.actions) + 1, NextSecond, lag)])

\* fail: the session settles once, its worker is terminated with all its commands.
Settle(state) ==
  /\ page' = [page EXCEPT !.state = state, !.settled = TRUE, !.armed = FALSE]
  /\ run' = NoRun
  /\ toWorker' = <<>>

Cancel ==
  /\ Active
  /\ Settle("cancelled")
  /\ store' = [store EXCEPT !.state = "cancelled"]
  /\ UNCHANGED <<toPage, runs>>

\* A new scenario or architecture: the run is cancelled and the store forgets it.
Edit ==
  /\ store.state # "none"
  /\ IF Active THEN Settle("cancelled") ELSE UNCHANGED <<page, run, toWorker>>
  /\ store' = EmptyStore
  /\ UNCHANGED <<toPage, runs>>

UserNext ==
  \/ RunLocal \/ OpenFork \/ Cancel \/ Edit
  \/ Pause \/ Resume \/ Step \/ Finish \/ CaptureFork \/ SetSpeed
  \/ \E kind \in Kinds, lag \in Lags : Act(kind, lag)

\* armSafetyTimeout: fires when neither the worker nor the user moves in time.
SafetyTimeout ==
  /\ page.armed
  /\ Settle("error")
  /\ store' = [store EXCEPT !.state = "error"]
  /\ UNCHANGED <<toPage, runs>>

\* worker.onerror
WorkerError ==
  /\ Active
  /\ Settle("error")
  /\ store' = [store EXCEPT !.state = "error"]
  /\ UNCHANGED <<toPage, runs>>

-----------------------------------------------------------------------------
(* The page: messages of the worker.  A settled session ignores them.      *)

Receive(types) ==
  /\ Active
  /\ toPage # <<>>
  /\ Head(toPage).type \in types
  /\ toPage' = Tail(toPage)
  /\ UNCHANGED runs

Splice(shown, offset, delivered) ==
  LET at == Min({offset, Len(shown)})
  IN Slice(shown, offset) \o delivered \o SubSeq(shown, at + Len(delivered) + 1, Len(shown))

\* onBatch: the store splices the batch in at its offsets.
ReceiveBatch ==
  /\ Receive({"batch"})
  /\ LET m == Head(toPage)
     IN store' = [store EXCEPT !.frames = Splice(@, m.frameOffset, m.frames),
                               !.events = Splice(@, m.eventOffset, m.events)]
  /\ UNCHANGED <<page, run, toWorker>>

\* A fork that is being opened still shows "starting" when its worker has started.
ReceiveRunning ==
  /\ Receive({"started", "running"})
  /\ page' = ArmSafetyTimeout([page EXCEPT !.state = "running"])
  /\ store' = [store EXCEPT !.state = IF store.opening /\ Head(toPage).type = "started"
                                        THEN "starting" ELSE "running"]
  /\ UNCHANGED <<run, toWorker>>

ReceivePaused ==
  /\ Receive({"paused"})
  /\ page' = [page EXCEPT !.state = "paused", !.pending = FALSE, !.armed = FALSE]
  /\ store' = [store EXCEPT !.state = "paused", !.opening = FALSE]
  /\ UNCHANGED <<run, toWorker>>

ReceiveSpeed ==
  /\ Receive({"speed"})
  /\ store' = [store EXCEPT !.state = page.state]
  /\ UNCHANGED <<page, run, toWorker>>

\* Mutant: only an applied action ends the wait.
AnswersOnlyApplied(m) == m.type = "action-applied"

AnswersAction(m) == m.type = "action-applied" \/ m.command = "act"

\* The answer to an action: applied, or rejected with a notice.
ReceiveAnswer ==
  /\ Receive({"action-applied", "command-rejected"})
  /\ LET m == Head(toPage)
     IN /\ page' = IF AnswersAction(m)
                     THEN [page EXCEPT !.pending = FALSE, !.armed = @ /\ page.state # "paused"]
                     ELSE page
        /\ store' = IF m.type = "action-applied"
                      THEN [store EXCEPT !.actions = Append(@, m.action)] ELSE store
  /\ UNCHANGED <<run, toWorker>>

ReceiveFork ==
  /\ Receive({"fork-created"})
  /\ store' = [store EXCEPT !.fork = Head(toPage).fork]
  /\ UNCHANGED <<page, run, toWorker>>

ReceiveError ==
  /\ Receive({"error"})
  /\ Settle("error")
  /\ store' = [store EXCEPT !.state = "error"]

\* The store's continuation after the result runs before any other task.
ReceiveComplete ==
  /\ Receive({"complete"})
  /\ Settle("complete")
  /\ store' = [store EXCEPT !.state = "complete", !.result = Head(toPage).result]

IgnoreLate ==
  /\ ~Active
  /\ toPage # <<>>
  /\ toPage' = Tail(toPage)
  /\ UNCHANGED <<page, store, run, toWorker, runs>>

ReceiveNext ==
  \/ ReceiveBatch \/ ReceiveRunning \/ ReceivePaused \/ ReceiveSpeed \/ ReceiveAnswer
  \/ ReceiveFork \/ ReceiveError \/ ReceiveComplete \/ IgnoreLate

-----------------------------------------------------------------------------

Init ==
  /\ page = NoSession
  /\ store = EmptyStore
  /\ run = NoRun
  /\ toWorker = <<>>
  /\ toPage = <<>>
  /\ runs = 0

Next == UserNext \/ WorkerNext \/ Tick \/ ReceiveNext \/ SafetyTimeout \/ WorkerError

Spec == Init /\ [][Next]_vars

\* Both event loops run and the engine returns; nobody is made to click.  A set-speed
\* restarts the timer and the bound on toPage suspends it: strong fairness says that
\* the user leaves the speed alone for one period, 16 ms at the most, now and then.
PlaySpec ==
  /\ Spec
  /\ WF_vars(WorkerNext)
  /\ SF_vars(Tick)
  /\ WF_vars(ReceiveNext)

-----------------------------------------------------------------------------
(* Properties                                                              *)

States == {"none", "starting", "running", "paused", "cancelled", "complete", "error"}

TypeOK ==
  /\ page \in [state : States, settled : BOOLEAN, pending : BOOLEAN, armed : BOOLEAN]
  /\ store.state \in States
  /\ store.opening \in BOOLEAN
  /\ run # NoRun => /\ run.mode \in {"running", "paused"}
                    /\ run.timer \in BOOLEAN
                    /\ run.nextFrame \in 0 .. LastSecond
  /\ Len(toWorker) <= Max({MaxQueue, 1})
  /\ runs \in 0 .. MaxRuns

\* A fork the worker captured is never refused when it is opened.
ForkIsRestorable ==
  \A i \in DOMAIN toPage : toPage[i].type = "error" => toPage[i].why # "restore"

\* Whatever was paused, stepped, injected or restored, the frames and events on
\* screen are a prefix of what the schedule the worker now holds produces: "delivered
\* frames stay locked".  Once the run is complete they are all of it, and the
\* retained result is what the retained actions produce.  And a fork captured from
\* what is on screen is accepted.
ShownStaysLocked ==
  /\ run # NoRun =>
       /\ IsPrefix(store.frames, Simulate(run.acts).frames)
       /\ IsPrefix(store.events, Simulate(run.acts).events)
  /\ store.state = "complete" =>
       /\ store.result = Simulate(store.actions)
       /\ store.frames = store.result.frames
       /\ store.events = store.result.events
  /\ ForkIsRestorable

\* When nothing is under way, page, store and worker agree: same state, same
\* schedule, all that was delivered is shown, no action is thought pending, and the
\* safety timeout guards exactly a run that plays.
AgreeWhenQuiet ==
  Active /\ toWorker = <<>> /\ toPage = <<>> =>
    /\ run # NoRun
    /\ page.state = run.mode
    /\ store.state = run.mode
    /\ page.armed = (run.mode = "running")
    /\ run.timer = (run.mode = "running")
    /\ ~page.pending
    /\ store.actions = run.acts
    /\ Len(store.frames) = run.nextFrame
    /\ Len(store.events) = run.nextEvent

\* A session that waits for its worker to start or to play is guarded: should the
\* worker never answer, the timeout settles it.
WaitingIsGuarded == page.state \in {"starting", "running"} => page.armed

\* A settled session stays settled in the state it ended in: no late message of a
\* terminated worker revives it, whatever was under way.
SettledIsFinal ==
  [][page.settled /\ runs' = runs => page' = page /\ store'.state \in {store.state, "none"}]_vars

\* A run that plays ends, or the user pauses it: no command makes it lose its
\* timer.  And an action posted is answered, so that the next can be posted.
PlaybackEnds ==
  /\ page.state = "running" ~> page.state # "running"
  /\ page.pending ~> ~page.pending \/ page.settled
=============================================================================

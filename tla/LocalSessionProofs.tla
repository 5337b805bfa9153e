------------------------- MODULE LocalSessionProofs -------------------------
(***************************************************************************)
(* Proofs about LocalSession for every duration, batch size and engine.    *)
(* The safety timeout and finality depend on the page's half only: PageInv *)
(* says what that half looks like whatever the worker and the queues do.   *)
(* About the pages of Analyses, for all files, edits and jobs: what they   *)
(* show of a computation is of what they show beside it.  And about the    *)
(* editor of ScenarioDrafting, for all briefs and answers of the provider. *)
(***************************************************************************)
EXTENDS LocalSession, Analyses, ScenarioDrafting, FilterProofs, SequenceTheorems,
        WellFoundedInduction, TLAPS

PageType == [state : States, settled : BOOLEAN, pending : BOOLEAN, armed : BOOLEAN]

\* The page's record is typed, a session that waits is guarded by its timeout, and
\* a settled one has no timeout left that could still fire.
PageInv ==
  /\ page \in PageType
  /\ WaitingIsGuarded
  /\ page.settled => ~page.armed

\* A new session waits for its worker under its timeout.
LEMMA StartKeeps ==
  ASSUME NEW fork, NEW shown, Start(fork, shown) PROVE PageInv'
  BY DEF Start, PageInv, PageType, States, WaitingIsGuarded

\* A session settles without a timeout, in a state that waits for nothing.
LEMMA SettleKeeps ==
  ASSUME PageInv, NEW state \in {"cancelled", "complete", "error"}, Settle(state) PROVE PageInv'
  BY DEF Settle, PageInv, PageType, States, WaitingIsGuarded

\* Every step of the user keeps the page's invariant.
LEMMA UserKeeps == PageInv /\ UserNext => PageInv'
<1> SUFFICES ASSUME PageInv, UserNext PROVE PageInv'
  OBVIOUS
<1>1. CASE RunLocal
  BY <1>1, StartKeeps DEF RunLocal
<1>2. CASE OpenFork
  BY <1>2, StartKeeps DEF OpenFork
<1>3. CASE Cancel
  BY <1>3, SettleKeeps DEF Cancel
<1>4. CASE Edit
  <2>1. CASE Active
    BY <1>4, <2>1, SettleKeeps DEF Edit
  <2>2. CASE ~Active
    BY <1>4, <2>2 DEF Edit, PageInv, WaitingIsGuarded
  <2>3. QED
    BY <2>1, <2>2
<1>5. CASE Pause \/ Resume \/ Step \/ Finish \/ CaptureFork \/ SetSpeed
  BY <1>5 DEF Pause, Resume, Step, Finish, CaptureFork, SetSpeed, Simple, PageInv, WaitingIsGuarded
<1>6. ASSUME NEW kind \in Kinds, NEW lag \in Lags, Act(kind, lag) PROVE PageInv'
  <2>1. ~page.settled
    BY <1>6 DEF Act, Command, Active
  <2>2. page' = [[page EXCEPT !.pending = TRUE] EXCEPT !.armed = TRUE]
    BY <1>6 DEF Act, ArmSafetyTimeout
  <2>3. QED
    BY <2>1, <2>2 DEF PageInv, PageType, WaitingIsGuarded
<1>7. QED
  BY <1>1, <1>2, <1>3, <1>4, <1>5, <1>6 DEF UserNext

\* Every message the page receives keeps it.
LEMMA ReceiveKeeps == PageInv /\ ReceiveNext => PageInv'
<1> SUFFICES ASSUME PageInv, ReceiveNext PROVE PageInv'
  OBVIOUS
<1>1. CASE ReceiveBatch \/ ReceiveSpeed \/ ReceiveFork \/ IgnoreLate
  BY <1>1 DEF ReceiveBatch, ReceiveSpeed, ReceiveFork, IgnoreLate, PageInv, WaitingIsGuarded
<1>2. CASE ReceiveRunning
  BY <1>2 DEF ReceiveRunning, ArmSafetyTimeout, Receive, Active, PageInv, PageType, States, WaitingIsGuarded
<1>3. CASE ReceivePaused
  BY <1>3 DEF ReceivePaused, Receive, Active, PageInv, PageType, States, WaitingIsGuarded
<1>4. CASE ReceiveAnswer
  <2>1. ~page.settled
    BY <1>4 DEF ReceiveAnswer, Receive, Active
  <2>2. \/ page' = [page EXCEPT !.pending = FALSE, !.armed = @ /\ page.state # "paused"]
        \/ page' = page
    BY <1>4 DEF ReceiveAnswer
  <2>3. QED
    BY <2>1, <2>2 DEF PageInv, PageType, WaitingIsGuarded
<1>5. CASE ReceiveError
  BY <1>5, SettleKeeps DEF ReceiveError
<1>6. CASE ReceiveComplete
  BY <1>6, SettleKeeps DEF ReceiveComplete
<1>7. QED
  BY <1>1, <1>2, <1>3, <1>4, <1>5, <1>6 DEF ReceiveNext

\* The worker never touches the page's half directly.
LEMMA WorkerKeepsPage == WorkerNext \/ Tick => UNCHANGED <<page, store, runs>>
BY DEF WorkerNext, WorkerStart, WorkerPause, WorkerResume, WorkerStep, WorkerFinish, WorkerSpeed,
       WorkerFork, WorkerAct, WorkerIgnores, Handle, Tick

\* Only the start of a run changes the count of runs.
RunsCounted == runs \in Nat

LEMMA RunsCount == Spec => []RunsCounted
<1>1. Init => RunsCounted
  BY DEF Init, RunsCounted
<1>2. RunsCounted /\ [Next]_vars => RunsCounted'
  <2> SUFFICES ASSUME runs \in Nat, [Next]_vars PROVE runs' \in Nat
    BY DEF RunsCounted
  <2>1. CASE UserNext
    <3>1. CASE RunLocal \/ OpenFork
      BY <3>1 DEF RunLocal, OpenFork, Start
    <3>2. CASE Cancel \/ Edit
      BY <3>2 DEF Cancel, Edit
    <3>3. CASE Pause \/ Resume \/ Step \/ Finish \/ CaptureFork \/ SetSpeed
      BY <3>3 DEF Pause, Resume, Step, Finish, CaptureFork, SetSpeed, Simple, Command
    <3>4. ASSUME NEW kind \in Kinds, NEW lag \in Lags, Act(kind, lag) PROVE runs' \in Nat
      BY <3>4 DEF Act, Command
    <3>5. QED
      BY <2>1, <3>1, <3>2, <3>3, <3>4 DEF UserNext
  <2>2. CASE WorkerNext \/ Tick
    BY <2>2, WorkerKeepsPage
  <2>3. CASE ReceiveNext
    BY <2>3 DEF ReceiveNext, ReceiveBatch, ReceiveRunning, ReceivePaused, ReceiveSpeed, ReceiveAnswer,
                ReceiveFork, ReceiveError, ReceiveComplete, Receive, IgnoreLate
  <2>4. CASE SafetyTimeout \/ WorkerError \/ UNCHANGED vars
    BY <2>4 DEF SafetyTimeout, WorkerError, vars
  <2>5. QED
    BY <2>1, <2>2, <2>3, <2>4 DEF Next
<1>3. QED
  BY <1>1, <1>2, PTL DEF Spec

\* The page's invariant is inductive.
LEMMA PageInvHolds == Spec => []PageInv
<1>1. Init => PageInv
  BY DEF Init, PageInv, PageType, States, NoSession, WaitingIsGuarded
<1>2. PageInv /\ [Next]_vars => PageInv'
  <2> SUFFICES ASSUME PageInv, [Next]_vars PROVE PageInv'
    OBVIOUS
  <2>1. CASE UserNext
    BY <2>1, UserKeeps
  <2>2. CASE WorkerNext \/ Tick
    BY <2>2, WorkerKeepsPage DEF PageInv, WaitingIsGuarded
  <2>3. CASE ReceiveNext
    BY <2>3, ReceiveKeeps
  <2>4. CASE SafetyTimeout \/ WorkerError
    BY <2>4, SettleKeeps DEF SafetyTimeout, WorkerError
  <2>5. CASE UNCHANGED vars
    BY <2>5 DEF vars, PageInv, WaitingIsGuarded
  <2>6. QED
    BY <2>1, <2>2, <2>3, <2>4, <2>5 DEF Next
<1>3. QED
  BY <1>1, <1>2, PTL DEF Spec

\* A session that waits for its worker is guarded by the safety timeout, however
\* commands and answers interleave and whether or not the worker ever answers.
THEOREM Guarded == Spec => []WaitingIsGuarded
<1>1. PageInv => WaitingIsGuarded
  BY DEF PageInv
<1>2. QED
  BY <1>1, PageInvHolds, PTL

\* No step revives a settled session: late messages, the timeout, an error of the
\* worker and every command leave it as it ended, until a new run starts.
THEOREM Final == Spec => SettledIsFinal
<1> DEFINE Kept == page.settled /\ runs' = runs
                     => page' = page /\ store'.state \in {store.state, "none"}
<1>1. PageInv /\ RunsCounted /\ [Next]_vars => [Kept]_vars
  <2> SUFFICES ASSUME PageInv, runs \in Nat, Next, page.settled, runs' = runs
               PROVE page' = page /\ store'.state \in {store.state, "none"}
    BY DEF vars, RunsCounted
  <2>1. ~Active /\ ~page.armed
    BY DEF PageInv, Active
  <2>2. CASE UserNext
    <3>1. Cancel \/ Pause \/ Resume \/ Step \/ Finish \/ CaptureFork \/ SetSpeed
            \/ (\E kind \in Kinds, lag \in Lags : Act(kind, lag)) => FALSE
      BY <2>1 DEF Cancel, Pause, Resume, Step, Finish, CaptureFork, SetSpeed, Act, Simple, Command
    <3>2. RunLocal \/ OpenFork => FALSE
      BY DEF RunLocal, OpenFork, Start
    <3>3. CASE Edit
      BY <2>1, <3>3 DEF Edit, EmptyStore
    <3>4. QED
      BY <2>2, <3>1, <3>2, <3>3 DEF UserNext
  <2>3. CASE WorkerNext \/ Tick
    BY <2>3, WorkerKeepsPage
  <2>4. CASE ReceiveNext
    BY <2>1, <2>4 DEF ReceiveNext, ReceiveBatch, ReceiveRunning, ReceivePaused, ReceiveSpeed, ReceiveAnswer,
                      ReceiveFork, ReceiveError, ReceiveComplete, Receive, IgnoreLate
  <2>5. CASE SafetyTimeout \/ WorkerError
    BY <2>1, <2>5 DEF SafetyTimeout, WorkerError
  <2>6. QED
    BY <2>2, <2>3, <2>4, <2>5 DEF Next
<1>2. QED
  BY <1>1, PageInvHolds, RunsCount, PTL DEF Spec, SettledIsFinal

-----------------------------------------------------------------------------
(* What page, store, worker and the two queues are to each other.          *)

F(acts) == Simulate(acts).frames
E(acts) == Simulate(acts).events

Results == [frames : Seq(Frames), events : Seq(Events)]
ForkType == [acts : Schedules, nextFrame : Nat, nextEvent : Nat, deliveredSecond : Int,
             prefix : Results, result : Results]
StoreType == [state : States, frames : Seq(Frames), events : Seq(Events), actions : Seq(Actions),
              fork : ForkType \union {NoFork}, opening : BOOLEAN, result : Results \union {NoResult}]

CommandTypes == {"pause", "resume", "step", "finish", "set-speed", "fork", "act"}
Commands == [type : CommandTypes \ {"act"}] \union [type : {"act"}, action : Actions]
              \union [type : {"start"}, restore : ForkType \union {NoFork}]
Replies == [type : {"started", "running", "paused", "speed"}]
             \union [type : {"command-rejected"}, command : CommandTypes]
             \union [type : {"error"}, why : {"restore", "engine"}]
             \union [type : {"action-applied"}, action : Actions]
             \union [type : {"fork-created"}, fork : ForkType]
             \union [type : {"complete"}, result : Results]
             \union [type : {"batch"}, frameOffset : Nat, eventOffset : Nat,
                     frames : Seq(Frames), events : Seq(Events)]

SessionTypes ==
  /\ store \in StoreType
  /\ run \in RunType \union {NoRun}
  /\ toWorker \in Seq(Commands)
  /\ toPage \in Seq(Replies)

\* n events are those up to second s.
Splits(events, n, s) ==
  /\ \A i \in 1 .. n : events[i].second <= s
  /\ n < Len(events) => events[n + 1].second > s

\* The events delivered are those of the frames delivered.
CursorSound(acts, nf, ne) ==
  /\ nf \in 0 .. LastSecond + 1
  /\ ne \in 0 .. Len(E(acts))
  /\ nf = LastSecond + 1 => ne = Len(E(acts))
  /\ nf <= LastSecond => Splits(E(acts), ne, nf - 1)

GoodFork(f) ==
  /\ f \in ForkType
  /\ f.nextFrame <= LastSecond
  /\ CursorSound(f.acts, f.nextFrame, f.nextEvent)
  /\ f = SessionSnapshot(f)

\* A fork of an earlier moment of a run that has since taken more actions.
Earlier(f, acts, nf, ne) ==
  /\ GoodFork(f)
  /\ f.nextFrame <= nf /\ f.nextEvent <= ne
  /\ Slice(F(f.acts), f.nextFrame) = Slice(F(acts), f.nextFrame)
  /\ Slice(E(f.acts), f.nextEvent) = Slice(E(acts), f.nextEvent)

\* What the page will show: counts of frames, events and actions, and its state.
Modes == {"starting", "running", "paused"}
Cursors(nf, ne, na) == [frames : 0 .. nf, events : 0 .. ne, acts : 0 .. na, mode : Modes]
Cursor(nf, ne, na, doing) == [frames |-> nf, events |-> ne, acts |-> na, mode |-> doing]

\* A message takes the page from one cursor to the next.
Fits(acts, m, a, b) ==
  /\ IF m.type = "batch"
       THEN /\ m.frameOffset = a.frames /\ m.eventOffset = a.events
            /\ a.frames <= b.frames /\ a.events <= b.events
            /\ m.frames = SubSeq(F(acts), a.frames + 1, b.frames)
            /\ m.events = SubSeq(E(acts), a.events + 1, b.events)
       ELSE b.frames = a.frames /\ b.events = a.events
  /\ IF m.type = "action-applied"
       THEN b.acts = a.acts + 1 /\ m.action = acts[b.acts]
       ELSE b.acts = a.acts
  /\ b.mode = IF m.type \in {"started", "running"} THEN "running"
              ELSE IF m.type = "paused" THEN "paused" ELSE a.mode

Shown(shown, state, acts, c) ==
  /\ shown.frames = Slice(F(acts), c.frames)
  /\ shown.events = Slice(E(acts), c.events)
  /\ shown.actions = Slice(acts, c.acts)
  /\ state = c.mode

\* The messages under way take what is shown to where the worker is.
Under(shown, state, queue, acts, nf, ne, na, doing) ==
  \E h \in [0 .. Len(queue) -> Cursors(nf, ne, na)] :
    /\ Shown(shown, state, acts, h[0])
    /\ h[Len(queue)] = Cursor(nf, ne, na, doing)
    /\ \A i \in 1 .. Len(queue) : Fits(acts, queue[i], h[i - 1], h[i])

ForksFit(shown, queue, acts, nf, ne) ==
  /\ shown.fork # NoFork => Earlier(shown.fork, acts, nf, ne)
  /\ \A i \in 1 .. Len(queue) : queue[i].type = "fork-created" => Earlier(queue[i].fork, acts, nf, ne)

Delivering(shown, state, queue, acts, nf, ne, doing) ==
  /\ acts \in Schedules
  /\ CursorSound(acts, nf, ne)
  /\ Under(shown, state, queue, acts, nf, ne, Len(acts), doing)
  /\ ForksFit(shown, queue, acts, nf, ne)

Endings == {"complete", "error"}

\* The phases of an active session: its worker is asked to start, plays, has
\* played all, or could not start.
Starting ==
  /\ run = NoRun /\ toPage = <<>>
  /\ toWorker # <<>> /\ Head(toWorker).type = "start"
  /\ page.state = "starting" /\ store.state = "starting" /\ store.fork = NoFork
  /\ LET fork == Head(toWorker).restore
     IN IF fork = NoFork
          THEN store.frames = <<>> /\ store.events = <<>> /\ store.actions = <<>> /\ ~store.opening
          ELSE /\ GoodFork(fork)
               /\ store.frames = fork.prefix.frames /\ store.events = fork.prefix.events
               /\ store.actions = fork.acts

Playing ==
  /\ run # NoRun
  /\ run.nextFrame <= LastSecond
  /\ run.timer = (run.mode = "running")
  /\ Delivering(store, page.state, toPage, run.acts, run.nextFrame, run.nextEvent, run.mode)
  /\ \A i \in 1 .. Len(toPage) : toPage[i].type \notin Endings

Ended ==
  /\ run = NoRun /\ toPage # <<>>
  /\ \A i \in 1 .. Len(toPage) : toPage[i].type \in Endings <=> i = Len(toPage)
  /\ \E acts \in Schedules, doing \in {"running", "paused"} :
       /\ Delivering(store, page.state, toPage, acts, LastSecond + 1, Len(E(acts)), doing)
       /\ Last(toPage).type = "complete" /\ Last(toPage).result = Simulate(acts)

Failed ==
  /\ run = NoRun /\ Len(toPage) = 1
  /\ toPage[1].type = "error" /\ store.fork = NoFork /\ store.state = "starting"

PhaseInv ==
  /\ Active => Starting \/ Playing \/ Ended \/ Failed
  /\ ~Active => run = NoRun /\ toWorker = <<>> /\ store.state \notin {"starting", "running", "paused"}
  /\ \A i \in 1 .. Len(toWorker) : toWorker[i].type = "start" => i = 1 /\ Starting
  /\ ForkIsRestorable
  /\ store.state = "complete" =>
       /\ store.result = Simulate(store.actions)
       /\ store.frames = store.result.frames /\ store.events = store.result.events

\* A message that ends the wait for an action.
Clears(m) == \/ m.type \in {"paused", "action-applied"} \union Endings
             \/ m.type = "command-rejected" /\ m.command = "act"

ActUnderWay == \/ \E i \in 1 .. Len(toWorker) : toWorker[i].type = "act"
               \/ \E i \in 1 .. Len(toPage) : Clears(toPage[i])

ControlInv ==
  Active =>
    /\ store.state \in Modes
    /\ store.state = page.state \/ store.opening
    /\ store.opening => Starting \/ \E i \in 1 .. Len(toPage) : toPage[i].type \in {"paused", "error"}
    /\ page.pending => ActUnderWay
    /\ page.state = "paused" /\ page.armed =>
         ActUnderWay \/ \E i \in 1 .. Len(toPage) : toPage[i].type \in {"started", "running"}

SessionInv == SessionTypes /\ PageInv /\ PhaseInv /\ ControlInv

-----------------------------------------------------------------------------
(* Slices of sequences, and the events up to a second.                     *)

LEMMA SizesAreNumbers ==
  LastSecond \in Nat \ {0} /\ BatchSize \in Nat \ {0} /\ MaxActions \in Nat /\ MaxRuns \in Nat /\ MaxQueue \in Nat
BY SizeAssumption

LEMMA LesserOfTwo ==
  ASSUME NEW m \in Int, NEW n \in Int
  PROVE  Min({m, n}) = IF m <= n THEN m ELSE n
<1> DEFINE x == IF m <= n THEN m ELSE n
<1>1. x \in {m, n} /\ \A y \in {m, n} : x <= y
  OBVIOUS
<1>2. \A z \in {m, n} : (\A y \in {m, n} : z <= y) => z = x
  OBVIOUS
<1> HIDE DEF x
<1>3. QED
  BY <1>1, <1>2 DEF Min, x

LEMMA SliceIs ==
  ASSUME NEW S, NEW s \in Seq(S), NEW n \in Nat
  PROVE  /\ Slice(s, n) \in Seq(S)
         /\ Len(Slice(s, n)) = IF n <= Len(s) THEN n ELSE Len(s)
         /\ \A i \in 1 .. Len(Slice(s, n)) : Slice(s, n)[i] = s[i]
<1> DEFINE k == IF n <= Len(s) THEN n ELSE Len(s)
<1>1. Len(s) \in Nat /\ k \in Nat /\ k <= Len(s)
  BY LenProperties
<1>2. Slice(s, n) = SubSeq(s, 1, k)
  BY <1>1, LesserOfTwo DEF Slice
<1>3. \A i \in 1 .. k : s[i] \in S
  BY <1>1, ElementOfSeq
<1> HIDE DEF k
<1>4. /\ SubSeq(s, 1, k) \in Seq(S)
      /\ Len(SubSeq(s, 1, k)) = IF 1 <= k THEN k - 1 + 1 ELSE 0
      /\ \A i \in 1 .. k - 1 + 1 : SubSeq(s, 1, k)[i] = s[1 + i - 1]
  BY <1>1, <1>3, SubSeqProperties
<1>5. Len(SubSeq(s, 1, k)) = k
  BY <1>1, <1>4
<1>6. \A i \in 1 .. k : SubSeq(s, 1, k)[i] = s[i]
  BY <1>1, <1>4
<1>7. QED
  BY <1>2, <1>4, <1>5, <1>6 DEF k

\* A slice and what follows it.
LEMMA SliceGrows ==
  ASSUME NEW S, NEW s \in Seq(S), NEW m \in Nat, NEW n \in Nat, m <= n, n <= Len(s)
  PROVE  /\ SubSeq(s, m + 1, n) \in Seq(S) /\ Len(SubSeq(s, m + 1, n)) = n - m
         /\ Slice(s, m) \o SubSeq(s, m + 1, n) = Slice(s, n)
<1>1. Len(s) \in Nat
  BY LenProperties
<1>2. Slice(s, m) = SubSeq(s, 1, m) /\ Slice(s, n) = SubSeq(s, 1, n)
  BY <1>1, LesserOfTwo DEF Slice
<1>3. SubSeq(s, 1, m) \o SubSeq(s, m + 1, n) = SubSeq(s, 1, n)
  BY <1>1, ConcatAdjacentSubSeq
<1>4. \A i \in m + 1 .. n : s[i] \in S
  BY <1>1, ElementOfSeq
<1>5. SubSeq(s, m + 1, n) \in Seq(S) /\ Len(SubSeq(s, m + 1, n)) = IF m + 1 <= n THEN n - (m + 1) + 1 ELSE 0
  BY <1>4, SubSeqProperties
<1>6. QED
  BY <1>1, <1>2, <1>3, <1>5

\* Sequences that agree up to n agree on every part up to n.
LEMMA SlicesAgree ==
  ASSUME NEW S, NEW s \in Seq(S), NEW t \in Seq(S), NEW n \in Nat, n <= Len(s), Slice(s, n) = Slice(t, n)
  PROVE  /\ n <= Len(t)
         /\ \A i \in 1 .. n : s[i] = t[i]
         /\ \A k \in 0 .. n : Slice(s, k) = Slice(t, k)
         /\ \A k, m \in 0 .. n : k <= m => SubSeq(s, k + 1, m) = SubSeq(t, k + 1, m)
<1>1. Len(s) \in Nat /\ Len(t) \in Nat
  BY LenProperties
<1>2. Len(Slice(s, n)) = n /\ Len(Slice(t, n)) = IF n <= Len(t) THEN n ELSE Len(t)
  BY <1>1, SliceIs
<1>3. n <= Len(t)
  BY <1>1, <1>2
<1>4. \A i \in 1 .. n : s[i] = t[i]
  <2>1. \A i \in 1 .. Len(Slice(s, n)) : Slice(s, n)[i] = s[i]
    BY SliceIs
  <2>2. \A i \in 1 .. Len(Slice(t, n)) : Slice(t, n)[i] = t[i]
    BY SliceIs
  <2>3. QED
    BY <1>2, <2>1, <2>2
<1>5. ASSUME NEW k \in 0 .. n PROVE Slice(s, k) = Slice(t, k)
  <2>1. /\ Slice(s, k) \in Seq(S) /\ Len(Slice(s, k)) = k /\ \A i \in 1 .. k : Slice(s, k)[i] = s[i]
    BY <1>1, SliceIs
  <2>2. /\ Slice(t, k) \in Seq(S) /\ Len(Slice(t, k)) = k /\ \A i \in 1 .. k : Slice(t, k)[i] = t[i]
    BY <1>1, <1>3, SliceIs
  <2>3. \A i \in 1 .. Len(Slice(s, k)) : Slice(s, k)[i] = Slice(t, k)[i]
    BY <1>4, <2>1, <2>2
  <2>4. QED
    BY <2>1, <2>2, <2>3, SeqEqual
<1>6. ASSUME NEW k \in 0 .. n, NEW m \in 0 .. n, k <= m PROVE SubSeq(s, k + 1, m) = SubSeq(t, k + 1, m)
  <2>1. /\ \A i \in k + 1 .. m : s[i] \in S
        /\ \A i \in k + 1 .. m : t[i] \in S
    BY <1>1, <1>3, ElementOfSeq
  <2>2. /\ SubSeq(s, k + 1, m) \in Seq(S)
        /\ Len(SubSeq(s, k + 1, m)) = IF k + 1 <= m THEN m - (k + 1) + 1 ELSE 0
        /\ \A i \in 1 .. m - (k + 1) + 1 : SubSeq(s, k + 1, m)[i] = s[k + 1 + i - 1]
    BY <2>1, SubSeqProperties
  <2>3. /\ SubSeq(t, k + 1, m) \in Seq(S)
        /\ Len(SubSeq(t, k + 1, m)) = IF k + 1 <= m THEN m - (k + 1) + 1 ELSE 0
        /\ \A i \in 1 .. m - (k + 1) + 1 : SubSeq(t, k + 1, m)[i] = t[k + 1 + i - 1]
    BY <2>1, SubSeqProperties
  <2>4. \A i \in 1 .. Len(SubSeq(s, k + 1, m)) : SubSeq(s, k + 1, m)[i] = SubSeq(t, k + 1, m)[i]
    BY <1>4, <2>2, <2>3
  <2>5. QED
    BY <2>2, <2>3, <2>4, SeqEqual
<1>7. QED
  BY <1>3, <1>4, <1>5, <1>6

\* Array.slice up to the length is the whole, and a shorter slice can be taken of a slice.
LEMMA SliceWhole ==
  ASSUME NEW S, NEW s \in Seq(S)
  PROVE  Slice(s, Len(s)) = s
<1>1. Len(s) \in Nat
  BY LenProperties
<1>2. Slice(s, Len(s)) = SubSeq(s, 1, Len(s))
  BY <1>1, LesserOfTwo DEF Slice
<1>3. QED
  BY <1>2, SubSeqFull

LEMMA SliceOfSlice ==
  ASSUME NEW S, NEW s \in Seq(S), NEW k \in Nat, NEW j \in Nat, j <= Len(Slice(s, k))
  PROVE  Slice(Slice(s, k), j) = Slice(s, j)
<1> DEFINE t == Slice(s, k)
<1>1. t \in Seq(S) /\ Len(s) \in Nat /\ Len(t) \in Nat /\ Len(t) <= Len(s)
      /\ \A i \in 1 .. Len(t) : t[i] = s[i]
  BY SliceIs, LenProperties
<1> HIDE DEF t
<1>2. j <= Len(t) /\ j <= Len(s)
  BY <1>1 DEF t
<1>3. Slice(t, j) \in Seq(S) /\ Len(Slice(t, j)) = j /\ \A i \in 1 .. Len(Slice(t, j)) : Slice(t, j)[i] = t[i]
  BY <1>1, <1>2, SliceIs
<1>4. Slice(s, j) \in Seq(S) /\ Len(Slice(s, j)) = j /\ \A i \in 1 .. Len(Slice(s, j)) : Slice(s, j)[i] = s[i]
  BY <1>1, <1>2, SliceIs
<1>5. \A i \in 1 .. j : Slice(t, j)[i] = Slice(s, j)[i]
  BY <1>1, <1>2, <1>3, <1>4
<1>6. Slice(t, j) = Slice(s, j)
  BY <1>3, <1>4, <1>5, SeqEqual
<1>7. QED
  BY <1>6 DEF t

LEMMA SliceIsPrefix ==
  ASSUME NEW S, NEW s \in Seq(S), NEW n \in Nat
  PROVE  IsPrefix(Slice(s, n), s)
<1> DEFINE t == Slice(s, n)
<1>1. t \in Seq(S) /\ Len(s) \in Nat /\ Len(t) \in Nat /\ Len(t) <= Len(s)
      /\ Len(t) = IF n <= Len(s) THEN n ELSE Len(s)
  BY SliceIs, LenProperties
<1>2. t = SubSeq(s, 1, Len(t))
  BY <1>1, LesserOfTwo DEF Slice
<1> HIDE DEF t
<1>3. SubSeq(t, 1, Len(t)) = t
  BY <1>1, SubSeqFull
<1>4. QED
  BY <1>1, <1>2, <1>3 DEF IsPrefix, t

\* Slices of a sequence with one more element.
LEMMA SliceOfLonger ==
  ASSUME NEW S, NEW s \in Seq(S), NEW e \in S
  PROVE  /\ Slice(s, Len(s)) = s
         /\ \A k \in 0 .. Len(s) : Slice(s, k) = Slice(Append(s, e), k)
<1> DEFINE n == Len(s)
           t == Append(s, e)
<1>1. n \in Nat /\ t \in Seq(S) /\ Len(t) = n + 1 /\ \A i \in 1 .. n : t[i] = s[i]
  BY LenProperties, AppendProperties
<1> HIDE DEF t
<1>2. /\ Slice(s, n) \in Seq(S) /\ Len(Slice(s, n)) = n
      /\ \A i \in 1 .. n : Slice(s, n)[i] = s[i]
  BY <1>1, SliceIs
<1>3. Slice(s, n) = s
  BY <1>1, <1>2, SeqEqual
<1>4. n <= Len(t)
  BY <1>1
<1>5. /\ Slice(t, n) \in Seq(S) /\ Len(Slice(t, n)) = n
      /\ \A i \in 1 .. Len(Slice(t, n)) : Slice(t, n)[i] = t[i]
  BY <1>1, <1>4, SliceIs
<1>6. Slice(t, n) = s
  BY <1>1, <1>5, SeqEqual
<1>7. \A k \in 0 .. n : Slice(s, k) = Slice(t, k)
  BY <1>1, <1>3, <1>6, SlicesAgree
<1>8. QED
  BY <1>3, <1>7 DEF t

\* A slice and the element that follows it.
LEMMA SliceStep ==
  ASSUME NEW S, NEW s \in Seq(S), NEW n \in Nat, n < Len(s)
  PROVE  Append(Slice(s, n), s[n + 1]) = Slice(s, n + 1)
<1>1. Len(s) \in Nat /\ n + 1 \in 1 .. Len(s) /\ n \in n + 1 - 1 .. n + 1 /\ n + 1 \in Nat
  BY LenProperties
<1>2. Slice(s, n) = SubSeq(s, 1, n) /\ Slice(s, n + 1) = SubSeq(s, 1, n + 1)
  BY <1>1, LesserOfTwo DEF Slice
<1>3. SubSeq(s, 1, n + 1) = SubSeq(s, 1, n + 1 - 1) \o <<s[n + 1]>>
  BY <1>1, SubSeqRecursiveSecond
<1>4. Slice(s, n) \in Seq(S) /\ s[n + 1] \in S
  BY <1>1, SliceIs, ElementOfSeq
<1>5. Append(Slice(s, n), s[n + 1]) = Slice(s, n) \o <<s[n + 1]>>
  BY <1>4, AppendIsConcat
<1>6. n + 1 - 1 = n
  OBVIOUS
<1>7. QED
  BY <1>2, <1>3, <1>5, <1>6

\* A batch that starts where the shown part ends is appended.
LEMMA SpliceAppends ==
  ASSUME NEW S, NEW shown \in Seq(S), NEW delivered \in Seq(S)
  PROVE  Splice(shown, Len(shown), delivered) = shown \o delivered
<1>1. Len(shown) \in Nat /\ Len(delivered) \in Nat
  BY LenProperties
<1>2. Slice(shown, Len(shown)) = shown
  BY <1>1, LesserOfTwo, SubSeqFull DEF Slice
<1>3. Min({Len(shown), Len(shown)}) = Len(shown)
  BY <1>1, LesserOfTwo
<1>4. SubSeq(shown, Len(shown) + Len(delivered) + 1, Len(shown)) = <<>>
  BY <1>1, SubSeqEmpty
<1>5. shown \o delivered \in Seq(S)
  BY ConcatProperties
<1>6. QED
  BY <1>2, <1>3, <1>4, <1>5, ConcatEmptySeq DEF Splice

LEMMA ScheduleIs ==
  \A acts : acts \in Schedules <=> acts \in Seq(Actions) /\ Len(acts) <= MaxActions
<1>1. ASSUME NEW acts \in Schedules PROVE acts \in Seq(Actions) /\ Len(acts) <= MaxActions
  <2>1. PICK n \in 0 .. MaxActions : acts \in [1 .. n -> Actions]
    BY <1>1 DEF Schedules, BoundedSeq, SeqOf
  <2>2. n \in Nat /\ n <= MaxActions
    BY SizesAreNumbers
  <2>3. acts \in Seq(Actions)
    BY <2>1, <2>2, SeqDef
  <2>4. Len(acts) = n
    BY <2>1, <2>2, <2>3, LenProperties
  <2>5. QED
    BY <2>2, <2>3, <2>4
<1>2. ASSUME NEW acts \in Seq(Actions), Len(acts) <= MaxActions PROVE acts \in Schedules
  <2>1. acts \in [1 .. Len(acts) -> Actions] /\ Len(acts) \in 0 .. MaxActions
    BY <1>2, LenProperties, SizesAreNumbers
  <2>2. QED
    BY <2>1 DEF Schedules, BoundedSeq, SeqOf
<1>3. QED
  BY <1>1, <1>2

LEMMA EngineIs ==
  ASSUME NEW acts \in Schedules
  PROVE  /\ Simulate(acts) \in Results /\ F(acts) \in Seq(Frames) /\ E(acts) \in Seq(Events)
         /\ Len(F(acts)) = LastSecond + 1 /\ Len(E(acts)) \in Nat
         /\ \A i \in 1 .. LastSecond + 1 : F(acts)[i].second = i - 1
         /\ \A i \in 1 .. Len(E(acts)) : E(acts)[i].second \in 0 .. LastSecond
<1>1. /\ Simulate(acts) \in Results /\ F(acts) \in Seq(Frames) /\ E(acts) \in Seq(Events)
      /\ Len(F(acts)) = LastSecond + 1
      /\ \A i \in 1 .. LastSecond + 1 : F(acts)[i].second = i - 1
      /\ \A i \in 1 .. Len(E(acts)) : E(acts)[i].second \in 0 .. LastSecond
  BY EngineAssumption DEF Results, F, E
<1>2. QED
  BY <1>1, LenProperties

\* The cursor is where the events up to a second end, and there is one such place.
LEMMA SplitsOnce ==
  ASSUME NEW events, Len(events) \in Nat, NEW s \in Int, NEW m \in 0 .. Len(events), NEW n \in 0 .. Len(events),
         \A i \in 1 .. Len(events) : events[i].second \in Int,
         Splits(events, m, s), Splits(events, n, s)
  PROVE  m = n
<1>1. ~(m < n)
  <2>1. SUFFICES ASSUME m < n PROVE FALSE
    OBVIOUS
  <2>2. m + 1 \in 1 .. n /\ m < Len(events) /\ m + 1 \in 1 .. Len(events)
    BY <2>1
  <2>3. events[m + 1].second <= s /\ events[m + 1].second > s /\ events[m + 1].second \in Int
    BY <2>2 DEF Splits
  <2>4. QED
    BY <2>3
<1>2. ~(n < m)
  <2>1. SUFFICES ASSUME n < m PROVE FALSE
    OBVIOUS
  <2>2. n + 1 \in 1 .. m /\ n < Len(events) /\ n + 1 \in 1 .. Len(events)
    BY <2>1
  <2>3. events[n + 1].second <= s /\ events[n + 1].second > s /\ events[n + 1].second \in Int
    BY <2>2 DEF Splits
  <2>4. QED
    BY <2>3
<1>3. QED
  BY <1>1, <1>2

\* The loop that moves the cursor ends there.
LEMMA UpToSplits ==
  ASSUME NEW events, Len(events) \in Nat, NEW s \in Int, NEW from \in 0 .. Len(events),
         \A i \in 1 .. Len(events) : events[i].second \in Int,
         \A i \in 1 .. from : events[i].second <= s
  PROVE  /\ EventsUpTo(events, from, s) \in from .. Len(events)
         /\ Splits(events, EventsUpTo(events, from, s), s)
<1> DEFINE Stops == {n \in from .. Len(events) : n < Len(events) => events[n + 1].second > s}
           Ends(n) == /\ \A i \in from + 1 .. n : events[i].second <= s
                      /\ n < Len(events) => events[n + 1].second > s
<1>1. Stops \subseteq Nat /\ Len(events) \in Stops
  OBVIOUS
<1>2. PICK n \in Stops : \A m \in Nat : m < n => m \notin Stops
  <2>1. IsWellFoundedOn(OpToRel(<, Nat), Nat)
    BY NatLessThanWellFounded
  <2>2. PICK n \in Stops : \A m \in Nat : <<m, n>> \in OpToRel(<, Nat) => m \notin Stops
    BY <1>1, <2>1, WFMin, Zenon
  <2>3. QED
    BY <1>1, <2>2 DEF OpToRel
<1>3. Ends(n) /\ n \in from .. Len(events)
  <2>1. ASSUME NEW i \in from + 1 .. n PROVE events[i].second <= s
    <3>1. i - 1 \in from .. Len(events) /\ i - 1 \in Nat /\ i - 1 < n /\ i - 1 < Len(events) /\ i \in 1 .. Len(events)
      BY <1>1, <1>2
    <3>2. i - 1 \notin Stops
      BY <1>2, <3>1
    <3>3. ~(events[i - 1 + 1].second > s) /\ i - 1 + 1 = i
      BY <3>1, <3>2
    <3>4. events[i].second \in Int
      BY <3>1
    <3>5. QED
      BY <3>3, <3>4
  <2>2. QED
    BY <1>2, <2>1
<1>4. EventsUpTo(events, from, s) \in from .. Len(events) /\ Ends(EventsUpTo(events, from, s))
  BY <1>3 DEF EventsUpTo
<1>5. QED
  BY <1>4 DEF Splits

\* The second delivered is that of the last frame delivered.
LEMMA DeliveredIs ==
  ASSUME NEW acts \in Schedules, NEW nf \in 0 .. LastSecond + 1
  PROVE  /\ DeliveredSecondFor(Simulate(acts), nf) = nf - 1
         /\ Slice(F(acts), nf) \in Seq(Frames) /\ Len(Slice(F(acts), nf)) = nf
         /\ LastDelivered(Slice(F(acts), nf)) = nf - 1
<1>1. /\ F(acts) \in Seq(Frames) /\ Len(F(acts)) = LastSecond + 1 /\ DOMAIN F(acts) = 1 .. LastSecond + 1
      /\ \A i \in 1 .. LastSecond + 1 : F(acts)[i].second = i - 1
  BY EngineIs, LenProperties
<1>2. DeliveredSecondFor(Simulate(acts), nf) = nf - 1
  BY <1>1, SizesAreNumbers DEF DeliveredSecondFor, F
<1>3. /\ Slice(F(acts), nf) \in Seq(Frames) /\ Len(Slice(F(acts), nf)) = nf
      /\ \A i \in 1 .. nf : Slice(F(acts), nf)[i] = F(acts)[i]
  <2> DEFINE s == F(acts)
  <2>1. s \in Seq(Frames) /\ nf \in Nat /\ nf <= Len(s)
    BY <1>1, SizesAreNumbers
  <2> HIDE DEF s
  <2>2. /\ Slice(s, nf) \in Seq(Frames) /\ Len(Slice(s, nf)) = nf
        /\ \A i \in 1 .. nf : Slice(s, nf)[i] = s[i]
    BY <2>1, SliceIs
  <2>3. QED
    BY <2>2 DEF s
<1>4. LastDelivered(Slice(F(acts), nf)) = nf - 1
  <2>1. CASE nf = 0
    <3>1. Slice(F(acts), nf) = <<>>
      BY <1>3, <2>1, EmptySeq
    <3>2. QED
      BY <2>1, <3>1 DEF LastDelivered
  <2>2. CASE nf # 0
    <3>1. Slice(F(acts), nf) # <<>> /\ nf \in 1 .. nf /\ nf \in 1 .. LastSecond + 1
      BY <1>3, <2>2, EmptySeq, SizesAreNumbers
    <3>2. Last(Slice(F(acts), nf)) = F(acts)[nf]
      BY <1>3, <3>1 DEF Last
    <3>3. QED
      BY <1>1, <3>1, <3>2 DEF LastDelivered
  <2>3. QED
    BY <2>1, <2>2
<1>5. QED
  BY <1>2, <1>3, <1>4

\* The cursor after a batch is sound.
LEMMA CursorMoves ==
  ASSUME NEW acts \in Schedules, NEW nf \in 0 .. LastSecond, NEW ne, CursorSound(acts, nf, ne),
         NEW f \in nf + 1 .. LastSecond + 1
  PROVE  /\ CursorSound(acts, f, EventCursor(Simulate(acts), ne, f))
         /\ ne <= EventCursor(Simulate(acts), ne, f)
<1>1. /\ Len(F(acts)) = LastSecond + 1 /\ Len(E(acts)) \in Nat
      /\ \A i \in 1 .. LastSecond + 1 : F(acts)[i].second = i - 1
      /\ \A i \in 1 .. Len(E(acts)) : E(acts)[i].second \in Int
      /\ LastSecond \in Nat
  BY EngineIs, SizesAreNumbers
<1>2. nf \in Nat /\ f \in Nat /\ f \in 1 .. LastSecond + 1 /\ nf <= LastSecond
  BY <1>1
<1>3. ne \in 0 .. Len(E(acts)) /\ Splits(E(acts), ne, nf - 1)
  BY <1>2 DEF CursorSound
<1>4. CASE f = LastSecond + 1
  <2>1. EventCursor(Simulate(acts), ne, f) = Len(E(acts))
    BY <1>1, <1>4 DEF EventCursor, F, E
  <2>2. QED
    BY <1>1, <1>3, <1>4, <2>1 DEF CursorSound
<1>5. CASE f # LastSecond + 1
  <2>1. EventCursor(Simulate(acts), ne, f) = EventsUpTo(E(acts), ne, f - 1)
    BY <1>1, <1>2, <1>5 DEF EventCursor, F, E
  <2>2. \A i \in 1 .. ne : E(acts)[i].second <= f - 1
    <3>1. ASSUME NEW i \in 1 .. ne PROVE E(acts)[i].second <= f - 1
      <4>1. E(acts)[i].second <= nf - 1 /\ E(acts)[i].second \in Int
        BY <1>1, <1>3 DEF Splits
      <4>2. QED
        BY <1>2, <4>1
    <3>2. QED
      BY <3>1
  <2>3. /\ EventsUpTo(E(acts), ne, f - 1) \in ne .. Len(E(acts))
        /\ Splits(E(acts), EventsUpTo(E(acts), ne, f - 1), f - 1)
    <3>1. f - 1 \in Int /\ ne \in 0 .. Len(E(acts))
      BY <1>2, <1>3
    <3>2. QED
      BY <1>1, <2>2, <3>1, UpToSplits
  <2>4. QED
    BY <1>1, <1>2, <1>3, <1>5, <2>1, <2>3 DEF CursorSound
<1>6. QED
  BY <1>4, <1>5

\* An action that the worker takes leaves what was delivered, and its cursor, alone.
LEMMA ActionsKeepCursor ==
  ASSUME NEW r \in RunType, r.nextFrame <= LastSecond, CursorSound(r.acts, r.nextFrame, r.nextEvent),
         NEW a \in Actions, Applicable(r, a)
  PROVE  /\ Append(r.acts, a) \in Schedules
         /\ CursorSound(Append(r.acts, a), r.nextFrame, r.nextEvent)
         /\ Slice(F(r.acts), r.nextFrame) = Slice(F(Append(r.acts, a)), r.nextFrame)
         /\ Slice(E(r.acts), r.nextEvent) = Slice(E(Append(r.acts, a)), r.nextEvent)
<1> DEFINE acts == r.acts
           more == Append(r.acts, a)
           nf == r.nextFrame
           ne == r.nextEvent
<1>1. /\ acts \in Schedules /\ nf \in Nat /\ ne \in Nat /\ nf <= LastSecond /\ LastSecond \in Nat
      /\ acts \in Seq(Actions) /\ Len(acts) \in Nat
  BY ScheduleIs, LenProperties, SizesAreNumbers DEF RunType
<1>2. /\ a.at > nf - 1
      /\ Len(acts) < MaxActions
      /\ \A i \in DOMAIN acts : acts[i].id # a.id
      /\ Slice(F(acts), nf) = Slice(F(more), nf)
      /\ Slice(E(acts), ne) = Slice(E(more), ne)
  <2>1. DeliveredSecondFor(Simulate(acts), nf) = nf - 1
    BY <1>1, DeliveredIs
  <2>2. DeliveredPrefix(Simulate(acts), nf, ne) = DeliveredPrefix(Simulate(more), nf, ne)
    BY DEF Applicable
  <2>3. QED
    BY <2>1, <2>2 DEF Applicable, DeliveredPrefix, F, E
<1>3. more \in Schedules
  <2>1. more \in Seq(Actions) /\ Len(more) = Len(acts) + 1
    BY <1>1, AppendProperties
  <2>2. Len(more) <= MaxActions
    BY <1>1, <1>2, <2>1, SizesAreNumbers
  <2> HIDE DEF more
  <2>3. QED
    BY <2>1, <2>2, ScheduleIs
<1>4. /\ Len(E(acts)) \in Nat /\ Len(E(more)) \in Nat
      /\ \A i \in 1 .. Len(E(acts)) : E(acts)[i].second \in 0 .. LastSecond
      /\ \A i \in 1 .. Len(E(more)) : E(more)[i].second \in 0 .. LastSecond
  BY <1>1, <1>3, EngineIs
<1>5. ne \in 0 .. Len(E(acts)) /\ Splits(E(acts), ne, nf - 1)
  BY <1>1 DEF CursorSound
<1>6. ne \in 0 .. Len(E(more)) /\ Splits(E(more), ne, nf - 1)
  <2>1. CASE nf = 0
    <3>1. ne = 0
      <4>1. SUFFICES ASSUME ne # 0 PROVE FALSE
        OBVIOUS
      <4>2. 1 \in 1 .. ne /\ 1 \in 1 .. Len(E(acts))
        BY <1>4, <1>5, <4>1
      <4>3. E(acts)[1].second <= nf - 1 /\ E(acts)[1].second \in 0 .. LastSecond
        BY <1>4, <1>5, <4>2 DEF Splits
      <4>4. QED
        BY <1>1, <2>1, <4>3
    <3>2. 0 < Len(E(more)) => E(more)[0 + 1].second > nf - 1
      <4>1. SUFFICES ASSUME 0 < Len(E(more)) PROVE E(more)[1].second > nf - 1
        OBVIOUS
      <4>2. E(more)[1].second \in 0 .. LastSecond
        BY <1>4, <4>1
      <4>3. QED
        BY <1>1, <2>1, <4>2
    <3>3. QED
      BY <1>4, <3>1, <3>2 DEF Splits
  <2>2. CASE nf # 0
    <3> DEFINE s == nf - 1
    <3>1. s \in 0 .. LastSecond /\ s + 1 = nf /\ s < a.at
      <4>1. a.at \in Int
        BY SizesAreNumbers DEF Actions, Action
      <4>2. QED
        BY <1>1, <1>2, <2>2, <4>1
    <3>2. EventsUpTo(E(acts), 0, s) = EventsUpTo(E(more), 0, s)
      BY <1>1, <1>2, <1>3, <3>1, EventsFollowFrames DEF F, E
    <3>3. /\ EventsUpTo(E(acts), 0, s) \in 0 .. Len(E(acts)) /\ Splits(E(acts), EventsUpTo(E(acts), 0, s), s)
          /\ EventsUpTo(E(more), 0, s) \in 0 .. Len(E(more)) /\ Splits(E(more), EventsUpTo(E(more), 0, s), s)
      BY <1>4, <3>1, UpToSplits
    <3>4. EventsUpTo(E(acts), 0, s) = ne
      <4>1. s \in Int /\ \A i \in 1 .. Len(E(acts)) : E(acts)[i].second \in Int
        BY <1>4, <3>1
      <4>2. Splits(E(acts), ne, s)
        BY <1>5
      <4> HIDE DEF s
      <4>3. QED
        BY <1>4, <1>5, <3>3, <4>1, <4>2, SplitsOnce
    <3>5. QED
      BY <3>2, <3>3, <3>4
  <2>3. QED
    BY <2>1, <2>2
<1>7. CursorSound(more, nf, ne)
  BY <1>1, <1>6 DEF CursorSound
<1>8. QED
  BY <1>2, <1>3, <1>7

\* What a paused worker captures is a good fork.
LEMMA SnapshotIsGood ==
  ASSUME NEW r \in RunType, r.nextFrame <= LastSecond, CursorSound(r.acts, r.nextFrame, r.nextEvent)
  PROVE  /\ GoodFork(SessionSnapshot(r))
         /\ Earlier(SessionSnapshot(r), r.acts, r.nextFrame, r.nextEvent)
<1> DEFINE f == SessionSnapshot(r)
<1>1. /\ f.acts = r.acts /\ f.nextFrame = r.nextFrame /\ f.nextEvent = r.nextEvent
      /\ f = SessionSnapshot(f)
  BY DEF SessionSnapshot
<1>2. /\ r.acts \in Schedules /\ r.nextFrame \in Nat /\ r.nextEvent \in Nat
      /\ r.nextFrame \in 0 .. LastSecond + 1
  BY SizesAreNumbers DEF RunType
<1>3. /\ Simulate(r.acts) \in Results /\ DeliveredSecondFor(Simulate(r.acts), r.nextFrame) \in Int
      /\ Slice(F(r.acts), r.nextFrame) \in Seq(Frames) /\ Slice(E(r.acts), r.nextEvent) \in Seq(Events)
  BY <1>2, EngineIs, DeliveredIs, SliceIs
<1>4. f \in ForkType
  BY <1>2, <1>3 DEF SessionSnapshot, DeliveredPrefix, ForkType, Results, F, E
<1>5. GoodFork(f)
  BY <1>1, <1>4 DEF GoodFork
<1>6. Earlier(f, r.acts, r.nextFrame, r.nextEvent)
  BY <1>1, <1>2, <1>5 DEF Earlier
<1>7. QED
  BY <1>5, <1>6

\* The worker accepts a good fork.
LEMMA GoodIsRestorable ==
  ASSUME NEW f, GoodFork(f)
  PROVE  Restorable(f)
<1>1. /\ f.acts \in Schedules /\ f.nextFrame \in Nat /\ f.nextEvent \in Nat /\ f.nextFrame <= LastSecond
      /\ LastSecond \in Nat /\ f.nextFrame \in 0 .. LastSecond + 1
  BY SizesAreNumbers DEF GoodFork, ForkType
<1>2. /\ f.deliveredSecond = DeliveredSecondFor(Simulate(f.acts), f.nextFrame)
      /\ f.prefix = DeliveredPrefix(Simulate(f.acts), f.nextFrame, f.nextEvent)
      /\ f.result = Simulate(f.acts)
  BY DEF GoodFork, SessionSnapshot
<1>3. /\ Len(F(f.acts)) = LastSecond + 1 /\ Len(E(f.acts)) \in Nat
      /\ \A i \in 1 .. Len(E(f.acts)) : E(f.acts)[i].second \in 0 .. LastSecond
      /\ DeliveredSecondFor(Simulate(f.acts), f.nextFrame) = f.nextFrame - 1
  BY <1>1, EngineIs, DeliveredIs
<1>4. f.nextEvent \in 0 .. Len(E(f.acts)) /\ Splits(E(f.acts), f.nextEvent, f.nextFrame - 1)
  BY <1>1 DEF GoodFork, CursorSound
<1>5. /\ EventsUpTo(E(f.acts), 0, f.nextFrame - 1) \in 0 .. Len(E(f.acts))
      /\ Splits(E(f.acts), EventsUpTo(E(f.acts), 0, f.nextFrame - 1), f.nextFrame - 1)
  <2> DEFINE events == E(f.acts)
             s == f.nextFrame - 1
  <2>1. s \in Int /\ Len(events) \in Nat /\ 0 \in 0 .. Len(events)
    BY <1>1, <1>3
  <2>2. \A i \in 1 .. Len(events) : events[i].second \in Int
    BY <1>3
  <2> HIDE DEF events, s
  <2>3. \A i \in 1 .. 0 : events[i].second <= s
    OBVIOUS
  <2>4. EventsUpTo(events, 0, s) \in 0 .. Len(events) /\ Splits(events, EventsUpTo(events, 0, s), s)
    BY <2>1, <2>2, <2>3, UpToSplits
  <2>5. QED
    BY <2>4 DEF events, s
<1>6. f.nextEvent = EventsUpTo(E(f.acts), 0, f.nextFrame - 1)
  <2> DEFINE events == E(f.acts)
             s == f.nextFrame - 1
             cut == EventsUpTo(events, 0, s)
  <2>1. s \in Int /\ Len(events) \in Nat
    BY <1>1, <1>3
  <2>2. \A i \in 1 .. Len(events) : events[i].second \in Int
    BY <1>3
  <2>3. /\ f.nextEvent \in 0 .. Len(events) /\ Splits(events, f.nextEvent, s)
        /\ cut \in 0 .. Len(events) /\ Splits(events, cut, s)
    BY <1>4, <1>5
  <2> HIDE DEF events, s, cut
  <2>4. f.nextEvent = cut
    BY <2>1, <2>2, <2>3, SplitsOnce, Zenon
  <2>5. QED
    BY <2>4 DEF events, s, cut
<1>7. QED
  BY <1>1, <1>2, <1>3, <1>6 DEF Restorable, F, E

-----------------------------------------------------------------------------
(* The messages under way: one more is posted, the first is received, the  *)
(* schedule grows.                                                         *)

\* A message that starts from where the worker was takes the page to where it is.
LEMMA Extends ==
  ASSUME NEW q \in Seq(Replies), NEW m \in Replies, NEW acts, NEW shown, NEW state,
         NEW nf \in Nat, NEW ne \in Nat, NEW na \in Nat, NEW doing,
         NEW nf2 \in Nat, NEW ne2 \in Nat, NEW na2 \in Nat, NEW doing2 \in Modes,
         nf <= nf2, ne <= ne2, na <= na2,
         Under(shown, state, q, acts, nf, ne, na, doing),
         Fits(acts, m, Cursor(nf, ne, na, doing), Cursor(nf2, ne2, na2, doing2))
  PROVE  Under(shown, state, Append(q, m), acts, nf2, ne2, na2, doing2)
<1> DEFINE n == Len(q)
           last == Cursor(nf2, ne2, na2, doing2)
<1>1. n \in Nat /\ Len(Append(q, m)) = n + 1 /\ (\A i \in 1 .. n : Append(q, m)[i] = q[i]) /\ Append(q, m)[n + 1] = m
  BY LenProperties, AppendProperties
<1>2. PICK h \in [0 .. n -> Cursors(nf, ne, na)] :
        /\ Shown(shown, state, acts, h[0])
        /\ h[n] = Cursor(nf, ne, na, doing)
        /\ \A i \in 1 .. n : Fits(acts, q[i], h[i - 1], h[i])
  BY DEF Under
<1> DEFINE g == [i \in 0 .. n + 1 |-> IF i = n + 1 THEN last ELSE h[i]]
<1>3. Cursors(nf, ne, na) \subseteq Cursors(nf2, ne2, na2) /\ last \in Cursors(nf2, ne2, na2)
  BY DEF Cursors, Cursor
<1>4. g \in [0 .. n + 1 -> Cursors(nf2, ne2, na2)]
  <2>1. \A i \in 0 .. n + 1 : i # n + 1 => h[i] \in Cursors(nf, ne, na)
    BY <1>1, <1>2
  <2> HIDE DEF last
  <2>2. QED
    BY <1>3, <2>1
<1>5. g[n + 1] = last /\ (\A i \in 0 .. n : g[i] = h[i])
  BY <1>1
<1> HIDE DEF g, last
<1>6. \A i \in 1 .. n + 1 : Fits(acts, Append(q, m)[i], g[i - 1], g[i])
  <2> SUFFICES ASSUME NEW i \in 1 .. n + 1 PROVE Fits(acts, Append(q, m)[i], g[i - 1], g[i])
    OBVIOUS
  <2>1. CASE i = n + 1
    <3>1. g[i - 1] = Cursor(nf, ne, na, doing) /\ g[i] = last /\ Append(q, m)[i] = m
      <4>1. i - 1 = n /\ n \in 0 .. n
        BY <1>1, <2>1
      <4>2. QED
        BY <1>1, <1>2, <1>5, <2>1, <4>1
    <3>2. QED
      BY <3>1 DEF last
  <2>2. CASE i # n + 1
    <3>1. i \in 1 .. n /\ i \in 0 .. n /\ i - 1 \in 0 .. n
      BY <1>1, <2>2
    <3>2. g[i - 1] = h[i - 1] /\ g[i] = h[i] /\ Append(q, m)[i] = q[i]
      BY <1>1, <1>5, <3>1
    <3>3. QED
      BY <1>2, <3>1, <3>2
  <2>3. QED
    BY <2>1, <2>2
<1>7. Shown(shown, state, acts, g[0])
  BY <1>1, <1>2, <1>5
<1>8. QED
  BY <1>1, <1>4, <1>5, <1>6, <1>7 DEF Under, last

\* The first message starts from what is shown; the others take the rest of the way.
LEMMA Receives ==
  ASSUME NEW q \in Seq(Replies), q # <<>>, NEW acts, NEW shown, NEW state,
         NEW nf, NEW ne, NEW na, NEW doing,
         Under(shown, state, q, acts, nf, ne, na, doing)
  PROVE  \E a, b \in Cursors(nf, ne, na) :
           /\ Shown(shown, state, acts, a)
           /\ Fits(acts, Head(q), a, b)
           /\ \A shown2, state2 : Shown(shown2, state2, acts, b) =>
                Under(shown2, state2, Tail(q), acts, nf, ne, na, doing)
<1> DEFINE n == Len(q)
<1>1. /\ n \in Nat /\ n > 0 /\ Len(Tail(q)) = n - 1
      /\ \A i \in 1 .. n - 1 : Tail(q)[i] = q[i + 1]
  BY LenProperties, EmptySeq, HeadTailProperties
<1>2. PICK h \in [0 .. n -> Cursors(nf, ne, na)] :
        /\ Shown(shown, state, acts, h[0])
        /\ h[n] = Cursor(nf, ne, na, doing)
        /\ \A i \in 1 .. n : Fits(acts, q[i], h[i - 1], h[i])
  BY DEF Under
<1> DEFINE g == [i \in 0 .. n - 1 |-> h[i + 1]]
<1>3. g \in [0 .. n - 1 -> Cursors(nf, ne, na)]
  BY <1>1, <1>2
<1>4. \A i \in 0 .. n - 1 : g[i] = h[i + 1]
  OBVIOUS
<1> HIDE DEF g
<1>5. /\ h[0] \in Cursors(nf, ne, na) /\ h[1] \in Cursors(nf, ne, na)
      /\ g[n - 1] = Cursor(nf, ne, na, doing) /\ g[0] = h[1]
  BY <1>1, <1>2, <1>4
<1>6. \A i \in 1 .. n - 1 : Fits(acts, Tail(q)[i], g[i - 1], g[i])
  <2> SUFFICES ASSUME NEW i \in 1 .. n - 1 PROVE Fits(acts, Tail(q)[i], g[i - 1], g[i])
    OBVIOUS
  <2>1. i + 1 \in 1 .. n /\ i \in 0 .. n - 1 /\ i - 1 \in 0 .. n - 1 /\ i - 1 + 1 = i /\ i + 1 - 1 = i
    BY <1>1
  <2>2. g[i - 1] = h[i] /\ g[i] = h[i + 1] /\ Tail(q)[i] = q[i + 1]
    BY <1>1, <1>4, <2>1
  <2>3. Fits(acts, q[i + 1], h[i + 1 - 1], h[i + 1])
    BY <1>2, <2>1
  <2>4. QED
    BY <2>1, <2>2, <2>3
<1>7. Fits(acts, Head(q), h[0], h[1])
  <2>1. 1 \in 1 .. n /\ 1 - 1 = 0 /\ Head(q) = q[1]
    BY <1>1
  <2>2. QED
    BY <1>2, <2>1
<1>8. ASSUME NEW shown2, NEW state2, Shown(shown2, state2, acts, h[1])
      PROVE  Under(shown2, state2, Tail(q), acts, nf, ne, na, doing)
  <2>1. Shown(shown2, state2, acts, g[0])
    BY <1>5, <1>8
  <2>2. QED
    BY <1>1, <1>3, <1>5, <1>6, <2>1 DEF Under
<1>9. QED
  BY <1>2, <1>5, <1>7, <1>8

\* What is shown and under way is of the longer schedule too.
LEMMA Regrows ==
  ASSUME NEW acts \in Schedules, NEW more \in Schedules, NEW a \in Actions, more = Append(acts, a),
         NEW nf \in 0 .. LastSecond + 1, NEW ne \in 0 .. Len(E(acts)),
         Slice(F(acts), nf) = Slice(F(more), nf), Slice(E(acts), ne) = Slice(E(more), ne),
         NEW q \in Seq(Replies), NEW shown, NEW state, NEW doing,
         Under(shown, state, q, acts, nf, ne, Len(acts), doing)
  PROVE  Under(shown, state, q, more, nf, ne, Len(acts), doing)
<1> DEFINE n == Len(q)
           na == Len(acts)
<1>1. /\ F(acts) \in Seq(Frames) /\ F(more) \in Seq(Frames) /\ Len(F(acts)) = LastSecond + 1
      /\ E(acts) \in Seq(Events) /\ E(more) \in Seq(Events) /\ Len(E(acts)) \in Nat
      /\ n \in Nat /\ na \in Nat /\ nf \in Nat /\ ne \in Nat /\ nf <= Len(F(acts))
      /\ acts \in Seq(Actions) /\ more \in Seq(Actions)
  <2>1. acts \in Seq(Actions) /\ more \in Seq(Actions)
    BY ScheduleIs
  <2>2. n \in Nat /\ na \in Nat
    BY <2>1, LenProperties
  <2>3. /\ F(acts) \in Seq(Frames) /\ F(more) \in Seq(Frames) /\ Len(F(acts)) = LastSecond + 1
        /\ E(acts) \in Seq(Events) /\ E(more) \in Seq(Events) /\ Len(E(acts)) \in Nat
    BY EngineIs
  <2>4. nf \in Nat /\ ne \in Nat /\ nf <= LastSecond + 1
    BY <2>3, SizesAreNumbers
  <2>5. QED
    BY <2>1, <2>2, <2>3, <2>4
<1>2. /\ \A k \in 0 .. nf : Slice(F(acts), k) = Slice(F(more), k)
      /\ \A k, l \in 0 .. nf : k <= l => SubSeq(F(acts), k + 1, l) = SubSeq(F(more), k + 1, l)
  BY <1>1, SlicesAgree
<1>3. /\ \A k \in 0 .. ne : Slice(E(acts), k) = Slice(E(more), k)
      /\ \A k, l \in 0 .. ne : k <= l => SubSeq(E(acts), k + 1, l) = SubSeq(E(more), k + 1, l)
  BY <1>1, SlicesAgree
<1>4. /\ \A i \in 1 .. na : acts[i] = more[i]
      /\ \A k \in 0 .. na : Slice(acts, k) = Slice(more, k)
  BY <1>1, AppendProperties, SliceOfLonger
<1>5. ASSUME NEW m, NEW b \in Cursors(nf, ne, na), NEW c \in Cursors(nf, ne, na), Fits(acts, m, b, c)
      PROVE  Fits(more, m, b, c)
  <2>1. /\ b.frames \in 0 .. nf /\ c.frames \in 0 .. nf /\ b.events \in 0 .. ne /\ c.events \in 0 .. ne
        /\ b.acts \in 0 .. na /\ c.acts \in 0 .. na
    BY DEF Cursors
  <2>2. m.type = "batch" => /\ m.frames = SubSeq(F(more), b.frames + 1, c.frames)
                            /\ m.events = SubSeq(E(more), b.events + 1, c.events)
    BY <1>2, <1>3, <1>5, <2>1 DEF Fits
  <2>3. m.type = "action-applied" => m.action = more[c.acts]
    <3>1. m.type = "action-applied" => c.acts = b.acts + 1 /\ m.action = acts[c.acts]
      BY <1>5 DEF Fits
    <3>2. m.type = "action-applied" => c.acts \in 1 .. na
      <4>1. \A k \in 0 .. na, l \in 0 .. na : l = k + 1 => l \in 1 .. na
        OBVIOUS
      <4>2. QED
        BY <2>1, <3>1, <4>1, Zenon
    <3>3. QED
      BY <1>4, <3>1, <3>2
  <2>4. QED
    BY <1>5, <2>2, <2>3 DEF Fits
<1>6. ASSUME NEW b \in Cursors(nf, ne, na), Shown(shown, state, acts, b)
      PROVE  Shown(shown, state, more, b)
  <2>1. b.frames \in 0 .. nf /\ b.events \in 0 .. ne /\ b.acts \in 0 .. na
    BY DEF Cursors
  <2>2. QED
    BY <1>2, <1>3, <1>4, <1>6, <2>1 DEF Shown
<1>7. PICK h \in [0 .. n -> Cursors(nf, ne, na)] :
        /\ Shown(shown, state, acts, h[0])
        /\ h[n] = Cursor(nf, ne, na, doing)
        /\ \A i \in 1 .. n : Fits(acts, q[i], h[i - 1], h[i])
  BY DEF Under
<1>8. \A i \in 0 .. n : h[i] \in Cursors(nf, ne, na)
  BY <1>7
<1>9. \A i \in 1 .. n : Fits(more, q[i], h[i - 1], h[i])
  <2> SUFFICES ASSUME NEW i \in 1 .. n PROVE Fits(more, q[i], h[i - 1], h[i])
    OBVIOUS
  <2>1. i \in 0 .. n /\ i - 1 \in 0 .. n
    BY <1>1
  <2>2. h[i] \in Cursors(nf, ne, na) /\ h[i - 1] \in Cursors(nf, ne, na)
    BY <1>8, <2>1
  <2>3. QED
    BY <1>5, <1>7, <2>2
<1>10. Shown(shown, state, more, h[0])
  BY <1>1, <1>6, <1>7, <1>8
<1>11. QED
  BY <1>7, <1>9, <1>10 DEF Under

\* A fork of an earlier moment stays one as more is delivered ...
LEMMA EarlierStays ==
  ASSUME NEW f, NEW acts, NEW nf \in Nat, NEW ne \in Nat, NEW nf2 \in Nat, NEW ne2 \in Nat,
         nf <= nf2, ne <= ne2, Earlier(f, acts, nf, ne)
  PROVE  Earlier(f, acts, nf2, ne2)
<1>1. f.nextFrame \in Nat /\ f.nextEvent \in Nat
  BY DEF Earlier, GoodFork, ForkType
<1>2. QED
  BY <1>1 DEF Earlier

\* ... and as the schedule grows behind what is delivered.
LEMMA EarlierRegrows ==
  ASSUME NEW f, NEW acts \in Schedules, NEW more \in Schedules,
         NEW nf \in 0 .. LastSecond + 1, NEW ne \in 0 .. Len(E(acts)),
         Slice(F(acts), nf) = Slice(F(more), nf), Slice(E(acts), ne) = Slice(E(more), ne),
         Earlier(f, acts, nf, ne)
  PROVE  Earlier(f, more, nf, ne)
<1>1. /\ F(acts) \in Seq(Frames) /\ F(more) \in Seq(Frames) /\ Len(F(acts)) = LastSecond + 1
      /\ E(acts) \in Seq(Events) /\ E(more) \in Seq(Events) /\ Len(E(acts)) \in Nat
  BY EngineIs
<1>2. nf \in Nat /\ ne \in Nat /\ nf <= Len(F(acts)) /\ ne <= Len(E(acts))
  BY <1>1, SizesAreNumbers
<1>3. f.nextFrame \in 0 .. nf /\ f.nextEvent \in 0 .. ne
  BY <1>2 DEF Earlier, GoodFork, ForkType
<1>4. Slice(F(acts), f.nextFrame) = Slice(F(more), f.nextFrame)
  BY <1>1, <1>2, <1>3, SlicesAgree
<1>5. Slice(E(acts), f.nextEvent) = Slice(E(more), f.nextEvent)
  BY <1>1, <1>2, <1>3, SlicesAgree
<1>6. QED
  BY <1>4, <1>5 DEF Earlier

\* What the page makes of a message.
Takes(m, shown, state, shown2, state2) ==
  /\ IF m.type = "batch"
       THEN /\ shown2.frames = Splice(shown.frames, m.frameOffset, m.frames)
            /\ shown2.events = Splice(shown.events, m.eventOffset, m.events)
       ELSE shown2.frames = shown.frames /\ shown2.events = shown.events
  /\ shown2.actions = IF m.type = "action-applied" THEN Append(shown.actions, m.action) ELSE shown.actions
  /\ shown2.fork = IF m.type = "fork-created" THEN m.fork ELSE shown.fork
  /\ state2 = IF m.type \in {"started", "running"} THEN "running"
              ELSE IF m.type = "paused" THEN "paused" ELSE state

\* Two parts of a sequence that a batch puts together.
LEMMA BatchAppends ==
  ASSUME NEW S, NEW s \in Seq(S), NEW m \in Nat, NEW n \in Nat, m <= n, n <= Len(s)
  PROVE  Splice(Slice(s, m), m, SubSeq(s, m + 1, n)) = Slice(s, n)
<1>1. Len(s) \in Nat /\ m <= Len(s)
  BY LenProperties
<1>2. Slice(s, m) \in Seq(S) /\ Len(Slice(s, m)) = m
  BY <1>1, SliceIs
<1>3. SubSeq(s, m + 1, n) \in Seq(S) /\ Slice(s, m) \o SubSeq(s, m + 1, n) = Slice(s, n)
  BY SliceGrows
<1> DEFINE shown == Slice(s, m)
           delivered == SubSeq(s, m + 1, n)
<1> HIDE DEF shown, delivered
<1>4. Splice(shown, Len(shown), delivered) = shown \o delivered
  BY <1>2, <1>3, SpliceAppends DEF shown, delivered
<1>5. QED
  BY <1>2, <1>3, <1>4 DEF shown, delivered

LEMMA TakesFits ==
  ASSUME NEW acts \in Schedules, NEW nf \in 0 .. LastSecond + 1, NEW ne \in 0 .. Len(E(acts)),
         NEW a \in Cursors(nf, ne, Len(acts)), NEW b \in Cursors(nf, ne, Len(acts)),
         NEW m \in Replies, NEW shown, NEW state, NEW shown2, NEW state2,
         Shown(shown, state, acts, a), Fits(acts, m, a, b), Takes(m, shown, state, shown2, state2)
  PROVE  Shown(shown2, state2, acts, b)
<1>1. /\ acts \in Seq(Actions) /\ Len(acts) \in Nat
      /\ F(acts) \in Seq(Frames) /\ E(acts) \in Seq(Events) /\ Len(E(acts)) \in Nat
      /\ Len(F(acts)) = LastSecond + 1
  <2>1. acts \in Seq(Actions)
    BY ScheduleIs
  <2>2. QED
    BY <2>1, LenProperties, EngineIs
<1>2. /\ a.frames \in Nat /\ b.frames \in Nat /\ b.frames <= Len(F(acts))
      /\ a.events \in Nat /\ b.events \in Nat /\ b.events <= Len(E(acts))
      /\ a.acts \in Nat /\ b.acts <= Len(acts)
  <2>1. /\ a.frames \in 0 .. nf /\ b.frames \in 0 .. nf /\ a.events \in 0 .. ne /\ b.events \in 0 .. ne
        /\ a.acts \in 0 .. Len(acts) /\ b.acts \in 0 .. Len(acts)
    BY DEF Cursors
  <2>2. nf \in Nat /\ nf <= LastSecond + 1 /\ ne \in Nat /\ ne <= Len(E(acts))
    BY <1>1, SizesAreNumbers
  <2>3. a.frames \in Nat /\ b.frames \in Nat /\ b.frames <= Len(F(acts))
    BY <1>1, <2>1, <2>2
  <2>4. a.events \in Nat /\ b.events \in Nat /\ b.events <= Len(E(acts))
    BY <1>1, <2>1, <2>2
  <2>5. a.acts \in Nat /\ b.acts <= Len(acts)
    BY <1>1, <2>1
  <2>6. QED
    BY <2>3, <2>4, <2>5
<1>3. shown2.frames = Slice(F(acts), b.frames) /\ shown2.events = Slice(E(acts), b.events)
  <2>1. CASE m.type = "batch"
    <3>1. /\ m.frameOffset = a.frames /\ m.eventOffset = a.events
          /\ a.frames <= b.frames /\ a.events <= b.events
          /\ m.frames = SubSeq(F(acts), a.frames + 1, b.frames)
          /\ m.events = SubSeq(E(acts), a.events + 1, b.events)
      BY <2>1 DEF Fits
    <3>2. /\ Splice(Slice(F(acts), a.frames), a.frames, SubSeq(F(acts), a.frames + 1, b.frames)) = Slice(F(acts), b.frames)
      BY <1>1, <1>2, <3>1, BatchAppends
    <3>3. /\ Splice(Slice(E(acts), a.events), a.events, SubSeq(E(acts), a.events + 1, b.events)) = Slice(E(acts), b.events)
      BY <1>1, <1>2, <3>1, BatchAppends
    <3>4. QED
      BY <2>1, <3>1, <3>2, <3>3 DEF Shown, Takes
  <2>2. CASE m.type # "batch"
    BY <2>2 DEF Shown, Takes, Fits
  <2>3. QED
    BY <2>1, <2>2
<1>4. shown2.actions = Slice(acts, b.acts)
  <2>1. CASE m.type = "action-applied"
    <3>1. b.acts = a.acts + 1 /\ m.action = acts[b.acts] /\ a.acts < Len(acts)
      BY <1>1, <1>2, <2>1 DEF Fits
    <3>2. Append(Slice(acts, a.acts), acts[a.acts + 1]) = Slice(acts, a.acts + 1)
      BY <1>1, <1>2, <3>1, SliceStep
    <3>3. QED
      BY <2>1, <3>1, <3>2 DEF Shown, Takes
  <2>2. CASE m.type # "action-applied"
    BY <2>2 DEF Shown, Takes, Fits
  <2>3. QED
    BY <2>1, <2>2
<1>5. state2 = b.mode
  BY DEF Shown, Takes, Fits
<1>6. QED
  BY <1>3, <1>4, <1>5 DEF Shown

\* The page receives the first message.
LEMMA DeliveringReceives ==
  ASSUME NEW shown, NEW state, NEW q \in Seq(Replies), q # <<>>, NEW acts, NEW nf, NEW ne, NEW doing,
         Delivering(shown, state, q, acts, nf, ne, doing),
         NEW shown2, NEW state2, Takes(Head(q), shown, state, shown2, state2)
  PROVE  Delivering(shown2, state2, Tail(q), acts, nf, ne, doing)
<1>1. /\ acts \in Schedules /\ nf \in 0 .. LastSecond + 1 /\ ne \in 0 .. Len(E(acts))
  BY DEF Delivering, CursorSound
<1>2. Head(q) \in Replies /\ Head(q) = q[1] /\ Len(q) \in Nat /\ Len(q) > 0 /\ Len(Tail(q)) = Len(q) - 1
      /\ \A i \in 1 .. Len(Tail(q)) : Tail(q)[i] = q[i + 1]
  BY HeadTailProperties, LenProperties, EmptySeq
<1>3. Under(shown, state, q, acts, nf, ne, Len(acts), doing)
  BY DEF Delivering
<1>4. PICK a \in Cursors(nf, ne, Len(acts)), b \in Cursors(nf, ne, Len(acts)) :
           /\ Shown(shown, state, acts, a)
           /\ Fits(acts, Head(q), a, b)
           /\ \A shown3, state3 : Shown(shown3, state3, acts, b) =>
                Under(shown3, state3, Tail(q), acts, nf, ne, Len(acts), doing)
  <2>1. \E a, b \in Cursors(nf, ne, Len(acts)) :
           /\ Shown(shown, state, acts, a)
           /\ Fits(acts, Head(q), a, b)
           /\ \A shown3, state3 : Shown(shown3, state3, acts, b) =>
                Under(shown3, state3, Tail(q), acts, nf, ne, Len(acts), doing)
    BY <1>3, Receives, Zenon
  <2>2. QED
    BY <2>1
<1>5. Shown(shown2, state2, acts, b)
  BY <1>1, <1>2, <1>4, TakesFits
<1>6. Under(shown2, state2, Tail(q), acts, nf, ne, Len(acts), doing)
  BY <1>4, <1>5
<1>7. ForksFit(shown2, Tail(q), acts, nf, ne)
  <2>1. ForksFit(shown, q, acts, nf, ne)
    BY DEF Delivering
  <2>2. shown2.fork # NoFork => Earlier(shown2.fork, acts, nf, ne)
    BY <1>2, <2>1 DEF ForksFit, Takes
  <2>3. ASSUME NEW i \in 1 .. Len(Tail(q)), Tail(q)[i].type = "fork-created"
        PROVE  Earlier(Tail(q)[i].fork, acts, nf, ne)
    <3>1. i + 1 \in 1 .. Len(q) /\ Tail(q)[i] = q[i + 1]
      BY <1>2
    <3>2. QED
      BY <2>1, <2>3, <3>1 DEF ForksFit
  <2>4. QED
    BY <2>2, <2>3 DEF ForksFit
<1>8. QED
  BY <1>6, <1>7 DEF Delivering

\* The worker posts a message that starts from where it was.
LEMMA DeliveringPosts ==
  ASSUME NEW shown, NEW state, NEW q \in Seq(Replies), NEW acts, NEW nf, NEW ne, NEW doing,
         Delivering(shown, state, q, acts, nf, ne, doing),
         NEW m \in Replies, NEW nf2, NEW ne2, NEW doing2 \in Modes,
         CursorSound(acts, nf2, ne2), nf <= nf2, ne <= ne2,
         Fits(acts, m, Cursor(nf, ne, Len(acts), doing), Cursor(nf2, ne2, Len(acts), doing2)),
         m.type = "fork-created" => Earlier(m.fork, acts, nf2, ne2)
  PROVE  Delivering(shown, state, Append(q, m), acts, nf2, ne2, doing2)
<1>1. acts \in Schedules
  BY DEF Delivering
<1>2. Len(acts) \in Nat /\ Len(E(acts)) \in Nat /\ LastSecond \in Nat
  <2>1. acts \in Seq(Actions)
    BY <1>1, ScheduleIs
  <2>2. QED
    BY <1>1, <2>1, LenProperties, EngineIs, SizesAreNumbers
<1>3. nf \in Nat /\ ne \in Nat /\ nf2 \in Nat /\ ne2 \in Nat
  BY <1>2 DEF Delivering, CursorSound
<1>4. Under(shown, state, Append(q, m), acts, nf2, ne2, Len(acts), doing2)
  BY <1>2, <1>3, Extends DEF Delivering
<1>5. ForksFit(shown, Append(q, m), acts, nf2, ne2)
  <2>1. ForksFit(shown, q, acts, nf, ne)
    BY DEF Delivering
  <2>2. shown.fork # NoFork => Earlier(shown.fork, acts, nf2, ne2)
    BY <1>3, <2>1, EarlierStays DEF ForksFit
  <2>3. /\ Len(Append(q, m)) = Len(q) + 1 /\ (\A i \in 1 .. Len(q) : Append(q, m)[i] = q[i])
        /\ Append(q, m)[Len(q) + 1] = m /\ Len(q) \in Nat
    BY AppendProperties, LenProperties
  <2>4. ASSUME NEW i \in 1 .. Len(Append(q, m)), Append(q, m)[i].type = "fork-created"
        PROVE  Earlier(Append(q, m)[i].fork, acts, nf2, ne2)
    <3>1. CASE i \in 1 .. Len(q)
      <4>1. q[i].type = "fork-created" /\ Append(q, m)[i] = q[i]
        BY <2>3, <2>4, <3>1
      <4>2. Earlier(q[i].fork, acts, nf, ne)
        BY <2>1, <3>1, <4>1 DEF ForksFit
      <4>3. QED
        BY <1>3, <4>1, <4>2, EarlierStays
    <3>2. CASE i \notin 1 .. Len(q)
      <4>1. i = Len(q) + 1
        BY <2>3, <3>2
      <4>2. QED
        BY <2>3, <2>4, <4>1
    <3>3. QED
      BY <3>1, <3>2
  <2>5. QED
    BY <2>2, <2>4 DEF ForksFit
<1>6. QED
  BY <1>1, <1>4, <1>5 DEF Delivering

\* The worker takes an action into its schedule and says so.
LEMMA DeliveringActs ==
  ASSUME NEW shown, NEW state, NEW q \in Seq(Replies), NEW r \in RunType, r.nextFrame <= LastSecond,
         Delivering(shown, state, q, r.acts, r.nextFrame, r.nextEvent, r.mode),
         NEW a \in Actions, Applicable(r, a),
         NEW m \in Replies, m.type = "action-applied", m.action = a
  PROVE  Delivering(shown, state, Append(q, m), Append(r.acts, a), r.nextFrame, r.nextEvent, r.mode)
<1> DEFINE acts == r.acts
           more == Append(r.acts, a)
           nf == r.nextFrame
           ne == r.nextEvent
           na == Len(acts)
<1>1. CursorSound(acts, nf, ne) /\ acts \in Schedules /\ r.mode \in Modes
  BY DEF Delivering, RunType, Modes
<1>2. /\ more \in Schedules /\ CursorSound(more, nf, ne)
      /\ Slice(F(acts), nf) = Slice(F(more), nf) /\ Slice(E(acts), ne) = Slice(E(more), ne)
  BY <1>1, ActionsKeepCursor
<1>3. acts \in Seq(Actions) /\ na \in Nat /\ Len(more) = na + 1 /\ more[na + 1] = a
  <2>1. acts \in Seq(Actions)
    BY <1>1, ScheduleIs
  <2>2. QED
    BY <2>1, LenProperties, AppendProperties
<1>4. /\ nf \in 0 .. LastSecond + 1 /\ ne \in 0 .. Len(E(acts))
      /\ nf \in Nat /\ ne \in Nat
  BY <1>1, SizesAreNumbers, EngineIs DEF CursorSound
<1>5. Under(shown, state, q, acts, nf, ne, na, r.mode) /\ ForksFit(shown, q, acts, nf, ne)
  BY DEF Delivering
<1> HIDE DEF acts, nf, ne, na
<1>6. Under(shown, state, q, more, nf, ne, na, r.mode)
  <2>1. more = Append(acts, a)
    BY DEF acts
  <2> HIDE DEF more
  <2>2. QED
    BY <1>1, <1>2, <1>4, <1>5, <2>1, Regrows DEF na
<1> HIDE DEF more
<1>7. Under(shown, state, Append(q, m), more, nf, ne, Len(more), r.mode)
  <2>1. Fits(more, m, Cursor(nf, ne, na, r.mode), Cursor(nf, ne, Len(more), r.mode))
    <3>1. m.type # "batch" /\ m.type \notin {"started", "running"} /\ m.type # "paused"
      OBVIOUS
    <3>2. QED
      BY <1>3, <3>1 DEF Fits, Cursor
  <2>2. nf <= nf /\ ne <= ne /\ na <= Len(more) /\ Len(more) \in Nat
    BY <1>3, <1>4
  <2>3. QED
    BY <1>1, <1>3, <1>4, <1>6, <2>1, <2>2, Extends
<1>8. ForksFit(shown, Append(q, m), more, nf, ne)
  <2>1. shown.fork # NoFork => Earlier(shown.fork, more, nf, ne)
    BY <1>1, <1>2, <1>4, <1>5, EarlierRegrows DEF ForksFit
  <2>2. /\ Len(Append(q, m)) = Len(q) + 1 /\ (\A i \in 1 .. Len(q) : Append(q, m)[i] = q[i])
        /\ Append(q, m)[Len(q) + 1] = m /\ Len(q) \in Nat
    BY AppendProperties, LenProperties
  <2>3. ASSUME NEW i \in 1 .. Len(Append(q, m)), Append(q, m)[i].type = "fork-created"
        PROVE  Earlier(Append(q, m)[i].fork, more, nf, ne)
    <3>1. CASE i \in 1 .. Len(q)
      <4>1. q[i].type = "fork-created" /\ Append(q, m)[i] = q[i]
        BY <2>2, <2>3, <3>1
      <4>2. Earlier(q[i].fork, acts, nf, ne)
        BY <1>5, <3>1, <4>1 DEF ForksFit
      <4>3. QED
        BY <1>1, <1>2, <1>4, <4>1, <4>2, EarlierRegrows
    <3>2. CASE i \notin 1 .. Len(q)
      <4>1. i = Len(q) + 1
        BY <2>2, <3>2
      <4>2. QED
        BY <2>2, <2>3, <4>1
    <3>3. QED
      BY <3>1, <3>2
  <2>4. QED
    BY <2>1, <2>3 DEF ForksFit
<1>9. QED
  BY <1>2, <1>7, <1>8 DEF Delivering, acts, more, nf, ne

-----------------------------------------------------------------------------
(* What a step of the worker and the receipt of a message must show to     *)
(* keep the invariant.                                                     *)

LEMMA TailsOf ==
  ASSUME NEW S, NEW q \in Seq(S), q # <<>>
  PROVE  /\ Tail(q) \in Seq(S) /\ Len(q) \in Nat /\ Len(q) > 0 /\ Len(Tail(q)) = Len(q) - 1
         /\ Head(q) = q[1] /\ q[1] \in S
         /\ \A i \in 1 .. Len(Tail(q)) : i + 1 \in 1 .. Len(q) /\ Tail(q)[i] = q[i + 1]
         /\ \A i \in 2 .. Len(q) : i - 1 \in 1 .. Len(Tail(q)) /\ Tail(q)[i - 1] = q[i]
<1>1. /\ Tail(q) \in Seq(S) /\ Len(q) \in Nat /\ Len(q) > 0 /\ Len(Tail(q)) = Len(q) - 1
      /\ Head(q) = q[1] /\ Head(q) \in S
      /\ \A i \in 1 .. Len(Tail(q)) : Tail(q)[i] = q[i + 1]
  BY HeadTailProperties, LenProperties, EmptySeq
<1>2. \A i \in 1 .. Len(Tail(q)) : i + 1 \in 1 .. Len(q) /\ Tail(q)[i] = q[i + 1]
  BY <1>1
<1>3. ASSUME NEW i \in 2 .. Len(q) PROVE i - 1 \in 1 .. Len(Tail(q)) /\ Tail(q)[i - 1] = q[i]
  <2>1. i - 1 \in 1 .. Len(Tail(q)) /\ i - 1 + 1 = i
    BY <1>1
  <2>2. QED
    BY <1>1, <2>1
<1>4. QED
  BY <1>1, <1>2, <1>3

\* The worker handles a command, or its timer fires: what page and store see is the
\* messages it adds.
LEMMA WorkerStepKeeps ==
  ASSUME SessionInv, UNCHANGED <<page, store>>, Active,
         run' \in RunType \union {NoRun}, toPage' \in Seq(Replies),
         Len(toPage) <= Len(toPage'), \A i \in 1 .. Len(toPage) : toPage'[i] = toPage[i],
         \A i \in 1 .. Len(toPage') : i > Len(toPage) /\ toPage'[i].type = "error" => toPage'[i].why # "restore",
         \/ /\ toWorker # <<>> /\ toWorker' = Tail(toWorker)
            /\ Head(toWorker).type = "act" => \E i \in 1 .. Len(toPage') : Clears(toPage'[i])
         \/ toWorker' = toWorker /\ run # NoRun,
         Starting /\ store.opening => \E i \in 1 .. Len(toPage') : toPage'[i].type \in {"paused", "error"},
         Playing' \/ Ended' \/ Failed'
  PROVE  SessionInv'
<1>1. SessionTypes /\ PhaseInv /\ ControlInv /\ PageInv
  BY DEF SessionInv
<1>2. toWorker \in Seq(Commands) /\ toPage \in Seq(Replies) /\ Len(toPage) \in Nat /\ Len(toPage') \in Nat
  BY <1>1, LenProperties DEF SessionTypes
<1>3. SessionTypes'
  <2>1. toWorker' \in Seq(Commands)
    BY <1>2, TailsOf
  <2>2. QED
    BY <1>1, <2>1 DEF SessionTypes
<1>4. PageInv'
  BY <1>1 DEF PageInv, WaitingIsGuarded
<1>5. Active' /\ ~page.settled
  BY DEF Active
<1>6. PhaseInv'
  <2>1. \A i \in 1 .. Len(toWorker') : toWorker'[i].type # "start"
    <3>1. CASE toWorker # <<>> /\ toWorker' = Tail(toWorker)
      <4>1. ASSUME NEW i \in 1 .. Len(toWorker') PROVE toWorker'[i].type # "start"
        <5>1. i + 1 \in 1 .. Len(toWorker) /\ toWorker'[i] = toWorker[i + 1] /\ i + 1 # 1
          BY <1>2, <3>1, TailsOf
        <5>2. QED
          BY <1>1, <5>1 DEF PhaseInv
      <4>2. QED
        BY <4>1
    <3>2. CASE toWorker' = toWorker /\ run # NoRun
      BY <1>1, <3>2 DEF PhaseInv, Starting
    <3>3. QED
      BY <3>1, <3>2
  <2>2. ForkIsRestorable'
    <3>1. ASSUME NEW i \in DOMAIN toPage', toPage'[i].type = "error" PROVE toPage'[i].why # "restore"
      <4>1. i \in 1 .. Len(toPage')
        BY LenProperties
      <4>2. CASE i \in 1 .. Len(toPage)
        <5>1. i \in DOMAIN toPage /\ toPage'[i] = toPage[i]
          BY <1>2, <4>2, LenProperties
        <5>2. QED
          BY <1>1, <3>1, <5>1 DEF PhaseInv, ForkIsRestorable
      <4>3. CASE i \notin 1 .. Len(toPage)
        BY <1>2, <3>1, <4>1, <4>3
      <4>4. QED
        BY <4>2, <4>3
    <3>2. QED
      BY <3>1 DEF ForkIsRestorable
  <2>3. QED
    BY <1>1, <1>5, <2>1, <2>2 DEF PhaseInv
<1>7. ControlInv'
  <2>1. ASSUME NEW i \in 1 .. Len(toPage) PROVE i \in 1 .. Len(toPage') /\ toPage'[i] = toPage[i]
    BY <1>2
  <2>2. ActUnderWay => ActUnderWay'
    <3>1. SUFFICES ASSUME ActUnderWay PROVE ActUnderWay'
      OBVIOUS
    <3>2. ASSUME NEW i \in 1 .. Len(toPage), Clears(toPage[i]) PROVE ActUnderWay'
      BY <2>1, <3>2 DEF ActUnderWay
    <3>3. ASSUME NEW i \in 1 .. Len(toWorker), toWorker[i].type = "act" PROVE ActUnderWay'
      <4>1. CASE toWorker' = toWorker
        BY <3>3, <4>1 DEF ActUnderWay
      <4>2. CASE toWorker # <<>> /\ toWorker' = Tail(toWorker)
        <5>1. CASE i = 1
          <6>1. Head(toWorker).type = "act"
            BY <1>2, <3>3, <4>2, <5>1, TailsOf
          <6>2. CASE toWorker' = toWorker
            BY <4>1, <6>2
          <6>3. CASE toWorker' # toWorker
            BY <6>1, <6>3 DEF ActUnderWay
          <6>4. QED
            BY <6>2, <6>3
        <5>2. CASE i # 1
          <6>1. i \in 2 .. Len(toWorker)
            BY <1>2, <4>2, <5>2, TailsOf
          <6>2. i - 1 \in 1 .. Len(toWorker') /\ toWorker'[i - 1] = toWorker[i]
            BY <1>2, <4>2, <6>1, TailsOf
          <6>3. QED
            BY <3>3, <6>2 DEF ActUnderWay
        <5>3. QED
          BY <5>1, <5>2
      <4>3. QED
        BY <4>1, <4>2
    <3>4. QED
      BY <3>1, <3>2, <3>3 DEF ActUnderWay
  <2>3. store.opening => \E i \in 1 .. Len(toPage') : toPage'[i].type \in {"paused", "error"}
    <3>1. SUFFICES ASSUME store.opening, ~Starting
                   PROVE  \E i \in 1 .. Len(toPage') : toPage'[i].type \in {"paused", "error"}
      OBVIOUS
    <3>2. PICK i \in 1 .. Len(toPage) : toPage[i].type \in {"paused", "error"}
      BY <1>1, <3>1 DEF ControlInv
    <3>3. QED
      BY <2>1, <3>2
  <2>4. page.state = "paused" /\ page.armed =>
          ActUnderWay' \/ \E i \in 1 .. Len(toPage') : toPage'[i].type \in {"started", "running"}
    <3>1. SUFFICES ASSUME page.state = "paused", page.armed, ~ActUnderWay
                   PROVE  \E i \in 1 .. Len(toPage') : toPage'[i].type \in {"started", "running"}
      BY <2>2
    <3>2. PICK i \in 1 .. Len(toPage) : toPage[i].type \in {"started", "running"}
      BY <1>1, <3>1 DEF ControlInv
    <3>3. QED
      BY <2>1, <3>2
  <2>5. QED
    BY <1>1, <2>2, <2>3, <2>4 DEF ControlInv
<1>8. QED
  BY <1>3, <1>4, <1>6, <1>7 DEF SessionInv

\* The page receives a message that does not end the session.
LEMMA ReceiptKeeps ==
  ASSUME SessionInv, Active, toPage # <<>>, Head(toPage).type \notin Endings, toPage' = Tail(toPage),
         UNCHANGED <<run, toWorker>>, page'.settled = page.settled, PageInv', store' \in StoreType,
         Takes(Head(toPage), store, page.state, store', page'.state),
         store'.state \in Modes, store'.state = page'.state \/ store'.opening,
         store'.opening => store.opening /\ Head(toPage).type # "paused",
         page'.pending => page.pending /\ ~Clears(Head(toPage)),
         page'.state = "paused" /\ page'.armed =>
           /\ page.state = "paused" /\ page.armed
           /\ ~Clears(Head(toPage)) /\ Head(toPage).type \notin {"started", "running"}
  PROVE  SessionInv'
<1>1. SessionTypes /\ PhaseInv /\ ControlInv
  BY DEF SessionInv
<1>2. /\ toPage \in Seq(Replies) /\ toPage' \in Seq(Replies) /\ Len(toPage) \in Nat
      /\ Len(toPage') = Len(toPage) - 1 /\ Head(toPage) = toPage[1]
      /\ \A i \in 1 .. Len(toPage') : i + 1 \in 1 .. Len(toPage) /\ toPage'[i] = toPage[i + 1]
      /\ \A i \in 2 .. Len(toPage) : i - 1 \in 1 .. Len(toPage') /\ toPage'[i - 1] = toPage[i]
      /\ 1 \in 1 .. Len(toPage)
  <2>1. toPage \in Seq(Replies)
    BY <1>1 DEF SessionTypes
  <2>2. QED
    BY <2>1, TailsOf
<1>3. SessionTypes'
  BY <1>1, <1>2 DEF SessionTypes
<1>4. ~Starting /\ Active'
  BY DEF Starting, Active
<1>5. PhaseInv'
  <2>1. Playing' \/ Ended'
    <3>1. CASE Playing
      <4>1. Delivering(store', page'.state, toPage', run.acts, run.nextFrame, run.nextEvent, run.mode)
        BY <1>2, <3>1, DeliveringReceives DEF Playing
      <4>2. \A i \in 1 .. Len(toPage') : toPage'[i].type \notin Endings
        BY <1>2, <3>1 DEF Playing
      <4>3. QED
        BY <3>1, <4>1, <4>2 DEF Playing
    <3>2. CASE Ended
      <4>1. PICK acts \in Schedules, doing \in {"running", "paused"} :
               /\ Delivering(store, page.state, toPage, acts, LastSecond + 1, Len(E(acts)), doing)
               /\ Last(toPage).type = "complete" /\ Last(toPage).result = Simulate(acts)
        BY <3>2 DEF Ended
      <4>2. Delivering(store', page'.state, toPage', acts, LastSecond + 1, Len(E(acts)), doing)
        BY <1>2, <4>1, DeliveringReceives
      <4>3. Len(toPage) # 1
        BY <1>2, <3>2 DEF Ended
      <4>4. Last(toPage) = toPage[Len(toPage)] /\ toPage' # <<>> /\ Last(toPage') = toPage'[Len(toPage')]
        <5>1. Len(toPage') # 0 /\ Len(<<>>) = 0
          BY <1>2, <4>3
        <5>2. QED
          BY <5>1 DEF Last
      <4>5. Last(toPage') = Last(toPage)
        <5>1. Len(toPage') \in 1 .. Len(toPage') /\ Len(toPage') + 1 = Len(toPage)
          BY <1>2, <4>3
        <5>2. QED
          BY <1>2, <4>4, <5>1
      <4>6. ASSUME NEW i \in 1 .. Len(toPage') PROVE toPage'[i].type \in Endings <=> i = Len(toPage')
        <5>1. i + 1 \in 1 .. Len(toPage) /\ toPage'[i] = toPage[i + 1] /\ (i + 1 = Len(toPage) <=> i = Len(toPage'))
          BY <1>2
        <5>2. QED
          BY <3>2, <5>1 DEF Ended
      <4>7. QED
        BY <3>2, <4>1, <4>2, <4>4, <4>5, <4>6 DEF Ended
    <3>3. CASE Failed
      BY <1>2, <3>3 DEF Failed, Endings
    <3>4. QED
      BY <1>1, <1>4, <3>1, <3>2, <3>3 DEF PhaseInv
  <2>2. \A i \in 1 .. Len(toWorker') : toWorker'[i].type # "start"
    BY <1>1, <1>4 DEF PhaseInv
  <2>3. ForkIsRestorable'
    <3>1. DOMAIN toPage' = 1 .. Len(toPage') /\ DOMAIN toPage = 1 .. Len(toPage)
      BY <1>2, LenProperties
    <3>2. QED
      BY <1>1, <1>2, <3>1 DEF PhaseInv, ForkIsRestorable
  <2>4. store'.state # "complete"
    BY DEF Modes
  <2>5. QED
    BY <1>4, <2>1, <2>2, <2>3, <2>4 DEF PhaseInv
<1>6. ControlInv'
  <2>1. ActUnderWay /\ ~Clears(Head(toPage)) => ActUnderWay'
    <3>1. ASSUME NEW i \in 1 .. Len(toPage), Clears(toPage[i]), ~Clears(Head(toPage))
          PROVE  \E j \in 1 .. Len(toPage') : Clears(toPage'[j])
      <4>1. i \in 2 .. Len(toPage)
        BY <1>2, <3>1
      <4>2. QED
        BY <1>2, <3>1, <4>1
    <3>2. QED
      BY <3>1 DEF ActUnderWay
  <2>2. store'.opening => \E i \in 1 .. Len(toPage') : toPage'[i].type \in {"paused", "error"}
    <3>1. SUFFICES ASSUME store'.opening PROVE \E i \in 1 .. Len(toPage') : toPage'[i].type \in {"paused", "error"}
      OBVIOUS
    <3>2. PICK i \in 1 .. Len(toPage) : toPage[i].type \in {"paused", "error"}
      BY <1>1, <1>4, <3>1 DEF ControlInv
    <3>3. i \in 2 .. Len(toPage)
      BY <1>2, <3>1, <3>2 DEF Endings
    <3>4. PICK j \in 1 .. Len(toPage') : toPage'[j] = toPage[i]
      BY <1>2, <3>3
    <3>5. QED
      BY <3>2, <3>4, Zenon
  <2>3. page'.state = "paused" /\ page'.armed =>
          ActUnderWay' \/ \E i \in 1 .. Len(toPage') : toPage'[i].type \in {"started", "running"}
    <3>1. SUFFICES ASSUME page'.state = "paused", page'.armed, ~ActUnderWay
                   PROVE  \E i \in 1 .. Len(toPage') : toPage'[i].type \in {"started", "running"}
      BY <2>1
    <3>2. PICK i \in 1 .. Len(toPage) : toPage[i].type \in {"started", "running"}
      BY <1>1, <3>1 DEF ControlInv
    <3>3. i \in 2 .. Len(toPage)
      BY <1>2, <3>1, <3>2
    <3>4. QED
      BY <1>2, <3>2, <3>3
  <2>4. QED
    BY <1>1, <2>1, <2>2, <2>3 DEF ControlInv
<1>7. QED
  BY <1>3, <1>5, <1>6 DEF SessionInv

\* The session settles: its worker is gone, and nothing that it still has to say counts.
LEMMA SettlingKeeps ==
  ASSUME SessionInv, PageInv', page'.settled, run' = NoRun, toWorker' = <<>>,
         toPage' = toPage \/ (toPage # <<>> /\ toPage' = Tail(toPage)),
         store' \in StoreType, store'.state \notin Modes,
         store'.state = "complete" =>
           /\ store'.result = Simulate(store'.actions)
           /\ store'.frames = store'.result.frames /\ store'.events = store'.result.events
  PROVE  SessionInv'
<1>1. SessionTypes /\ PhaseInv
  BY DEF SessionInv
<1>2. toPage \in Seq(Replies)
  BY <1>1 DEF SessionTypes
<1>3. toPage' \in Seq(Replies) /\ <<>> \in Seq(Commands) /\ Len(<<>>) = 0
  BY <1>2, TailsOf, EmptySeq
<1>4. SessionTypes'
  BY <1>3 DEF SessionTypes
<1>5. ForkIsRestorable'
  <2>1. CASE toPage' = toPage
    BY <1>1, <2>1 DEF PhaseInv, ForkIsRestorable
  <2>2. CASE toPage # <<>> /\ toPage' = Tail(toPage)
    <3>1. DOMAIN toPage' = 1 .. Len(toPage') /\ DOMAIN toPage = 1 .. Len(toPage)
      BY <1>2, <1>3, LenProperties
    <3>2. \A i \in 1 .. Len(toPage') : i + 1 \in 1 .. Len(toPage) /\ toPage'[i] = toPage[i + 1]
      BY <1>2, <2>2, TailsOf
    <3>3. QED
      BY <1>1, <3>1, <3>2 DEF PhaseInv, ForkIsRestorable
  <2>3. QED
    BY <2>1, <2>2
<1>6. ~Active'
  BY DEF Active
<1>7. PhaseInv'
  BY <1>3, <1>5, <1>6 DEF PhaseInv, Modes
<1>8. ControlInv'
  BY <1>6 DEF ControlInv
<1>9. QED
  BY <1>4, <1>7, <1>8 DEF SessionInv

-----------------------------------------------------------------------------
(* The worker's commands and its timer.                                    *)

LEMMA Handled ==
  ASSUME SessionInv, NEW type, Handle(type)
  PROVE  /\ Active /\ UNCHANGED <<page, store>>
         /\ toWorker # <<>> /\ toWorker' = Tail(toWorker) /\ Head(toWorker).type = type
         /\ Head(toWorker) \in Commands
<1>1. toWorker # <<>> /\ toWorker \in Seq(Commands)
  BY DEF Handle, SessionInv, SessionTypes
<1>2. Active
  BY <1>1 DEF SessionInv, PhaseInv
<1>3. QED
  BY <1>1, <1>2, HeadTailProperties DEF Handle

\* One message posted.
LEMMA PostedOne ==
  ASSUME SessionInv, NEW m \in Replies, toPage' = toPage \o <<m>>
  PROVE  /\ toPage \in Seq(Replies) /\ Len(toPage) \in Nat
         /\ toPage' = Append(toPage, m) /\ toPage' \in Seq(Replies) /\ Len(toPage') = Len(toPage) + 1
         /\ \A i \in 1 .. Len(toPage) : toPage'[i] = toPage[i]
         /\ toPage'[Len(toPage) + 1] = m
<1>1. toPage \in Seq(Replies)
  BY DEF SessionInv, SessionTypes
<1>2. toPage' = Append(toPage, m)
  BY <1>1, AppendIsConcat
<1>3. QED
  BY <1>1, <1>2, AppendProperties, LenProperties

\* Two messages posted.
LEMMA PostedTwo ==
  ASSUME SessionInv, NEW m \in Replies, NEW n \in Replies, toPage' = toPage \o (<<m>> \o <<n>>)
  PROVE  /\ toPage \in Seq(Replies) /\ Len(toPage) \in Nat
         /\ Append(toPage, m) \in Seq(Replies)
         /\ toPage' = Append(Append(toPage, m), n) /\ toPage' \in Seq(Replies) /\ Len(toPage') = Len(toPage) + 2
         /\ \A i \in 1 .. Len(toPage) : toPage'[i] = toPage[i]
         /\ toPage'[Len(toPage) + 1] = m /\ toPage'[Len(toPage) + 2] = n
<1>1. toPage \in Seq(Replies) /\ Len(toPage) \in Nat
  BY LenProperties DEF SessionInv, SessionTypes
<1>2. <<m>> \in Seq(Replies) /\ <<n>> \in Seq(Replies)
  OBVIOUS
<1>3. toPage' = (toPage \o <<m>>) \o <<n>>
  BY <1>1, <1>2, ConcatAssociative
<1> DEFINE q == Append(toPage, m)
<1>4. /\ toPage \o <<m>> = q /\ q \in Seq(Replies) /\ Len(q) = Len(toPage) + 1
      /\ \A i \in 1 .. Len(toPage) : q[i] = toPage[i]
      /\ q[Len(toPage) + 1] = m
  BY <1>1, AppendIsConcat, AppendProperties
<1> HIDE DEF q
<1>5. toPage' = Append(q, n)
  BY <1>3, <1>4, AppendIsConcat
<1>6. /\ Append(q, n) \in Seq(Replies) /\ Len(Append(q, n)) = Len(q) + 1
      /\ \A i \in 1 .. Len(q) : Append(q, n)[i] = q[i]
      /\ Append(q, n)[Len(q) + 1] = n
  BY <1>4, AppendProperties
<1>7. \A i \in 1 .. Len(toPage) + 1 : toPage'[i] = q[i]
  BY <1>4, <1>5, <1>6
<1>8. /\ \A i \in 1 .. Len(toPage) : toPage'[i] = toPage[i]
      /\ toPage'[Len(toPage) + 1] = m
  BY <1>1, <1>4, <1>7
<1>9. QED
  BY <1>1, <1>4, <1>5, <1>6, <1>8 DEF q

\* A worker that plays answers a command with one message and plays on.
LEMMA PlaysOn ==
  ASSUME SessionInv, UNCHANGED <<page, store>>, Active, Playing,
         NEW m \in Replies, m.type \notin Endings, toPage' = toPage \o <<m>>,
         run' \in RunType, run'.nextFrame <= LastSecond, run'.timer = (run'.mode = "running"),
         Delivering(store, page.state, Append(toPage, m), run'.acts, run'.nextFrame, run'.nextEvent, run'.mode),
         \/ toWorker # <<>> /\ toWorker' = Tail(toWorker) /\ (Head(toWorker).type = "act" => Clears(m))
         \/ toWorker' = toWorker
  PROVE  SessionInv'
<1>1. /\ toPage \in Seq(Replies) /\ Len(toPage) \in Nat
      /\ toPage' = Append(toPage, m) /\ toPage' \in Seq(Replies) /\ Len(toPage') = Len(toPage) + 1
      /\ \A i \in 1 .. Len(toPage) : toPage'[i] = toPage[i]
      /\ toPage'[Len(toPage) + 1] = m
  BY PostedOne
<1>2. run # NoRun /\ run' # NoRun /\ ~Starting
  BY NoRunAssumption DEF Playing, Starting
<1>3. ASSUME NEW i \in 1 .. Len(toPage') PROVE toPage'[i].type \notin Endings
  <2>1. CASE i \in 1 .. Len(toPage)
    BY <1>1, <2>1 DEF Playing
  <2>2. CASE i \notin 1 .. Len(toPage)
    <3>1. i = Len(toPage) + 1
      BY <1>1, <2>2
    <3>2. QED
      BY <1>1, <3>1
  <2>3. QED
    BY <2>1, <2>2
<1>4. Playing'
  BY <1>1, <1>2, <1>3 DEF Playing
<1>5. Len(toPage) + 1 \in 1 .. Len(toPage')
  BY <1>1
<1>6. \/ /\ toWorker # <<>> /\ toWorker' = Tail(toWorker)
         /\ Head(toWorker).type = "act" => \E i \in 1 .. Len(toPage') : Clears(toPage'[i])
      \/ toWorker' = toWorker /\ run # NoRun
  BY <1>1, <1>2, <1>5
<1>7. \A i \in 1 .. Len(toPage') : i > Len(toPage) /\ toPage'[i].type = "error" => toPage'[i].why # "restore"
  BY <1>3 DEF Endings
<1>8. Len(toPage) <= Len(toPage')
  BY <1>1
<1>9. QED
  BY <1>1, <1>2, <1>4, <1>6, <1>7, <1>8, WorkerStepKeeps

LEMMA PlayingRun ==
  ASSUME SessionInv, run # NoRun
  PROVE  /\ run \in RunType /\ run.acts \in Schedules /\ run.mode \in {"running", "paused"} /\ run.mode \in Modes
         /\ run.nextFrame \in Nat /\ run.nextEvent \in Nat
         /\ Active => /\ Playing /\ run.nextFrame <= LastSecond /\ run.timer = (run.mode = "running")
                      /\ Delivering(store, page.state, toPage, run.acts, run.nextFrame, run.nextEvent, run.mode)
                      /\ CursorSound(run.acts, run.nextFrame, run.nextEvent)
<1>1. run \in RunType
  BY DEF SessionInv, SessionTypes
<1>2. Active => Playing
  BY DEF SessionInv, PhaseInv, Starting, Ended, Failed
<1>3. QED
  BY <1>1, <1>2 DEF RunType, Modes, Playing, Delivering

\* A message that moves no cursor.
LEMMA AnswerDelivers ==
  ASSUME SessionInv, Active, run # NoRun, NEW m \in Replies,
         m.type \notin {"batch", "action-applied"}, NEW doing \in Modes,
         doing = IF m.type \in {"started", "running"} THEN "running"
                ELSE IF m.type = "paused" THEN "paused" ELSE run.mode,
         m.type = "fork-created" => Earlier(m.fork, run.acts, run.nextFrame, run.nextEvent)
  PROVE  Delivering(store, page.state, Append(toPage, m), run.acts, run.nextFrame, run.nextEvent, doing)
<1>1. /\ CursorSound(run.acts, run.nextFrame, run.nextEvent)
      /\ run.nextFrame <= run.nextFrame /\ run.nextEvent <= run.nextEvent
      /\ Delivering(store, page.state, toPage, run.acts, run.nextFrame, run.nextEvent, run.mode)
  BY PlayingRun
<1>2. toPage \in Seq(Replies)
  BY DEF SessionInv, SessionTypes
<1>3. Fits(run.acts, m, Cursor(run.nextFrame, run.nextEvent, Len(run.acts), run.mode),
                        Cursor(run.nextFrame, run.nextEvent, Len(run.acts), doing))
  BY DEF Fits, Cursor
<1>4. QED
  BY <1>1, <1>2, <1>3, DeliveringPosts

LEMMA PauseKeeps == SessionInv /\ WorkerPause => SessionInv'
<1> SUFFICES ASSUME SessionInv, WorkerPause PROVE SessionInv'
  OBVIOUS
<1> DEFINE m == [type |-> "paused"]
<1>1. run # NoRun /\ Handle("pause") /\ toPage' = toPage \o <<m>>
  BY DEF WorkerPause, Post, Note
<1>2. Active /\ UNCHANGED <<page, store>> /\ toWorker # <<>> /\ toWorker' = Tail(toWorker) /\ Head(toWorker).type = "pause"
  BY <1>1, Handled
<1>3. run \in RunType /\ Playing /\ run.nextFrame <= LastSecond
  BY <1>1, <1>2, PlayingRun
<1>4. run' = [run EXCEPT !.mode = "paused", !.timer = FALSE]
  BY DEF WorkerPause
<1>5. /\ run' \in RunType /\ run'.mode = "paused" /\ run'.timer = FALSE /\ run'.acts = run.acts
      /\ run'.nextFrame = run.nextFrame /\ run'.nextEvent = run.nextEvent
  BY <1>3, <1>4 DEF RunType
<1>6. m \in Replies /\ m.type = "paused" /\ "paused" \in Modes
  BY DEF Replies, Modes
<1> HIDE DEF m
<1>7. Delivering(store, page.state, Append(toPage, m), run.acts, run.nextFrame, run.nextEvent, "paused")
  BY <1>1, <1>2, <1>6, AnswerDelivers
<1>8. QED
  BY <1>1, <1>2, <1>3, <1>5, <1>6, <1>7, PlaysOn DEF Endings

LEMMA ResumeKeeps == SessionInv /\ WorkerResume => SessionInv'
<1> SUFFICES ASSUME SessionInv, WorkerResume PROVE SessionInv'
  OBVIOUS
<1> DEFINE m == [type |-> "running"]
<1>1. run # NoRun /\ Handle("resume") /\ toPage' = toPage \o <<m>>
  BY DEF WorkerResume, Post, Note
<1>2. Active /\ UNCHANGED <<page, store>> /\ toWorker # <<>> /\ toWorker' = Tail(toWorker) /\ Head(toWorker).type = "resume"
  BY <1>1, Handled
<1>3. run \in RunType /\ Playing /\ run.nextFrame <= LastSecond
  BY <1>1, <1>2, PlayingRun
<1>4. run' = [run EXCEPT !.mode = "running", !.timer = TRUE]
  BY DEF WorkerResume
<1>5. /\ run' \in RunType /\ run'.mode = "running" /\ run'.timer = TRUE /\ run'.acts = run.acts
      /\ run'.nextFrame = run.nextFrame /\ run'.nextEvent = run.nextEvent
  BY <1>3, <1>4 DEF RunType
<1>6. m \in Replies /\ m.type = "running" /\ "running" \in Modes
  BY DEF Replies, Modes
<1> HIDE DEF m
<1>7. Delivering(store, page.state, Append(toPage, m), run.acts, run.nextFrame, run.nextEvent, "running")
  BY <1>1, <1>2, <1>6, AnswerDelivers
<1>8. QED
  BY <1>1, <1>2, <1>3, <1>5, <1>6, <1>7, PlaysOn DEF Endings

\* A change of speed restarts the timer of a run that plays, and of no other.
LEMMA SpeedKeeps == SessionInv /\ WorkerSpeed => SessionInv'
<1> SUFFICES ASSUME SessionInv, WorkerSpeed PROVE SessionInv'
  OBVIOUS
<1> DEFINE m == [type |-> "speed"]
<1>1. run # NoRun /\ Handle("set-speed") /\ toPage' = toPage \o <<m>>
  BY DEF WorkerSpeed, Post, Note
<1>2. Active /\ UNCHANGED <<page, store>> /\ toWorker # <<>> /\ toWorker' = Tail(toWorker) /\ Head(toWorker).type = "set-speed"
  BY <1>1, Handled
<1>3. run \in RunType /\ Playing /\ run.nextFrame <= LastSecond /\ run.mode \in Modes
  BY <1>1, <1>2, PlayingRun
<1>4. run' = [run EXCEPT !.timer = (run.mode = "running")]
  BY DEF WorkerSpeed
<1>5. /\ run' \in RunType /\ run'.mode = run.mode /\ run'.timer = (run'.mode = "running") /\ run'.acts = run.acts
      /\ run'.nextFrame = run.nextFrame /\ run'.nextEvent = run.nextEvent
  BY <1>3, <1>4 DEF RunType
<1>6. m \in Replies /\ m.type = "speed"
  BY DEF Replies
<1> HIDE DEF m
<1>7. Delivering(store, page.state, Append(toPage, m), run.acts, run.nextFrame, run.nextEvent, run.mode)
  BY <1>1, <1>2, <1>3, <1>6, AnswerDelivers
<1>8. QED
  BY <1>1, <1>2, <1>3, <1>5, <1>6, <1>7, PlaysOn DEF Endings

\* A command that the worker rejects.
LEMMA RejectKeeps ==
  ASSUME SessionInv, NEW type \in CommandTypes, run # NoRun, Handle(type), Reject(type)
  PROVE  SessionInv'
<1> DEFINE m == [type |-> "command-rejected", command |-> type]
<1>1. toPage' = toPage \o <<m>> /\ run' = run
  BY DEF Reject, Post
<1>2. Active /\ UNCHANGED <<page, store>> /\ toWorker # <<>> /\ toWorker' = Tail(toWorker) /\ Head(toWorker).type = type
  BY Handled
<1>3. run \in RunType /\ Playing /\ run.nextFrame <= LastSecond /\ run.mode \in Modes /\ run.timer = (run.mode = "running")
  BY <1>2, PlayingRun
<1>4. m \in Replies /\ m.type = "command-rejected" /\ m.command = type
  BY DEF Replies
<1> HIDE DEF m
<1>5. Delivering(store, page.state, Append(toPage, m), run.acts, run.nextFrame, run.nextEvent, run.mode)
  BY <1>2, <1>3, <1>4, AnswerDelivers
<1>6. type = "act" => Clears(m)
  BY <1>4 DEF Clears
<1>7. QED
  BY <1>1, <1>2, <1>3, <1>4, <1>5, <1>6, PlaysOn DEF Endings

LEMMA ForkKeeps == SessionInv /\ WorkerFork => SessionInv'
<1> SUFFICES ASSUME SessionInv, WorkerFork PROVE SessionInv'
  OBVIOUS
<1>1. CASE run.mode # "paused"
  <2>1. run # NoRun /\ Handle("fork") /\ Reject("fork") /\ "fork" \in CommandTypes
    BY <1>1 DEF WorkerFork, CommandTypes
  <2>2. QED
    BY <2>1, RejectKeeps
<1>2. CASE run.mode = "paused"
  <2> DEFINE m == [type |-> "fork-created", fork |-> SessionSnapshot(run)]
  <2>1. run # NoRun /\ Handle("fork") /\ toPage' = toPage \o <<m>> /\ run' = run
    BY <1>2 DEF WorkerFork, Post
  <2>2. Active /\ UNCHANGED <<page, store>> /\ toWorker # <<>> /\ toWorker' = Tail(toWorker) /\ Head(toWorker).type = "fork"
    BY <2>1, Handled
  <2>3. /\ run \in RunType /\ Playing /\ run.nextFrame <= LastSecond /\ run.mode \in Modes
        /\ run.timer = (run.mode = "running") /\ CursorSound(run.acts, run.nextFrame, run.nextEvent)
    BY <2>1, <2>2, PlayingRun
  <2>4. Earlier(SessionSnapshot(run), run.acts, run.nextFrame, run.nextEvent) /\ SessionSnapshot(run) \in ForkType
    BY <2>3, SnapshotIsGood DEF GoodFork
  <2>5. m \in Replies /\ m.type = "fork-created" /\ m.fork = SessionSnapshot(run)
    BY <2>4 DEF Replies
  <2> HIDE DEF m
  <2>6. Delivering(store, page.state, Append(toPage, m), run.acts, run.nextFrame, run.nextEvent, run.mode)
    BY <2>1, <2>2, <2>3, <2>4, <2>5, AnswerDelivers
  <2>7. QED
    BY <2>1, <2>2, <2>3, <2>5, <2>6, PlaysOn DEF Endings
<1>3. QED
  BY <1>1, <1>2

LEMMA ActKeeps == SessionInv /\ WorkerAct => SessionInv'
<1> SUFFICES ASSUME SessionInv, WorkerAct PROVE SessionInv'
  OBVIOUS
<1> DEFINE a == Head(toWorker).action
           m == [type |-> "action-applied", action |-> a]
<1>1. /\ run # NoRun /\ Handle("act")
      /\ \/ Applicable(run, a) /\ run' = [run EXCEPT !.acts = Append(@, a)] /\ toPage' = toPage \o <<m>>
         \/ Reject("act")
  BY DEF WorkerAct, Post
<1>2. CASE Reject("act")
  BY <1>1, <1>2, RejectKeeps DEF CommandTypes
<1>3. CASE Applicable(run, a) /\ run' = [run EXCEPT !.acts = Append(@, a)] /\ toPage' = toPage \o <<m>>
  <2>1. /\ Active /\ UNCHANGED <<page, store>> /\ toWorker # <<>> /\ toWorker' = Tail(toWorker)
        /\ Head(toWorker).type = "act" /\ Head(toWorker) \in Commands
    BY <1>1, Handled
  <2>2. a \in Actions
    BY <2>1 DEF Commands
  <2>3. /\ run \in RunType /\ Playing /\ run.nextFrame <= LastSecond /\ run.mode \in Modes
        /\ run.timer = (run.mode = "running") /\ CursorSound(run.acts, run.nextFrame, run.nextEvent)
        /\ Delivering(store, page.state, toPage, run.acts, run.nextFrame, run.nextEvent, run.mode)
    BY <1>1, <2>1, PlayingRun
  <2>4. m \in Replies /\ m.type = "action-applied" /\ m.action = a
    BY <2>2 DEF Replies
  <2>5. toPage \in Seq(Replies)
    BY DEF SessionInv, SessionTypes
  <2> HIDE DEF m
  <2>6. Append(run.acts, a) \in Schedules
    BY <1>3, <2>2, <2>3, ActionsKeepCursor
  <2>7. Delivering(store, page.state, Append(toPage, m), Append(run.acts, a), run.nextFrame, run.nextEvent, run.mode)
    BY <1>3, <2>2, <2>3, <2>4, <2>5, DeliveringActs
  <2>8. /\ run' \in RunType /\ run'.acts = Append(run.acts, a) /\ run'.mode = run.mode /\ run'.timer = run.timer
        /\ run'.nextFrame = run.nextFrame /\ run'.nextEvent = run.nextEvent
    BY <1>3, <2>3, <2>6 DEF RunType
  <2>9. Clears(m) /\ m.type \notin Endings
    BY <2>4 DEF Clears, Endings
  <2>10. Delivering(store, page.state, Append(toPage, m), run'.acts, run'.nextFrame, run'.nextEvent, run'.mode)
    BY <2>7, <2>8
  <2>11. run'.timer = (run'.mode = "running") /\ run'.nextFrame <= LastSecond
    BY <2>3, <2>8
  <2>12. QED
    BY <1>3, <2>1, <2>3, <2>4, <2>8, <2>9, <2>10, <2>11, PlaysOn
<1>4. QED
  BY <1>1, <1>2, <1>3

\* A batch brings at least one frame, and after the last frame there is nothing left.
FrameAfter(r, size) == Min({r.nextFrame + size, Len(F(r.acts))})
EventAfter(r, size) == EventCursor(Simulate(r.acts), r.nextEvent, FrameAfter(r, size))
Batch(r, size) ==
  [type |-> "batch", frameOffset |-> r.nextFrame, eventOffset |-> r.nextEvent,
   frames |-> SubSeq(F(r.acts), r.nextFrame + 1, FrameAfter(r, size)),
   events |-> SubSeq(E(r.acts), r.nextEvent + 1, EventAfter(r, size))]

LEMMA BatchDelivers ==
  ASSUME SessionInv, Active, run # NoRun, NEW size \in Nat \ {0}
  PROVE  /\ FrameAfter(run, size) \in run.nextFrame + 1 .. LastSecond + 1
         /\ run.nextFrame + size >= LastSecond + 1 => FrameAfter(run, size) = LastSecond + 1
         /\ CursorSound(run.acts, FrameAfter(run, size), EventAfter(run, size))
         /\ EventAfter(run, size) \in Nat
         /\ Batch(run, size) \in Replies
         /\ Delivering(store, page.state, Append(toPage, Batch(run, size)), run.acts,
                       FrameAfter(run, size), EventAfter(run, size), run.mode)
<1> DEFINE acts == run.acts
           nf == run.nextFrame
           ne == run.nextEvent
           f == FrameAfter(run, size)
           e == EventAfter(run, size)
           m == Batch(run, size)
<1>1. /\ acts \in Schedules /\ nf \in Nat /\ ne \in Nat /\ nf <= LastSecond /\ run.mode \in Modes
      /\ CursorSound(acts, nf, ne) /\ Delivering(store, page.state, toPage, acts, nf, ne, run.mode)
  BY PlayingRun
<1>2. /\ F(acts) \in Seq(Frames) /\ E(acts) \in Seq(Events)
      /\ Len(F(acts)) = LastSecond + 1 /\ Len(E(acts)) \in Nat /\ LastSecond \in Nat
  BY <1>1, EngineIs, SizesAreNumbers
<1>3. f = IF nf + size <= LastSecond + 1 THEN nf + size ELSE LastSecond + 1
  BY <1>1, <1>2, LesserOfTwo DEF FrameAfter
<1>4. f \in nf + 1 .. LastSecond + 1 /\ (nf + size >= LastSecond + 1 => f = LastSecond + 1)
  BY <1>1, <1>2, <1>3
<1>5. CursorSound(acts, f, e) /\ ne <= e
  <2>1. nf \in 0 .. LastSecond
    BY <1>1, <1>2
  <2> HIDE DEF f
  <2>2. QED
    BY <1>1, <1>4, <2>1, CursorMoves DEF EventAfter, f
<1>6. e \in 0 .. Len(E(acts)) /\ e \in Nat /\ f \in Nat /\ nf <= f /\ f <= Len(F(acts)) /\ e <= Len(E(acts))
  BY <1>1, <1>2, <1>4, <1>5 DEF CursorSound
<1> HIDE DEF f, e, acts, nf, ne
<1>7. SubSeq(F(acts), nf + 1, f) \in Seq(Frames) /\ SubSeq(E(acts), ne + 1, e) \in Seq(Events)
  BY <1>1, <1>2, <1>5, <1>6, SliceGrows
<1>8. m = [type |-> "batch", frameOffset |-> nf, eventOffset |-> ne,
           frames |-> SubSeq(F(acts), nf + 1, f), events |-> SubSeq(E(acts), ne + 1, e)]
  BY DEF Batch, acts, nf, ne, f, e
<1> HIDE DEF m
<1>9. m \in Replies
  BY <1>1, <1>7, <1>8 DEF Replies
<1>10. Fits(acts, m, Cursor(nf, ne, Len(acts), run.mode), Cursor(f, e, Len(acts), run.mode))
  <2>1. m.type = "batch" /\ m.frameOffset = nf /\ m.eventOffset = ne
        /\ m.frames = SubSeq(F(acts), nf + 1, f) /\ m.events = SubSeq(E(acts), ne + 1, e)
    BY <1>8
  <2>2. QED
    BY <1>5, <1>6, <2>1 DEF Fits, Cursor
<1>11. Delivering(store, page.state, Append(toPage, m), acts, f, e, run.mode)
  <2>1. toPage \in Seq(Replies)
    BY DEF SessionInv, SessionTypes
  <2>2. m.type # "fork-created"
    BY <1>8
  <2>3. QED
    BY <1>1, <1>5, <1>6, <1>9, <1>10, <2>1, <2>2, DeliveringPosts
<1>12. QED
  BY <1>4, <1>5, <1>6, <1>9, <1>11 DEF acts, nf, ne, f, e, m

\* The batch that is not the last.
LEMMA MoreToCome ==
  ASSUME SessionInv, Active, run # NoRun, UNCHANGED <<page, store>>, NEW size \in Nat \ {0},
         FrameAfter(run, size) # LastSecond + 1,
         \/ toWorker # <<>> /\ toWorker' = Tail(toWorker) /\ Head(toWorker).type # "act"
         \/ toWorker' = toWorker,
         run' = [run EXCEPT !.nextFrame = FrameAfter(run, size), !.nextEvent = EventAfter(run, size),
                            !.timer = (run.mode = "running")],
         \/ toPage' = toPage \o <<Batch(run, size)>>
         \/ toPage' = toPage \o (<<Batch(run, size)>> \o <<[type |-> "paused"]>>) /\ run.mode = "paused"
  PROVE  SessionInv'
<1> DEFINE m == Batch(run, size)
           n == [type |-> "paused"]
           f == FrameAfter(run, size)
           e == EventAfter(run, size)
<1>1. /\ f \in run.nextFrame + 1 .. LastSecond + 1 /\ e \in Nat /\ CursorSound(run.acts, f, e) /\ m \in Replies
      /\ Delivering(store, page.state, Append(toPage, m), run.acts, f, e, run.mode)
  BY BatchDelivers
<1>2. run \in RunType /\ Playing /\ run.nextFrame \in Nat /\ LastSecond \in Nat
  BY PlayingRun, SizesAreNumbers
<1>3. m.type = "batch" /\ n.type = "paused" /\ n \in Replies
  BY DEF Batch, Replies
<1> HIDE DEF m, n, f, e
<1>4. f \in Nat /\ f <= LastSecond
  BY <1>1, <1>2 DEF f
<1>5. run' = [run EXCEPT !.nextFrame = f, !.nextEvent = e, !.timer = (run.mode = "running")]
  BY DEF f, e
<1>6. /\ run' \in RunType /\ run'.acts = run.acts /\ run'.mode = run.mode /\ run'.timer = (run'.mode = "running")
      /\ run'.nextFrame = f /\ run'.nextEvent = e
  BY <1>1, <1>2, <1>4, <1>5 DEF RunType
<1>7. CASE toPage' = toPage \o <<m>>
  <2>1. Delivering(store, page.state, Append(toPage, m), run'.acts, run'.nextFrame, run'.nextEvent, run'.mode)
    BY <1>1, <1>6
  <2>2. m.type \notin Endings /\ run'.nextFrame <= LastSecond
    BY <1>3, <1>4, <1>6 DEF Endings
  <2>3. QED
    BY <1>1, <1>2, <1>6, <1>7, <2>1, <2>2, PlaysOn
<1>8. CASE toPage' = toPage \o (<<m>> \o <<n>>) /\ run.mode = "paused"
  <2>1. /\ toPage \in Seq(Replies) /\ Len(toPage) \in Nat
        /\ Append(toPage, m) \in Seq(Replies)
        /\ toPage' = Append(Append(toPage, m), n) /\ toPage' \in Seq(Replies) /\ Len(toPage') = Len(toPage) + 2
        /\ \A i \in 1 .. Len(toPage) : toPage'[i] = toPage[i]
        /\ toPage'[Len(toPage) + 1] = m /\ toPage'[Len(toPage) + 2] = n
    BY <1>1, <1>3, <1>8, PostedTwo
  <2> DEFINE q == Append(toPage, m)
  <2>2. q \in Seq(Replies) /\ Delivering(store, page.state, q, run.acts, f, e, "paused") /\ toPage' = Append(q, n)
    BY <1>1, <1>8, <2>1
  <2> HIDE DEF q
  <2>3. Delivering(store, page.state, Append(q, n), run.acts, f, e, "paused")
    <3>1. Fits(run.acts, n, Cursor(f, e, Len(run.acts), "paused"), Cursor(f, e, Len(run.acts), "paused"))
      BY <1>3 DEF Fits, Cursor
    <3>2. f <= f /\ e <= e /\ "paused" \in Modes /\ n.type # "fork-created"
      BY <1>1, <1>3, <1>4 DEF Modes
    <3>3. QED
      BY <1>1, <1>3, <2>2, <3>1, <3>2, DeliveringPosts
  <2>4. ASSUME NEW i \in 1 .. Len(toPage') PROVE toPage'[i].type \notin Endings
    <3>1. CASE i \in 1 .. Len(toPage)
      BY <1>2, <2>1, <3>1 DEF Playing
    <3>2. CASE i \notin 1 .. Len(toPage)
      <4>1. i = Len(toPage) + 1 \/ i = Len(toPage) + 2
        BY <2>1, <3>2
      <4>2. QED
        BY <1>3, <2>1, <4>1 DEF Endings
    <3>3. QED
      BY <3>1, <3>2
  <2>5. Playing'
    <3>1. Delivering(store, page.state, toPage', run'.acts, run'.nextFrame, run'.nextEvent, run'.mode)
      BY <1>6, <1>8, <2>2, <2>3
    <3>2. run' # NoRun
      BY <1>6, NoRunAssumption
    <3>3. QED
      BY <1>4, <1>6, <2>4, <3>1, <3>2 DEF Playing
  <2>6. /\ Len(toPage) <= Len(toPage') /\ ~Starting
        /\ \A i \in 1 .. Len(toPage') : i > Len(toPage) /\ toPage'[i].type = "error" => toPage'[i].why # "restore"
    BY <2>1, <2>4 DEF Endings, Starting
  <2>7. QED
    BY <1>6, <2>1, <2>5, <2>6, WorkerStepKeeps
<1>9. QED
  BY <1>7, <1>8 DEF m, n

\* The batch that ends the run.
LEMMA NoMoreToCome ==
  ASSUME SessionInv, Active, run # NoRun, UNCHANGED <<page, store>>, NEW size \in Nat \ {0},
         FrameAfter(run, size) = LastSecond + 1,
         \/ toWorker # <<>> /\ toWorker' = Tail(toWorker) /\ Head(toWorker).type # "act"
         \/ toWorker' = toWorker,
         run' = NoRun,
         toPage' = toPage \o (<<Batch(run, size)>> \o <<[type |-> "complete", result |-> Simulate(run.acts)]>>)
  PROVE  SessionInv'
<1> DEFINE m == Batch(run, size)
           n == [type |-> "complete", result |-> Simulate(run.acts)]
           f == FrameAfter(run, size)
           e == EventAfter(run, size)
<1>1. /\ e \in Nat /\ CursorSound(run.acts, f, e) /\ m \in Replies
      /\ Delivering(store, page.state, Append(toPage, m), run.acts, f, e, run.mode)
  BY BatchDelivers
<1>2. run \in RunType /\ Playing /\ run.acts \in Schedules /\ run.mode \in {"running", "paused"} /\ run.mode \in Modes
  BY PlayingRun
<1>3. /\ m.type = "batch" /\ n.type = "complete" /\ n.result = Simulate(run.acts)
      /\ n \in Replies
  <2>1. Simulate(run.acts) \in Results
    BY <1>2, EngineIs
  <2>2. QED
    BY <2>1 DEF Batch, Replies
<1> HIDE DEF m, n, f, e
<1>4. /\ toPage \in Seq(Replies) /\ Len(toPage) \in Nat
      /\ Append(toPage, m) \in Seq(Replies)
      /\ toPage' = Append(Append(toPage, m), n) /\ toPage' \in Seq(Replies) /\ Len(toPage') = Len(toPage) + 2
      /\ \A i \in 1 .. Len(toPage) : toPage'[i] = toPage[i]
      /\ toPage'[Len(toPage) + 1] = m /\ toPage'[Len(toPage) + 2] = n
  <2>1. toPage' = toPage \o (<<m>> \o <<n>>)
    BY DEF m, n
  <2>2. QED
    BY <1>1, <1>3, <2>1, PostedTwo
<1>5. f = LastSecond + 1 /\ e = Len(E(run.acts)) /\ f \in Nat
  BY <1>1, SizesAreNumbers DEF CursorSound, f
<1> DEFINE q == Append(toPage, m)
<1>6. Delivering(store, page.state, toPage', run.acts, f, e, run.mode)
  <2>1. q \in Seq(Replies) /\ toPage' = Append(q, n) /\ Delivering(store, page.state, q, run.acts, f, e, run.mode)
    BY <1>1, <1>4
  <2> HIDE DEF q
  <2>2. Fits(run.acts, n, Cursor(f, e, Len(run.acts), run.mode), Cursor(f, e, Len(run.acts), run.mode))
    BY <1>3 DEF Fits, Cursor
  <2>3. f <= f /\ e <= e /\ n.type # "fork-created"
    BY <1>1, <1>3, <1>5
  <2>4. QED
    BY <1>1, <1>2, <1>3, <2>1, <2>2, <2>3, DeliveringPosts
<1>7. \A i \in 1 .. Len(toPage') : toPage'[i].type \in Endings <=> i = Len(toPage')
  <2> SUFFICES ASSUME NEW i \in 1 .. Len(toPage') PROVE toPage'[i].type \in Endings <=> i = Len(toPage')
    OBVIOUS
  <2>1. CASE i \in 1 .. Len(toPage)
    <3>1. toPage'[i].type \notin Endings /\ i # Len(toPage')
      BY <1>2, <1>4, <2>1 DEF Playing
    <3>2. QED
      BY <3>1
  <2>2. CASE i \notin 1 .. Len(toPage)
    <3>1. i = Len(toPage) + 1 \/ i = Len(toPage) + 2
      BY <1>4, <2>2
    <3>2. CASE i = Len(toPage) + 1
      BY <1>3, <1>4, <3>2 DEF Endings
    <3>3. CASE i = Len(toPage) + 2
      BY <1>3, <1>4, <3>3 DEF Endings
    <3>4. QED
      BY <3>1, <3>2, <3>3
  <2>3. QED
    BY <2>1, <2>2
<1>8. Last(toPage') = n /\ toPage' # <<>>
  <2>1. Last(toPage') = n
    BY <1>4 DEF Last
  <2>2. Len(toPage') # 0 /\ Len(<<>>) = 0
    BY <1>4
  <2>3. QED
    BY <2>1, <2>2
<1>9. Ended'
  <2>1. \E acts \in Schedules, doing \in {"running", "paused"} :
          /\ Delivering(store', page'.state, toPage', acts, LastSecond + 1, Len(E(acts)), doing)
          /\ Last(toPage').type = "complete" /\ Last(toPage').result = Simulate(acts)
    BY <1>2, <1>3, <1>5, <1>6, <1>8
  <2>2. QED
    BY <1>7, <1>8, <2>1 DEF Ended
<1>10. /\ Len(toPage) <= Len(toPage') /\ ~Starting
       /\ \A i \in 1 .. Len(toPage') : i > Len(toPage) /\ toPage'[i].type = "error" => toPage'[i].why # "restore"
  <2>1. Len(toPage) <= Len(toPage') /\ ~Starting
    BY <1>4 DEF Starting
  <2>2. ASSUME NEW i \in 1 .. Len(toPage'), i > Len(toPage) PROVE toPage'[i].type # "error"
    <3>0. Len(toPage) \in Nat /\ Len(toPage') = Len(toPage) + 2 /\ i \in Int
      BY <1>4
    <3>1. i = Len(toPage) + 1 \/ i = Len(toPage) + 2
      BY <2>2, <3>0
    <3>2. QED
      BY <1>3, <1>4, <3>1
  <2>3. QED
    BY <2>1, <2>2
<1>11. QED
  BY <1>4, <1>9, <1>10, WorkerStepKeeps

\* One batch, by the timer, a step or the rest at once.
LEMMA EmitKeeps ==
  ASSUME SessionInv, Active, run # NoRun, UNCHANGED <<page, store>>, NEW size \in Nat \ {0}, NEW remainPaused \in BOOLEAN,
         EmitBatch(run, size, remainPaused),
         \/ toWorker # <<>> /\ toWorker' = Tail(toWorker) /\ Head(toWorker).type # "act"
         \/ toWorker' = toWorker,
         \/ remainPaused = TRUE /\ run.mode = "paused"
         \/ remainPaused = FALSE /\ run.mode = "running"
         \/ size = LastSecond + 1
  PROVE  SessionInv'
<1> DEFINE f == FrameAfter(run, size)
           e == EventAfter(run, size)
<1>1. /\ f \in run.nextFrame + 1 .. LastSecond + 1 /\ (run.nextFrame + size >= LastSecond + 1 => f = LastSecond + 1)
      /\ CursorSound(run.acts, f, e)
  BY BatchDelivers
<1>2. run.acts \in Schedules /\ run.nextFrame \in Nat /\ LastSecond \in Nat
  BY PlayingRun, SizesAreNumbers
<1>3. Len(F(run.acts)) = LastSecond + 1 /\ Len(E(run.acts)) \in Nat
  BY <1>2, EngineIs
<1>4. Delivered(Simulate(run.acts), f, e) <=> f = LastSecond + 1
  <2>1. f \in Nat /\ f <= LastSecond + 1 /\ e \in Nat /\ (f = LastSecond + 1 => e = Len(E(run.acts)))
    BY <1>1, <1>2, <1>3 DEF CursorSound
  <2> HIDE DEF f, e
  <2>2. QED
    BY <1>2, <1>3, <2>1 DEF Delivered, F, E
<1>5. CASE f = LastSecond + 1
  <2>1. run' = NoRun /\ toPage' = toPage \o (<<Batch(run, size)>> \o <<[type |-> "complete", result |-> Simulate(run.acts)]>>)
    BY <1>4, <1>5 DEF EmitBatch, Post, Batch, FrameAfter, EventAfter, F, E
  <2>2. QED
    BY <1>5, <2>1, NoMoreToCome
<1>6. CASE f # LastSecond + 1
  <2>1. size # LastSecond + 1
    BY <1>1, <1>2, <1>6
  <2>2. CASE remainPaused = TRUE /\ run.mode = "paused"
    <3>1. EmitBatch(run, size, TRUE)
      BY <2>2
    <3>2. /\ run' = [run EXCEPT !.nextFrame = f, !.nextEvent = e, !.timer = ~TRUE]
          /\ toPage' = toPage \o (<<Batch(run, size)>> \o <<[type |-> "paused"]>>)
      BY <1>4, <1>6, <3>1 DEF EmitBatch, Post, Note, Batch, FrameAfter, EventAfter, F, E
    <3>3. ~TRUE <=> (run.mode = "running")
      BY <2>2
    <3> HIDE DEF f, e
    <3>4. run' = [run EXCEPT !.nextFrame = f, !.nextEvent = e, !.timer = (run.mode = "running")]
      BY <3>2, <3>3
    <3>5. QED
      BY <1>6, <2>2, <3>2, <3>4, MoreToCome DEF f, e
  <2>3. CASE remainPaused = FALSE /\ run.mode = "running"
    <3>1. /\ run' = [run EXCEPT !.nextFrame = f, !.nextEvent = e, !.timer = (run.mode = "running")]
          /\ toPage' = toPage \o (<<Batch(run, size)>> \o <<>>)
      BY <1>4, <1>6, <2>3 DEF EmitBatch, Post, Batch, FrameAfter, EventAfter, F, E
    <3>2. <<Batch(run, size)>> \o <<>> = <<Batch(run, size)>>
      <4>1. <<Batch(run, size)>> \in Seq({Batch(run, size)})
        OBVIOUS
      <4>2. QED
        BY <4>1, ConcatEmptySeq
    <3>3. QED
      BY <1>6, <3>1, <3>2, MoreToCome
  <2>4. QED
    BY <2>1, <2>2, <2>3
<1>7. QED
  BY <1>5, <1>6

LEMMA TickKeeps == SessionInv /\ Tick => SessionInv'
<1> SUFFICES ASSUME SessionInv, Tick PROVE SessionInv'
  OBVIOUS
<1>1. run # NoRun /\ run.timer /\ EmitBatch(run, BatchSize, FALSE) /\ UNCHANGED <<page, store, toWorker>>
  BY DEF Tick
<1>2. Active
  BY <1>1 DEF SessionInv, PhaseInv
<1>3. run.mode = "running" /\ BatchSize \in Nat \ {0}
  BY <1>1, <1>2, PlayingRun, SizesAreNumbers
<1>4. QED
  BY <1>1, <1>2, <1>3, EmitKeeps

LEMMA StepKeeps == SessionInv /\ WorkerStep => SessionInv'
<1> SUFFICES ASSUME SessionInv, WorkerStep PROVE SessionInv'
  OBVIOUS
<1>1. run # NoRun /\ Handle("step") /\ IF run.mode = "paused" THEN EmitBatch(run, BatchSize, TRUE) ELSE Reject("step")
  BY DEF WorkerStep
<1>2. CASE run.mode = "paused"
  <2>1. Active /\ UNCHANGED <<page, store>> /\ toWorker # <<>> /\ toWorker' = Tail(toWorker) /\ Head(toWorker).type # "act"
    BY <1>1, Handled
  <2>2. EmitBatch(run, BatchSize, TRUE) /\ BatchSize \in Nat \ {0}
    BY <1>1, <1>2, SizesAreNumbers
  <2>3. QED
    BY <1>1, <1>2, <2>1, <2>2, EmitKeeps
<1>3. CASE run.mode # "paused"
  BY <1>1, <1>3, RejectKeeps DEF CommandTypes
<1>4. QED
  BY <1>2, <1>3

LEMMA FinishKeeps == SessionInv /\ WorkerFinish => SessionInv'
<1> SUFFICES ASSUME SessionInv, WorkerFinish PROVE SessionInv'
  OBVIOUS
<1>1. run # NoRun /\ Handle("finish") /\ IF run.mode = "paused" THEN EmitBatch(run, LastSecond + 1, FALSE) ELSE Reject("finish")
  BY DEF WorkerFinish
<1>2. CASE run.mode = "paused"
  <2>1. Active /\ UNCHANGED <<page, store>> /\ toWorker # <<>> /\ toWorker' = Tail(toWorker) /\ Head(toWorker).type # "act"
    BY <1>1, Handled
  <2>2. EmitBatch(run, LastSecond + 1, FALSE)
    BY <1>1, <1>2
  <2>3. LastSecond + 1 \in Nat \ {0}
    BY SizesAreNumbers
  <2>4. QED
    BY <1>1, <2>1, <2>2, <2>3, EmitKeeps
<1>3. CASE run.mode # "paused"
  BY <1>1, <1>3, RejectKeeps DEF CommandTypes
<1>4. QED
  BY <1>2, <1>3

\* A command without a run to act on; what ended the run is still under way.
LEMMA IgnoresKeeps == SessionInv /\ WorkerIgnores => SessionInv'
<1> SUFFICES ASSUME SessionInv, WorkerIgnores PROVE SessionInv'
  OBVIOUS
<1>1. PICK type \in CommandTypes : Handle(type)
  <2>1. \E type \in CommandTypes : Handle(type)
    BY DEF WorkerIgnores, CommandTypes
  <2>2. QED
    BY <2>1
<1>2. run = NoRun /\ run' = run /\ toPage' = toPage
  BY DEF WorkerIgnores
<1>3. /\ Active /\ UNCHANGED <<page, store>> /\ toWorker # <<>> /\ toWorker' = Tail(toWorker)
      /\ Head(toWorker).type = type
  BY <1>1, Handled
<1>4. ~Starting /\ type # "start"
  BY <1>1, <1>3 DEF Starting, CommandTypes
<1>5. Ended \/ Failed
  BY <1>2, <1>3, <1>4 DEF SessionInv, PhaseInv, Playing
<1>6. toPage \in Seq(Replies) /\ Len(toPage) \in Nat /\ run \in RunType \union {NoRun}
  BY LenProperties DEF SessionInv, SessionTypes
<1>7. \E i \in 1 .. Len(toPage) : Clears(toPage[i])
  <2>1. CASE Ended
    <3>1. toPage # <<>>
      BY <2>1 DEF Ended
    <3>2. Len(toPage) \in 1 .. Len(toPage)
      BY <1>6, <3>1, EmptySeq
    <3>3. QED
      BY <2>1, <3>2 DEF Ended, Clears
  <2>2. CASE Failed
    BY <2>2 DEF Failed, Clears, Endings
  <2>3. QED
    BY <1>5, <2>1, <2>2
<1>8. Ended' \/ Failed'
  BY <1>2, <1>3, <1>5 DEF Ended, Failed
<1>9. QED
  BY <1>2, <1>3, <1>4, <1>6, <1>7, <1>8, WorkerStepKeeps

\* Nothing is under way, and all that the worker has delivered is shown.
LEMMA FreshDelivers ==
  ASSUME NEW acts \in Schedules, NEW nf, NEW ne, CursorSound(acts, nf, ne), NEW doing \in Modes, NEW shown,
         shown.frames = Slice(F(acts), nf), shown.events = Slice(E(acts), ne), shown.actions = acts,
         shown.fork = NoFork
  PROVE  Delivering(shown, doing, <<>>, acts, nf, ne, doing)
<1> DEFINE c == Cursor(nf, ne, Len(acts), doing)
           h == [i \in 0 .. Len(<<>>) |-> c]
<1>1. acts \in Seq(Actions)
  BY ScheduleIs
<1>2. Len(acts) \in Nat /\ Len(<<>>) = 0 /\ Slice(acts, Len(acts)) = acts
  <2>1. Len(acts) \in Nat
    BY <1>1, LenProperties
  <2>2. Slice(acts, Len(acts)) = acts
    BY <1>1, SliceWhole
  <2>3. QED
    BY <2>1, <2>2
<1>3. nf \in Nat /\ ne \in Nat
  BY SizesAreNumbers, EngineIs DEF CursorSound
<1>4. c \in Cursors(nf, ne, Len(acts)) /\ c.frames = nf /\ c.events = ne /\ c.acts = Len(acts) /\ c.mode = doing
  BY <1>2, <1>3 DEF Cursors, Cursor
<1> HIDE DEF c
<1>5. h \in [0 .. Len(<<>>) -> Cursors(nf, ne, Len(acts))] /\ h[0] = c /\ h[Len(<<>>)] = c
  BY <1>2, <1>4
<1> HIDE DEF h
<1>6. Shown(shown, doing, acts, h[0])
  BY <1>2, <1>4, <1>5 DEF Shown
<1>7. \A i \in 1 .. Len(<<>>) : Fits(acts, <<>>[i], h[i - 1], h[i])
  BY <1>2
<1>8. Under(shown, doing, <<>>, acts, nf, ne, Len(acts), doing)
  BY <1>5, <1>6, <1>7 DEF Under, c
<1>9. ForksFit(shown, <<>>, acts, nf, ne)
  BY <1>2 DEF ForksFit
<1>10. QED
  BY <1>8, <1>9 DEF Delivering

\* A run that was not restored has delivered nothing.
LEMMA NothingDelivered == <<>> \in Schedules /\ CursorSound(<<>>, 0, 0)
<1>1. <<>> \in Schedules
  <2>1. <<>> \in Seq(Actions) /\ Len(<<>>) <= MaxActions
    BY EmptySeq, SizesAreNumbers
  <2>2. QED
    BY <2>1, ScheduleIs
<1>2. /\ Len(E(<<>>)) \in Nat /\ LastSecond \in Nat \ {0}
      /\ \A i \in 1 .. Len(E(<<>>)) : E(<<>>)[i].second \in 0 .. LastSecond
  BY <1>1, EngineIs, SizesAreNumbers
<1>3. 0 < Len(E(<<>>)) => E(<<>>)[0 + 1].second > 0 - 1
  <2>1. SUFFICES ASSUME 0 < Len(E(<<>>)) PROVE E(<<>>)[1].second > -1
    OBVIOUS
  <2>2. E(<<>>)[1].second \in 0 .. LastSecond
    BY <1>2, <2>1
  <2>3. QED
    BY <1>2, <2>2
<1>4. QED
  BY <1>1, <1>2, <1>3 DEF CursorSound, Splits

LEMMA StartedKeeps == SessionInv /\ WorkerStart => SessionInv'
<1> SUFFICES ASSUME SessionInv, WorkerStart PROVE SessionInv'
  OBVIOUS
<1> DEFINE fork == Head(toWorker).restore
           started == [type |-> "started"]
           paused == [type |-> "paused"]
<1>1. /\ Handle("start")
      /\ \/ /\ fork = NoFork
            /\ run' = [mode |-> "running", acts |-> <<>>, nextFrame |-> 0, nextEvent |-> 0, timer |-> TRUE]
            /\ toPage' = toPage \o <<started>>
         \/ /\ fork # NoFork
            /\ run' = [mode |-> "paused", acts |-> fork.acts, nextFrame |-> fork.nextFrame,
                       nextEvent |-> fork.nextEvent, timer |-> FALSE]
            /\ toPage' = toPage \o (<<started>> \o <<paused>>)
         \/ /\ fork # NoFork /\ ~Restorable(fork)
         \/ /\ toPage' = toPage \o <<[type |-> "error", why |-> "engine"]>>
            /\ run' = run
  BY DEF WorkerStart, Post, Note
<1>2. /\ Active /\ UNCHANGED <<page, store>> /\ toWorker # <<>> /\ toWorker' = Tail(toWorker)
      /\ Head(toWorker).type = "start" /\ Head(toWorker) \in Commands
  BY <1>1, Handled
<1>3. Starting
  <2>1. Head(toWorker) = toWorker[1] /\ 1 \in 1 .. Len(toWorker)
    BY <1>2, TailsOf DEF SessionInv, SessionTypes
  <2>2. QED
    BY <1>2, <2>1 DEF SessionInv, PhaseInv
<1>4. /\ run = NoRun /\ toPage = <<>> /\ page.state = "starting" /\ store.fork = NoFork /\ Len(<<>>) = 0
      /\ started \in Replies /\ paused \in Replies /\ started.type = "started" /\ paused.type = "paused"
      /\ "starting" \in Modes /\ "running" \in Modes /\ "paused" \in Modes
  BY <1>3 DEF Starting, Replies, Modes
<1>5. toPage \in Seq(Replies) /\ LastSecond \in Nat \ {0}
  BY SizesAreNumbers DEF SessionInv, SessionTypes
<1> HIDE DEF started, paused
<1>6. CASE /\ fork = NoFork
           /\ run' = [mode |-> "running", acts |-> <<>>, nextFrame |-> 0, nextEvent |-> 0, timer |-> TRUE]
           /\ toPage' = toPage \o <<started>>
  <2>1. /\ toPage' = Append(<<>>, started) /\ toPage' \in Seq(Replies) /\ Len(toPage') = 1 /\ toPage'[1] = started
    BY <1>4, <1>6, PostedOne
  <2>2. <<>> \in Schedules /\ CursorSound(<<>>, 0, 0)
    BY NothingDelivered
  <2>3. run' \in RunType /\ run' # NoRun
    <3>1. <<>> \in Schedules /\ 0 \in Nat /\ TRUE \in BOOLEAN
      BY <2>2
    <3> DEFINE new == [mode |-> "running", acts |-> <<>>, nextFrame |-> 0, nextEvent |-> 0, timer |-> TRUE]
    <3>2. new \in RunType
      BY <3>1, Zenon DEF RunType
    <3>3. QED
      BY <1>6, <3>2, NoRunAssumption
  <2>4. Delivering(store, "starting", <<>>, <<>>, 0, 0, "starting")
    <3>1. store.frames = <<>> /\ store.events = <<>> /\ store.actions = <<>>
      BY <1>3, <1>6 DEF Starting
    <3>2. F(<<>>) \in Seq(Frames) /\ E(<<>>) \in Seq(Events)
      BY <2>2, EngineIs
    <3>3. Len(F(<<>>)) \in Nat /\ Len(E(<<>>)) \in Nat
      BY <3>2, LenProperties
    <3>4. Slice(F(<<>>), 0) = <<>> /\ Slice(E(<<>>), 0) = <<>>
      BY <3>3, LesserOfTwo, SubSeqEmpty DEF Slice
    <3>5. QED
      BY <1>4, <2>2, <3>1, <3>4, FreshDelivers
  <2>5. Delivering(store, "starting", toPage', <<>>, 0, 0, "running")
    <3>1. Fits(<<>>, started, Cursor(0, 0, Len(<<>>), "starting"), Cursor(0, 0, Len(<<>>), "running"))
      BY <1>4 DEF Fits, Cursor
    <3>2. <<>> \in Seq(Replies) /\ 0 <= 0 /\ started.type # "fork-created"
      BY <1>4, EmptySeq
    <3> DEFINE none == <<>>
    <3>3. none \in Seq(Replies) /\ toPage' = Append(none, started)
          /\ Fits(none, started, Cursor(0, 0, Len(none), "starting"), Cursor(0, 0, Len(none), "running"))
          /\ CursorSound(none, 0, 0) /\ Delivering(store, "starting", none, none, 0, 0, "starting")
      BY <2>1, <2>2, <2>4, <3>1, <3>2
    <3> HIDE DEF none
    <3>4. Delivering(store, "starting", Append(none, started), none, 0, 0, "running")
      BY <1>4, <3>2, <3>3, DeliveringPosts
    <3>5. QED
      BY <3>3, <3>4 DEF none
  <2>6. Playing'
    <3>1. run'.mode = "running" /\ run'.acts = <<>> /\ run'.nextFrame = 0 /\ run'.nextEvent = 0 /\ run'.timer = TRUE
      BY <1>6
    <3>2. \A i \in 1 .. Len(toPage') : toPage'[i].type \notin Endings
      BY <1>4, <2>1 DEF Endings
    <3>3. Delivering(store', page'.state, toPage', run'.acts, run'.nextFrame, run'.nextEvent, run'.mode)
      BY <1>2, <1>4, <2>5, <3>1
    <3>4. run'.nextFrame <= LastSecond
      BY <1>5, <3>1
    <3>5. run'.timer = (run'.mode = "running")
      BY <3>1, Zenon
    <3>6. QED
      BY <2>3, <3>2, <3>3, <3>4, <3>5 DEF Playing
  <2>7. ~store.opening
    BY <1>3, <1>6 DEF Starting
  <2>8. \A i \in 1 .. Len(toPage') : toPage'[i].type # "error"
    BY <1>4, <2>1
  <2>9. QED
    BY <1>2, <1>4, <2>1, <2>3, <2>6, <2>7, <2>8, WorkerStepKeeps
<1>7. CASE /\ fork # NoFork
           /\ run' = [mode |-> "paused", acts |-> fork.acts, nextFrame |-> fork.nextFrame,
                      nextEvent |-> fork.nextEvent, timer |-> FALSE]
           /\ toPage' = toPage \o (<<started>> \o <<paused>>)
  <2> DEFINE acts == fork.acts
             nf == fork.nextFrame
             ne == fork.nextEvent
             q == Append(<<>>, started)
  <2>1. /\ q \in Seq(Replies) /\ toPage' = Append(q, paused)
        /\ toPage' \in Seq(Replies) /\ Len(toPage') = 2 /\ toPage'[1] = started /\ toPage'[2] = paused
    BY <1>4, <1>7, PostedTwo
  <2>2. /\ GoodFork(fork) /\ store.frames = fork.prefix.frames /\ store.events = fork.prefix.events
        /\ store.actions = acts
    BY <1>3, <1>7 DEF Starting
  <2>3. /\ acts \in Schedules /\ nf \in Nat /\ ne \in Nat /\ nf <= LastSecond /\ CursorSound(acts, nf, ne)
        /\ fork.prefix.frames = Slice(F(acts), nf) /\ fork.prefix.events = Slice(E(acts), ne)
    <3>1. fork \in ForkType /\ nf <= LastSecond /\ CursorSound(acts, nf, ne) /\ fork = SessionSnapshot(fork)
      BY <2>2 DEF GoodFork
    <3>2. fork.prefix = DeliveredPrefix(Simulate(acts), nf, ne)
      BY <3>1 DEF SessionSnapshot
    <3>3. QED
      BY <3>1, <3>2 DEF ForkType, DeliveredPrefix, F, E
  <2>4. run' \in RunType /\ run' # NoRun
    <3> DEFINE new == [mode |-> "paused", acts |-> fork.acts, nextFrame |-> fork.nextFrame,
                       nextEvent |-> fork.nextEvent, timer |-> FALSE]
    <3>1. new \in RunType
      BY <2>3, Zenon DEF RunType
    <3>2. QED
      BY <1>7, <3>1, NoRunAssumption
  <2>5. run'.mode = "paused" /\ run'.acts = acts /\ run'.nextFrame = nf /\ run'.nextEvent = ne /\ run'.timer = FALSE
    BY <1>7
  <2> HIDE DEF acts, nf, ne
  <2>6. Delivering(store, "starting", <<>>, acts, nf, ne, "starting")
    BY <1>4, <2>2, <2>3, FreshDelivers
  <2>7. Delivering(store, "starting", q, acts, nf, ne, "running")
    <3>1. Fits(acts, started, Cursor(nf, ne, Len(acts), "starting"), Cursor(nf, ne, Len(acts), "running"))
      BY <1>4 DEF Fits, Cursor
    <3>2. <<>> \in Seq(Replies) /\ nf <= nf /\ ne <= ne /\ started.type # "fork-created"
      BY <1>4, <2>3, EmptySeq
    <3>3. QED
      BY <1>4, <2>3, <2>6, <3>1, <3>2, DeliveringPosts
  <2> HIDE DEF q
  <2>8. Delivering(store, "starting", toPage', acts, nf, ne, "paused")
    <3>1. Fits(acts, paused, Cursor(nf, ne, Len(acts), "running"), Cursor(nf, ne, Len(acts), "paused"))
      BY <1>4 DEF Fits, Cursor
    <3>2. nf <= nf /\ ne <= ne /\ paused.type # "fork-created"
      BY <1>4, <2>3
    <3>3. QED
      BY <1>4, <2>1, <2>3, <2>7, <3>1, <3>2, DeliveringPosts
  <2>9. \A i \in 1 .. Len(toPage') : toPage'[i].type \notin Endings
    <3>1. \A i \in 1 .. Len(toPage') : i = 1 \/ i = 2
      BY <2>1
    <3>2. QED
      BY <1>4, <2>1, <3>1 DEF Endings
  <2>10. Playing'
    <3>1. Delivering(store', page'.state, toPage', run'.acts, run'.nextFrame, run'.nextEvent, run'.mode)
      BY <1>2, <1>4, <2>5, <2>8
    <3>2. QED
      BY <2>3, <2>4, <2>5, <2>9, <3>1 DEF Playing
  <2>11. 2 \in 1 .. Len(toPage') /\ toPage'[2].type = "paused"
    BY <1>4, <2>1
  <2>12. \A i \in 1 .. Len(toPage') : toPage'[i].type # "error"
    BY <2>9 DEF Endings
  <2>13. QED
    BY <1>2, <1>4, <2>1, <2>4, <2>10, <2>11, <2>12, WorkerStepKeeps
<1>8. CASE fork # NoFork /\ ~Restorable(fork)
  <2>1. GoodFork(fork)
    BY <1>3, <1>8 DEF Starting
  <2>2. QED
    BY <1>8, <2>1, GoodIsRestorable
<1>9. CASE toPage' = toPage \o <<[type |-> "error", why |-> "engine"]>> /\ run' = run
  <2> DEFINE m == [type |-> "error", why |-> "engine"]
  <2>1. m \in Replies /\ m.type = "error" /\ m.why = "engine"
    BY DEF Replies
  <2> HIDE DEF m
  <2>2. toPage' \in Seq(Replies) /\ Len(toPage') = 1 /\ toPage'[1] = m
    <3>1. toPage' = toPage \o <<m>>
      BY <1>9 DEF m
    <3>2. QED
      BY <1>4, <2>1, <3>1, PostedOne
  <2>3. Failed'
    <3>1. store' = store /\ store.fork = NoFork /\ store.state = "starting" /\ run' = NoRun
      BY <1>2, <1>3, <1>4, <1>9 DEF Starting
    <3>2. QED
      BY <2>1, <2>2, <3>1 DEF Failed
  <2>4. /\ 1 \in 1 .. Len(toPage') /\ toPage'[1].type = "error"
        /\ \A i \in 1 .. Len(toPage') : toPage'[i].why # "restore"
    BY <2>1, <2>2
  <2>5. QED
    BY <1>2, <1>4, <1>9, <2>2, <2>3, <2>4, WorkerStepKeeps
<1>10. QED
  BY <1>1, <1>6, <1>7, <1>8, <1>9

-----------------------------------------------------------------------------
(* What the user does.                                                     *)

LEMMA StartingKeeps ==
  ASSUME SessionInv, NEW fork \in ForkType \union {NoFork}, NEW shown \in StoreType, Start(fork, shown),
         shown.state = "starting", shown.fork = NoFork,
         IF fork = NoFork
           THEN shown.frames = <<>> /\ shown.events = <<>> /\ shown.actions = <<>> /\ ~shown.opening
           ELSE /\ GoodFork(fork)
                /\ shown.frames = fork.prefix.frames /\ shown.events = fork.prefix.events
                /\ shown.actions = fork.acts
  PROVE  SessionInv'
<1> DEFINE c == [type |-> "start", restore |-> fork]
<1>1. /\ page' = [state |-> "starting", settled |-> FALSE, pending |-> FALSE, armed |-> TRUE]
      /\ store' = shown /\ run' = NoRun /\ toWorker' = <<c>> /\ toPage' = <<>>
  BY DEF Start
<1>2. c \in Commands /\ c.type = "start" /\ c.restore = fork
  BY DEF Commands
<1> HIDE DEF c
<1>3. /\ toWorker' \in Seq(Commands) /\ Len(toWorker') = 1 /\ Head(toWorker') = c /\ toWorker' # <<>>
      /\ toPage' \in Seq(Replies) /\ Len(toPage') = 0 /\ DOMAIN toPage' = {}
  <2>1. toPage' \in Seq(Replies) /\ Len(toPage') = 0
    BY <1>1, EmptySeq
  <2>2. DOMAIN toPage' = {}
    BY <2>1, LenProperties
  <2>3. QED
    BY <1>1, <1>2, <2>1, <2>2
<1>4. SessionTypes'
  BY <1>1, <1>3 DEF SessionTypes
<1>5. PageInv'
  BY StartKeeps
<1>6. Starting'
  BY <1>1, <1>2, <1>3 DEF Starting
<1>7. page'.settled = FALSE /\ page'.pending = FALSE /\ page'.state = "starting"
  BY <1>1
<1>8. PhaseInv'
  <2>1. ForkIsRestorable'
    BY <1>3 DEF ForkIsRestorable
  <2>2. Active'
    BY <1>7 DEF Active
  <2>3. \A i \in 1 .. Len(toWorker') : i = 1
    BY <1>3
  <2>4. store'.state # "complete"
    BY <1>1
  <2>5. QED
    BY <1>6, <2>1, <2>2, <2>3, <2>4 DEF PhaseInv
<1>9. ControlInv'
  BY <1>1, <1>6, <1>7 DEF ControlInv, Modes
<1>10. QED
  BY <1>4, <1>5, <1>8, <1>9 DEF SessionInv

LEMMA EmptyIsTyped == EmptyStore \in StoreType
<1>1. <<>> \in Seq(Frames) /\ <<>> \in Seq(Events) /\ <<>> \in Seq(Actions)
  BY EmptySeq
<1>2. QED
  BY <1>1 DEF EmptyStore, StoreType, States

LEMMA RunLocalKeeps == SessionInv /\ RunLocal => SessionInv'
<1> SUFFICES ASSUME SessionInv, RunLocal PROVE SessionInv'
  OBVIOUS
<1> DEFINE shown == [EmptyStore EXCEPT !.state = "starting"]
<1>1. shown \in StoreType
  BY EmptyIsTyped DEF StoreType, States
<1>2. /\ shown.state = "starting" /\ shown.fork = NoFork /\ shown.frames = <<>> /\ shown.events = <<>>
      /\ shown.actions = <<>> /\ shown.opening = FALSE
  BY DEF EmptyStore
<1>3. Start(NoFork, shown)
  BY DEF RunLocal
<1> HIDE DEF shown
<1>4. QED
  BY <1>1, <1>2, <1>3, StartingKeeps

\* While a worker plays or has played, what is shown is a part of what it delivered.
LEMMA ShownIs ==
  ASSUME SessionInv, Playing \/ Ended
  PROVE  \E acts, nf, ne :
           /\ acts \in Schedules
           /\ CursorSound(acts, nf, ne) /\ ForksFit(store, toPage, acts, nf, ne)
           /\ \E c \in Cursors(nf, ne, Len(acts)) : Shown(store, page.state, acts, c)
<1>1. \E acts, nf, ne, doing : Delivering(store, page.state, toPage, acts, nf, ne, doing)
  <2>1. CASE Playing
    BY <2>1 DEF Playing
  <2>2. CASE Ended
    BY <2>2 DEF Ended
  <2>3. QED
    BY <2>1, <2>2
<1>2. PICK acts, nf, ne, doing : Delivering(store, page.state, toPage, acts, nf, ne, doing)
  BY <1>1
<1>3. /\ acts \in Schedules /\ CursorSound(acts, nf, ne) /\ ForksFit(store, toPage, acts, nf, ne)
      /\ Under(store, page.state, toPage, acts, nf, ne, Len(acts), doing)
  BY <1>2 DEF Delivering
<1>4. PICK h \in [0 .. Len(toPage) -> Cursors(nf, ne, Len(acts))] : Shown(store, page.state, acts, h[0])
  BY <1>3 DEF Under
<1>5. h[0] \in Cursors(nf, ne, Len(acts))
  <2>1. Len(toPage) \in Nat
    BY LenProperties DEF SessionInv, SessionTypes
  <2>2. QED
    BY <1>4, <2>1
<1>6. QED
  BY <1>3, <1>4, <1>5

LEMMA PausedIsShown ==
  ASSUME SessionInv, store.state = "paused" PROVE Playing \/ Ended
BY DEF SessionInv, PhaseInv, Starting, Failed, ControlInv

\* While the run is paused, a captured fork is of an earlier moment of it.
LEMMA CapturedIsEarlier ==
  ASSUME SessionInv, store.state = "paused", store.fork # NoFork
  PROVE  \E acts \in Schedules : \E nf, ne \in Nat :
           /\ Earlier(store.fork, acts, nf, ne)
           /\ \E k \in Nat : store.frames = Slice(F(acts), k)
           /\ \E k \in Nat : store.events = Slice(E(acts), k)
<1>1. Playing \/ Ended
  BY PausedIsShown
<1>2. PICK acts, nf, ne :
           /\ acts \in Schedules
           /\ CursorSound(acts, nf, ne) /\ ForksFit(store, toPage, acts, nf, ne)
           /\ \E c \in Cursors(nf, ne, Len(acts)) : Shown(store, page.state, acts, c)
  BY <1>1, ShownIs
<1>3. PICK c \in Cursors(nf, ne, Len(acts)) : Shown(store, page.state, acts, c)
  BY <1>2
<1>4. nf \in Nat /\ ne \in Nat
  BY <1>2, SizesAreNumbers, EngineIs DEF CursorSound
<1>5. Earlier(store.fork, acts, nf, ne)
  BY <1>2 DEF ForksFit
<1>6. c.frames \in Nat /\ c.events \in Nat
  BY <1>4 DEF Cursors
<1>7. store.frames = Slice(F(acts), c.frames) /\ store.events = Slice(E(acts), c.events)
  BY <1>3 DEF Shown
<1>8. QED
  BY <1>2, <1>4, <1>5, <1>6, <1>7

LEMMA OpenForkKeeps == SessionInv /\ OpenFork => SessionInv'
<1> SUFFICES ASSUME SessionInv, OpenFork PROVE SessionInv'
  OBVIOUS
<1> DEFINE fork == store.fork
           frames == Slice(store.frames, fork.nextFrame)
           events == Slice(store.events, fork.nextEvent)
           shown == ForkShown(fork, frames, events)
<1>1. /\ store.state = "paused" /\ fork # NoFork
      /\ Len(frames) = fork.nextFrame /\ Len(events) = fork.nextEvent
      /\ Start(fork, shown)
  BY DEF OpenFork
<1>2. PICK acts \in Schedules, nf \in Nat, ne \in Nat :
           /\ Earlier(fork, acts, nf, ne)
           /\ \E k \in Nat : store.frames = Slice(F(acts), k)
           /\ \E k \in Nat : store.events = Slice(E(acts), k)
  BY <1>1, CapturedIsEarlier
<1>3. /\ GoodFork(fork) /\ fork \in ForkType /\ fork.nextFrame \in Nat /\ fork.nextEvent \in Nat
      /\ fork.acts \in Schedules /\ fork = SessionSnapshot(fork)
      /\ Slice(F(fork.acts), fork.nextFrame) = Slice(F(acts), fork.nextFrame)
      /\ Slice(E(fork.acts), fork.nextEvent) = Slice(E(acts), fork.nextEvent)
  BY <1>2 DEF Earlier, GoodFork, ForkType
<1>4. /\ F(acts) \in Seq(Frames) /\ E(acts) \in Seq(Events)
      /\ store.frames \in Seq(Frames) /\ store.events \in Seq(Events)
  BY EngineIs DEF SessionInv, SessionTypes, StoreType
<1>5. frames = Slice(F(acts), fork.nextFrame) /\ frames \in Seq(Frames)
  <2>1. PICK k \in Nat : store.frames = Slice(F(acts), k)
    BY <1>2
  <2>2. /\ frames \in Seq(Frames) /\ Len(store.frames) \in Nat
        /\ Len(frames) = IF fork.nextFrame <= Len(store.frames) THEN fork.nextFrame ELSE Len(store.frames)
    BY <1>3, <1>4, SliceIs, LenProperties
  <2>3. fork.nextFrame <= Len(Slice(F(acts), k))
    BY <1>1, <1>3, <2>1, <2>2
  <2>4. Slice(Slice(F(acts), k), fork.nextFrame) = Slice(F(acts), fork.nextFrame)
    BY <1>3, <1>4, <2>3, SliceOfSlice
  <2>5. QED
    BY <2>1, <2>2, <2>4
<1>6. events = Slice(E(acts), fork.nextEvent) /\ events \in Seq(Events)
  <2>1. PICK k \in Nat : store.events = Slice(E(acts), k)
    BY <1>2
  <2>2. /\ events \in Seq(Events) /\ Len(store.events) \in Nat
        /\ Len(events) = IF fork.nextEvent <= Len(store.events) THEN fork.nextEvent ELSE Len(store.events)
    BY <1>3, <1>4, SliceIs, LenProperties
  <2>3. fork.nextEvent <= Len(Slice(E(acts), k))
    BY <1>1, <1>3, <2>1, <2>2
  <2>4. Slice(Slice(E(acts), k), fork.nextEvent) = Slice(E(acts), fork.nextEvent)
    BY <1>3, <1>4, <2>3, SliceOfSlice
  <2>5. QED
    BY <2>1, <2>2, <2>4
<1>7. fork.prefix.frames = frames /\ fork.prefix.events = events
  <2>1. fork.prefix = DeliveredPrefix(Simulate(fork.acts), fork.nextFrame, fork.nextEvent)
    BY <1>3 DEF SessionSnapshot
  <2>2. /\ fork.prefix.frames = Slice(F(fork.acts), fork.nextFrame)
        /\ fork.prefix.events = Slice(E(fork.acts), fork.nextEvent)
    BY <2>1 DEF DeliveredPrefix, F, E
  <2> HIDE DEF frames, events
  <2>3. QED
    BY <1>3, <1>5, <1>6, <2>2
<1> HIDE DEF frames, events
<1>8. /\ shown.state = "starting" /\ shown.fork = NoFork /\ shown.frames = frames /\ shown.events = events
      /\ shown.actions = fork.acts /\ shown.opening = TRUE /\ shown.result = NoResult
  BY DEF ForkShown, EmptyStore
<1>9. shown \in StoreType
  <2>1. fork.acts \in Seq(Actions)
    BY <1>3, ScheduleIs
  <2>2. QED
    BY <1>5, <1>6, <2>1, EmptyIsTyped DEF ForkShown, StoreType, States
<1> HIDE DEF shown, fork
<1>10. QED
  BY <1>1, <1>3, <1>7, <1>8, <1>9, StartingKeeps

\* A command posted changes nothing that is shown or under way to the page.
LEMMA CommandKeeps ==
  ASSUME SessionInv, NEW c \in Commands, c.type # "start", Command(c), PageInv',
         page'.state = page.state, page'.settled = page.settled,
         page'.pending => page.pending \/ c.type = "act",
         page'.armed => page.armed \/ c.type = "act"
  PROVE  SessionInv'
<1>1. /\ Active /\ toWorker' = Append(toWorker, c) /\ UNCHANGED <<store, run, toPage>>
      /\ SessionTypes /\ PhaseInv /\ ControlInv
  BY DEF Command, SessionInv
<1>2. toWorker \in Seq(Commands) /\ Len(toWorker) \in Nat
  BY <1>1, LenProperties DEF SessionTypes
<1>3. /\ toWorker' \in Seq(Commands) /\ Len(toWorker') = Len(toWorker) + 1
      /\ \A i \in 1 .. Len(toWorker) : i \in 1 .. Len(toWorker') /\ toWorker'[i] = toWorker[i]
      /\ toWorker'[Len(toWorker) + 1] = c /\ toWorker' # <<>>
      /\ toWorker # <<>> => Head(toWorker') = Head(toWorker)
      /\ Len(toWorker) + 1 \in 1 .. Len(toWorker')
  BY <1>1, <1>2, AppendProperties, HeadTailAppend
<1>4. SessionTypes'
  BY <1>1, <1>3 DEF SessionTypes
<1>5. Starting <=> Starting'
  <2>1. Starting => Starting'
    BY <1>1, <1>3 DEF Starting
  <2>2. Starting' => Starting
    <3>1. SUFFICES ASSUME Starting' PROVE Starting
      OBVIOUS
    <3>2. toWorker # <<>>
      <4>1. SUFFICES ASSUME toWorker = <<>> PROVE FALSE
        OBVIOUS
      <4>2. Head(toWorker') = c
        BY <1>1, <1>2, <4>1, HeadTailAppend
      <4>3. QED
        BY <3>1, <4>2 DEF Starting
    <3>3. QED
      BY <1>1, <1>3, <3>1, <3>2 DEF Starting
  <2>3. QED
    BY <2>1, <2>2
<1>6. Active' /\ (Playing => Playing') /\ (Ended => Ended') /\ (Failed => Failed')
  BY <1>1 DEF Active, Playing, Ended, Failed
<1>7. PhaseInv'
  <2>1. ASSUME NEW i \in 1 .. Len(toWorker'), toWorker'[i].type = "start" PROVE i = 1 /\ Starting'
    <3>1. i \in 1 .. Len(toWorker)
      BY <1>2, <1>3, <2>1
    <3>2. QED
      BY <1>1, <1>3, <1>5, <2>1, <3>1 DEF PhaseInv
  <2>2. ForkIsRestorable'
    BY <1>1 DEF PhaseInv, ForkIsRestorable
  <2>3. QED
    BY <1>1, <1>5, <1>6, <2>1, <2>2 DEF PhaseInv
<1>8. ControlInv'
  <2>1. ActUnderWay \/ c.type = "act" => ActUnderWay'
    BY <1>1, <1>3 DEF ActUnderWay
  <2>2. QED
    BY <1>1, <1>5, <2>1 DEF ControlInv
<1>9. QED
  BY <1>4, <1>7, <1>8 DEF SessionInv

LEMMA SimpleKeeps ==
  ASSUME SessionInv, NEW type \in CommandTypes \ {"act"}, Simple(type) PROVE SessionInv'
<1> DEFINE c == [type |-> type]
<1>1. Command(c) /\ page' = page
  BY DEF Simple
<1>2. c \in Commands /\ c.type # "start"
  BY DEF Commands, CommandTypes
<1>3. PageInv'
  BY <1>1 DEF SessionInv, PageInv, WaitingIsGuarded
<1> HIDE DEF c
<1>4. QED
  BY <1>1, <1>2, <1>3, CommandKeeps

\* The action posted is one of those the schedule is made of.
LEMMA PostedIsAction ==
  ASSUME SessionInv, store.state = "paused", NextSecond <= LastSecond, NEW kind \in Kinds, NEW lag \in Lags
  PROVE  Action(kind, Len(store.actions) + 1, NextSecond, lag) \in Actions
<1>1. Playing \/ Ended
  BY PausedIsShown
<1>2. PICK acts, nf, ne :
           /\ acts \in Schedules
           /\ CursorSound(acts, nf, ne) /\ ForksFit(store, toPage, acts, nf, ne)
           /\ \E c \in Cursors(nf, ne, Len(acts)) : Shown(store, page.state, acts, c)
  BY <1>1, ShownIs
<1>3. PICK c \in Cursors(nf, ne, Len(acts)) : Shown(store, page.state, acts, c)
  BY <1>2
<1>4. /\ acts \in Seq(Actions) /\ Len(acts) <= MaxActions /\ MaxActions \in Nat /\ LastSecond \in Nat
      /\ Len(acts) \in Nat
  <2>1. acts \in Seq(Actions) /\ Len(acts) <= MaxActions
    BY <1>2, ScheduleIs
  <2>2. QED
    BY <2>1, LenProperties, SizesAreNumbers
<1>5. c.frames \in 0 .. LastSecond + 1 /\ c.acts \in 0 .. Len(acts)
  <2>1. nf \in 0 .. LastSecond + 1
    BY <1>2 DEF CursorSound
  <2>2. c.frames \in 0 .. nf /\ c.acts \in 0 .. Len(acts)
    BY DEF Cursors
  <2>3. QED
    BY <1>4, <2>1, <2>2
<1>6. Len(store.actions) + 1 \in 1 .. MaxActions + 1
  <2>1. store.actions = Slice(acts, c.acts) /\ c.acts \in Nat /\ c.acts <= Len(acts)
    BY <1>3, <1>4, <1>5 DEF Shown
  <2>2. Len(Slice(acts, c.acts)) = c.acts
    BY <1>4, <2>1, SliceIs
  <2>3. QED
    BY <1>4, <2>1, <2>2
<1>7. NextSecond \in 1 .. LastSecond
  <2>1. store.frames = Slice(F(acts), c.frames)
    BY <1>3 DEF Shown
  <2>2. /\ store.frames \in Seq(Frames) /\ Len(store.frames) = c.frames
        /\ LastDelivered(store.frames) = c.frames - 1
    BY <1>2, <1>5, <2>1, DeliveredIs
  <2>3. CASE store.frames = <<>>
    BY <1>4, <2>3 DEF NextSecond
  <2>4. CASE store.frames # <<>>
    <3>1. Len(store.frames) # 0
      BY <2>2, <2>4, EmptySeq
    <3>2. NextSecond = c.frames - 1 + 1
      BY <2>2, <2>4 DEF NextSecond
    <3>3. QED
      BY <1>4, <1>5, <2>2, <3>1, <3>2
  <2>5. QED
    BY <2>3, <2>4
<1>8. QED
  BY <1>6, <1>7 DEF Actions

LEMMA ActPostedKeeps ==
  ASSUME SessionInv, NEW kind \in Kinds, NEW lag \in Lags, Act(kind, lag) PROVE SessionInv'
<1> DEFINE a == Action(kind, Len(store.actions) + 1, NextSecond, lag)
           c == [type |-> "act", action |-> a]
<1>1. /\ store.state = "paused" /\ NextSecond <= LastSecond /\ Command(c)
      /\ page' = [[page EXCEPT !.pending = TRUE] EXCEPT !.armed = TRUE]
  BY DEF Act, ArmSafetyTimeout
<1>2. a \in Actions
  BY <1>1, PostedIsAction
<1>3. c \in Commands /\ c.type = "act"
  BY <1>2 DEF Commands
<1>4. UserNext
  BY DEF UserNext
<1>5. PageInv /\ page \in PageType
  BY DEF SessionInv, PageInv
<1>6. PageInv'
  BY <1>4, <1>5, UserKeeps
<1>7. page'.state = page.state /\ page'.settled = page.settled
  BY <1>1, <1>5 DEF PageType
<1> HIDE DEF c
<1>8. QED
  BY <1>1, <1>3, <1>6, <1>7, CommandKeeps

LEMMA CancelKeeps == SessionInv /\ Cancel => SessionInv'
<1> SUFFICES ASSUME SessionInv, Cancel PROVE SessionInv'
  OBVIOUS
<1>1. /\ Settle("cancelled") /\ store' = [store EXCEPT !.state = "cancelled"] /\ toPage' = toPage
      /\ PageInv /\ store \in StoreType
  BY DEF Cancel, SessionInv, SessionTypes
<1>2. PageInv'
  BY <1>1, SettleKeeps
<1>3. page'.settled /\ run' = NoRun /\ toWorker' = <<>>
  BY <1>1 DEF Settle, PageInv, PageType
<1>4. store' \in StoreType /\ store'.state = "cancelled"
  BY <1>1 DEF StoreType, States
<1>5. store'.state \notin Modes /\ store'.state # "complete" /\ toPage' = toPage
  BY <1>1, <1>4 DEF Modes
<1>6. QED
  BY <1>2, <1>3, <1>4, <1>5, SettlingKeeps

LEMMA BreakKeeps == SessionInv /\ (SafetyTimeout \/ WorkerError) => SessionInv'
<1> SUFFICES ASSUME SessionInv, SafetyTimeout \/ WorkerError PROVE SessionInv'
  OBVIOUS
<1>1. /\ Settle("error") /\ store' = [store EXCEPT !.state = "error"] /\ toPage' = toPage
      /\ PageInv /\ store \in StoreType
  BY DEF SafetyTimeout, WorkerError, SessionInv, SessionTypes
<1>2. PageInv'
  BY <1>1, SettleKeeps
<1>3. page'.settled /\ run' = NoRun /\ toWorker' = <<>>
  BY <1>1 DEF Settle, PageInv, PageType
<1>4. store' \in StoreType /\ store'.state = "error"
  BY <1>1 DEF StoreType, States
<1>5. store'.state \notin Modes /\ store'.state # "complete" /\ toPage' = toPage
  BY <1>1, <1>4 DEF Modes
<1>6. QED
  BY <1>2, <1>3, <1>4, <1>5, SettlingKeeps

LEMMA EditKeeps == SessionInv /\ Edit => SessionInv'
<1> SUFFICES ASSUME SessionInv, Edit PROVE SessionInv'
  OBVIOUS
<1>1. store' = EmptyStore /\ store' \in StoreType /\ store'.state = "none" /\ toPage' = toPage
  BY EmptyIsTyped DEF Edit, EmptyStore
<1>2. PageInv /\ PageInv'
  <2>1. PageInv /\ UserNext
    BY DEF SessionInv, UserNext
  <2>2. QED
    BY <2>1, UserKeeps
<1>3. page'.settled /\ run' = NoRun /\ toWorker' = <<>>
  <2>1. CASE Active
    BY <1>2, <2>1 DEF Edit, Settle, PageInv, PageType
  <2>2. CASE ~Active
    <3>1. page' = page /\ run' = run /\ toWorker' = toWorker /\ page.settled
      BY <2>2 DEF Edit, Active
    <3>2. run = NoRun /\ toWorker = <<>>
      BY <2>2 DEF SessionInv, PhaseInv
    <3>3. QED
      BY <3>1, <3>2
  <2>3. QED
    BY <2>1, <2>2
<1>4. store'.state \notin Modes /\ store'.state # "complete"
  BY <1>1 DEF Modes
<1>5. QED
  BY <1>1, <1>2, <1>3, <1>4, SettlingKeeps

LEMMA UserStepKeeps == SessionInv /\ UserNext => SessionInv'
<1> SUFFICES ASSUME SessionInv, UserNext PROVE SessionInv'
  OBVIOUS
<1>1. CASE RunLocal
  BY <1>1, RunLocalKeeps
<1>2. CASE OpenFork
  BY <1>2, OpenForkKeeps
<1>3. CASE Cancel
  BY <1>3, CancelKeeps
<1>4. CASE Edit
  BY <1>4, EditKeeps
<1>5. CASE Pause \/ Resume \/ Step \/ Finish \/ CaptureFork \/ SetSpeed
  <2>1. \E type \in CommandTypes \ {"act"} : Simple(type)
    BY <1>5 DEF Pause, Resume, Step, Finish, CaptureFork, SetSpeed, CommandTypes
  <2>2. QED
    BY <2>1, SimpleKeeps
<1>6. ASSUME NEW kind \in Kinds, NEW lag \in Lags, Act(kind, lag) PROVE SessionInv'
  BY <1>6, ActPostedKeeps
<1>7. QED
  BY <1>1, <1>2, <1>3, <1>4, <1>5, <1>6 DEF UserNext

-----------------------------------------------------------------------------
(* What the page receives.                                                 *)

LEMMA SpliceIs ==
  ASSUME NEW S, NEW shown \in Seq(S), NEW offset \in Nat, NEW delivered \in Seq(S)
  PROVE  Splice(shown, offset, delivered) \in Seq(S)
<1> DEFINE at == Min({offset, Len(shown)})
           rest == SubSeq(shown, at + Len(delivered) + 1, Len(shown))
<1>1. Len(shown) \in Nat /\ Len(delivered) \in Nat
  BY LenProperties
<1>2. at \in Nat
  BY <1>1, LesserOfTwo
<1>3. rest \in Seq(S)
  <2> HIDE DEF at
  <2>1. \A i \in at + Len(delivered) + 1 .. Len(shown) : shown[i] \in S
    BY <1>1, <1>2, ElementOfSeq
  <2>2. at + Len(delivered) + 1 \in Int /\ Len(shown) \in Int
    BY <1>1, <1>2
  <2>3. QED
    BY <2>1, <2>2, SubSeqProperties
<1>4. Slice(shown, offset) \in Seq(S)
  BY SliceIs
<1>5. Slice(shown, offset) \o delivered \in Seq(S)
  BY <1>4, ConcatProperties
<1> HIDE DEF rest
<1>6. Slice(shown, offset) \o delivered \o rest \in Seq(S)
  BY <1>3, <1>5, ConcatProperties
<1>7. QED
  BY <1>6 DEF Splice, rest

\* A message that does not end the session is of a worker that plays or has played.
LEMMA Receipt ==
  ASSUME SessionInv, NEW types, Receive(types)
  PROVE  /\ Active /\ toPage # <<>> /\ toPage' = Tail(toPage) /\ Head(toPage).type \in types
         /\ Head(toPage) \in Replies /\ Head(toPage) = toPage[1] /\ 1 \in 1 .. Len(toPage)
         /\ PageInv /\ page \in PageType /\ store \in StoreType
         /\ Head(toPage).type \notin Endings => Playing \/ Ended
         /\ Head(toPage).type \notin Endings => page.state \in Modes /\ store.state \in Modes
<1>1. Active /\ toPage # <<>> /\ toPage' = Tail(toPage) /\ Head(toPage).type \in types
  BY DEF Receive
<1>2. Head(toPage) \in Replies /\ Head(toPage) = toPage[1] /\ 1 \in 1 .. Len(toPage)
  BY <1>1, TailsOf DEF SessionInv, SessionTypes
<1>3. PageInv /\ page \in PageType /\ store \in StoreType
  BY DEF SessionInv, SessionTypes, PageInv
<1>4. Head(toPage).type \notin Endings => Playing \/ Ended
  BY <1>1, <1>2 DEF SessionInv, PhaseInv, Starting, Failed, Endings
<1>5. store.state \in Modes
  BY <1>1 DEF SessionInv, ControlInv
<1>6. ASSUME Playing \/ Ended PROVE page.state \in Modes
  <2>1. PICK acts, nf, ne :
           /\ acts \in Schedules
           /\ CursorSound(acts, nf, ne) /\ ForksFit(store, toPage, acts, nf, ne)
           /\ \E c \in Cursors(nf, ne, Len(acts)) : Shown(store, page.state, acts, c)
    BY <1>6, ShownIs
  <2>2. PICK c \in Cursors(nf, ne, Len(acts)) : Shown(store, page.state, acts, c)
    BY <2>1
  <2>3. QED
    BY <2>2 DEF Shown, Cursors
<1>7. QED
  BY <1>1, <1>2, <1>3, <1>4, <1>5, <1>6

LEMMA BatchKeeps == SessionInv /\ ReceiveBatch => SessionInv'
<1> SUFFICES ASSUME SessionInv, ReceiveBatch PROVE SessionInv'
  OBVIOUS
<1> DEFINE m == Head(toPage)
<1>1. /\ Receive({"batch"}) /\ UNCHANGED <<page, run, toWorker>>
      /\ store' = [store EXCEPT !.frames = Splice(@, m.frameOffset, m.frames),
                                !.events = Splice(@, m.eventOffset, m.events)]
  BY DEF ReceiveBatch
<1>2. /\ Active /\ toPage # <<>> /\ toPage' = Tail(toPage) /\ m.type = "batch" /\ m \in Replies
      /\ PageInv /\ store \in StoreType /\ (m.type \notin Endings => store.state \in Modes)
  BY <1>1, Receipt
<1>3. m.frameOffset \in Nat /\ m.eventOffset \in Nat /\ m.frames \in Seq(Frames) /\ m.events \in Seq(Events)
  BY <1>2 DEF Replies
<1>4. m.type \notin Endings /\ ~Clears(m)
  BY <1>2 DEF Endings, Clears
<1> HIDE DEF m
<1>5. /\ Splice(store.frames, m.frameOffset, m.frames) \in Seq(Frames)
      /\ Splice(store.events, m.eventOffset, m.events) \in Seq(Events)
  BY <1>2, <1>3, SpliceIs DEF StoreType
<1>6. /\ store' \in StoreType /\ store'.state = store.state /\ store'.opening = store.opening
      /\ store'.frames = Splice(store.frames, m.frameOffset, m.frames)
      /\ store'.events = Splice(store.events, m.eventOffset, m.events)
      /\ store'.actions = store.actions /\ store'.fork = store.fork
  BY <1>1, <1>2, <1>5 DEF StoreType
<1>7. Takes(m, store, page.state, store', page'.state)
  BY <1>1, <1>2, <1>6 DEF Takes
<1>8. PageInv' /\ (store'.state = page'.state \/ store'.opening) /\ store'.state \in Modes
  BY <1>1, <1>2, <1>4, <1>6 DEF PageInv, WaitingIsGuarded, SessionInv, ControlInv
<1>9. QED
  BY <1>1, <1>2, <1>4, <1>6, <1>7, <1>8, ReceiptKeeps DEF m

LEMMA RunningKeeps == SessionInv /\ ReceiveRunning => SessionInv'
<1> SUFFICES ASSUME SessionInv, ReceiveRunning PROVE SessionInv'
  OBVIOUS
<1> DEFINE m == Head(toPage)
<1>1. /\ Receive({"started", "running"}) /\ UNCHANGED <<run, toWorker>>
      /\ page' = [[page EXCEPT !.state = "running"] EXCEPT !.armed = TRUE]
      /\ store' = [store EXCEPT !.state = IF store.opening /\ m.type = "started" THEN "starting" ELSE "running"]
  BY DEF ReceiveRunning, ArmSafetyTimeout
<1>2. /\ Active /\ toPage # <<>> /\ toPage' = Tail(toPage) /\ m.type \in {"started", "running"} /\ m \in Replies
      /\ PageInv /\ page \in PageType /\ store \in StoreType
  BY <1>1, Receipt
<1>3. m.type \notin Endings /\ ~Clears(m) /\ m.type # "paused"
  BY <1>2 DEF Endings, Clears
<1> HIDE DEF m
<1>4. page'.state = "running" /\ page'.settled = page.settled /\ page'.pending = page.pending
  BY <1>1, <1>2 DEF PageType
<1>5. PageInv'
  <2>1. ReceiveNext
    BY DEF ReceiveNext
  <2>2. QED
    BY <1>2, <2>1, ReceiveKeeps
<1>6. /\ store'.opening = store.opening /\ store'.frames = store.frames /\ store'.events = store.events
      /\ store'.actions = store.actions /\ store'.fork = store.fork
      /\ store'.state = "running" \/ (store'.state = "starting" /\ store.opening)
  BY <1>1, <1>2 DEF StoreType
<1>7. store' \in StoreType
  <2>1. \E state \in States : store' = [store EXCEPT !.state = state]
    BY <1>1 DEF States
  <2>2. QED
    BY <1>2, <2>1 DEF StoreType
<1>8. Takes(m, store, page.state, store', page'.state)
  BY <1>2, <1>4, <1>6 DEF Takes
<1>9. store'.state \in Modes /\ (store'.state = page'.state \/ store'.opening)
  BY <1>4, <1>6 DEF Modes
<1>10. QED
  BY <1>1, <1>2, <1>3, <1>4, <1>5, <1>6, <1>7, <1>8, <1>9, ReceiptKeeps DEF m

LEMMA PausedKeeps == SessionInv /\ ReceivePaused => SessionInv'
<1> SUFFICES ASSUME SessionInv, ReceivePaused PROVE SessionInv'
  OBVIOUS
<1> DEFINE m == Head(toPage)
<1>1. /\ Receive({"paused"}) /\ UNCHANGED <<run, toWorker>>
      /\ page' = [page EXCEPT !.state = "paused", !.pending = FALSE, !.armed = FALSE]
      /\ store' = [store EXCEPT !.state = "paused", !.opening = FALSE]
  BY DEF ReceivePaused
<1>2. /\ Active /\ toPage # <<>> /\ toPage' = Tail(toPage) /\ m.type = "paused" /\ m \in Replies
      /\ PageInv /\ page \in PageType /\ store \in StoreType
  BY <1>1, Receipt
<1>3. m.type \notin Endings
  BY <1>2 DEF Endings
<1> HIDE DEF m
<1>4. page'.state = "paused" /\ page'.settled = page.settled /\ page'.pending = FALSE /\ page'.armed = FALSE
  BY <1>1, <1>2 DEF PageType
<1>5. PageInv'
  <2>1. ReceiveNext
    BY DEF ReceiveNext
  <2>2. QED
    BY <1>2, <2>1, ReceiveKeeps
<1>6. /\ store'.opening = FALSE /\ store'.frames = store.frames /\ store'.events = store.events
      /\ store'.actions = store.actions /\ store'.fork = store.fork /\ store'.state = "paused"
      /\ store' \in StoreType
  BY <1>1, <1>2 DEF StoreType, States
<1>7. Takes(m, store, page.state, store', page'.state)
  BY <1>2, <1>4, <1>6 DEF Takes
<1>8. "paused" \in Modes
  BY DEF Modes
<1>9. QED
  BY <1>1, <1>2, <1>3, <1>4, <1>5, <1>6, <1>7, <1>8, ReceiptKeeps DEF m

LEMMA SpeedShownKeeps == SessionInv /\ ReceiveSpeed => SessionInv'
<1> SUFFICES ASSUME SessionInv, ReceiveSpeed PROVE SessionInv'
  OBVIOUS
<1> DEFINE m == Head(toPage)
<1>1. /\ Receive({"speed"}) /\ UNCHANGED <<page, run, toWorker>>
      /\ store' = [store EXCEPT !.state = page.state]
  BY DEF ReceiveSpeed
<1>2. /\ Active /\ toPage # <<>> /\ toPage' = Tail(toPage) /\ m.type = "speed" /\ m \in Replies
      /\ PageInv /\ page \in PageType /\ store \in StoreType
      /\ m.type \notin Endings => page.state \in Modes
  BY <1>1, Receipt
<1>3. m.type \notin Endings /\ ~Clears(m)
  BY <1>2 DEF Endings, Clears
<1> HIDE DEF m
<1>4. PageInv' /\ page.state \in Modes /\ page.state \in States
  BY <1>1, <1>2, <1>3 DEF PageInv, PageType, WaitingIsGuarded
<1>5. /\ store'.opening = store.opening /\ store'.frames = store.frames /\ store'.events = store.events
      /\ store'.actions = store.actions /\ store'.fork = store.fork /\ store'.state = page.state
      /\ store' \in StoreType
  BY <1>1, <1>2, <1>4 DEF StoreType
<1>6. Takes(m, store, page.state, store', page'.state)
  BY <1>1, <1>2, <1>5 DEF Takes
<1>7. QED
  BY <1>1, <1>2, <1>3, <1>4, <1>5, <1>6, ReceiptKeeps DEF m

LEMMA AnswerKeeps == SessionInv /\ ReceiveAnswer => SessionInv'
<1> SUFFICES ASSUME SessionInv, ReceiveAnswer PROVE SessionInv'
  OBVIOUS
<1> DEFINE m == Head(toPage)
<1>1. /\ Receive({"action-applied", "command-rejected"}) /\ UNCHANGED <<run, toWorker>>
      /\ page' = IF AnswersAction(m)
                   THEN [page EXCEPT !.pending = FALSE, !.armed = @ /\ page.state # "paused"] ELSE page
      /\ store' = IF m.type = "action-applied" THEN [store EXCEPT !.actions = Append(@, m.action)] ELSE store
  BY DEF ReceiveAnswer
<1>2. /\ Active /\ toPage # <<>> /\ toPage' = Tail(toPage) /\ m \in Replies
      /\ m.type \in {"action-applied", "command-rejected"}
      /\ PageInv /\ page \in PageType /\ store \in StoreType
      /\ m.type \notin Endings => store.state \in Modes
  BY <1>1, Receipt
<1>3. m.type \notin Endings /\ (m.type = "action-applied" => m.action \in Actions)
  BY <1>2 DEF Endings, Replies
<1>4. AnswersAction(m) <=> Clears(m)
  BY <1>2 DEF AnswersAction, Clears, Endings
<1> HIDE DEF m
<1>5. PageInv'
  <2>1. ReceiveNext
    BY DEF ReceiveNext
  <2>2. QED
    BY <1>2, <2>1, ReceiveKeeps
<1>6. /\ page'.state = page.state /\ page'.settled = page.settled
      /\ page'.pending => page.pending /\ ~Clears(m)
      /\ page'.state = "paused" /\ page'.armed => page.armed /\ ~Clears(m)
  <2>1. CASE AnswersAction(m)
    <3>1. page' = [page EXCEPT !.pending = FALSE, !.armed = page.armed /\ page.state # "paused"]
      BY <1>1, <2>1
    <3>2. /\ page'.state = page.state /\ page'.settled = page.settled /\ page'.pending = FALSE
          /\ page'.armed = (page.armed /\ page.state # "paused")
      BY <1>2, <3>1 DEF PageType
    <3>3. QED
      BY <3>2
  <2>2. CASE ~AnswersAction(m)
    BY <1>1, <1>4, <2>2
  <2>3. QED
    BY <2>1, <2>2
<1>7. /\ store'.opening = store.opening /\ store'.frames = store.frames /\ store'.events = store.events
      /\ store'.actions = IF m.type = "action-applied" THEN Append(store.actions, m.action) ELSE store.actions
      /\ store'.fork = store.fork /\ store'.state = store.state
      /\ store' \in StoreType
  <2>1. CASE m.type = "action-applied"
    <3>1. Append(store.actions, m.action) \in Seq(Actions)
      BY <1>2, <1>3, <2>1, AppendProperties DEF StoreType
    <3>2. QED
      BY <1>1, <1>2, <2>1, <3>1 DEF StoreType
  <2>2. CASE m.type # "action-applied"
    BY <1>1, <1>2, <2>2
  <2>3. QED
    BY <2>1, <2>2
<1>8. Takes(m, store, page.state, store', page'.state)
  BY <1>2, <1>6, <1>7 DEF Takes
<1>9. store'.state \in Modes /\ (store'.state = page'.state \/ store'.opening)
  BY <1>2, <1>3, <1>6, <1>7 DEF SessionInv, ControlInv
<1>10. m.type \notin {"started", "running", "paused"}
  BY <1>2
<1>11. QED
  BY <1>1, <1>2, <1>3, <1>5, <1>6, <1>7, <1>8, <1>9, <1>10, ReceiptKeeps DEF m

LEMMA ForkShownKeeps == SessionInv /\ ReceiveFork => SessionInv'
<1> SUFFICES ASSUME SessionInv, ReceiveFork PROVE SessionInv'
  OBVIOUS
<1> DEFINE m == Head(toPage)
<1>1. /\ Receive({"fork-created"}) /\ UNCHANGED <<page, run, toWorker>>
      /\ store' = [store EXCEPT !.fork = m.fork]
  BY DEF ReceiveFork
<1>2. /\ Active /\ toPage # <<>> /\ toPage' = Tail(toPage) /\ m.type = "fork-created" /\ m \in Replies
      /\ PageInv /\ store \in StoreType
      /\ m.type \notin Endings => store.state \in Modes
  BY <1>1, Receipt
<1>3. m.type \notin Endings /\ ~Clears(m) /\ m.fork \in ForkType
  BY <1>2 DEF Endings, Clears, Replies
<1> HIDE DEF m
<1>4. PageInv'
  BY <1>1, <1>2 DEF PageInv, WaitingIsGuarded
<1>5. /\ store'.opening = store.opening /\ store'.frames = store.frames /\ store'.events = store.events
      /\ store'.actions = store.actions /\ store'.fork = m.fork /\ store'.state = store.state
      /\ store' \in StoreType
  BY <1>1, <1>2, <1>3 DEF StoreType
<1>6. Takes(m, store, page.state, store', page'.state)
  BY <1>1, <1>2, <1>5 DEF Takes
<1>7. store'.state \in Modes /\ (store'.state = page'.state \/ store'.opening)
  BY <1>1, <1>2, <1>3, <1>5 DEF SessionInv, ControlInv
<1>8. QED
  BY <1>1, <1>2, <1>3, <1>4, <1>5, <1>6, <1>7, ReceiptKeeps DEF m

LEMMA ErrorKeeps == SessionInv /\ ReceiveError => SessionInv'
<1> SUFFICES ASSUME SessionInv, ReceiveError PROVE SessionInv'
  OBVIOUS
<1>1. Receive({"error"}) /\ Settle("error") /\ store' = [store EXCEPT !.state = "error"]
  BY DEF ReceiveError
<1>2. toPage # <<>> /\ toPage' = Tail(toPage) /\ PageInv /\ page \in PageType /\ store \in StoreType
  BY <1>1, Receipt
<1>3. PageInv'
  BY <1>1, <1>2, SettleKeeps
<1>4. page'.settled /\ run' = NoRun /\ toWorker' = <<>>
  BY <1>1, <1>2 DEF Settle, PageType
<1>5. store' \in StoreType /\ store'.state = "error"
  BY <1>1, <1>2 DEF StoreType, States
<1>6. QED
  BY <1>2, <1>3, <1>4, <1>5, SettlingKeeps DEF Modes

\* With nothing more under way, all that was delivered is shown.
LEMMA QuietShows ==
  ASSUME NEW shown, NEW state, NEW q, Len(q) = 0, NEW acts, NEW nf, NEW ne, NEW doing,
         Delivering(shown, state, q, acts, nf, ne, doing)
  PROVE  /\ shown.frames = Slice(F(acts), nf) /\ Len(shown.frames) = nf
         /\ shown.events = Slice(E(acts), ne) /\ Len(shown.events) = ne
         /\ shown.actions = acts /\ state = doing
<1>1. acts \in Schedules /\ CursorSound(acts, nf, ne) /\ Under(shown, state, q, acts, nf, ne, Len(acts), doing)
  BY DEF Delivering
<1>2. Shown(shown, state, acts, Cursor(nf, ne, Len(acts), doing))
  BY <1>1 DEF Under
<1>3. /\ shown.frames = Slice(F(acts), nf) /\ shown.events = Slice(E(acts), ne)
      /\ shown.actions = Slice(acts, Len(acts)) /\ state = doing
  BY <1>2 DEF Shown, Cursor
<1>4. acts \in Seq(Actions)
  BY <1>1, ScheduleIs
<1>5. Slice(acts, Len(acts)) = acts
  BY <1>4, SliceWhole
<1>6. Len(Slice(F(acts), nf)) = nf
  BY <1>1, DeliveredIs DEF CursorSound
<1>7. E(acts) \in Seq(Events) /\ Len(E(acts)) \in Nat /\ ne \in Nat /\ ne <= Len(E(acts))
  BY <1>1, EngineIs DEF CursorSound
<1>8. Len(Slice(E(acts), ne)) = ne
  BY <1>7, SliceIs
<1>9. QED
  BY <1>3, <1>5, <1>6, <1>8

\* The last message of a run that ended: all of it is shown, and it is its schedule's result.
LEMMA CompleteKeeps == SessionInv /\ ReceiveComplete => SessionInv'
<1> SUFFICES ASSUME SessionInv, ReceiveComplete PROVE SessionInv'
  OBVIOUS
<1> DEFINE m == Head(toPage)
<1>1. /\ Receive({"complete"}) /\ Settle("complete")
      /\ store' = [store EXCEPT !.state = "complete", !.result = m.result]
  BY DEF ReceiveComplete
<1>2. /\ Active /\ toPage # <<>> /\ toPage' = Tail(toPage) /\ m.type = "complete" /\ m \in Replies
      /\ PageInv /\ page \in PageType /\ store \in StoreType /\ m = toPage[1] /\ 1 \in 1 .. Len(toPage)
  BY <1>1, Receipt
<1>3. PageInv'
  BY <1>1, <1>2, SettleKeeps
<1>4. page'.settled /\ run' = NoRun /\ toWorker' = <<>>
  BY <1>1, <1>2 DEF Settle, PageType
<1>5. m.result \in Results
  BY <1>2 DEF Replies
<1> HIDE DEF m
<1>6. Ended
  BY <1>2 DEF SessionInv, PhaseInv, Starting, Playing, Failed, Endings
<1>7. Len(toPage) = 1
  BY <1>2, <1>6 DEF Ended, Endings
<1>8. PICK acts \in Schedules, doing \in {"running", "paused"} :
        /\ Delivering(store, page.state, toPage, acts, LastSecond + 1, Len(E(acts)), doing)
        /\ Last(toPage).type = "complete" /\ Last(toPage).result = Simulate(acts)
  BY <1>6 DEF Ended
<1>9. m.result = Simulate(acts)
  BY <1>2, <1>7, <1>8 DEF Last
<1>10. toPage \in Seq(Replies) /\ Len(Tail(toPage)) = 0
  <2>1. toPage \in Seq(Replies)
    BY DEF SessionInv, SessionTypes
  <2>2. QED
    BY <1>2, <1>7, <2>1, TailsOf
<1>11. Delivering(store, page.state, Tail(toPage), acts, LastSecond + 1, Len(E(acts)), doing)
  <2>1. Takes(Head(toPage), store, page.state, store, page.state)
    BY <1>2 DEF Takes, m
  <2>2. QED
    BY <1>2, <1>8, <1>10, <2>1, DeliveringReceives
<1>12. store.frames = F(acts) /\ store.events = E(acts) /\ store.actions = acts
  <2>1. /\ store.frames = Slice(F(acts), LastSecond + 1) /\ store.events = Slice(E(acts), Len(E(acts)))
        /\ store.actions = acts
    <3> DEFINE q == Tail(toPage)
               nf == LastSecond + 1
               ne == Len(E(acts))
    <3>1. Len(q) = 0 /\ Delivering(store, page.state, q, acts, nf, ne, doing)
      BY <1>10, <1>11
    <3> HIDE DEF q, nf, ne
    <3>2. store.frames = Slice(F(acts), nf) /\ store.events = Slice(E(acts), ne) /\ store.actions = acts
      BY <3>1, QuietShows
    <3>3. QED
      BY <3>2 DEF nf, ne
  <2>2. F(acts) \in Seq(Frames) /\ Len(F(acts)) = LastSecond + 1 /\ E(acts) \in Seq(Events)
    BY EngineIs
  <2>3. Slice(F(acts), Len(F(acts))) = F(acts) /\ Slice(E(acts), Len(E(acts))) = E(acts)
    BY <2>2, SliceWhole
  <2>4. QED
    BY <2>1, <2>2, <2>3
<1>13. /\ store' \in StoreType /\ store'.state = "complete" /\ store'.result = m.result
       /\ store'.frames = store.frames /\ store'.events = store.events /\ store'.actions = store.actions
  BY <1>1, <1>2, <1>5 DEF StoreType, States, m
<1>14. /\ store'.result = Simulate(store'.actions)
       /\ store'.frames = store'.result.frames /\ store'.events = store'.result.events
  BY <1>9, <1>12, <1>13 DEF F, E
<1>15. QED
  <2>1. store'.state \notin Modes
    BY <1>13 DEF Modes
  <2>2. QED
    BY <1>2, <1>3, <1>4, <1>13, <1>14, <2>1, SettlingKeeps

LEMMA LateKeeps == SessionInv /\ IgnoreLate => SessionInv'
<1> SUFFICES ASSUME SessionInv, IgnoreLate PROVE SessionInv'
  OBVIOUS
<1>1. /\ ~Active /\ toPage # <<>> /\ toPage' = Tail(toPage) /\ UNCHANGED <<page, store, run, toWorker>>
      /\ store \in StoreType /\ PageInv
  BY DEF IgnoreLate, SessionInv, SessionTypes
<1>2. run = NoRun /\ toWorker = <<>> /\ store.state \notin Modes
  BY <1>1 DEF SessionInv, PhaseInv, Modes
<1>3. page'.settled /\ PageInv'
  BY <1>1 DEF Active, PageInv, WaitingIsGuarded
<1>4. store.state = "complete" =>
        /\ store.result = Simulate(store.actions)
        /\ store.frames = store.result.frames /\ store.events = store.result.events
  BY DEF SessionInv, PhaseInv
<1>5. QED
  BY <1>1, <1>2, <1>3, <1>4, SettlingKeeps

LEMMA SessionInvHolds == Spec => []SessionInv
<1>1. Init => SessionInv
  <2> SUFFICES ASSUME Init PROVE SessionInv
    OBVIOUS
  <2>1. /\ page = NoSession /\ store = EmptyStore /\ run = NoRun /\ toWorker = <<>> /\ toPage = <<>>
    BY DEF Init
  <2>2. <<>> \in Seq(Commands) /\ <<>> \in Seq(Replies) /\ Len(<<>>) = 0
    BY EmptySeq
  <2>3. DOMAIN toPage = {}
    BY <2>1, <2>2, LenProperties
  <2>4. SessionTypes
    BY <2>1, <2>2, EmptyIsTyped DEF SessionTypes
  <2>5. PageInv
    BY <2>1 DEF PageInv, PageType, States, NoSession, WaitingIsGuarded
  <2>6. ~Active /\ store.state = "none"
    BY <2>1 DEF Active, NoSession, EmptyStore
  <2>7. PhaseInv
    BY <2>1, <2>2, <2>3, <2>6 DEF PhaseInv, ForkIsRestorable
  <2>8. QED
    BY <2>4, <2>5, <2>6, <2>7 DEF SessionInv, ControlInv
<1>2. SessionInv /\ [Next]_vars => SessionInv'
  <2> SUFFICES ASSUME SessionInv, [Next]_vars PROVE SessionInv'
    OBVIOUS
  <2>1. CASE UserNext
    BY <2>1, UserStepKeeps
  <2>2. CASE WorkerNext
    BY <2>2, StartedKeeps, PauseKeeps, ResumeKeeps, StepKeeps, FinishKeeps, SpeedKeeps, ForkKeeps, ActKeeps,
       IgnoresKeeps DEF WorkerNext
  <2>3. CASE Tick
    BY <2>3, TickKeeps
  <2>4. CASE ReceiveNext
    BY <2>4, BatchKeeps, RunningKeeps, PausedKeeps, SpeedShownKeeps, AnswerKeeps, ForkShownKeeps, ErrorKeeps,
       CompleteKeeps, LateKeeps DEF ReceiveNext
  <2>5. CASE SafetyTimeout \/ WorkerError
    BY <2>5, BreakKeeps
  <2>6. CASE UNCHANGED vars
    BY <2>6 DEF vars, SessionInv, SessionTypes, PageInv, WaitingIsGuarded, PhaseInv, ControlInv, Active,
                Starting, Playing, Ended, Failed, ForkIsRestorable, ActUnderWay
  <2>7. QED
    BY <2>1, <2>2, <2>3, <2>4, <2>5, <2>6 DEF Next
<1>3. QED
  BY <1>1, <1>2, PTL DEF Spec

\* Whatever was paused, stepped, injected or restored, what is on screen is a prefix
\* of what the worker's schedule produces, all of it once the run is complete, and a
\* captured fork is accepted: for every engine, duration and batch size.
THEOREM Locked == Spec => []ShownStaysLocked
<1>1. SessionInv => ShownStaysLocked
  <2> SUFFICES ASSUME SessionInv PROVE ShownStaysLocked
    OBVIOUS
  <2>1. ASSUME run # NoRun
        PROVE  /\ IsPrefix(store.frames, Simulate(run.acts).frames)
               /\ IsPrefix(store.events, Simulate(run.acts).events)
    <3>1. Active
      BY <2>1 DEF SessionInv, PhaseInv
    <3>2. /\ run.acts \in Schedules /\ CursorSound(run.acts, run.nextFrame, run.nextEvent)
          /\ Delivering(store, page.state, toPage, run.acts, run.nextFrame, run.nextEvent, run.mode)
      BY <2>1, <3>1, PlayingRun
    <3>3. PICK h \in [0 .. Len(toPage) -> Cursors(run.nextFrame, run.nextEvent, Len(run.acts))] :
             Shown(store, page.state, run.acts, h[0])
      BY <3>2 DEF Delivering, Under
    <3>4. Len(toPage) \in Nat
      BY LenProperties DEF SessionInv, SessionTypes
    <3>5. /\ F(run.acts) \in Seq(Frames) /\ E(run.acts) \in Seq(Events)
          /\ Len(F(run.acts)) \in Nat /\ Len(E(run.acts)) \in Nat
      BY <3>2, EngineIs, LenProperties
    <3>6. h[0].frames \in Nat /\ h[0].events \in Nat
      <4>1. h[0] \in Cursors(run.nextFrame, run.nextEvent, Len(run.acts))
        BY <3>3, <3>4
      <4>2. run.nextFrame \in Nat /\ run.nextEvent \in Nat
        BY <2>1, PlayingRun
      <4>3. QED
        BY <4>1, <4>2 DEF Cursors
    <3>7. store.frames = Slice(F(run.acts), h[0].frames) /\ store.events = Slice(E(run.acts), h[0].events)
      BY <3>3 DEF Shown
    <3>8. IsPrefix(store.frames, F(run.acts))
      BY <3>5, <3>6, <3>7, SliceIsPrefix
    <3>9. IsPrefix(store.events, E(run.acts))
      BY <3>5, <3>6, <3>7, SliceIsPrefix
    <3>10. QED
      BY <3>8, <3>9 DEF F, E
  <2>2. QED
    BY <2>1 DEF ShownStaysLocked, SessionInv, PhaseInv
<1>2. QED
  BY <1>1, SessionInvHolds, PTL

\* With no command and no message under way, page, store and worker are of one mind:
\* the same state, the same schedule, everything delivered shown, nothing pending.
THEOREM Agree == Spec => []AgreeWhenQuiet
<1>1. SessionInv => AgreeWhenQuiet
  <2> SUFFICES ASSUME SessionInv, Active, toWorker = <<>>, toPage = <<>>
               PROVE  /\ run # NoRun
                      /\ page.state = run.mode
                      /\ store.state = run.mode
                      /\ page.armed = (run.mode = "running")
                      /\ run.timer = (run.mode = "running")
                      /\ ~page.pending
                      /\ store.actions = run.acts
                      /\ Len(store.frames) = run.nextFrame
                      /\ Len(store.events) = run.nextEvent
    BY DEF AgreeWhenQuiet
  <2>1. Len(toPage) = 0 /\ Len(toWorker) = 0
    OBVIOUS
  <2>2. ~Starting
    BY DEF Starting
  <2>3. run # NoRun
    BY <2>1, <2>2 DEF SessionInv, PhaseInv, Playing, Ended, Failed
  <2>4. /\ Delivering(store, page.state, toPage, run.acts, run.nextFrame, run.nextEvent, run.mode)
        /\ run.timer = (run.mode = "running") /\ run.mode \in {"running", "paused"}
    BY <2>3, PlayingRun
  <2>5. /\ page.state = run.mode /\ store.actions = run.acts
        /\ Len(store.frames) = run.nextFrame /\ Len(store.events) = run.nextEvent
    BY <2>1, <2>4, QuietShows
  <2>6. ~ActUnderWay /\ ~store.opening
    BY <2>1, <2>2 DEF ActUnderWay, SessionInv, ControlInv
  <2>7. store.state = page.state /\ ~page.pending /\ (page.state = "paused" => ~page.armed)
    BY <2>1, <2>6 DEF SessionInv, ControlInv
  <2>8. page.state = "running" => page.armed
    BY DEF SessionInv, PageInv, WaitingIsGuarded
  <2>9. page.armed \in BOOLEAN
    BY DEF SessionInv, PageInv, PageType
  <2>10. page.armed = (run.mode = "running")
    BY <2>4, <2>5, <2>7, <2>8, <2>9
  <2>11. QED
    BY <2>3, <2>4, <2>5, <2>7, <2>10
<1>2. QED
  BY <1>1, SessionInvHolds, PTL

-----------------------------------------------------------------------------
(* The pages that show what a worker computed.                             *)

Shows(file, known) == file.loaded \in known \cup {None}

\* A read that nothing has outrun is the only one of its side, and that side waits
\* for it; a comparison file is compared with the source that is shown.
ReadsInv ==
  /\ sequences \in [{"source", "other"} -> Nat]
  /\ \A r \in reads :
       /\ r.into \in {"source", "other"} /\ r.file \in Files
       /\ r.sequence \in Nat /\ r.sequence <= sequences[r.into]
       /\ r.sequence = sequences[r.into] =>
            IF r.into = "source" THEN source.loaded = None
            ELSE other.loaded = None /\ r.with = source.loaded /\ source.loaded # None
  /\ \A r, s \in reads : r.into = s.into /\ r.sequence = s.sequence => r = s

\* What handlers see is what is shown or less; what was computed is of two files.
ConsoleInv ==
  /\ Shows(source, Readable) /\ Shows(other, Readable)
  /\ drawn.source # None => drawn.source = source.loaded
  /\ drawn.other # None => drawn.other = other.loaded
  /\ inputs # None \/ output.result # None \/ active # None =>
       source.loaded # None /\ other.loaded # None
  /\ active # None => AtWork
  /\ AtWork => job.kind = "replay"
  /\ ReadsInv /\ ComparisonIsOfFiles

ConsoleIdle ==
  /\ inputs = None /\ output = NoOutput /\ active = None
  /\ AtWork => job.kind # "replay"
PanelIdle ==
  /\ estimate = Nothing /\ running = FALSE /\ session = Nothing /\ told = FALSE

\* A call and an estimate never use the worker at once.
PanelInv ==
  /\ revision \in Nat /\ running \in BOOLEAN /\ told \in BOOLEAN
  /\ session = Nothing \/ session \in Nat
  /\ running => job.kind = "robustness" /\ estimate = Nothing
  /\ Calling => session = Nothing
  /\ EstimateIsCurrent

ReplayInv    == job \in {NoJob} \cup Comparisons /\ PanelIdle /\ ConsoleInv
WorkbenchInv == job \in {NoJob} \cup Computations /\ ConsoleIdle /\ PanelInv

-----------------------------------------------------------------------------
LEMMA ComparisonStops ==
  ASSUME ReplayInv, CancelOutputComparison
  PROVE  job' \in {NoJob} \cup Comparisons /\ ~AtWork' /\ active' = None
<1>0. /\ job \in {NoJob} \cup Comparisons /\ (active # None) = (AtWork /\ job.kind = "replay")
      /\ AtWork => job.kind = "replay"
  BY DEF ReplayInv, ConsoleInv, ComparisonIsOfFiles
<1>1. CASE active = None
  BY <1>0, <1>1 DEF CancelOutputComparison, jobVars, AtWork
<1>2. CASE active # None
  <2>1. job \in Comparisons /\ job # NoJob /\ job.state = "running"
    BY <1>0, <1>2 DEF AtWork
  <2>2. job' = [job EXCEPT !.state = "cancelled"] /\ active' = None
    BY <1>2, <2>1 DEF CancelOutputComparison, CancelJob, Cancelled
  <2> QED
    BY <2>1, <2>2 DEF AtWork, Comparisons, Outcomes
<1> QED
  BY <1>1, <1>2

\* Another file outruns what is still being read, and ends what is computed.
LEMMA SourceIsSelected ==
  ASSUME ReplayInv, NEW file \in Files, SelectSourceFile(file), UNCHANGED panelVars
  PROVE  ReplayInv'
<1>0. PanelIdle /\ ConsoleInv /\ ReadsInv
  BY DEF ReplayInv, ConsoleInv
<1>1. job' \in {NoJob} \cup Comparisons /\ ~AtWork' /\ active' = None
  BY ComparisonStops DEF SelectSourceFile
<1>2. /\ source' = Reading /\ other' = Empty /\ inputs' = None /\ output' = NoOutput
      /\ drawn' = [source |-> None, other |-> None]
      /\ sequences' = [source |-> sequences.source + 1, other |-> sequences.other + 1]
      /\ reads' = reads \cup {[into |-> "source", sequence |-> sequences'.source, file |-> file, with |-> None]}
  BY DEF SelectSourceFile, Draw, Reading, Empty, OutrunReads
<1>3. ReadsInv'
  <2>1. sequences' \in [{"source", "other"} -> Nat]
    BY <1>0, <1>2 DEF ReadsInv
  <2>2. \A r \in reads : r.sequence < sequences'[r.into]
    BY <1>0, <1>2 DEF ReadsInv
  <2> DEFINE new == [into |-> "source", sequence |-> sequences'.source, file |-> file, with |-> None]
  <2>3. /\ new.into = "source" /\ new.file = file
        /\ new.sequence = sequences'["source"] /\ new.sequence \in Nat
    BY <2>1
  <2>4. reads' = reads \cup {new}
    BY <1>2
  <2> HIDE DEF new
  <2>5. \A r \in reads' :
          /\ r.into \in {"source", "other"} /\ r.file \in Files
          /\ r.sequence \in Nat /\ r.sequence <= sequences'[r.into]
    BY <1>0, <2>1, <2>2, <2>3, <2>4 DEF ReadsInv
  <2>6. \A r \in reads' : r.sequence = sequences'[r.into] => r = new
    BY <1>0, <2>1, <2>2, <2>4 DEF ReadsInv
  <2>7. \A r, s \in reads' : r.into = s.into /\ r.sequence = s.sequence => r = s
    BY <1>0, <2>2, <2>3, <2>4, <2>6 DEF ReadsInv
  <2>8. source'.loaded = None
    BY <1>2 DEF Reading
  <2> QED
    BY <2>1, <2>3, <2>5, <2>6, <2>7, <2>8 DEF ReadsInv
<1>4. PanelIdle'
  BY <1>0 DEF PanelIdle, panelVars
<1>5. ComparisonIsOfFiles'
  BY <1>1, <1>2 DEF ComparisonIsOfFiles, NoOutput
<1> QED
  BY <1>1, <1>2, <1>3, <1>4, <1>5 DEF ReplayInv, ConsoleInv, Shows, Reading, Empty, NoOutput

LEMMA OtherIsSelected ==
  ASSUME ReplayInv, NEW file \in Files, SelectComparisonFile(file), UNCHANGED panelVars
  PROVE  ReplayInv'
<1>0. PanelIdle /\ ConsoleInv /\ ReadsInv
  BY DEF ReplayInv, ConsoleInv
<1>1. job' \in {NoJob} \cup Comparisons /\ ~AtWork' /\ active' = None
  BY ComparisonStops DEF SelectComparisonFile
<1> DEFINE new == [into |-> "other", sequence |-> sequences'.other, file |-> file, with |-> drawn.source]
<1>2. /\ other' = Reading /\ inputs' = None /\ output' = NoOutput /\ UNCHANGED source
      /\ drawn' = [source |-> source.loaded, other |-> None]
      /\ sequences' = [sequences EXCEPT !.other = @ + 1]
      /\ reads' = reads \cup {new}
      /\ drawn.source # None
  BY DEF SelectComparisonFile, Draw, Reading
<1>3. ReadsInv'
  <2>1. sequences' \in [{"source", "other"} -> Nat] /\ sequences'["source"] = sequences["source"]
        /\ sequences'["other"] = sequences["other"] + 1
    BY <1>0, <1>2 DEF ReadsInv
  <2>2. \A r \in reads : r.sequence <= sequences'[r.into] /\ (r.into = "other" => r.sequence < sequences'["other"])
    BY <1>0, <2>1 DEF ReadsInv
  <2>3. /\ new.into = "other" /\ new.file = file /\ new.with = source.loaded /\ source.loaded # None
        /\ new.sequence = sequences'["other"] /\ new.sequence \in Nat
    BY <1>0, <1>2, <2>1 DEF ConsoleInv
  <2> HIDE DEF new
  <2>5. \A r \in reads' :
          /\ r.into \in {"source", "other"} /\ r.file \in Files
          /\ r.sequence \in Nat /\ r.sequence <= sequences'[r.into]
    BY <1>0, <1>2, <2>1, <2>2, <2>3 DEF ReadsInv
  <2>6. \A r \in reads' : r.into = "other" /\ r.sequence = sequences'["other"] => r = new
    BY <1>0, <1>2, <2>1, <2>2 DEF ReadsInv
  <2>7. \A r, s \in reads' : r.into = s.into /\ r.sequence = s.sequence => r = s
    BY <1>0, <1>2, <2>2, <2>3, <2>6 DEF ReadsInv
  <2>8. other'.loaded = None /\ source' = source
    BY <1>2 DEF Reading
  <2>9. \A r \in reads' : r.sequence = sequences'[r.into] =>
          IF r.into = "source" THEN source'.loaded = None
          ELSE other'.loaded = None /\ r.with = source'.loaded /\ source'.loaded # None
    <3>1. \A r \in reads' : r.into = "source" => r \in reads
      BY <1>2, <2>3
    <3> QED
      BY <1>0, <2>1, <2>3, <2>5, <2>6, <2>8, <3>1 DEF ReadsInv
  <2> QED
    BY <2>1, <2>5, <2>7, <2>9 DEF ReadsInv
<1>4. PanelIdle'
  BY <1>0 DEF PanelIdle, panelVars
<1>5. ComparisonIsOfFiles'
  BY <1>1, <1>2 DEF ComparisonIsOfFiles, NoOutput
<1> QED
  BY <1>0, <1>1, <1>2, <1>3, <1>4, <1>5 DEF ReplayInv, ConsoleInv, Shows, Reading, NoOutput

\* A file that was outrun changes nothing; one that was not is shown, and compared
\* with the source that is shown.
LEMMA FileIsShown ==
  ASSUME ReplayInv, NEW read \in reads, FileRead(read), UNCHANGED panelVars
  PROVE  ReplayInv'
<1>0. PanelIdle /\ ConsoleInv /\ ReadsInv /\ ComparisonIsOfFiles /\ job \in {NoJob} \cup Comparisons
  BY DEF ReplayInv, ConsoleInv
<1>1. /\ reads' = reads \ {read} /\ UNCHANGED <<output, sequences, active, drawn, job, worker, posted, late>>
      /\ AtWork' = AtWork
  BY DEF FileRead, jobVars, AtWork
<1>2. PanelIdle'
  BY <1>0 DEF PanelIdle, panelVars
<1>3. CASE read.sequence # sequences[read.into]
  <2>1. UNCHANGED <<source, other, inputs>>
    BY <1>3 DEF FileRead
  <2>2. ReadsInv'
    BY <1>0, <1>1, <2>1 DEF ReadsInv
  <2> QED
    BY <1>0, <1>1, <1>2, <2>1, <2>2 DEF ReplayInv, ConsoleInv, ComparisonIsOfFiles, Shows
<1>4. ASSUME read.sequence = sequences[read.into], read.into = "source" PROVE ReplayInv'
  <2>1. source.loaded = None /\ inputs = None /\ output.result = None /\ active = None /\ drawn.source = None
    BY <1>0, <1>4 DEF ConsoleInv, ReadsInv
  <2>2. source' = Opened(read.file) /\ UNCHANGED <<other, inputs>>
    BY <1>4 DEF FileRead
  <2>3. ReadsInv'
    BY <1>0, <1>1, <1>4, <2>1, <2>2 DEF ReadsInv
  <2>4. Shows(source, Readable)'
    BY <2>2 DEF Shows, Opened
  <2> QED
    BY <1>0, <1>1, <1>2, <2>1, <2>2, <2>3, <2>4 DEF ReplayInv, ConsoleInv, ComparisonIsOfFiles, Shows
<1>5. ASSUME read.sequence = sequences[read.into], read.into = "other" PROVE ReplayInv'
  <2>1. /\ other.loaded = None /\ read.with = source.loaded /\ source.loaded # None
        /\ inputs = None /\ output.result = None /\ active = None /\ drawn.other = None
    BY <1>0, <1>5 DEF ConsoleInv, ReadsInv
  <2>2. /\ other' = Opened(read.file) /\ UNCHANGED source
        /\ inputs' = IF read.file \in Readable THEN <<read.with, read.file>> ELSE None
    BY <1>5 DEF FileRead
  <2>3. ReadsInv'
    BY <1>0, <1>1, <1>5, <2>1, <2>2 DEF ReadsInv
  <2>4. Shows(other, Readable)'
    BY <2>2 DEF Shows, Opened
  <2>5. inputs' # None => inputs' = <<source'.loaded, other'.loaded>> /\ other'.loaded # None
    BY <2>1, <2>2, FilesAssumption, AnalysesAssumption DEF Opened
  <2>6. ComparisonIsOfFiles'
    BY <1>0, <1>1, <2>1, <2>5 DEF ComparisonIsOfFiles
  <2> QED
    BY <1>0, <1>1, <1>2, <2>1, <2>2, <2>3, <2>4, <2>5, <2>6 DEF ReplayInv, ConsoleInv, Shows
<1> QED
  BY <1>0, <1>3, <1>4, <1>5 DEF ReadsInv

\* What is compared are the files that were drawn, and those are shown.
LEMMA ComparisonStarts ==
  ASSUME ReplayInv, NEW refused \in BOOLEAN, StartOutputComparison(refused), UNCHANGED panelVars
  PROVE  ReplayInv'
<1>0. PanelIdle /\ ConsoleInv /\ ReadsInv /\ ComparisonIsOfFiles /\ job \in {NoJob} \cup Comparisons
  BY DEF ReplayInv, ConsoleInv
<1>1. /\ {drawn.source, drawn.other} \subseteq Files
      /\ source.loaded = drawn.source /\ other.loaded = drawn.other
      /\ source.loaded # None /\ other.loaded # None
  BY <1>0, FilesAssumption, AnalysesAssumption DEF StartOutputComparison, ConsoleInv
<1>2. Number \in Nat
  BY <1>0 DEF Number, Comparisons
<1>3. /\ job' = [id |-> Number + 1, kind |-> "replay", input |-> <<source.loaded, other.loaded>>,
                 state |-> IF refused THEN "error" ELSE "running"]
      /\ active' = (IF refused THEN None ELSE job'.id)
      /\ output' = [state |-> IF refused THEN "error" ELSE "running", result |-> None]
      /\ drawn' = [source |-> source'.loaded, other |-> other'.loaded]
      /\ UNCHANGED <<source, other, inputs, reads, sequences>>
  BY <1>1 DEF StartOutputComparison, OpenJob, Draw
<1>4. job' \in Comparisons /\ job' # NoJob
  BY <1>1, <1>2, <1>3, AnalysesAssumption DEF Comparisons, Outcomes
<1>5. ComparisonIsOfFiles'
  <2>1. CASE refused = TRUE
    BY <1>0, <1>3, <2>1 DEF ComparisonIsOfFiles, AtWork
  <2>2. CASE refused = FALSE
    BY <1>0, <1>2, <1>3, <1>4, <2>2, AnalysesAssumption DEF ComparisonIsOfFiles, AtWork
  <2> QED
    BY <2>1, <2>2
<1>6. PanelIdle' /\ ReadsInv'
  BY <1>0, <1>3 DEF PanelIdle, panelVars, ReadsInv
<1>7. AtWork' => job'.kind = "replay"
  BY <1>3
<1>8. active' # None => AtWork'
  BY <1>5 DEF ComparisonIsOfFiles
<1> QED
  BY <1>0, <1>1, <1>3, <1>4, <1>5, <1>6, <1>7, <1>8 DEF ReplayInv, ConsoleInv, Shows

LEMMA ComparisonEnds ==
  ASSUME ReplayInv, NEW outcome \in {"complete", "error"}, ComparisonSettles(outcome), UNCHANGED panelVars
  PROVE  ReplayInv'
<1>0. PanelIdle /\ ConsoleInv /\ ReadsInv /\ ComparisonIsOfFiles /\ job \in {NoJob} \cup Comparisons
  BY DEF ReplayInv, ConsoleInv
<1>1. AtWork /\ job' = [job EXCEPT !.state = outcome]
  BY DEF ComparisonSettles, JobEnds, Answered, Current, SettledAs, WorkerFails, TimesOut
<1>2. job \in Comparisons /\ active # None /\ job.id = active /\ job.input = <<source.loaded, other.loaded>>
  BY <1>0, <1>1 DEF AtWork, ConsoleInv, ComparisonIsOfFiles
<1>3. job' \in Comparisons /\ ~AtWork'
  BY <1>1, <1>2 DEF Comparisons, Outcomes, AtWork
<1>4. /\ active' = None
      /\ output' = [state |-> outcome, result |-> IF outcome = "complete" THEN job.input ELSE None]
      /\ UNCHANGED <<source, other, inputs, reads, sequences, drawn>>
  BY <1>2 DEF ComparisonSettles
<1>5. ComparisonIsOfFiles'
  BY <1>0, <1>2, <1>3, <1>4 DEF ComparisonIsOfFiles
<1>6. PanelIdle' /\ ReadsInv'
  BY <1>0, <1>4 DEF PanelIdle, panelVars, ReadsInv
<1> QED
  BY <1>0, <1>2, <1>3, <1>4, <1>5, <1>6 DEF ReplayInv, ConsoleInv, Shows

\* Steps that leave the page's job and all but what is drawn as they were.
LEMMA ConsoleRests ==
  ASSUME ReplayInv, UNCHANGED panelVars, UNCHANGED <<source, other, inputs, output, reads, sequences, active, job>>,
         UNCHANGED drawn \/ Draw
  PROVE  ReplayInv'
BY DEF ReplayInv, PanelIdle, panelVars, ConsoleInv, ReadsInv, ComparisonIsOfFiles, AtWork, Shows, Draw

LEMMA ConsoleIsLeft ==
  ASSUME ReplayInv, LeaveConsole, UNCHANGED panelVars PROVE ReplayInv'
<1>1. job' \in {NoJob} \cup Comparisons /\ ~AtWork' /\ active' = None
  BY ComparisonStops DEF LeaveConsole
<1>2. PanelIdle' /\ ReadsInv'
  BY DEF ReplayInv, ConsoleInv, PanelIdle, panelVars, ReadsInv, LeaveConsole
<1> QED
  BY <1>1, <1>2 DEF ReplayInv, ConsoleInv, ComparisonIsOfFiles, LeaveConsole, Draw, Empty, NoOutput, Shows

LEMMA ReplayStep == ReplayInv /\ [ReplayPage]_<<jobVars, consoleVars, panelVars>> => ReplayInv'
<1> SUFFICES ASSUME ReplayInv, [ReplayPage]_<<jobVars, consoleVars, panelVars>> PROVE ReplayInv'
  OBVIOUS
<1>1. UNCHANGED panelVars
  BY DEF ReplayPage
<1>2. ASSUME Render PROVE ReplayInv'
  BY <1>1, <1>2, ConsoleRests DEF Render, jobVars
<1>3. ASSUME JobNext, UNCHANGED consoleVars PROVE ReplayInv'
  BY <1>1, <1>3, ConsoleRests DEF JobNext, WorkerAccepts, WorkerSlice, WorkerAnswers, DeadlinePasses,
     Working, consoleVars
<1>4. ASSUME Hear PROVE ReplayInv'
  BY <1>1, <1>4, ConsoleRests DEF Hear, HearProgress, HearLate, consoleVars
<1>5. ASSUME UNCHANGED <<jobVars, consoleVars, panelVars>> PROVE ReplayInv'
  BY <1>5, ConsoleRests DEF jobVars, consoleVars
<1> QED
  BY <1>1, <1>2, <1>3, <1>4, <1>5, SourceIsSelected, OtherIsSelected, FileIsShown, ComparisonStarts,
     ComparisonEnds, ConsoleIsLeft DEF ReplayPage, ConsoleNext

-----------------------------------------------------------------------------
(* The workbench.                                                          *)

\* An opened job is a job; a refused one is not at work.
LEMMA JobIsOpened ==
  ASSUME job \in {NoJob} \cup Computations, NEW kind \in {"robustness", "solver", "share"},
         revision \in Nat, NEW refused \in BOOLEAN, OpenJob(kind, revision, refused)
  PROVE  /\ job' \in Computations /\ job' # NoJob
         /\ job'.kind = kind /\ job'.input = revision /\ job'.id \in Nat
         /\ AtWork' = ~refused
<1>1. Number \in Nat
  BY DEF Number, Computations
<1>2. job' = [id |-> Number + 1, kind |-> kind, input |-> revision,
              state |-> IF refused THEN "error" ELSE "running"]
  BY DEF OpenJob
<1>3. job' \in Computations /\ job' # NoJob
  BY <1>1, <1>2, AnalysesAssumption DEF Computations, Outcomes
<1>4. CASE refused = TRUE
  BY <1>1, <1>2, <1>3, <1>4 DEF AtWork
<1>5. CASE refused = FALSE
  BY <1>1, <1>2, <1>3, <1>5 DEF AtWork
<1> QED
  BY <1>4, <1>5

LEMMA EstimateStops ==
  ASSUME WorkbenchInv, DropSession
  PROVE  /\ job' \in {NoJob} \cup Computations /\ session' = Nothing
         /\ AtWork' => AtWork /\ job'.kind # "robustness" /\ job'.kind # "replay"
<1>0. /\ job \in {NoJob} \cup Computations
      /\ AtWork => job.kind # "replay"
      /\ session # Nothing => AtWork
      /\ AtWork /\ job.kind = "robustness" => session # Nothing
  BY DEF WorkbenchInv, ConsoleIdle, PanelInv, EstimateIsCurrent
<1>1. CASE session = Nothing
  <2>1. session' = Nothing /\ job' = job
    BY <1>1 DEF DropSession, jobVars
  <2> QED
    BY <1>0, <1>1, <2>1 DEF AtWork
<1>2. CASE session # Nothing
  <2>1. job \in Computations /\ job # NoJob /\ job.state = "running"
    BY <1>0, <1>2 DEF AtWork
  <2>2. job' = [job EXCEPT !.state = "cancelled"] /\ session' = Nothing
    BY <1>2, <2>1 DEF DropSession, CancelJob, Cancelled
  <2>3. job' \in Computations /\ job'.state = "cancelled"
    BY <2>1, <2>2 DEF Computations, Outcomes
  <2> QED
    BY <2>2, <2>3 DEF AtWork
<1> QED
  BY <1>1, <1>2

LEMMA WorkbenchStep == WorkbenchInv /\ [WorkbenchPage]_<<jobVars, consoleVars, panelVars>> => WorkbenchInv'
<1> SUFFICES ASSUME WorkbenchInv, [WorkbenchPage]_<<jobVars, consoleVars, panelVars>> PROVE WorkbenchInv'
  OBVIOUS
<1>0. job \in {NoJob} \cup Computations /\ ConsoleIdle /\ PanelInv /\ EstimateIsCurrent
  BY DEF WorkbenchInv, PanelInv
<1>a. UNCHANGED <<inputs, output, active>>
  BY DEF WorkbenchPage, consoleVars
<1>1. ASSUME Revise PROVE WorkbenchInv'
  <2>1. /\ revision' = revision + 1 /\ running' = FALSE /\ told' = FALSE /\ estimate' = Nothing
        /\ call' = call /\ ~Calling /\ DropSession
    BY <1>1 DEF Revise, RevisionEffect
  <2>2. /\ job' \in {NoJob} \cup Computations /\ session' = Nothing
        /\ AtWork' => job'.kind # "robustness" /\ job'.kind # "replay"
    BY <2>1, EstimateStops
  <2>3. revision' \in Nat
    BY <1>0, <2>1 DEF PanelInv
  <2>4. PanelInv'
    BY <2>1, <2>2, <2>3 DEF PanelInv, EstimateIsCurrent
  <2>5. ConsoleIdle'
    BY <1>0, <1>a, <2>2 DEF ConsoleIdle, NoOutput
  <2> QED
    BY <2>2, <2>4, <2>5 DEF WorkbenchInv
<1>2. ASSUME ToggleWorkbench PROVE WorkbenchInv'
  <2>1. CASE open
    BY <1>0, <1>a, <1>2, <2>1, EstimateStops
    DEF ToggleWorkbench, WorkbenchInv, ConsoleIdle, PanelInv, EstimateIsCurrent, Calling
  <2>2. CASE ~open
    BY <1>0, <1>a, <1>2, <2>2
    DEF ToggleWorkbench, jobVars, AtWork, WorkbenchInv, ConsoleIdle, PanelInv, EstimateIsCurrent, Calling
  <2> QED
    BY <2>1, <2>2
<1>3. ASSUME CancelRobustness PROVE WorkbenchInv'
  BY <1>0, <1>a, <1>3, EstimateStops
  DEF CancelRobustness, WorkbenchInv, ConsoleIdle, PanelInv, EstimateIsCurrent, Calling
<1>4. ASSUME NEW refused \in BOOLEAN, RunRobustness(refused) PROVE WorkbenchInv'
  <2>1. /\ job' \in Computations /\ job'.kind = "robustness" /\ job'.input = revision
        /\ job'.id \in Nat /\ AtWork' = ~refused
    BY <1>0, <1>4, JobIsOpened DEF RunRobustness, StartRobustnessAnalysis, PanelInv
  <2>2. /\ session' = IF refused THEN Nothing ELSE job'.id
        /\ estimate' = Nothing /\ running' = ~refused /\ told' = refused
        /\ UNCHANGED <<revision, open, call>> /\ ~Calling
    BY <1>4 DEF RunRobustness
  <2>3. CASE refused = TRUE
    BY <1>0, <1>a, <2>1, <2>2, <2>3
    DEF WorkbenchInv, ConsoleIdle, PanelInv, EstimateIsCurrent, Calling
  <2>4. CASE refused = FALSE
    BY <1>0, <1>a, <2>1, <2>2, <2>4, AnalysesAssumption
    DEF WorkbenchInv, ConsoleIdle, PanelInv, EstimateIsCurrent, Calling
  <2> QED
    BY <2>3, <2>4
<1>5. ASSUME NEW kind \in {"solver", "share"}, NEW refused \in BOOLEAN, OpenJob(kind, revision, refused),
             session = Nothing, UNCHANGED <<revision, open, session, estimate, running, told>>
      PROVE  WorkbenchInv'
  <2>1. job' \in Computations /\ job'.kind = kind
    BY <1>0, <1>5, JobIsOpened DEF PanelInv
  <2> QED
    BY <1>0, <1>a, <1>5, <2>1 DEF WorkbenchInv, ConsoleIdle, PanelInv, EstimateIsCurrent
<1>6. ASSUME NEW available \in BOOLEAN, NEW refused \in BOOLEAN, Solve(available, refused)
      PROVE  WorkbenchInv'
  <2>1. CASE available
    BY <1>0, <1>a, <1>6, <2>1
    DEF Solve, jobVars, AtWork, WorkbenchInv, ConsoleIdle, PanelInv, EstimateIsCurrent
  <2>2. CASE ~available
    BY <1>5, <1>6, <2>2 DEF Solve, RunLocally
  <2> QED
    BY <2>1, <2>2
<1>7. ASSUME NEW succeeds \in BOOLEAN, NEW refused \in BOOLEAN, CanonicalAnswers(succeeds, refused)
      PROVE  WorkbenchInv'
  <2>0. session = Nothing
    BY <1>0, <1>7 DEF CanonicalAnswers, PanelInv, Calling
  <2>1. CASE succeeds
    BY <1>0, <1>a, <1>7, <2>0, <2>1
    DEF CanonicalAnswers, jobVars, AtWork, WorkbenchInv, ConsoleIdle, PanelInv, EstimateIsCurrent
  <2>2. CASE ~succeeds
    BY <1>5, <1>7, <2>0, <2>2 DEF CanonicalAnswers, RunLocally
  <2> QED
    BY <2>1, <2>2
<1>8. ASSUME NEW refused \in BOOLEAN, DecodeShare(refused) PROVE WorkbenchInv'
  BY <1>5, <1>8 DEF DecodeShare
<1>9. ASSUME NEW outcome \in {"complete", "error"}, AtWork, JobEnds(outcome)
      PROVE  job' \in Computations /\ ~AtWork'
  <2>1. job' = [job EXCEPT !.state = outcome]
    BY <1>9 DEF JobEnds, Answered, SettledAs, WorkerFails, TimesOut
  <2>2. job \in Computations
    BY <1>0, <1>9 DEF AtWork
  <2> QED
    BY <2>1, <2>2 DEF AtWork, Computations, Outcomes
<1>10. ASSUME NEW outcome \in {"complete", "error"}, RobustnessSettles(outcome) PROVE WorkbenchInv'
  <2>1. job' \in Computations /\ ~AtWork'
    BY <1>9, <1>10 DEF RobustnessSettles
  <2>2. session # Nothing /\ session = job.id /\ job.input = revision /\ running /\ estimate = Nothing /\ ~told
    BY <1>0, <1>10 DEF RobustnessSettles, PanelInv, EstimateIsCurrent
  <2>3. /\ estimate' = IF outcome = "complete" THEN revision ELSE Nothing
        /\ told' = (outcome = "error") /\ session' = Nothing /\ running' = FALSE
        /\ UNCHANGED <<revision, open, call>>
    BY <1>10, <2>2 DEF RobustnessSettles
  <2> QED
    BY <1>0, <1>a, <2>1, <2>3 DEF WorkbenchInv, ConsoleIdle, PanelInv, EstimateIsCurrent, Calling
<1>11. ASSUME NEW outcome \in {"complete", "error"}, CallSettles(outcome) PROVE WorkbenchInv'
  <2>1. job' \in Computations /\ ~AtWork'
    BY <1>9, <1>11 DEF CallSettles
  <2>2. session = Nothing
    BY <1>0, <1>11 DEF CallSettles, PanelInv, EstimateIsCurrent
  <2> QED
    BY <1>0, <1>a, <1>11, <2>1, <2>2
    DEF CallSettles, WorkbenchInv, ConsoleIdle, PanelInv, EstimateIsCurrent
<1>12. ASSUME UNCHANGED job, UNCHANGED panelVars PROVE WorkbenchInv'
  BY <1>0, <1>a, <1>12
  DEF panelVars, AtWork, WorkbenchInv, ConsoleIdle, PanelInv, EstimateIsCurrent, Calling
<1>13. ASSUME HearWorker \/ (JobNext /\ UNCHANGED panelVars) \/ UNCHANGED <<jobVars, consoleVars, panelVars>>
       PROVE  UNCHANGED job /\ UNCHANGED panelVars
  BY <1>13 DEF HearWorker, HearProgress, HearLate, JobNext, WorkerAccepts, WorkerSlice, WorkerAnswers,
     DeadlinePasses, Working, jobVars
<1> QED
  BY <1>1, <1>2, <1>3, <1>4, <1>6, <1>7, <1>8, <1>10, <1>11, <1>12, <1>13 DEF WorkbenchPage, PanelNext

LEMMA AnalysesStart == AnalysesInit => ReplayInv /\ WorkbenchInv
<1> SUFFICES ASSUME AnalysesInit PROVE ReplayInv /\ WorkbenchInv
  OBVIOUS
<1>1. job = NoJob /\ ~AtWork
  BY DEF AnalysesInit, JobInit, AtWork
<1>2. PanelIdle /\ PanelInv
  BY <1>1 DEF AnalysesInit, PanelInit, PanelIdle, PanelInv, EstimateIsCurrent, Calling
<1>3. /\ source.loaded = None /\ other.loaded = None /\ inputs = None /\ output = NoOutput
      /\ reads = {} /\ sequences = [source |-> 0, other |-> 0]
      /\ active = None /\ drawn.source = None /\ drawn.other = None
  BY DEF AnalysesInit, ConsoleInit, Empty
<1>4. ReadsInv
  BY <1>3 DEF ReadsInv
<1>5. ComparisonIsOfFiles
  BY <1>1, <1>3 DEF ComparisonIsOfFiles, NoOutput
<1>6. ConsoleInv /\ ConsoleIdle
  BY <1>1, <1>3, <1>4, <1>5 DEF ConsoleInv, ConsoleIdle, NoOutput, Shows
<1> QED
  BY <1>1, <1>2, <1>6 DEF ReplayInv, WorkbenchInv

-----------------------------------------------------------------------------
\* The comparison shown is of the two files shown, the estimate of the revision
\* shown, and each page says that it computes exactly while a worker computes
\* this, for all files, edits, jobs and messages that come too late
\* (ReplayPage.tsx, DecisionWorkbench.tsx).
THEOREM AnalysesHold == (Comparing \/ Estimating) => []AnalysesAreCurrent
<1>1. ReplayInv => AnalysesAreCurrent
  BY DEF ReplayInv, ConsoleInv, PanelIdle, AnalysesAreCurrent, EstimateIsCurrent
<1>2. WorkbenchInv => AnalysesAreCurrent
  BY DEF WorkbenchInv, ConsoleIdle, NoOutput, PanelInv, AnalysesAreCurrent, ComparisonIsOfFiles
<1>3. Comparing => []AnalysesAreCurrent
  BY <1>1, AnalysesStart, ReplayStep, PTL DEF Comparing
<1>4. Estimating => []AnalysesAreCurrent
  BY <1>2, AnalysesStart, WorkbenchStep, PTL DEF Estimating
<1> QED
  BY <1>3, <1>4

-----------------------------------------------------------------------------
(* ScenarioDrafting                                                        *)

\* Ids: of what the user added and of what the compiler made.
ObjectiveIds ==
  {<<"requirement", n>> : n \in Nat} \cup
  {<<"ai-requirement", n, i, s>> : n \in Nat, i \in Intents, s \in Scopes}
Given == [at : {Literal(2, "s")}, magnitude : {Literal(3, "x"), Literal(2, "s")}]
IncidentIds ==
  {<<"incident", n>> : n \in Nat} \cup {<<"ai-incident", n, v>> : n \in Nat, v \in Given}
IsTemplate(id) == \E n \in Nat : id = <<"requirement", n>> \/ id = <<"incident", n>>

Objective ==
  [id : ObjectiveIds, metric : {"p99LatencyMs", "p95LatencyMs", "availability"},
   operator : {"lte", "gte"}, target : Int,
   visibility : {"public", "hidden", "derived"}, owner : {"interviewer", "scenario", "candidate"}]
Incident == [id : IncidentIds, atSecond : Int, magnitude : Int]
Draft ==
  [requirements : Seq(Objective), incidents : Seq(Incident), peakRps : Int,
   candidateBrief : {"blank", "written", "worded"}, interviewerBrief : {"blank", "written"}]

Peaks == {Literal(500, "rps"), Literal(50, "rps"), Literal(2, "s")}
Output ==
  [requirements : Seq(Intents), scopes : Seq(Scopes), peak : Seq(Peaks),
   incidents : Seq(Given), candidateBrief : {"blank", "worded"}]

DifferentIds(seq) == \A j, k \in DOMAIN seq : seq[j].id = seq[k].id => j = k

\* What is kept of a sequence are its elements at the places, and ids that differed differ.
LEMMA KeptElements ==
  ASSUME NEW S, NEW seq \in Seq(S), NEW places \in SUBSET (1..Len(seq))
  PROVE  /\ Keep(seq, places) \in Seq(S)
         /\ ToSet(Keep(seq, places)) = {seq[k] : k \in places}
         /\ DifferentIds(seq) => DifferentIds(Keep(seq, places))
<1> DEFINE N == Cardinality(places)
           kept == Keep(seq, places)
<1>1. DOMAIN seq = 1..Len(seq) /\ places \subseteq Nat
  OBVIOUS
<1>2. kept \in Seq(S) /\ Len(kept) = N /\ N \in Nat
  BY KeepKeeps
<1>3. \E at \in [1..N -> places] :
        /\ \A n \in 1..N : kept[n] = seq[at[n]]
        /\ \A m, n \in 1..N : m < n => at[m] < at[n]
        /\ \A k \in places : \E n \in 1..N : at[n] = k
  BY KeepKeeps
<1> HIDE DEF kept, N
<1>4. PICK at \in [1..N -> places] :
        /\ \A n \in 1..N : kept[n] = seq[at[n]]
        /\ \A m, n \in 1..N : m < n => at[m] < at[n]
        /\ \A k \in places : \E n \in 1..N : at[n] = k
  BY <1>3
<1>5. DOMAIN kept = 1..N
  BY <1>2
<1>6. ToSet(kept) = {seq[k] : k \in places}
  <2>1. ToSet(kept) = {kept[n] : n \in 1..N}
    BY <1>5 DEF ToSet
  <2>2. ASSUME NEW n \in 1..N PROVE kept[n] \in {seq[k] : k \in places}
    <3>1. at[n] \in places /\ kept[n] = seq[at[n]]
      BY <1>4
    <3> QED
      BY <3>1
  <2>3. ASSUME NEW k \in places PROVE seq[k] \in {kept[n] : n \in 1..N}
    <3>1. PICK n \in 1..N : at[n] = k
      BY <1>4
    <3>2. kept[n] = seq[k]
      BY <1>4, <3>1
    <3> QED
      BY <3>2
  <2> QED
    BY <2>1, <2>2, <2>3
<1>7. ASSUME DifferentIds(seq), NEW m \in DOMAIN kept, NEW n \in DOMAIN kept, kept[m].id = kept[n].id PROVE m = n
  <2>1. m \in 1..N /\ n \in 1..N
    BY <1>5, <1>7
  <2>2. at[m] \in places /\ at[n] \in places
    BY <1>4, <2>1
  <2>3. at[m] \in DOMAIN seq /\ at[n] \in DOMAIN seq
    BY <1>1, <2>2
  <2>4. seq[at[m]].id = seq[at[n]].id
    BY <1>4, <1>7, <2>1
  <2>5. at[m] = at[n]
    BY <1>7, <2>3, <2>4 DEF DifferentIds
  <2>6. at[m] \in Nat /\ m \in Nat /\ n \in Nat
    <3>1. m \in Nat /\ n \in Nat
      BY <1>2, <2>1
    <3>2. at[m] \in Nat
      BY <1>1, <2>2
    <3> QED
      BY <3>1, <3>2
  <2>7. ~(m < n) /\ ~(n < m)
    BY <1>4, <2>1, <2>5, <2>6
  <2> QED
    BY <2>6, <2>7
<1> QED
  BY <1>2, <1>6, <1>7 DEF kept, DifferentIds

\* As many ids as elements: no two are the same.
LEMMA CountedIdsDiffer ==
  ASSUME NEW S, NEW seq \in Seq(S), Cardinality(IdsOf(seq)) = Len(seq)
  PROVE  DifferentIds(seq)
<1> DEFINE f == [k \in 1..Len(seq) |-> seq[k].id]
<1>1. Len(seq) \in Nat /\ DOMAIN seq = 1..Len(seq)
  OBVIOUS
<1>2. IsFiniteSet(1..Len(seq)) /\ Cardinality(1..Len(seq)) = Len(seq)
  <2>1. PICK n \in Nat : n = Len(seq)
    BY <1>1
  <2>2. IsFiniteSet(1..n) /\ Cardinality(1..n) = n
    <3>1. n \in Int /\ 1 \in Int
      BY <2>1
    <3>2. IsFiniteSet(1..n) /\ Cardinality(1..n) = IF 1 > n THEN 0 ELSE n - 1 + 1
      BY <3>1, FS_Interval
    <3> QED
      BY <2>1, <3>2
  <2> QED
    BY <2>1, <2>2
<1>3. IdsOf(seq) = {seq[k].id : k \in 1..Len(seq)}
  BY <1>1, Zenon DEF IdsOf, ToSet
<1>4. f \in Surjection(1..Len(seq), IdsOf(seq))
  BY <1>3, Zenon DEF Surjection
<1>5. f \in Injection(1..Len(seq), IdsOf(seq))
  <2> HIDE DEF f
  <2> QED
    BY <1>2, <1>4, FS_Surjection
<1>6. \A j, k \in 1..Len(seq) : f[j] = f[k] => j = k
  <2> HIDE DEF f
  <2> QED
    BY <1>5 DEF Injection, IsInjective
<1> QED
  BY <1>1, <1>6 DEF DifferentIds

\* The ids of the two kinds of objectives.
LEMMA IdsAre ==
  /\ \A n \in Nat : <<"requirement", n>> \in ObjectiveIds /\ IsTemplate(<<"requirement", n>>)
  /\ \A n \in Nat : <<"incident", n>> \in IncidentIds /\ IsTemplate(<<"incident", n>>)
  /\ \A m, n \in Nat : <<"requirement", m>> = <<"requirement", n>> => m = n
  /\ \A n \in Nat, i \in Intents, s \in Scopes :
       <<"ai-requirement", n, i, s>> \in ObjectiveIds /\ ~IsTemplate(<<"ai-requirement", n, i, s>>)
  /\ \A n \in Nat, v \in Given : <<"ai-incident", n, v>> \in IncidentIds
<1>1. \A n \in Nat : <<"requirement", n>> \in ObjectiveIds /\ IsTemplate(<<"requirement", n>>)
  BY DEF ObjectiveIds, IsTemplate
<1>2. \A n \in Nat : <<"incident", n>> \in IncidentIds /\ IsTemplate(<<"incident", n>>)
  BY DEF IncidentIds, IsTemplate
<1>3. \A m, n \in Nat : <<"requirement", m>> = <<"requirement", n>> => m = n
  OBVIOUS
<1>4. \A n \in Nat, i \in Intents, s \in Scopes : <<"ai-requirement", n, i, s>> \in ObjectiveIds
  BY DEF ObjectiveIds
<1>5. \A n, i, s : ~IsTemplate(<<"ai-requirement", n, i, s>>)
  BY DEF IsTemplate
<1>6. \A n \in Nat, v \in Given : <<"ai-incident", n, v>> \in IncidentIds
  BY DEF IncidentIds
<1> QED
  BY <1>1, <1>2, <1>3, <1>4, <1>5, <1>6

LEMMA OutputsAre ==
  /\ Outputs \subseteq Output
  /\ \A o \in Outputs : Len(o.requirements) = Len(o.scopes)
<1>1. Good \in Intents
  <2>1. Literal(2, "s") \in {Literal(2, "s"), Literal(99, "%"), Range95}
    OBVIOUS
  <2> QED
    BY <2>1 DEF Good, Intents, Metrics
<1>2. NoChange \in Output
  <2>1. <<>> \in Seq(Intents) /\ <<>> \in Seq(Scopes) /\ <<>> \in Seq(Peaks) /\ <<>> \in Seq(Given)
    OBVIOUS
  <2> QED
    BY <2>1 DEF NoChange, Output
<1> DEFINE WithOne(i, s) == [NoChange EXCEPT !.requirements = <<i>>, !.scopes = <<s>>]
           WithTwo(s) == [NoChange EXCEPT !.requirements = <<Good, Good>>, !.scopes = <<s, s>>]
           WithPeak(v) == [NoChange EXCEPT !.peak = v]
           WithIncident(m) == [NoChange EXCEPT !.incidents = <<[at |-> Literal(2, "s"), magnitude |-> m]>>,
                                               !.candidateBrief = "worded"]
           Stating == {<<Literal(500, "rps")>>, <<Literal(50, "rps")>>, <<Literal(2, "s")>>,
                       <<Literal(500, "rps"), Literal(500, "rps")>>}
           Magnitudes == {Literal(3, "x"), Literal(2, "s")}
<1>3. ASSUME NEW i \in Intents, NEW s \in Scopes
      PROVE  WithOne(i, s) \in Output /\ Len(WithOne(i, s).requirements) = Len(WithOne(i, s).scopes)
  <2>1. <<i>> \in Seq(Intents) /\ <<s>> \in Seq(Scopes) /\ Len(<<i>>) = Len(<<s>>)
    BY <1>3
  <2>2. PICK q \in Seq(Intents) : q = <<i>>
    BY <2>1
  <2>3. PICK t \in Seq(Scopes) : t = <<s>>
    BY <2>1
  <2>4. PICK o : o = [NoChange EXCEPT !.requirements = q, !.scopes = t]
    OBVIOUS
  <2>5. o \in Output /\ o.requirements = q /\ o.scopes = t
    BY <1>2, <2>2, <2>3, <2>4 DEF Output
  <2>6. WithOne(i, s) = o
    BY <2>2, <2>3, <2>4
  <2> HIDE DEF WithOne
  <2> QED
    BY <2>1, <2>2, <2>3, <2>5, <2>6
<1>4. ASSUME NEW s \in Scopes
      PROVE  WithTwo(s) \in Output /\ Len(WithTwo(s).requirements) = Len(WithTwo(s).scopes)
  <2>1. <<Good, Good>> \in Seq(Intents) /\ <<s, s>> \in Seq(Scopes) /\ Len(<<Good, Good>>) = Len(<<s, s>>)
    BY <1>1, <1>4
  <2>2. PICK q \in Seq(Intents) : q = <<Good, Good>>
    BY <2>1
  <2>3. PICK t \in Seq(Scopes) : t = <<s, s>>
    BY <2>1
  <2>4. PICK o : o = [NoChange EXCEPT !.requirements = q, !.scopes = t]
    OBVIOUS
  <2>5. o \in Output /\ o.requirements = q /\ o.scopes = t
    BY <1>2, <2>2, <2>3, <2>4 DEF Output
  <2>6. WithTwo(s) = o
    BY <2>2, <2>3, <2>4
  <2> HIDE DEF WithTwo
  <2> QED
    BY <2>1, <2>2, <2>3, <2>5, <2>6
<1>n. NoChange.requirements = <<>> /\ NoChange.scopes = <<>>
  BY DEF NoChange
<1>5. ASSUME NEW v \in Stating
      PROVE  WithPeak(v) \in Output /\ Len(WithPeak(v).requirements) = Len(WithPeak(v).scopes)
  <2>1. v \in Seq(Peaks)
    <3>1. PICK x, y, z : x = Literal(500, "rps") /\ y = Literal(50, "rps") /\ z = Literal(2, "s")
      OBVIOUS
    <3>2. x \in Peaks /\ y \in Peaks /\ z \in Peaks
      BY <3>1 DEF Peaks
    <3>3. v = <<x>> \/ v = <<y>> \/ v = <<z>> \/ v = <<x, x>>
      BY <1>5, <3>1
    <3>4. <<x>> \in Seq(Peaks) /\ <<y>> \in Seq(Peaks) /\ <<z>> \in Seq(Peaks) /\ <<x, x>> \in Seq(Peaks)
      BY <3>2
    <3>5. CASE v = <<x>>
      BY <3>4, <3>5, Zenon
    <3>6. CASE v = <<y>>
      BY <3>4, <3>6, Zenon
    <3>7. CASE v = <<z>>
      BY <3>4, <3>7, Zenon
    <3>8. CASE v = <<x, x>>
      BY <3>4, <3>8, Zenon
    <3> QED
      BY <3>3, <3>5, <3>6, <3>7, <3>8, Zenon
  <2> QED
    BY <1>2, <1>n, <2>1 DEF Output
<1>6. ASSUME NEW m \in Magnitudes
      PROVE  WithIncident(m) \in Output /\ Len(WithIncident(m).requirements) = Len(WithIncident(m).scopes)
  <2>1. PICK v \in Seq(Given) : v = <<[at |-> Literal(2, "s"), magnitude |-> m]>>
    <3>1. PICK w : w = [at |-> Literal(2, "s"), magnitude |-> m]
      OBVIOUS
    <3>2. w \in Given
      <4>1. Literal(2, "s") \in {Literal(2, "s")}
        OBVIOUS
      <4> QED
        BY <1>6, <3>1, <4>1 DEF Given
    <3>3. <<w>> \in Seq(Given)
      BY <3>2
    <3> QED
      BY <3>1, <3>3
  <2>2. PICK o : o = [NoChange EXCEPT !.incidents = v, !.candidateBrief = "worded"]
    OBVIOUS
  <2>3. o \in Output /\ o.requirements = NoChange.requirements /\ o.scopes = NoChange.scopes
    BY <1>2, <2>1, <2>2 DEF Output
  <2>4. WithIncident(m) = o
    BY <2>1, <2>2
  <2> HIDE DEF WithIncident
  <2> QED
    BY <1>n, <2>3, <2>4
<1>7. Outputs = {WithOne(i, s) : i \in Intents, s \in Scopes} \cup {WithTwo(s) : s \in Scopes}
                \cup {WithPeak(v) : v \in Stating} \cup {WithIncident(m) : m \in Magnitudes}
  BY DEF Outputs
<1> HIDE DEF WithOne, WithTwo, WithPeak, WithIncident, Stating, Magnitudes
<1> QED
  BY <1>3, <1>4, <1>5, <1>6, <1>7

\* Phrases that state one number.
LEMMA PhrasesAre ==
  /\ \A i \in Intents : i.targetSource.numbers \in Seq(Int) /\ i.metric \in {"p95LatencyMs", "availability"} /\ i.operator \in {"lte", "gte"}
  /\ \A p \in Peaks : p.numbers \in Seq(Int)
  /\ \A v \in Given : v.at.numbers \in Seq(Int) /\ v.magnitude.numbers \in Seq(Int)
<1>1. \A n \in Int : \A u : Literal(n, u).numbers \in Seq(Int)
  BY DEF Literal, Phrase
<1>2. Range95.numbers \in Seq(Int)
  BY DEF Range95, Phrase
<1>3. ASSUME NEW i \in Intents
      PROVE  /\ i.targetSource.numbers \in Seq(Int)
             /\ i.metric \in {"p95LatencyMs", "availability"} /\ i.operator \in {"lte", "gte"}
  <2>1. /\ i.targetSource \in {Literal(2, "s"), Literal(99, "%"), Range95}
        /\ i.metric \in {"p95LatencyMs", "availability"} /\ i.operator \in {"lte", "gte"}
    BY DEF Intents, Metrics
  <2> QED
    BY <1>1, <1>2, <2>1
<1>4. \A p \in Peaks : p.numbers \in Seq(Int)
  BY <1>1 DEF Peaks
<1>5. ASSUME NEW v \in Given PROVE v.at.numbers \in Seq(Int) /\ v.magnitude.numbers \in Seq(Int)
  <2>1. v.at \in {Literal(2, "s")} /\ v.magnitude \in {Literal(3, "x"), Literal(2, "s")}
    BY DEF Given
  <2> QED
    BY <1>1, <2>1
<1> QED
  BY <1>3, <1>4, <1>5

-----------------------------------------------------------------------------
(* What the compiler makes of a brief.                                      *)

\* An objective made of an accepted intent is stated in the brief, and seen by whom its scope says.
LEMMA IntentIsStated ==
  ASSUME NEW i \in Intents, NEW s \in Scopes, NEW n \in Nat, AcceptsIntent(brief, i)
  PROVE  LET o == RequirementFromIntent(i, s, n)
         IN /\ o \in Objective /\ ~IsTemplate(o.id)
            /\ [metric |-> o.metric, operator |-> o.operator, target |-> o.target] \in Stated
            /\ o.visibility = "hidden" <=> s = "interview-private"
            /\ o.visibility = "derived" <=> s = "candidate-derived"
<1> DEFINE o == RequirementFromIntent(i, s, n)
           target == TargetForMetric(i.metric, i.targetSource)
<1>1. /\ i.metric \in {"p95LatencyMs", "availability"} /\ i.operator \in {"lte", "gte"}
      /\ i.targetSource.numbers \in Seq(Int)
  BY PhrasesAre
<1>2. /\ i.metricSource \in brief /\ i.operatorSource \in brief /\ i.targetSource \in brief
      /\ MetricNamed(brief, i) /\ OperatorNamed(brief, i) /\ ParsesTo(i.targetSource, UnitsOf(i.metric))
  BY DEF AcceptsIntent
<1>3. i.metric \in UNION {p.metrics : p \in brief}
  BY <1>2 DEF MetricNamed
<1>4. i.operator \in UNION {p.operators : p \in brief}
  BY <1>2 DEF OperatorNamed
<1>5. Len(i.targetSource.numbers) = 1 /\ i.targetSource.unit \in UnitsOf(i.metric) /\ i.targetSource.numbers[1] \in Int
  BY <1>1, <1>2 DEF ParsesTo
<1>6. target = i.targetSource.numbers[1] * (IF i.targetSource.unit = "s" THEN 1000 ELSE 1) /\ target \in Int
  <2>1. CASE i.metric = "p95LatencyMs"
    BY <1>5, <2>1 DEF TargetForMetric, Milliseconds
  <2>2. CASE i.metric = "availability"
    <3>1. i.targetSource.unit = "%"
      BY <1>5, <2>2 DEF UnitsOf
    <3> QED
      BY <1>5, <2>2, <3>1 DEF TargetForMetric
  <2> QED
    BY <1>1, <2>1, <2>2
<1>7. target \in {p.numbers[1] * (IF p.unit = "s" THEN 1000 ELSE 1) : p \in {q \in brief : Len(q.numbers) = 1}}
  BY <1>2, <1>5, <1>6
<1>8. [metric |-> i.metric, operator |-> i.operator, target |-> target] \in Stated
  <2> DEFINE metrics == UNION {p.metrics : p \in brief}
             operators == UNION {p.operators : p \in brief}
             targets == {p.numbers[1] * (IF p.unit = "s" THEN 1000 ELSE 1) : p \in {q \in brief : Len(q.numbers) = 1}}
  <2>1. Stated = {[metric |-> m, operator |-> c, target |-> t] : m \in metrics, c \in operators, t \in targets}
    BY DEF Stated
  <2>2. i.metric \in metrics /\ i.operator \in operators /\ target \in targets
    BY <1>3, <1>4, <1>7
  <2> HIDE DEF target, metrics, operators, targets
  <2> QED
    BY <2>1, <2>2
<1>9. OwnershipForScope(s) \in [visibility : {"public", "hidden", "derived"}, owner : {"interviewer", "scenario", "candidate"}]
  BY DEF OwnershipForScope
<1>10. OwnershipForScope(s).visibility = "hidden" <=> s = "interview-private"
  BY DEF OwnershipForScope
<1>11. OwnershipForScope(s).visibility = "derived" <=> s = "candidate-derived"
  BY DEF OwnershipForScope
<1>12. <<"ai-requirement", n, i, s>> \in ObjectiveIds /\ ~IsTemplate(<<"ai-requirement", n, i, s>>)
  BY IdsAre
<1>13. /\ o.id = <<"ai-requirement", n, i, s>> /\ o.metric = i.metric /\ o.operator = i.operator /\ o.target = target
       /\ o.visibility = OwnershipForScope(s).visibility
  BY DEF RequirementFromIntent
<1>14. o \in Objective
  <2> HIDE DEF target
  <2>1. PICK id \in ObjectiveIds : id = <<"ai-requirement", n, i, s>>
    BY <1>12
  <2>2. o = [id |-> id, metric |-> i.metric, operator |-> i.operator, target |-> target,
             visibility |-> OwnershipForScope(s).visibility, owner |-> OwnershipForScope(s).owner]
    BY <2>1 DEF RequirementFromIntent, target
  <2> HIDE DEF o
  <2> QED
    BY <1>1, <1>6, <1>9, <2>2 DEF Objective
<1> HIDE DEF o, target
<1>15. /\ o \in Objective /\ ~IsTemplate(o.id)
       /\ [metric |-> o.metric, operator |-> o.operator, target |-> o.target] \in Stated
       /\ o.visibility = "hidden" <=> s = "interview-private"
       /\ o.visibility = "derived" <=> s = "candidate-derived"
  BY <1>8, <1>10, <1>11, <1>12, <1>13, <1>14
<1> QED
  BY <1>15 DEF o

\* What one sequence holds after another was put behind it.
LEMMA JoinedElements ==
  ASSUME NEW S, NEW seq \in Seq(S), NEW more \in Seq(S)
  PROVE  seq \o more \in Seq(S) /\ ToSet(seq \o more) = ToSet(seq) \cup ToSet(more)
<1> DEFINE both == seq \o more
<1>1. /\ both \in Seq(S) /\ Len(both) = Len(seq) + Len(more) /\ Len(seq) \in Nat /\ Len(more) \in Nat
      /\ \A k \in 1..Len(seq) : both[k] = seq[k]
      /\ \A k \in 1..Len(more) : both[Len(seq) + k] = more[k]
  OBVIOUS
<1>2. DOMAIN seq = 1..Len(seq) /\ DOMAIN more = 1..Len(more) /\ DOMAIN both = 1..(Len(seq) + Len(more))
  BY <1>1
<1> HIDE DEF both
<1>3. ASSUME NEW k \in DOMAIN both PROVE both[k] \in ToSet(seq) \cup ToSet(more)
  <2>1. CASE k <= Len(seq)
    <3>1. k \in 1..Len(seq)
      BY <1>1, <1>2, <2>1
    <3> QED
      BY <1>1, <1>2, <3>1 DEF ToSet
  <2>2. CASE k > Len(seq)
    <3>1. PICK j \in 1..Len(more) : k = Len(seq) + j
      <4>1. k - Len(seq) \in 1..Len(more) /\ k = Len(seq) + (k - Len(seq))
        BY <1>1, <1>2, <2>2
      <4> QED
        BY <4>1
    <3> QED
      BY <1>1, <1>2, <3>1 DEF ToSet
  <2> QED
    BY <1>1, <1>2, <2>1, <2>2
<1>4. \A k \in DOMAIN seq : seq[k] \in ToSet(both)
  <2>1. \A k \in 1..Len(seq) : k \in DOMAIN both
    BY <1>1, <1>2
  <2> QED
    BY <1>1, <1>2, <2>1 DEF ToSet
<1>5. \A k \in DOMAIN more : more[k] \in ToSet(both)
  <2>1. \A k \in 1..Len(more) : Len(seq) + k \in DOMAIN both
    BY <1>1, <1>2
  <2> QED
    BY <1>1, <1>2, <2>1 DEF ToSet
<1>6. ToSet(both) = ToSet(seq) \cup ToSet(more)
  BY <1>3, <1>4, <1>5 DEF ToSet
<1> QED
  BY <1>1, <1>6 DEF both

\* What the compiler adds to a draft: no template, stated in the brief, and for those it is meant for.
Proposed(o) ==
  /\ ~IsTemplate(o.id)
  /\ [metric |-> o.metric, operator |-> o.operator, target |-> o.target] \in Stated
  /\ o.visibility # "derived"
  /\ o.visibility = "hidden" => mode = "interview"

Rates == {p.numbers[1] : p \in {q \in brief : q.unit = "rps"}}

\* The lists of a proposed scenario.
NewObjectives(request, said) ==
  [k \in DOMAIN said.requirements |->
     RequirementFromIntent(said.requirements[k], said.scopes[k], Len(request.base.requirements) + k)]
NewIncidents(request, said) ==
  [k \in DOMAIN said.incidents |->
     [id |-> <<"ai-incident", Len(request.base.incidents) + k, said.incidents[k]>>,
      atSecond |-> said.incidents[k].at.numbers[1],
      magnitude |-> said.incidents[k].magnitude.numbers[1]]]

LEMMA NewObjectivesAre ==
  ASSUME NEW request, request.base \in Draft, mode \in {"custom", "interview"}, NEW said \in Outputs,
         \A k \in DOMAIN said.requirements :
           said.scopes[k] \in ScopesFor /\ AcceptsIntent(brief, said.requirements[k])
  PROVE  /\ NewObjectives(request, said) \in Seq(Objective)
         /\ \A o \in ToSet(NewObjectives(request, said)) : Proposed(o)
<1> DEFINE new == NewObjectives(request, said)
           len == Len(request.base.requirements)
<1>1. /\ said.requirements \in Seq(Intents) /\ said.scopes \in Seq(Scopes)
      /\ Len(said.requirements) = Len(said.scopes)
  BY OutputsAre DEF Output
<1>2. len \in Nat
  BY DEF Draft
<1>3. ASSUME NEW k \in DOMAIN said.requirements PROVE new[k] \in Objective /\ Proposed(new[k])
  <2>1. PICK i \in Intents, s \in Scopes : i = said.requirements[k] /\ s = said.scopes[k]
    BY <1>1
  <2>2. PICK n \in Nat : n = len + k
    BY <1>1, <1>2
  <2>3. new[k] = RequirementFromIntent(i, s, n)
    BY <2>1, <2>2 DEF NewObjectives
  <2>4. s \in ScopesFor /\ AcceptsIntent(brief, i)
    BY <2>1
  <2>5. s # "candidate-derived" /\ (s = "interview-private" => mode = "interview")
    BY <2>4 DEF ScopesFor
  <2> HIDE DEF new
  <2> QED
    BY <2>3, <2>4, <2>5, IntentIsStated DEF Proposed
<1>4. DOMAIN said.requirements = 1..Len(said.requirements) /\ Len(said.requirements) \in Nat
  BY <1>1
<1>5. DOMAIN new = DOMAIN said.requirements
  BY DEF NewObjectives
<1>6. PICK N \in Nat : N = Len(said.requirements)
  BY <1>4
<1>7. new \in [1..N -> Objective]
  BY <1>3, <1>4, <1>6 DEF NewObjectives
<1> HIDE DEF new
<1>8. new \in Seq(Objective)
  BY <1>6, <1>7
<1> QED
  BY <1>3, <1>5, <1>8 DEF ToSet, new

LEMMA NewIncidentsAre ==
  ASSUME NEW request, request.base \in Draft, NEW said \in Outputs,
         \A i \in ToSet(said.incidents) : ParsesTo(i.at, {"s"}) /\ ParsesTo(i.magnitude, {"x"})
  PROVE  NewIncidents(request, said) \in Seq(Incident)
<1> DEFINE new == NewIncidents(request, said)
           len == Len(request.base.incidents)
<1>1. said.incidents \in Seq(Given)
  BY OutputsAre DEF Output
<1>2. len \in Nat
  BY DEF Draft
<1>3. ASSUME NEW k \in DOMAIN said.incidents PROVE new[k] \in Incident
  <2>1. PICK v \in Given : v = said.incidents[k]
    BY <1>1
  <2>2. PICK n \in Nat : n = len + k
    BY <1>1, <1>2
  <2>3. v.at.numbers \in Seq(Int) /\ v.magnitude.numbers \in Seq(Int)
    BY PhrasesAre
  <2>4. v.at.numbers[1] \in Int /\ v.magnitude.numbers[1] \in Int
    <3>1. v \in ToSet(said.incidents)
      BY <2>1 DEF ToSet
    <3> QED
      BY <2>3, <3>1 DEF ParsesTo
  <2>5. PICK id \in IncidentIds : id = <<"ai-incident", n, v>>
    BY IdsAre
  <2>6. new[k] = [id |-> id, atSecond |-> v.at.numbers[1], magnitude |-> v.magnitude.numbers[1]]
    BY <2>1, <2>2, <2>5 DEF NewIncidents
  <2> HIDE DEF new
  <2> QED
    BY <2>4, <2>6 DEF Incident
<1>4. DOMAIN said.incidents = 1..Len(said.incidents) /\ Len(said.incidents) \in Nat
  BY <1>1
<1>5. PICK N \in Nat : N = Len(said.incidents)
  BY <1>4
<1>6. new \in [1..N -> Incident]
  BY <1>3, <1>4, <1>5 DEF NewIncidents
<1> HIDE DEF new
<1>7. new \in Seq(Incident)
  BY <1>5, <1>6
<1> QED
  BY <1>7 DEF new

\* A scenario the compiler accepts keeps the draft's lists and adds to them what the brief states.
LEMMA ScenarioCompiled ==
  ASSUME NEW request, request.base \in Draft, request.brief = brief, mode \in {"custom", "interview"},
         NEW said \in Outputs, CompileAiScenario(request, said) # Malformed
  PROVE  LET scenario == CompileAiScenario(request, said).scenario
         IN /\ scenario \in Draft /\ ValidScenario(scenario)
            /\ ToSet(request.base.requirements) \subseteq ToSet(scenario.requirements)
            /\ ToSet(request.base.incidents) \subseteq ToSet(scenario.incidents)
            /\ \A o \in ToSet(scenario.requirements) : o \in ToSet(request.base.requirements) \/ Proposed(o)
            /\ scenario.peakRps \in {request.base.peakRps} \cup Rates
<1> DEFINE base == request.base
           accepted ==
             /\ Len(said.peak) <= 1
             /\ \A v \in ToSet(said.peak) : v \in request.brief /\ ParsesTo(v, {"rps"})
             /\ \A i \in ToSet(said.incidents) :
                  {i.at, i.magnitude} \subseteq request.brief /\ ParsesTo(i.at, {"s"}) /\ ParsesTo(i.magnitude, {"x"})
             /\ \A k \in DOMAIN said.requirements :
                  said.scopes[k] \in ScopesFor /\ AcceptsIntent(request.brief, said.requirements[k])
           peak == IF said.peak = <<>> THEN base.peakRps ELSE said.peak[1].numbers[1]
           incidents == base.incidents \o NewIncidents(request, said)
           requirements == base.requirements \o NewObjectives(request, said)
           text == IF mode = "interview" /\ said.candidateBrief # "blank" THEN said.candidateBrief
                   ELSE base.candidateBrief
           scenario == [base EXCEPT !.peakRps = peak, !.incidents = incidents,
                                    !.requirements = requirements, !.candidateBrief = text]
<1>1. CompileAiScenario(request, said) = IF accepted /\ ValidScenario(scenario) THEN [scenario |-> scenario] ELSE Malformed
  BY DEF CompileAiScenario, NewObjectives, NewIncidents
<1> HIDE DEF scenario, accepted
<1>2. accepted /\ ValidScenario(scenario) /\ CompileAiScenario(request, said).scenario = scenario
  BY <1>1
<1>3. /\ NewObjectives(request, said) \in Seq(Objective)
      /\ \A o \in ToSet(NewObjectives(request, said)) : Proposed(o)
  BY <1>2, NewObjectivesAre DEF accepted
<1>4. NewIncidents(request, said) \in Seq(Incident)
  BY <1>2, NewIncidentsAre DEF accepted
<1>5. /\ base.requirements \in Seq(Objective) /\ base.incidents \in Seq(Incident) /\ base.peakRps \in Int
      /\ base.candidateBrief \in {"blank", "written", "worded"}
  BY DEF Draft
<1>6. requirements \in Seq(Objective) /\ ToSet(requirements) = ToSet(base.requirements) \cup ToSet(NewObjectives(request, said))
  BY <1>3, <1>5, JoinedElements
<1>7. incidents \in Seq(Incident) /\ ToSet(incidents) = ToSet(base.incidents) \cup ToSet(NewIncidents(request, said))
  BY <1>4, <1>5, JoinedElements
<1>8. peak \in Int /\ peak \in {base.peakRps} \cup Rates
  <2>1. CASE said.peak = <<>>
    BY <1>5, <2>1
  <2>2. CASE said.peak # <<>>
    <3>1. said.peak \in Seq(Peaks)
      BY OutputsAre DEF Output
    <3>2. 1 \in DOMAIN said.peak
      BY <2>2, <3>1
    <3>3. PICK p \in Peaks : p = said.peak[1]
      BY <3>1, <3>2
    <3>4. p \in ToSet(said.peak)
      BY <3>2, <3>3 DEF ToSet
    <3>5. p \in brief /\ ParsesTo(p, {"rps"}) /\ p.numbers \in Seq(Int)
      BY <1>2, <3>4, PhrasesAre DEF accepted
    <3>6. p.numbers[1] \in Int /\ p.numbers[1] \in Rates
      BY <3>5 DEF ParsesTo, Rates
    <3> QED
      BY <2>2, <3>3, <3>6
  <2> QED
    BY <2>1, <2>2
<1>9. text \in {"blank", "written", "worded"}
  BY <1>5, OutputsAre DEF Output
<1> HIDE DEF requirements, incidents, peak, text
<1>10. /\ scenario \in Draft /\ scenario.requirements = requirements /\ scenario.incidents = incidents
       /\ scenario.peakRps = peak
  BY <1>6, <1>7, <1>8, <1>9 DEF scenario, Draft
<1>11. /\ scenario \in Draft /\ ValidScenario(scenario)
       /\ ToSet(base.requirements) \subseteq ToSet(scenario.requirements)
       /\ ToSet(base.incidents) \subseteq ToSet(scenario.incidents)
       /\ \A o \in ToSet(scenario.requirements) : o \in ToSet(base.requirements) \/ Proposed(o)
       /\ scenario.peakRps \in {base.peakRps} \cup Rates
  BY <1>2, <1>3, <1>6, <1>7, <1>8, <1>10
<1> QED
  BY <1>2, <1>11

\* Objectives the compiler accepts are stated in the brief and belong to the scope of the request.
LEMMA RequirementsCompiled ==
  ASSUME NEW request, request.brief = brief, request.scope \in Scopes, NEW said \in Outputs,
         CompileAiRequirements(request, said) # Malformed
  PROVE  LET requirements == CompileAiRequirements(request, said).requirements
         IN /\ requirements \in Seq(Objective)
            /\ \A o \in ToSet(requirements) :
                 /\ ~IsTemplate(o.id)
                 /\ [metric |-> o.metric, operator |-> o.operator, target |-> o.target] \in Stated
                 /\ o.visibility = "hidden" <=> request.scope = "interview-private"
                 /\ o.visibility = "derived" <=> request.scope = "candidate-derived"
<1> DEFINE new == [k \in DOMAIN said.requirements |-> RequirementFromIntent(said.requirements[k], request.scope, k)]
           Suit(o) == /\ ~IsTemplate(o.id)
                      /\ [metric |-> o.metric, operator |-> o.operator, target |-> o.target] \in Stated
                      /\ o.visibility = "hidden" <=> request.scope = "interview-private"
                      /\ o.visibility = "derived" <=> request.scope = "candidate-derived"
<1>1. /\ \A k \in DOMAIN said.requirements : AcceptsIntent(brief, said.requirements[k])
      /\ CompileAiRequirements(request, said).requirements = new
  BY DEF CompileAiRequirements
<1>2. said.requirements \in Seq(Intents)
  BY OutputsAre DEF Output
<1>3. PICK N \in Nat : N = Len(said.requirements) /\ DOMAIN said.requirements = 1..N
  BY <1>2
<1>4. ASSUME NEW k \in 1..N PROVE new[k] \in Objective /\ Suit(new[k])
  <2>1. PICK i \in Intents : i = said.requirements[k]
    BY <1>2, <1>3
  <2>2. k \in Nat /\ new[k] = RequirementFromIntent(i, request.scope, k) /\ AcceptsIntent(brief, i)
    BY <1>1, <1>3, <2>1
  <2> HIDE DEF new
  <2> QED
    BY <2>2, IntentIsStated
<1>5. new \in [1..N -> Objective] /\ DOMAIN new = 1..N
  BY <1>3, <1>4
<1> HIDE DEF new, Suit
<1>6. new \in Seq(Objective) /\ \A o \in ToSet(new) : Suit(o)
  BY <1>3, <1>4, <1>5 DEF ToSet
<1> QED
  BY <1>1, <1>6 DEF Suit

-----------------------------------------------------------------------------
(* The invariant.                                                           *)

TypesInv ==
  /\ mode \in {"custom", "interview"} /\ private \in BOOLEAN
  /\ task \in {"author-scenario", "compile-requirements"}
  /\ draft \in Draft /\ made \in Nat /\ sequence \in Nat /\ published \in Nat
  /\ drafting \in BOOLEAN /\ publishing \in BOOLEAN

\* Objectives have ids of their own: a template's is drawn once, the compiler's are no template's.
DrawnBefore(requirements) ==
  \A o \in ToSet(requirements), n \in Nat : n >= made => o.id # <<"requirement", n>>
IdsInv ==
  /\ DifferentIds(draft.requirements) /\ DrawnBefore(draft.requirements)
  /\ \A o \in authored : IsTemplate(o.id)

\* A request that will be listened to is of the draft and form as they are.
CurrentRequest == [sequence |-> sequence, task |-> task, base |-> draft, brief |-> brief, scope |-> RequirementScope]
RequestsInv ==
  \A r \in proposals : /\ r.sequence \in Nat /\ r.sequence <= sequence
                       /\ r.sequence = sequence => r = CurrentRequest
CurrentShare == [sequence |-> published, scenario |-> draft]
SharesInv ==
  \A s \in shares : /\ s.sequence \in Nat /\ s.sequence <= published
                    /\ s.sequence = published => s = CurrentShare

\* What is shown for review can be taken over.
PreviewInv ==
  preview # Absent =>
    /\ task = "author-scenario" =>
         preview.response.scenario \in Draft /\ DrawnBefore(preview.response.scenario.requirements)
    /\ task = "compile-requirements" =>
         /\ preview.response.requirements \in Seq(Objective)
         /\ \A o \in ToSet(preview.response.requirements) : ~IsTemplate(o.id)

Sound(d) == authored \subseteq ToSet(d.requirements) \cup ToSet(d.incidents)
Drafts == drafting <=> \E r \in proposals : r.sequence = sequence
Publishes == publishing <=> \E s \in shares : s.sequence = published
OpenedInv ==
  opened # Absent =>
    LET shown == ToSet(opened.scenario.requirements)
    IN IF opened.role = "interviewer" THEN opened.scenario = opened.draft
       ELSE /\ shown = {o \in ToSet(opened.draft.requirements) : o.visibility # "hidden"}
            /\ opened.scenario.interviewerBrief = "blank"

DraftingInv ==
  /\ TypesInv /\ IdsInv /\ RequestsInv /\ SharesInv /\ PreviewInv
  /\ AuthoredRemains /\ ProposalIsOfForm /\ WaitsForSomething /\ LinksAreOfDraft

LEMMA SupersedeClears ==
  ASSUME TypesInv, RequestsInv, Supersede, UNCHANGED proposals
  PROVE  /\ RequestsInv' /\ PreviewInv' /\ ProposalIsOfForm' /\ Drafts' /\ preview' = Absent
         /\ sequence' \in Nat /\ drafting' \in BOOLEAN
<1>1. sequence' = sequence + 1 /\ sequence' \in Nat /\ drafting' = FALSE /\ preview' = Absent /\ proposals' = proposals
  BY DEF Supersede, TypesInv
<1>2. \A r \in proposals : r.sequence \in Nat /\ r.sequence <= sequence /\ r.sequence <= sequence' /\ r.sequence # sequence'
  BY <1>1 DEF RequestsInv, TypesInv
<1>3. RequestsInv' /\ Drafts'
  BY <1>1, <1>2 DEF RequestsInv, Drafts
<1>4. PreviewInv' /\ ProposalIsOfForm'
  BY <1>1 DEF PreviewInv, ProposalIsOfForm, Absent
<1> QED
  BY <1>1, <1>3, <1>4

LEMMA WithdrawClears ==
  ASSUME TypesInv, SharesInv, WithdrawLinks, UNCHANGED shares
  PROVE  SharesInv' /\ Publishes' /\ links' = Absent /\ published' \in Nat /\ publishing' \in BOOLEAN
<1>1. published' = published + 1 /\ published' \in Nat /\ publishing' = FALSE /\ links' = Absent /\ shares' = shares
  BY DEF WithdrawLinks, TypesInv
<1>2. \A s \in shares : s.sequence \in Nat /\ s.sequence <= published /\ s.sequence <= published' /\ s.sequence # published'
  BY <1>1 DEF SharesInv, TypesInv
<1> QED
  BY <1>1, <1>2 DEF SharesInv, Publishes

\* What follows of every edit, of the user's or of a proposal that is taken over.
LEMMA DraftEditKeeps ==
  ASSUME DraftingInv, Supersede, WithdrawLinks, draft' \in Draft, made' \in Nat, IdsInv', Sound(draft)',
         UNCHANGED <<mode, formVars, proposals, shares, opened>>
  PROVE  DraftingInv'
<1>1. TypesInv /\ RequestsInv /\ SharesInv /\ UNCHANGED proposals /\ UNCHANGED shares
  BY DEF DraftingInv
<1>2. /\ RequestsInv' /\ PreviewInv' /\ ProposalIsOfForm' /\ Drafts' /\ preview' = Absent
      /\ sequence' \in Nat /\ drafting' \in BOOLEAN
  BY <1>1, SupersedeClears
<1>3. SharesInv' /\ Publishes' /\ links' = Absent /\ published' \in Nat /\ publishing' \in BOOLEAN
  BY <1>1, WithdrawClears
<1>4. TypesInv'
  BY <1>1, <1>2, <1>3 DEF TypesInv, formVars
<1>5. AuthoredRemains'
  BY <1>2 DEF AuthoredRemains, Sound, Absent
<1>6. WaitsForSomething'
  BY <1>2, <1>3 DEF WaitsForSomething, Drafts, Publishes
<1>7. LinksAreOfDraft'
  <2>1. OpenedInv' = OpenedInv /\ OpenedInv
    BY DEF DraftingInv, LinksAreOfDraft, OpenedInv, Absent
  <2> QED
    BY <1>3, <2>1 DEF LinksAreOfDraft, OpenedInv, Absent
<1> QED
  BY <1>2, <1>3, <1>4, <1>5, <1>6, <1>7 DEF DraftingInv

-----------------------------------------------------------------------------
(* The editor.                                                              *)

LEMMA AddObjectiveInv == DraftingInv /\ AddObjective => DraftingInv'
<1> SUFFICES ASSUME DraftingInv, AddObjective PROVE DraftingInv'
  OBVIOUS
<1> DEFINE new == RequirementTemplate(made)
           old == draft.requirements
<1>1. TypesInv /\ IdsInv /\ Sound(draft)
  BY DEF DraftingInv, AuthoredRemains, Sound
<1>2. old \in Seq(Objective) /\ made \in Nat /\ draft \in Draft
  BY <1>1 DEF TypesInv, Draft
<1>3. new \in Objective /\ new.id = <<"requirement", made>>
  <2>1. PICK id \in ObjectiveIds : id = <<"requirement", made>>
    BY <1>2, IdsAre
  <2> QED
    BY <2>1 DEF RequirementTemplate, Objective
<1> HIDE DEF new
<1>4. /\ draft' = [draft EXCEPT !.requirements = Append(old, new)] /\ made' = made + 1
      /\ authored' = authored \cup {new} /\ Supersede /\ WithdrawLinks
      /\ UNCHANGED <<mode, formVars, proposals, shares, opened>>
  BY DEF AddObjective, Edited, new
<1>5. PICK longer : longer = Append(old, new)
  OBVIOUS
<1>6. /\ longer \in Seq(Objective) /\ DOMAIN longer = 1..(Len(old) + 1) /\ Len(old) \in Nat /\ DOMAIN old = 1..Len(old)
      /\ \A k \in DOMAIN old : longer[k] = old[k]
      /\ longer[Len(old) + 1] = new
  BY <1>2, <1>3, <1>5
<1>7. draft' \in Draft /\ draft'.requirements = longer /\ draft'.incidents = draft.incidents
  BY <1>2, <1>4, <1>5, <1>6 DEF Draft
<1>8. ToSet(longer) = ToSet(old) \cup {new}
  <2>1. \A k \in DOMAIN longer : k \in DOMAIN old \/ k = Len(old) + 1
    BY <1>6
  <2>2. \A k \in DOMAIN old : k \in DOMAIN longer
    BY <1>6
  <2>3. Len(old) + 1 \in DOMAIN longer
    BY <1>6
  <2> QED
    BY <1>6, <2>1, <2>2, <2>3 DEF ToSet
<1>9. made' \in Nat
  BY <1>2, <1>4
<1>10. IdsInv'
  <2>1. \A k \in DOMAIN old : old[k].id # new.id
    BY <1>1, <1>2, <1>3 DEF IdsInv, DrawnBefore, ToSet
  <2>2. DifferentIds(longer)
    <3>1. \A j, k \in DOMAIN old : old[j].id = old[k].id => j = k
      BY <1>1 DEF IdsInv, DifferentIds
    <3>2. \A k \in DOMAIN longer : k \in DOMAIN old \/ k = Len(old) + 1
      BY <1>6
    <3> QED
      BY <1>6, <2>1, <3>1, <3>2 DEF DifferentIds
  <2>3. DrawnBefore(longer)'
    <3>1. ASSUME NEW n \in Nat, n >= made + 1 PROVE new.id # <<"requirement", n>> /\ n >= made
      BY <1>2, <1>3, <3>1, IdsAre
    <3> QED
      BY <1>1, <1>4, <1>8, <3>1 DEF IdsInv, DrawnBefore
  <2>4. \A o \in authored' : IsTemplate(o.id)
    BY <1>1, <1>2, <1>3, <1>4, IdsAre DEF IdsInv
  <2> QED
    BY <1>7, <2>2, <2>3, <2>4 DEF IdsInv, DrawnBefore, DifferentIds
<1>11. Sound(draft)'
  BY <1>1, <1>4, <1>7, <1>8 DEF Sound
<1> QED
  BY <1>4, <1>7, <1>9, <1>10, <1>11, DraftEditKeeps

LEMMA AddIncidentInv == DraftingInv /\ AddIncident => DraftingInv'
<1> SUFFICES ASSUME DraftingInv, AddIncident PROVE DraftingInv'
  OBVIOUS
<1> DEFINE new == IncidentTemplate(made)
           old == draft.incidents
<1>1. TypesInv /\ IdsInv /\ Sound(draft)
  BY DEF DraftingInv, AuthoredRemains, Sound
<1>2. old \in Seq(Incident) /\ made \in Nat /\ draft \in Draft
  BY <1>1 DEF TypesInv, Draft
<1>3. new \in Incident /\ new.id = <<"incident", made>>
  <2>1. PICK id \in IncidentIds : id = <<"incident", made>>
    BY <1>2, IdsAre
  <2> QED
    BY <2>1 DEF IncidentTemplate, Incident
<1> HIDE DEF new
<1>4. /\ draft' = [draft EXCEPT !.incidents = Append(old, new)] /\ made' = made + 1
      /\ authored' = authored \cup {new} /\ Supersede /\ WithdrawLinks
      /\ UNCHANGED <<mode, formVars, proposals, shares, opened>>
  BY DEF AddIncident, Edited, new
<1>5. PICK longer : longer = Append(old, new)
  OBVIOUS
<1>6. longer \in Seq(Incident) /\ ToSet(old) \cup {new} \subseteq ToSet(longer)
  <2>1. /\ longer \in Seq(Incident) /\ DOMAIN longer = 1..(Len(old) + 1) /\ Len(old) \in Nat /\ DOMAIN old = 1..Len(old)
        /\ \A k \in DOMAIN old : longer[k] = old[k]
        /\ longer[Len(old) + 1] = new
    BY <1>2, <1>3, <1>5
  <2>2. \A k \in DOMAIN old : k \in DOMAIN longer
    BY <2>1
  <2>3. Len(old) + 1 \in DOMAIN longer
    BY <2>1
  <2> QED
    BY <2>1, <2>2, <2>3 DEF ToSet
<1>7. draft' \in Draft /\ draft'.incidents = longer /\ draft'.requirements = draft.requirements
  BY <1>2, <1>4, <1>5, <1>6 DEF Draft
<1>8. made' \in Nat
  BY <1>2, <1>4
<1>9. IdsInv'
  <2>1. \A o \in authored' : IsTemplate(o.id)
    BY <1>1, <1>2, <1>3, <1>4, IdsAre DEF IdsInv
  <2>2. \A n \in Nat : n >= made + 1 => n >= made
    BY <1>2
  <2>3. DrawnBefore(draft.requirements)'
    BY <1>1, <1>4, <1>7, <2>2 DEF IdsInv, DrawnBefore
  <2> QED
    BY <1>1, <1>7, <2>1, <2>3 DEF IdsInv
<1>10. Sound(draft)'
  BY <1>1, <1>4, <1>6, <1>7 DEF Sound
<1> QED
  BY <1>4, <1>7, <1>8, <1>9, <1>10, DraftEditKeeps

\* One objective has the id, so the one that is replaced is gone for good and no other is touched.
LEMMA UpdateRequirementInv ==
  ASSUME NEW id \in IdsOf(draft.requirements), DraftingInv, UpdateRequirement(id)
  PROVE  DraftingInv'
<1> DEFINE was == draft.requirements
           old == CHOOSE o \in ToSet(was) : o.id = id
<1>1. TypesInv /\ IdsInv /\ Sound(draft)
  BY DEF DraftingInv, AuthoredRemains, Sound
<1>2. was \in Seq(Objective) /\ made \in Nat /\ draft \in Draft
  BY <1>1 DEF TypesInv, Draft
<1>3. old \in ToSet(was) /\ old.id = id
  BY DEF IdsOf
<1>4. old \in Objective
  <2> HIDE DEF old
  <2> QED
    BY <1>2, <1>3 DEF ToSet
<1>5. PICK new :
        /\ \/ new = [old EXCEPT !.target = 401]
           \/ \E v \in {"hidden", "public"} : new = [old EXCEPT !.visibility = v]
        /\ draft' = [draft EXCEPT !.requirements = [k \in DOMAIN @ |-> IF @[k].id = id THEN new ELSE @[k]]]
        /\ authored' = IF old \in authored THEN (authored \ {old}) \cup {new} ELSE authored
        /\ made' = made /\ Supersede /\ WithdrawLinks
        /\ UNCHANGED <<mode, formVars, proposals, shares, opened>>
  <2>1. PICK new \in ({[old EXCEPT !.target = 401]} \cup
                      {[old EXCEPT !.visibility = v] : v \in IF mode = "interview" THEN {"hidden", "public"} ELSE {}}) \ {old} :
          /\ Edited([draft EXCEPT !.requirements = [k \in DOMAIN @ |-> IF @[k].id = id THEN new ELSE @[k]]])
          /\ authored' = IF old \in authored THEN (authored \ {old}) \cup {new} ELSE authored
          /\ UNCHANGED made
    BY Zenon DEF UpdateRequirement
  <2> HIDE DEF old
  <2>2. \/ new = [old EXCEPT !.target = 401]
        \/ \E v \in {"hidden", "public"} : new = [old EXCEPT !.visibility = v]
    BY <2>1
  <2> QED
    BY <2>1, <2>2 DEF Edited
<1> HIDE DEF old
<1>6. new \in Objective /\ new.id = id
  BY <1>3, <1>4, <1>5 DEF Objective
<1>7. PICK is : is = [k \in DOMAIN was |-> IF was[k].id = id THEN new ELSE was[k]]
  OBVIOUS
<1>8. /\ DOMAIN is = DOMAIN was /\ is \in Seq(Objective)
      /\ \A k \in DOMAIN was : is[k].id = was[k].id
      /\ \A k \in DOMAIN was : was[k].id # id => is[k] = was[k]
      /\ \A k \in DOMAIN was : was[k].id = id => is[k] = new
  <2>1. PICK n \in Nat : DOMAIN was = 1..n
    BY <1>2
  <2>2. is \in [1..n -> Objective]
    BY <1>2, <1>6, <1>7, <2>1
  <2>3. is \in Seq(Objective)
    BY <2>1, <2>2
  <2> QED
    BY <1>6, <1>7, <2>3
<1>9. draft' \in Draft /\ draft'.requirements = is /\ draft'.incidents = draft.incidents
  <2>1. draft' = [draft EXCEPT !.requirements = is]
    BY <1>5, <1>7
  <2> QED
    BY <1>2, <1>8, <2>1 DEF Draft
<1>10. DifferentIds(is)
  BY <1>1, <1>8 DEF IdsInv, DifferentIds
<1>11. DrawnBefore(is)'
  BY <1>1, <1>5, <1>8 DEF IdsInv, DrawnBefore, ToSet
<1>12. \A o \in authored' : IsTemplate(o.id)
  BY <1>1, <1>3, <1>5, <1>6 DEF IdsInv
<1>13. IdsInv'
  BY <1>9, <1>10, <1>11, <1>12 DEF IdsInv
<1>14. ASSUME NEW o \in authored' PROVE o \in ToSet(is) \cup ToSet(draft.incidents)
  <2>1. new \in ToSet(is)
    BY <1>3, <1>8 DEF ToSet
  <2>2. CASE o \in ToSet(was) /\ o # old
    <3>1. PICK k \in DOMAIN was : o = was[k]
      BY <2>2 DEF ToSet
    <3>2. PICK j \in DOMAIN was : old = was[j]
      BY <1>3 DEF ToSet
    <3>3. was[k].id # id
      BY <1>1, <1>3, <2>2, <3>1, <3>2 DEF IdsInv, DifferentIds
    <3> QED
      BY <1>8, <3>1, <3>3 DEF ToSet
  <2>3. CASE o = old
    <3>1. old \notin authored \/ new = old
      BY <1>5, <2>3
    <3>2. old \in authored
      BY <1>5, <2>3
    <3> QED
      BY <2>1, <2>3, <3>1, <3>2
  <2>4. CASE o = new
    BY <2>1, <2>4
  <2>5. o \in authored \/ o = new
    BY <1>5
  <2> QED
    BY <1>1, <2>2, <2>3, <2>4, <2>5 DEF Sound
<1>15. Sound(draft)'
  BY <1>9, <1>14 DEF Sound
<1> QED
  BY <1>2, <1>5, <1>9, <1>13, <1>15, DraftEditKeeps

LEMMA RemoveItemInv ==
  ASSUME NEW id, DraftingInv, RemoveItem(id)
  PROVE  DraftingInv'
<1> DEFINE objectives == draft.requirements
           incidents == draft.incidents
<1>1. TypesInv /\ IdsInv /\ Sound(draft)
  BY DEF DraftingInv, AuthoredRemains, Sound
<1>2. objectives \in Seq(Objective) /\ incidents \in Seq(Incident) /\ made \in Nat /\ draft \in Draft
  BY <1>1 DEF TypesInv, Draft
<1>3. DOMAIN objectives = 1..Len(objectives) /\ DOMAIN incidents = 1..Len(incidents)
  BY <1>2
<1>4. PICK places \in SUBSET (1..Len(objectives)) : places = {k \in DOMAIN objectives : objectives[k].id # id}
  BY <1>3
<1>5. PICK moments \in SUBSET (1..Len(incidents)) : moments = {k \in DOMAIN incidents : incidents[k].id # id}
  BY <1>3
<1>6. PICK keptObjectives \in Seq(Objective) :
        /\ keptObjectives = Keep(objectives, places)
        /\ ToSet(keptObjectives) = {objectives[k] : k \in places}
        /\ DifferentIds(objectives) => DifferentIds(keptObjectives)
  BY <1>2, KeptElements
<1>7. PICK keptIncidents \in Seq(Incident) :
        /\ keptIncidents = Keep(incidents, moments)
        /\ ToSet(keptIncidents) = {incidents[k] : k \in moments}
  BY <1>2, KeptElements
<1>8. /\ draft' = [draft EXCEPT !.requirements = keptObjectives, !.incidents = keptIncidents]
      /\ authored' = {o \in authored : o.id # id} /\ made' = made /\ Supersede /\ WithdrawLinks
      /\ UNCHANGED <<mode, formVars, proposals, shares, opened>>
  BY <1>4, <1>5, <1>6, <1>7 DEF RemoveItem, Edited
<1>9. draft' \in Draft /\ draft'.requirements = keptObjectives /\ draft'.incidents = keptIncidents
  BY <1>2, <1>8 DEF Draft
<1>10. /\ \A o \in ToSet(objectives) : o.id # id => o \in ToSet(keptObjectives)
       /\ \A o \in ToSet(incidents) : o.id # id => o \in ToSet(keptIncidents)
  BY <1>4, <1>5, <1>6, <1>7 DEF ToSet
<1>11. ToSet(keptObjectives) \subseteq ToSet(objectives)
  BY <1>4, <1>6 DEF ToSet
<1>12. IdsInv'
  <2>1. DifferentIds(keptObjectives)
    BY <1>1, <1>6 DEF IdsInv
  <2>2. DrawnBefore(keptObjectives)'
    BY <1>1, <1>8, <1>11 DEF IdsInv, DrawnBefore
  <2> QED
    BY <1>1, <1>8, <1>9, <2>1, <2>2 DEF IdsInv
<1>13. Sound(draft)'
  BY <1>1, <1>8, <1>9, <1>10 DEF Sound
<1> QED
  BY <1>2, <1>8, <1>9, <1>12, <1>13, DraftEditKeeps

LEMMA EditFieldsInv == DraftingInv /\ EditFields => DraftingInv'
<1> SUFFICES ASSUME DraftingInv, EditFields PROVE DraftingInv'
  OBVIOUS
<1>1. TypesInv /\ IdsInv /\ Sound(draft)
  BY DEF DraftingInv, AuthoredRemains, Sound
<1>2. draft \in Draft /\ made \in Nat
  BY <1>1 DEF TypesInv
<1>3. /\ \/ \E peak \in {50, 200} : draft' = [draft EXCEPT !.peakRps = peak]
         \/ draft' = [draft EXCEPT !.candidateBrief = "blank"]
      /\ Supersede /\ WithdrawLinks /\ made' = made /\ authored' = authored
      /\ UNCHANGED <<mode, formVars, proposals, shares, opened>>
  BY DEF EditFields, Edited
<1>4. draft' \in Draft /\ draft'.requirements = draft.requirements /\ draft'.incidents = draft.incidents
  BY <1>2, <1>3 DEF Draft
<1>5. IdsInv' /\ Sound(draft)'
  BY <1>1, <1>3, <1>4 DEF IdsInv, DrawnBefore, Sound
<1> QED
  BY <1>2, <1>3, <1>4, <1>5, DraftEditKeeps

-----------------------------------------------------------------------------
(* The assistant.                                                           *)

LEMMA FillFormInv == DraftingInv /\ FillForm => DraftingInv'
<1> SUFFICES ASSUME DraftingInv, FillForm PROVE DraftingInv'
  OBVIOUS
<1>1. /\ TypesInv /\ IdsInv /\ SharesInv /\ Sound(draft) /\ Publishes /\ RequestsInv
      /\ LinksAreOfDraft
  BY DEF DraftingInv, AuthoredRemains, Sound, WaitsForSomething, Publishes
<1>2. /\ task' \in {"author-scenario", "compile-requirements"} /\ private' \in BOOLEAN /\ Supersede
      /\ UNCHANGED <<mode, draft, made, authored, proposals, published, publishing, links, shares, opened>>
  BY <1>1 DEF FillForm, TypesInv, linkVars
<1>3. /\ RequestsInv' /\ PreviewInv' /\ ProposalIsOfForm' /\ Drafts' /\ preview' = Absent
      /\ sequence' \in Nat /\ drafting' \in BOOLEAN
  BY <1>1, <1>2, SupersedeClears
<1>4. TypesInv'
  BY <1>1, <1>2, <1>3 DEF TypesInv
<1>5. IdsInv' /\ SharesInv' /\ Publishes'
  BY <1>1, <1>2 DEF IdsInv, DrawnBefore, SharesInv, CurrentShare, Publishes
<1>6. AuthoredRemains'
  BY <1>1, <1>2, <1>3 DEF AuthoredRemains, Sound, Absent
<1>7. WaitsForSomething'
  BY <1>3, <1>5 DEF WaitsForSomething, Drafts, Publishes
<1>8. LinksAreOfDraft'
  BY <1>1, <1>2 DEF LinksAreOfDraft, LocalLinks, CandidateScenario, Absent
<1> QED
  BY <1>3, <1>4, <1>5, <1>6, <1>7, <1>8 DEF DraftingInv

LEMMA RequestProposalInv == DraftingInv /\ RequestProposal => DraftingInv'
<1> SUFFICES ASSUME DraftingInv, RequestProposal PROVE DraftingInv'
  OBVIOUS
<1>1. /\ TypesInv /\ IdsInv /\ SharesInv /\ Sound(draft) /\ Publishes /\ RequestsInv
      /\ LinksAreOfDraft
  BY DEF DraftingInv, AuthoredRemains, Sound, WaitsForSomething, Publishes
<1>2. /\ UNCHANGED <<mode, draft, made, authored, brief, task, private, published, publishing, links, shares, opened>>
      /\ sequence' = sequence + 1 /\ drafting' = TRUE /\ preview' = Absent
      /\ proposals' = proposals \cup
           {[sequence |-> sequence + 1, task |-> task, base |-> draft, brief |-> brief, scope |-> RequirementScope]}
  BY DEF RequestProposal, formVars, linkVars
<1>3. PICK latest : /\ latest = [sequence |-> sequence + 1, task |-> task, base |-> draft, brief |-> brief,
                                 scope |-> RequirementScope]
                   /\ CurrentRequest' = latest
  BY <1>2 DEF CurrentRequest, RequirementScope
<1>4. latest.sequence = sequence' /\ sequence \in Nat /\ sequence' \in Nat
  BY <1>1, <1>2, <1>3 DEF TypesInv
<1>5. proposals' = proposals \cup {latest}
  BY <1>2, <1>3
<1>6. \A r \in proposals : r.sequence \in Nat /\ r.sequence <= sequence' /\ r.sequence # sequence'
  BY <1>1, <1>2, <1>4 DEF RequestsInv
<1>7. RequestsInv' /\ Drafts'
  <2>1. \A r \in proposals' : /\ r.sequence \in Nat /\ r.sequence <= sequence'
                              /\ r.sequence = sequence' => r = latest
    BY <1>4, <1>5, <1>6
  <2>2. \E r \in proposals' : r.sequence = sequence'
    BY <1>4, <1>5
  <2>3. RequestsInv'
    BY <1>3, <2>1 DEF RequestsInv
  <2>4. Drafts'
    BY <1>2, <2>2, Zenon DEF Drafts
  <2> QED
    BY <2>3, <2>4
<1>8. PreviewInv' /\ ProposalIsOfForm'
  BY <1>2 DEF PreviewInv, ProposalIsOfForm, Absent
<1>9. TypesInv'
  BY <1>1, <1>2, <1>4 DEF TypesInv
<1>10. IdsInv' /\ SharesInv' /\ Publishes'
  BY <1>1, <1>2 DEF IdsInv, DrawnBefore, SharesInv, CurrentShare, Publishes
<1>11. AuthoredRemains'
  BY <1>1, <1>2 DEF AuthoredRemains, Sound, Absent
<1>12. WaitsForSomething'
  BY <1>7, <1>10 DEF WaitsForSomething, Drafts, Publishes
<1>13. LinksAreOfDraft'
  BY <1>1, <1>2 DEF LinksAreOfDraft, LocalLinks, CandidateScenario, Absent
<1> QED
  BY <1>7, <1>8, <1>9, <1>10, <1>11, <1>12, <1>13 DEF DraftingInv

LEMMA DiscardInv == DraftingInv /\ Discard => DraftingInv'
<1> SUFFICES ASSUME DraftingInv, Discard PROVE DraftingInv'
  OBVIOUS
<1>1. /\ UNCHANGED <<mode, draft, made, authored, brief, task, private, sequence, drafting, proposals,
                     published, publishing, links, shares, opened>>
      /\ preview' = Absent
  BY DEF Discard, formVars, linkVars
<1>2. TypesInv' /\ IdsInv'
  BY <1>1 DEF DraftingInv, TypesInv, IdsInv, DrawnBefore
<1>3. RequestsInv' /\ SharesInv'
  BY <1>1 DEF DraftingInv, RequestsInv, SharesInv, CurrentRequest, CurrentShare, RequirementScope
<1>4. PreviewInv' /\ ProposalIsOfForm'
  BY <1>1 DEF PreviewInv, ProposalIsOfForm, Absent
<1>5. AuthoredRemains' /\ WaitsForSomething'
  BY <1>1 DEF DraftingInv, AuthoredRemains, WaitsForSomething, Absent
<1>6. LinksAreOfDraft'
  BY <1>1 DEF DraftingInv, LinksAreOfDraft, LocalLinks, CandidateScenario, Absent
<1> QED
  BY <1>2, <1>3, <1>4, <1>5, <1>6 DEF DraftingInv

LEMMA FormStays ==
  ASSUME ProposalIsOfForm, UNCHANGED <<preview, draft, task, brief, mode, private>>
  PROVE  ProposalIsOfForm'
<1>1. Stated' = Stated
  BY DEF Stated
<1>2. ValidScenario(preview.response.scenario)' = ValidScenario(preview.response.scenario)
  BY DEF ValidScenario
<1> QED
  BY <1>1, <1>2 DEF ProposalIsOfForm, Absent

\* An answer to the latest request is of the draft and form as they are, since every
\* change of either made it late.
LEMMA ReceiveProposalInv ==
  ASSUME NEW r \in proposals, DraftingInv, ReceiveProposal(r)
  PROVE  DraftingInv'
<1>1. /\ TypesInv /\ IdsInv /\ SharesInv /\ RequestsInv /\ PreviewInv /\ AuthoredRemains /\ ProposalIsOfForm
      /\ WaitsForSomething /\ LinksAreOfDraft /\ Sound(draft)
  BY DEF DraftingInv, AuthoredRemains, Sound
<1>2. /\ UNCHANGED <<mode, draft, made, authored, brief, task, private, sequence, published, publishing, links, shares, opened>>
      /\ proposals' = proposals \ {r}
  BY DEF ReceiveProposal, formVars, linkVars, assistantVars
<1>3. IdsInv' /\ SharesInv' /\ LinksAreOfDraft'
  BY <1>1, <1>2 DEF IdsInv, DrawnBefore, SharesInv, CurrentShare, LinksAreOfDraft, LocalLinks, CandidateScenario, Absent
<1>4. RequestsInv'
  BY <1>1, <1>2 DEF RequestsInv, CurrentRequest, RequirementScope
<1>5. CASE r.sequence # sequence
  <2>1. UNCHANGED <<drafting, preview>>
    BY <1>5 DEF ReceiveProposal, assistantVars
  <2>2. TypesInv'
    BY <1>1, <1>2, <2>1 DEF TypesInv
  <2>3. PreviewInv' /\ AuthoredRemains'
    BY <1>1, <1>2, <2>1 DEF PreviewInv, DrawnBefore, AuthoredRemains, Absent
  <2>4. ProposalIsOfForm'
    BY <1>1, <1>2, <2>1, FormStays
  <2>5. WaitsForSomething'
    <3>1. Drafts /\ Publishes
      BY <1>1 DEF WaitsForSomething, Drafts, Publishes
    <3>2. (\E q \in proposals' : q.sequence = sequence') <=> (\E q \in proposals : q.sequence = sequence)
      BY <1>2, <1>5
    <3>3. Drafts' /\ Publishes'
      BY <1>2, <2>1, <3>1, <3>2 DEF Drafts, Publishes
    <3> QED
      BY <3>3 DEF WaitsForSomething, Drafts, Publishes
  <2> QED
    BY <1>3, <1>4, <2>2, <2>3, <2>4, <2>5 DEF DraftingInv
<1>6. CASE r.sequence = sequence
  <2>1. r = CurrentRequest
    BY <1>1, <1>6 DEF RequestsInv
  <2>2. r.base = draft /\ r.brief = brief /\ r.task = task /\ r.scope = RequirementScope
    BY <2>1 DEF CurrentRequest
  <2>3. PICK answer \in ProposalsFor(r) :
          /\ drafting' = FALSE
          /\ IF answer = Malformed THEN preview' = preview ELSE preview' = [task |-> r.task, response |-> answer, of |-> r]
    BY <1>6, Zenon DEF ReceiveProposal
  <2>4. TypesInv'
    BY <1>1, <1>2, <2>3 DEF TypesInv
  <2>5. WaitsForSomething'
    <3>1. \A q \in proposals' : q.sequence # sequence'
      BY <1>1, <1>2, <2>1 DEF RequestsInv
    <3>2. Publishes
      BY <1>1 DEF WaitsForSomething, Publishes
    <3>3. Drafts' /\ Publishes'
      BY <1>2, <2>3, <3>1, <3>2 DEF Drafts, Publishes
    <3> QED
      BY <3>3 DEF WaitsForSomething, Drafts, Publishes
  <2>6. PreviewInv' /\ AuthoredRemains' /\ ProposalIsOfForm'
    <3>1. CASE answer = Malformed
      <4>1. preview' = preview
        BY <2>3, <3>1
      <4>2. PreviewInv' /\ AuthoredRemains'
        BY <1>1, <1>2, <4>1 DEF PreviewInv, DrawnBefore, AuthoredRemains, Absent
      <4>3. ProposalIsOfForm'
        BY <1>1, <1>2, <4>1, FormStays
      <4> QED
        BY <4>2, <4>3
    <3>2. CASE answer # Malformed /\ task = "author-scenario"
      <4>1. preview'.task = task /\ preview'.response = answer /\ task' = task
        BY <1>2, <2>2, <2>3, <3>2
      <4>2. PICK said \in Outputs : answer = CompileAiScenario(r, said)
        BY <2>2, <3>2 DEF ProposalsFor
      <4>3. PICK scenario : scenario = answer.scenario
        OBVIOUS
      <4>4. draft \in Draft /\ mode \in {"custom", "interview"}
        BY <1>1 DEF TypesInv
      <4>5. /\ scenario \in Draft /\ ValidScenario(scenario)
            /\ ToSet(draft.requirements) \subseteq ToSet(scenario.requirements)
            /\ ToSet(draft.incidents) \subseteq ToSet(scenario.incidents)
            /\ \A o \in ToSet(scenario.requirements) : o \in ToSet(draft.requirements) \/ Proposed(o)
            /\ scenario.peakRps \in {draft.peakRps} \cup Rates
        BY <2>2, <3>2, <4>2, <4>3, <4>4, ScenarioCompiled
      <4>6. PreviewInv'
        <5>1. DrawnBefore(scenario.requirements)
          BY <1>1, <4>5 DEF IdsInv, DrawnBefore, Proposed, IsTemplate
        <5> QED
          BY <1>2, <3>2, <4>1, <4>3, <4>5, <5>1 DEF PreviewInv, DrawnBefore
      <4>7. AuthoredRemains'
        <5>1. Sound(scenario)
          BY <1>1, <4>5 DEF Sound
        <5> QED
          BY <1>1, <1>2, <4>1, <4>3, <5>1 DEF AuthoredRemains, Sound
      <4>8. ProposalIsOfForm'
        <5>1. ASSUME NEW o \in ToSet(scenario.requirements), o \notin ToSet(draft.requirements)
              PROVE  /\ [metric |-> o.metric, operator |-> o.operator, target |-> o.target] \in Stated
                     /\ o.visibility # "derived"
                     /\ o.visibility = "hidden" => mode = "interview"
          BY <4>5, <5>1 DEF Proposed
        <5>2. Stated' = Stated /\ ValidScenario(scenario)'
          BY <1>2, <4>5 DEF Stated, ValidScenario
        <5> QED
          BY <1>2, <3>2, <4>1, <4>3, <4>5, <5>1, <5>2 DEF ProposalIsOfForm, Rates
      <4> QED
        BY <4>6, <4>7, <4>8
    <3>3. CASE answer # Malformed /\ task = "compile-requirements"
      <4>1. preview'.task = task /\ preview'.response = answer /\ task' = task
        BY <1>2, <2>2, <2>3, <3>3
      <4>2. PICK said \in Outputs : answer = CompileAiRequirements(r, said)
        BY <2>2, <3>3 DEF ProposalsFor
      <4>3. PICK requirements : requirements = answer.requirements
        OBVIOUS
      <4>4. RequirementScope \in Scopes /\ RequirementScope # "candidate-derived"
            /\ (RequirementScope = "interview-private" <=> mode = "interview" /\ private)
        BY <1>1 DEF TypesInv, RequirementScope, Scopes
      <4>5. /\ requirements \in Seq(Objective)
            /\ \A o \in ToSet(requirements) :
                 /\ ~IsTemplate(o.id)
                 /\ [metric |-> o.metric, operator |-> o.operator, target |-> o.target] \in Stated
                 /\ o.visibility = "hidden" <=> RequirementScope = "interview-private"
                 /\ o.visibility = "derived" <=> RequirementScope = "candidate-derived"
        BY <2>2, <3>3, <4>2, <4>3, <4>4, RequirementsCompiled
      <4>6. PreviewInv'
        BY <1>2, <3>3, <4>1, <4>3, <4>5 DEF PreviewInv
      <4>7. AuthoredRemains'
        BY <1>1, <1>2, <3>3, <4>1 DEF AuthoredRemains, Sound
      <4>8. ProposalIsOfForm'
        <5>1. ASSUME NEW o \in ToSet(requirements)
              PROVE  /\ [metric |-> o.metric, operator |-> o.operator, target |-> o.target] \in Stated
                     /\ o.visibility # "derived"
                     /\ o.visibility = "hidden" <=> mode = "interview" /\ private
          BY <4>4, <4>5
        <5>2. Stated' = Stated
          BY <1>2 DEF Stated
        <5> QED
          BY <1>2, <3>3, <4>1, <4>3, <5>1, <5>2 DEF ProposalIsOfForm
      <4> QED
        BY <4>6, <4>7, <4>8
    <3> QED
      BY <1>1, <3>1, <3>2, <3>3 DEF TypesInv
  <2> QED
    BY <1>3, <1>4, <2>4, <2>5, <2>6 DEF DraftingInv
<1> QED
  BY <1>5, <1>6

\* What is taken over has ids of its own, as its contract says, and the user's with their elements.
LEMMA ApplyPreviewInv == DraftingInv /\ ApplyPreview => DraftingInv'
<1> SUFFICES ASSUME DraftingInv, ApplyPreview PROVE DraftingInv'
  OBVIOUS
<1> DEFINE next == IF preview.task = "author-scenario" THEN preview.response.scenario
                   ELSE [draft EXCEPT !.requirements = Merged(preview.response.requirements)]
<1>1. /\ TypesInv /\ IdsInv /\ SharesInv /\ RequestsInv /\ PreviewInv /\ AuthoredRemains /\ ProposalIsOfForm
      /\ WaitsForSomething /\ LinksAreOfDraft /\ Sound(draft)
  BY DEF DraftingInv, AuthoredRemains, Sound
<1>2. /\ preview # Absent
      /\ IF ValidScenario(next) THEN draft' = next /\ Supersede /\ WithdrawLinks
         ELSE UNCHANGED <<draft, sequence, drafting, preview, linkVars>>
      /\ UNCHANGED <<mode, made, authored, formVars, proposals, shares, opened>>
  BY DEF ApplyPreview
<1>3. preview.task = task /\ task \in {"author-scenario", "compile-requirements"} /\ draft \in Draft
      /\ draft.requirements \in Seq(Objective) /\ made \in Nat
  BY <1>1, <1>2 DEF ProposalIsOfForm, TypesInv, Draft
<1>4. next \in Draft /\ Sound(next) /\ DrawnBefore(next.requirements)
  <2>1. CASE task = "author-scenario"
    <3>1. PICK scenario : scenario = preview.response.scenario
      OBVIOUS
    <3>2. scenario \in Draft /\ DrawnBefore(scenario.requirements) /\ Sound(scenario)
      BY <1>1, <1>2, <1>3, <2>1, <3>1 DEF PreviewInv, AuthoredRemains, Sound
    <3> QED
      BY <1>3, <2>1, <3>1, <3>2
  <2>2. CASE task = "compile-requirements"
    <3>1. PICK incoming \in Seq(Objective) :
            incoming = preview.response.requirements /\ \A o \in ToSet(incoming) : ~IsTemplate(o.id)
      BY <1>1, <1>2, <2>2 DEF PreviewInv
    <3> DEFINE was == draft.requirements
               Incoming(id) == incoming[CHOOSE k \in DOMAIN incoming : incoming[k].id = id]
               At(k) == IF was[k].id \in IdsOf(incoming) THEN Incoming(was[k].id) ELSE was[k]
               replaced == [k \in DOMAIN was |-> At(k)]
               places == {k \in DOMAIN incoming : incoming[k].id \notin IdsOf(was)}
               kept == Keep(incoming, places)
    <3>2. Merged(incoming) = replaced \o kept
      BY DEF Merged
    <3>3. \A id \in IdsOf(incoming) : Incoming(id) \in Objective /\ Incoming(id) \in ToSet(incoming)
      <4>1. ASSUME NEW id \in IdsOf(incoming)
            PROVE  (CHOOSE k \in DOMAIN incoming : incoming[k].id = id) \in DOMAIN incoming
        BY DEF IdsOf, ToSet
      <4>2. \A k \in DOMAIN incoming : incoming[k] \in Objective /\ incoming[k] \in ToSet(incoming)
        BY <3>1 DEF ToSet
      <4> QED
        BY <4>1, <4>2
    <3> HIDE DEF Incoming
    <3>4. ASSUME NEW k \in DOMAIN was
          PROVE  /\ At(k) \in Objective /\ At(k) \in ToSet(was) \cup ToSet(incoming)
                 /\ IsTemplate(was[k].id) => At(k) = was[k]
      <4>1. was[k].id \in IdsOf(incoming) => ~IsTemplate(was[k].id)
        BY <3>1 DEF IdsOf
      <4>2. was[k] \in Objective /\ was[k] \in ToSet(was)
        BY <1>3 DEF ToSet
      <4> QED
        BY <3>3, <4>1, <4>2
    <3> HIDE DEF At
    <3>5. replaced \in Seq(Objective) /\ DOMAIN replaced = DOMAIN was /\ \A k \in DOMAIN was : replaced[k] = At(k)
      <4>1. PICK n \in Nat : DOMAIN was = 1..n
        BY <1>3
      <4>2. replaced \in [1..n -> Objective]
        BY <3>4, <4>1
      <4> QED
        BY <4>1, <4>2
    <3>6. kept \in Seq(Objective) /\ ToSet(kept) \subseteq ToSet(incoming)
      <4>1. places \in SUBSET (1..Len(incoming)) /\ DOMAIN incoming = 1..Len(incoming)
        BY <3>1
      <4>2. Keep(incoming, places) \in Seq(Objective) /\ ToSet(Keep(incoming, places)) = {incoming[k] : k \in places}
        <5> HIDE DEF places
        <5> QED
          BY <3>1, <4>1, KeptElements
      <4> QED
        BY <4>1, <4>2 DEF ToSet
    <3> HIDE DEF replaced, kept
    <3>7. PICK merged \in Seq(Objective) : merged = Merged(incoming) /\ ToSet(merged) = ToSet(replaced) \cup ToSet(kept)
      BY <3>2, <3>5, <3>6, JoinedElements
    <3>8. next = [draft EXCEPT !.requirements = merged]
      BY <1>3, <2>2, <3>1, <3>7
    <3>9. next \in Draft /\ next.requirements = merged /\ next.incidents = draft.incidents
      <4> HIDE DEF next
      <4> QED
        BY <1>3, <3>8 DEF Draft
    <3> HIDE DEF next
    <3>10. DrawnBefore(merged)
      <4>1. ToSet(merged) \subseteq ToSet(was) \cup ToSet(incoming)
        <5>1. ToSet(replaced) \subseteq ToSet(was) \cup ToSet(incoming)
          <6>1. \A o \in ToSet(replaced) : \E k \in DOMAIN was : o = At(k)
            BY <3>5 DEF ToSet
          <6> QED
            BY <3>4, <6>1
        <5> QED
          BY <3>6, <3>7, <5>1
      <4> QED
        BY <1>1, <3>1, <4>1 DEF IdsInv, DrawnBefore, IsTemplate
    <3>11. Sound(next)
      <4>1. ASSUME NEW o \in authored, o \in ToSet(was) PROVE o \in ToSet(merged)
        <5>1. PICK k \in DOMAIN was : o = was[k]
          BY <4>1 DEF ToSet
        <5>2. IsTemplate(was[k].id)
          BY <1>1, <5>1 DEF IdsInv
        <5> QED
          BY <3>4, <3>5, <3>7, <5>1, <5>2 DEF ToSet
      <4> QED
        BY <1>1, <3>9, <4>1 DEF Sound
    <3> QED
      BY <3>9, <3>10, <3>11
  <2> QED
    BY <1>3, <2>1, <2>2
<1> HIDE DEF next
<1>5. CASE ValidScenario(next)
  <2>1. draft' = next /\ Supersede /\ WithdrawLinks /\ made' = made /\ authored' = authored
    BY <1>2, <1>5
  <2>2. next.requirements \in Seq(Objective) /\ Cardinality(IdsOf(next.requirements)) = Len(next.requirements)
    BY <1>4, <1>5 DEF ValidScenario, Draft
  <2>3. DifferentIds(next.requirements)
    BY <2>2, CountedIdsDiffer
  <2>4. IdsInv' /\ Sound(draft)'
    BY <1>1, <1>4, <2>1, <2>3 DEF IdsInv, DrawnBefore, Sound
  <2> QED
    BY <1>2, <1>3, <1>4, <2>1, <2>4, DraftEditKeeps
<1>6. CASE ~ValidScenario(next)
  <2>1. /\ UNCHANGED <<mode, draft, made, authored, brief, task, private, sequence, drafting, preview, proposals,
                       published, publishing, links, shares, opened>>
    BY <1>2, <1>6 DEF formVars, linkVars
  <2>2. TypesInv' /\ IdsInv' /\ RequestsInv' /\ SharesInv'
    BY <1>1, <2>1 DEF TypesInv, IdsInv, DrawnBefore, RequestsInv, SharesInv, CurrentRequest, CurrentShare, RequirementScope
  <2>3. PreviewInv' /\ AuthoredRemains' /\ WaitsForSomething'
    BY <1>1, <2>1 DEF PreviewInv, DrawnBefore, AuthoredRemains, WaitsForSomething, Absent
  <2>4. ProposalIsOfForm'
    BY <1>1, <2>1, FormStays
  <2>5. LinksAreOfDraft'
    BY <1>1, <2>1 DEF LinksAreOfDraft, LocalLinks, CandidateScenario, Absent
  <2> QED
    BY <2>2, <2>3, <2>4, <2>5 DEF DraftingInv
<1> QED
  BY <1>5, <1>6

-----------------------------------------------------------------------------
(* The links.                                                               *)

LEMMA ParticipantSeesPublic ==
  ASSUME NEW d \in Draft
  PROVE  /\ ToSet(CandidateScenario(d).requirements) = {o \in ToSet(d.requirements) : o.visibility # "hidden"}
         /\ CandidateScenario(d).interviewerBrief = "blank"
<1> DEFINE all == d.requirements
<1>1. all \in Seq(Objective) /\ DOMAIN all = 1..Len(all)
  BY DEF Draft
<1>2. PICK places \in SUBSET (1..Len(all)) : places = {k \in DOMAIN all : all[k].visibility # "hidden"}
  BY <1>1
<1>3. PICK kept \in Seq(Objective) : kept = Keep(all, places) /\ ToSet(kept) = {all[k] : k \in places}
  BY <1>1, KeptElements
<1>4. CandidateScenario(d) = [d EXCEPT !.requirements = kept, !.interviewerBrief = "blank"]
  BY <1>2, <1>3 DEF CandidateScenario
<1>5. CandidateScenario(d).requirements = kept /\ CandidateScenario(d).interviewerBrief = "blank"
  <2>1. PICK c : c = [d EXCEPT !.requirements = kept, !.interviewerBrief = "blank"]
    OBVIOUS
  <2>2. c.requirements = kept /\ c.interviewerBrief = "blank"
    BY <2>1 DEF Draft
  <2> QED
    BY <1>4, <2>1, <2>2
<1>6. {all[k] : k \in places} = {o \in ToSet(all) : o.visibility # "hidden"}
  BY <1>2 DEF ToSet
<1> QED
  BY <1>3, <1>5, <1>6

LEMMA PublishInv == DraftingInv /\ Publish => DraftingInv'
<1> SUFFICES ASSUME DraftingInv, Publish PROVE DraftingInv'
  OBVIOUS
<1>1. /\ TypesInv /\ IdsInv /\ SharesInv /\ RequestsInv /\ PreviewInv /\ AuthoredRemains /\ ProposalIsOfForm
      /\ WaitsForSomething /\ LinksAreOfDraft
  BY DEF DraftingInv
<1>2. /\ UNCHANGED <<mode, draft, made, authored, brief, task, private, sequence, drafting, preview, proposals, links, opened>>
      /\ published' = published + 1 /\ publishing' = TRUE
      /\ shares' = shares \cup {[sequence |-> published + 1, scenario |-> draft]}
  BY DEF Publish, formVars, assistantVars
<1>3. PICK latest : latest = [sequence |-> published + 1, scenario |-> draft] /\ CurrentShare' = latest
  BY <1>2 DEF CurrentShare
<1>4. latest.sequence = published' /\ published \in Nat /\ published' \in Nat /\ shares' = shares \cup {latest}
  BY <1>1, <1>2, <1>3 DEF TypesInv
<1>5. \A s \in shares : s.sequence \in Nat /\ s.sequence <= published' /\ s.sequence # published'
  BY <1>1, <1>2, <1>4 DEF SharesInv
<1>6. SharesInv'
  <2>1. ASSUME NEW s \in shares'
        PROVE  s.sequence \in Nat /\ s.sequence <= published' /\ (s.sequence = published' => s = latest)
    BY <1>4, <1>5
  <2> QED
    BY <1>3, <2>1 DEF SharesInv
<1>7. Publishes'
  <2>1. \E s \in shares' : s.sequence = published'
    BY <1>4
  <2> QED
    BY <1>2, <2>1 DEF Publishes
<1>8. WaitsForSomething'
  <2>1. Drafts'
    BY <1>1, <1>2 DEF WaitsForSomething, Drafts
  <2> QED
    BY <1>7, <2>1 DEF WaitsForSomething, Drafts, Publishes
<1>9. TypesInv' /\ IdsInv' /\ RequestsInv'
  BY <1>1, <1>2, <1>4 DEF TypesInv, IdsInv, DrawnBefore, RequestsInv, CurrentRequest, RequirementScope
<1>10. PreviewInv' /\ AuthoredRemains'
  BY <1>1, <1>2 DEF PreviewInv, DrawnBefore, AuthoredRemains, Absent
<1>11. ProposalIsOfForm'
  BY <1>1, <1>2, FormStays
<1>12. LinksAreOfDraft'
  BY <1>1, <1>2 DEF LinksAreOfDraft, LocalLinks, CandidateScenario, Absent
<1> QED
  BY <1>6, <1>8, <1>9, <1>10, <1>11, <1>12 DEF DraftingInv

LEMMA ReceiveReceiptInv ==
  ASSUME NEW s \in shares, DraftingInv, ReceiveReceipt(s)
  PROVE  DraftingInv'
<1>1. /\ TypesInv /\ IdsInv /\ SharesInv /\ RequestsInv /\ PreviewInv /\ AuthoredRemains /\ ProposalIsOfForm
      /\ WaitsForSomething /\ LinksAreOfDraft
  BY DEF DraftingInv
<1>2. /\ UNCHANGED <<mode, draft, made, authored, brief, task, private, sequence, drafting, preview, proposals, opened>>
      /\ published' = published /\ shares' = shares \ {s}
      /\ s.sequence # published => publishing' = publishing /\ links' = links
      /\ s.sequence = published =>
           /\ publishing' = FALSE
           /\ links' \in {links, [participant |-> CandidateScenario(s.scenario), interviewer |-> s.scenario]}
  BY DEF ReceiveReceipt, formVars, assistantVars, linkVars
<1>3. SharesInv' /\ IdsInv' /\ RequestsInv'
  BY <1>1, <1>2 DEF SharesInv, CurrentShare, IdsInv, DrawnBefore, RequestsInv, CurrentRequest, RequirementScope
<1>4. TypesInv'
  BY <1>1, <1>2 DEF TypesInv
<1>5. PreviewInv' /\ AuthoredRemains'
  BY <1>1, <1>2 DEF PreviewInv, DrawnBefore, AuthoredRemains, Absent
<1>6. ProposalIsOfForm'
  BY <1>1, <1>2, FormStays
<1>7. WaitsForSomething'
  <2>1. Drafts'
    BY <1>1, <1>2 DEF WaitsForSomething, Drafts
  <2>2. Publishes'
    <3>1. Publishes
      BY <1>1 DEF WaitsForSomething, Publishes
    <3>2. CASE s.sequence = published
      <4>1. \A q \in shares' : q.sequence # published
        BY <1>1, <1>2, <3>2 DEF SharesInv
      <4> QED
        BY <1>2, <3>2, <4>1 DEF Publishes
    <3>3. CASE s.sequence # published
      <4>1. (\E q \in shares' : q.sequence = published) <=> (\E q \in shares : q.sequence = published)
        BY <1>2, <3>3
      <4> QED
        BY <1>2, <3>1, <3>3, <4>1 DEF Publishes
    <3> QED
      BY <3>2, <3>3
  <2> QED
    BY <2>1, <2>2 DEF WaitsForSomething, Drafts, Publishes
<1>8. LinksAreOfDraft'
  <2>1. OpenedInv'
    BY <1>1, <1>2 DEF LinksAreOfDraft, OpenedInv, Absent
  <2>2. LocalLinks' = LocalLinks
    BY <1>2 DEF LocalLinks, CandidateScenario
  <2>3. links' # Absent => links' = LocalLinks
    <3>1. CASE links' = links
      BY <1>1, <3>1 DEF LinksAreOfDraft
    <3>2. CASE links' # links
      <4>1. s = CurrentShare
        BY <1>1, <1>2, <3>2 DEF SharesInv
      <4>2. s.scenario = draft
        BY <4>1 DEF CurrentShare
      <4> QED
        BY <1>2, <3>2, <4>2 DEF LocalLinks
    <3> QED
      BY <3>1, <3>2
  <2> QED
    BY <2>1, <2>2, <2>3 DEF LinksAreOfDraft, OpenedInv, Absent
<1> QED
  BY <1>3, <1>4, <1>5, <1>6, <1>7, <1>8 DEF DraftingInv

LEMMA OpenInv == DraftingInv /\ Open => DraftingInv'
<1> SUFFICES ASSUME DraftingInv, Open PROVE DraftingInv'
  OBVIOUS
<1>1. /\ TypesInv /\ IdsInv /\ SharesInv /\ RequestsInv /\ PreviewInv /\ AuthoredRemains /\ ProposalIsOfForm
      /\ WaitsForSomething /\ LinksAreOfDraft /\ draft \in Draft
  BY DEF DraftingInv, TypesInv
<1>2. UNCHANGED <<mode, draft, made, authored, brief, task, private, sequence, drafting, preview, proposals,
                  published, publishing, links, shares>>
  BY DEF Open, formVars, assistantVars, linkVars
<1>3. PICK shown \in {LocalLinks} \cup ({links} \ {Absent}), role \in {"participant", "interviewer"} :
        opened' = [role |-> role, scenario |-> shown[role], draft |-> draft]
  BY DEF Open
<1>4. shown = LocalLinks
  BY <1>1, <1>3 DEF LinksAreOfDraft
<1>5. OpenedInv'
  <2>1. CASE role = "interviewer"
    <3>1. opened'.role = "interviewer" /\ opened'.scenario = draft /\ opened'.draft = draft
      BY <1>3, <1>4, <2>1 DEF LocalLinks
    <3> QED
      BY <3>1 DEF OpenedInv
  <2>2. CASE role = "participant"
    <3>1. opened'.role = "participant" /\ opened'.scenario = CandidateScenario(draft) /\ opened'.draft = draft
      BY <1>3, <1>4, <2>2 DEF LocalLinks
    <3>2. /\ ToSet(CandidateScenario(draft).requirements) = {o \in ToSet(draft.requirements) : o.visibility # "hidden"}
          /\ CandidateScenario(draft).interviewerBrief = "blank"
      BY <1>1, ParticipantSeesPublic
    <3> QED
      BY <3>1, <3>2 DEF OpenedInv
  <2> QED
    BY <1>3, <2>1, <2>2
<1>6. LinksAreOfDraft'
  <2>1. LocalLinks' = LocalLinks
    BY <1>2 DEF LocalLinks, CandidateScenario
  <2>2. links' # Absent => links' = LocalLinks'
    BY <1>1, <1>2, <2>1 DEF LinksAreOfDraft
  <2> QED
    BY <1>5, <2>2 DEF LinksAreOfDraft, OpenedInv, Absent
<1>7. TypesInv' /\ IdsInv' /\ RequestsInv' /\ SharesInv'
  BY <1>1, <1>2 DEF TypesInv, IdsInv, DrawnBefore, RequestsInv, SharesInv, CurrentRequest, CurrentShare, RequirementScope
<1>8. PreviewInv' /\ AuthoredRemains' /\ WaitsForSomething'
  BY <1>1, <1>2 DEF PreviewInv, DrawnBefore, AuthoredRemains, WaitsForSomething, Absent
<1>9. ProposalIsOfForm'
  BY <1>1, <1>2, FormStays
<1> QED
  BY <1>6, <1>7, <1>8, <1>9 DEF DraftingInv

-----------------------------------------------------------------------------
LEMMA DraftingStarts == DraftingInit => DraftingInv
<1> SUFFICES ASSUME DraftingInit PROVE DraftingInv
  OBVIOUS
<1>1. PICK first : first = RequirementTemplate(0)
  OBVIOUS
<1>2. first \in Objective /\ first.id = <<"requirement", 0>>
  <2>1. PICK id \in ObjectiveIds : id = <<"requirement", 0>>
    BY IdsAre
  <2> QED
    BY <1>1, <2>1 DEF RequirementTemplate, Objective
<1>3. PICK one \in Seq(Objective) : one = <<first>>
  <2>1. <<first>> \in Seq(Objective)
    BY <1>2
  <2> QED
    BY <2>1
<1>4. DOMAIN one = {1} /\ one[1] = first /\ ToSet(one) = {first}
  BY <1>3 DEF ToSet
<1>5. PICK empty \in Seq(Incident) : empty = <<>>
  <2>1. <<>> \in Seq(Incident)
    OBVIOUS
  <2> QED
    BY <2>1
<1>6. /\ mode \in {"custom", "interview"} /\ private = (mode = "interview") /\ task = "author-scenario"
      /\ draft = [requirements |-> one, incidents |-> empty, peakRps |-> 200, candidateBrief |-> "written",
                  interviewerBrief |-> IF mode = "interview" THEN "written" ELSE "blank"]
      /\ made = 1 /\ authored = {first} /\ sequence = 1 /\ drafting = FALSE /\ preview = Absent /\ proposals = {}
      /\ published = 1 /\ publishing = FALSE /\ links = Absent /\ shares = {} /\ opened = Absent
  BY <1>1, <1>3, <1>5 DEF DraftingInit
<1>7. draft \in Draft /\ draft.requirements = one
  BY <1>6 DEF Draft
<1>8. TypesInv
  BY <1>6, <1>7 DEF TypesInv
<1>9. IdsInv
  <2>1. DifferentIds(one)
    BY <1>4 DEF DifferentIds
  <2>2. ASSUME NEW n \in Nat, n >= 1 PROVE first.id # <<"requirement", n>>
    BY <1>2, <2>2, IdsAre
  <2>3. IsTemplate(first.id)
    BY <1>2, IdsAre
  <2> QED
    BY <1>4, <1>6, <1>7, <2>1, <2>2, <2>3 DEF IdsInv, DrawnBefore
<1>10. RequestsInv /\ SharesInv /\ PreviewInv /\ ProposalIsOfForm /\ WaitsForSomething /\ LinksAreOfDraft
  BY <1>6 DEF RequestsInv, SharesInv, PreviewInv, ProposalIsOfForm, WaitsForSomething, LinksAreOfDraft
<1>11. AuthoredRemains
  BY <1>4, <1>6, <1>7 DEF AuthoredRemains
<1> QED
  BY <1>8, <1>9, <1>10, <1>11 DEF DraftingInv

LEMMA DraftingStep == DraftingInv /\ [DraftingNext]_draftingVars => DraftingInv'
<1> SUFFICES ASSUME DraftingInv, [DraftingNext]_draftingVars PROVE DraftingInv'
  OBVIOUS
<1>1. CASE UNCHANGED draftingVars
  <2>1. UNCHANGED <<mode, draft, made, authored, brief, task, private, sequence, drafting, preview, proposals,
                    published, publishing, links, shares, opened>>
    BY <1>1 DEF draftingVars, formVars, assistantVars, linkVars
  <2>2. TypesInv' /\ IdsInv' /\ RequestsInv' /\ SharesInv'
    BY <2>1 DEF DraftingInv, TypesInv, IdsInv, DrawnBefore, RequestsInv, SharesInv, CurrentRequest, CurrentShare, RequirementScope
  <2>3. PreviewInv' /\ AuthoredRemains' /\ WaitsForSomething'
    BY <2>1 DEF DraftingInv, PreviewInv, DrawnBefore, AuthoredRemains, WaitsForSomething, Absent
  <2>4. ProposalIsOfForm'
    BY <2>1, FormStays DEF DraftingInv
  <2>5. LinksAreOfDraft'
    BY <2>1 DEF DraftingInv, LinksAreOfDraft, LocalLinks, CandidateScenario, Absent
  <2> QED
    BY <2>2, <2>3, <2>4, <2>5 DEF DraftingInv
<1>2. CASE FillForm \/ RequestProposal \/ Discard \/ ApplyPreview \/ Publish \/ Open
  BY <1>2, FillFormInv, RequestProposalInv, DiscardInv, ApplyPreviewInv, PublishInv, OpenInv
<1>3. CASE \E r \in proposals : ReceiveProposal(r)
  BY <1>3, ReceiveProposalInv
<1>4. CASE \E s \in shares : ReceiveReceipt(s)
  BY <1>4, ReceiveReceiptInv
<1>5. CASE AddObjective \/ AddIncident \/ EditFields
  BY <1>5, AddObjectiveInv, AddIncidentInv, EditFieldsInv
<1>6. CASE \E id \in IdsOf(draft.requirements) : UpdateRequirement(id)
  BY <1>6, UpdateRequirementInv
<1>7. CASE \E id \in IdsOf(draft.requirements) \cup IdsOf(draft.incidents) : RemoveItem(id)
  BY <1>7, RemoveItemInv
<1> QED
  BY <1>1, <1>2, <1>3, <1>4, <1>5, <1>6, <1>7 DEF DraftingNext

\* Whatever is edited, proposed, published and opened in whatever order: the user's
\* items are kept, a proposal on screen is stated in the brief and belongs to draft and
\* form as they are, and links show the present draft to those who may see it.
THEOREM DraftingHolds == DraftingSpec => []DraftingIsSound
<1>1. DraftingInv => DraftingIsSound
  BY DEF DraftingInv, DraftingIsSound
<1> QED
  BY <1>1, DraftingStarts, DraftingStep, PTL DEF DraftingSpec
=============================================================================

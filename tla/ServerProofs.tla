---------------------------- MODULE ServerProofs ----------------------------
(***************************************************************************)
(* Proofs about the server and its host.  InterviewSession, for every      *)
(* number of tabs, clicks and page loads and every reveal policy.  And the *)
(* deployment of a release (Startup), its backups (Backups) and the two    *)
(* control stores (ControlStores), for any number of migrate runs, images, *)
(* replicas and configurations, any times and any capacities.              *)
(***************************************************************************)
EXTENDS InterviewSession, Startup, Backups, ControlStores, FilterProofs, FiniteSetTheorems,
        WellFoundedInduction, SequenceTheorems, TLAPS

-----------------------------------------------------------------------------
(* InterviewSession: types *)

LEMMA ViewType == ASSUME TypeOK PROVE View \in Answers
BY DEF TypeOK, View, Revealed, Answers, Collaboration

LEMMA PatchType ==
    ASSUME TypeOK, NEW op \in Ops
    PROVE  Patched(op) \in [live : BOOLEAN, flag : BOOLEAN, ran : BOOLEAN,
                            journal : 0 .. MaxClicks, clock : BOOLEAN, ver : Nat]
<1> DEFINE Rows == [live : BOOLEAN, flag : BOOLEAN, ran : BOOLEAN,
                    journal : 0 .. MaxClicks, clock : BOOLEAN, ver : Nat]
<1>1. /\ row \in Rows
      /\ op.n \in 1 .. MaxClicks /\ op.value \in BOOLEAN
      /\ op.kind \in {"reveal", "journal", "clock"}
  BY DEF TypeOK, Ops, Kinds
<1>2. CASE op.kind = "reveal"
  BY <1>1, <1>2 DEF Patched
<1>3. CASE op.kind = "journal"
  <2>1. op.n \in 0 .. MaxClicks /\ row.ver + 1 \in Nat
    BY <1>1, BoundAssumption
  <2>2. Patched(op) = [row EXCEPT !.journal = op.n, !.ver = @ + 1]
    BY <1>3 DEF Patched
  <2>3. QED
    BY <1>1, <2>1, <2>2
<1>4. CASE op.kind = "clock"
  <2>1. row.ver + 1 \in Nat
    BY <1>1
  <2>2. Patched(op) = [row EXCEPT !.clock = op.value, !.ver = @ + 1]
    BY <1>4 DEF Patched
  <2>3. QED
    BY <1>1, <2>1, <2>2
<1>5. QED
  BY <1>1, <1>2, <1>3, <1>4

LEMMA AbandonedType ==
    ASSUME TypeOK, NEW t \in Tabs, NEW L \in Abandoned(t)
    PROVE  L \in SUBSET [step : {"sent", "checked"}, op : Ops]
<1>1. CASE call[t].step \in {"sent", "checked"}
  <2>1. call[t] \in [step : {"sent", "checked", "done"}, op : Ops, view : Views]
    BY <1>1 DEF TypeOK, NoCall
  <2>2. [step |-> call[t].step, op |-> call[t].op] \in [step : {"sent", "checked"}, op : Ops]
    BY <1>1, <2>1
  <2>3. L = {} \/ L = {[step |-> call[t].step, op |-> call[t].op]}
    BY <1>1 DEF Abandoned
  <2>4. QED
    BY <2>2, <2>3
<1>2. CASE call[t].step \notin {"sent", "checked"}
  BY <1>2 DEF Abandoned
<1>3. QED
  BY <1>1, <1>2

\* Where every tab's own operations are cancelled the rest of the types is easy.
LEMMA CancelType ==
    ASSUME TypeOK, NEW t \in Tabs, NEW p \in [step : {"none", "sent", "done"}, view : Views],
           CancelOperations(t, p)
    PROVE  /\ late' \in SUBSET [step : {"sent", "checked"}, op : Ops]
           /\ queue' \in [Tabs -> Seq(Ops)]
           /\ call' \in [Tabs -> {NoCall} \cup
                         [step : {"sent", "checked", "done"}, op : Ops, view : Views]]
           /\ poll' \in [Tabs -> [step : {"none", "sent", "done"}, view : Views]]
           /\ loop' \in [Tabs -> {"idle", "polling", "marking"}]
           /\ \A u \in Tabs : Left(u) => Left(u)'
           /\ Left(t)'
<1>1. PICK L \in Abandoned(t) : late' = late \cup L
  BY DEF CancelOperations
<1>2. late' \in SUBSET [step : {"sent", "checked"}, op : Ops]
  BY <1>1, AbandonedType DEF TypeOK
<1>3. << >> \in Seq(Ops)
  OBVIOUS
<1>4. QED
  BY <1>2, <1>3 DEF CancelOperations, TypeOK, Left

LEMMA PollTypes ==
    /\ NoPoll \in [step : {"none", "sent", "done"}, view : Views]
    /\ Asked \in [step : {"none", "sent", "done"}, view : Views]
BY DEF NoPoll, Asked, Views

LEMMA TypeInit == Init => TypeOK
BY BoundAssumption
   DEF Init, TypeOK, Collaboration, Blank, Views, NoPoll, Connected, Left

\* The steps of a tab's page.
LEMMA PageTypes ==
    ASSUME TypeOK, NEW t \in Tabs,
           \/ FollowLink(t) \/ Opened(t) \/ OpenFails(t)
           \/ Hydrate(t) \/ OpenWorkbench(t) \/ Leave(t) \/ Edit(t)
    PROVE  TypeOK'
<1> USE BoundAssumption, PollTypes
<1> DEFINE Blanks == Blank \in Collaboration
<1>0. Blanks
  BY DEF Blank, Collaboration
<1>1. CASE FollowLink(t)
  <2>1. CancelOperations(t, Asked)
    BY <1>1 DEF FollowLink
  <2>2. QED
    BY <1>1, <2>1, CancelType DEF FollowLink, TypeOK, Load, viewVars, Connected
<1>2. CASE Opened(t)
  BY <1>0, <1>2 DEF Opened, TypeOK, Show, serverVars, Connected, Left, Views, Answers
<1>3. CASE OpenFails(t)
  BY <1>3 DEF OpenFails, TypeOK, serverVars, viewVars, Connected, Left
<1>4. CASE Hydrate(t)
  <2>1. CancelOperations(t, NoPoll)
    BY <1>4 DEF Hydrate
  <2>2. QED
    BY <1>0, <1>4, <2>1, CancelType DEF Hydrate, TypeOK, Load, Connected
<1>5. CASE OpenWorkbench(t)
  BY <1>5 DEF OpenWorkbench, TypeOK, Load, serverVars, tabVars, viewVars, callVars, Connected, Left
<1>6. CASE Leave(t)
  <2>1. CancelOperations(t, NoPoll)
    BY <1>6 DEF Leave
  <2>2. QED
    BY <1>6, <2>1, CancelType DEF Leave, TypeOK, Load, viewVars, Connected
<1>7. CASE Edit(t)
  BY <1>7 DEF Edit, TypeOK, Load, serverVars, viewVars, Connected, Left
<1>8. QED
  BY <1>1, <1>2, <1>3, <1>4, <1>5, <1>6, <1>7

\* The steps of a mutation, in the tab and in its handler.
LEMMA MutationTypes ==
    ASSUME TypeOK, NEW t \in Tabs,
           \/ Click(t) \/ Send(t) \/ Check(t) \/ Update(t) \/ Answered(t) \/ CallFails(t)
    PROVE  TypeOK'
<1> USE BoundAssumption, PollTypes
<1> DEFINE Calls == [step : {"sent", "checked", "done"}, op : Ops, view : Views]
<1>0. /\ call[t].step # "none" => call[t] \in Calls
      /\ call[t].step # "none" \/ queue[t] # <<>> => Connected(t)
  BY DEF TypeOK, NoCall, Left
<1>1. CASE Click(t)
  <2>1. PICK op \in Offered(t) \cup OfferedReveal(t) : queue' = [queue EXCEPT ![t] = Append(@, op)]
    BY <1>1 DEF Click
  <2>2. clicks + 1 \in 1 .. MaxClicks
    BY <1>1 DEF Click, TypeOK
  <2>3. /\ (~collab[t].clock) \in BOOLEAN
        /\ (~reveal[t]) \in BOOLEAN
    OBVIOUS
  <2>4. op \in Ops
    BY <2>1, <2>2, <2>3 DEF Offered, OfferedReveal, Ops, Kinds
  <2>5. queue' \in [Tabs -> Seq(Ops)]
    BY <2>1, <2>4 DEF TypeOK
  <2>6. poll' \in [Tabs -> [step : {"none", "sent", "done"}, view : Views]]
    BY <1>1 DEF Click, CancelRefresh, TypeOK
  <2>7. page[t] \in {"decisions", "lab"}
    BY <1>1 DEF Click
  <2>8. \A u \in Tabs : Connected(u)' \/ Left(u)'
    BY <1>1, <2>1, <2>7 DEF Click, TypeOK, Connected, Left, viewVars, serverVars
  <2>9. QED
    BY <1>1, <2>5, <2>6, <2>8 DEF Click, TypeOK, viewVars, serverVars
<1>2. CASE Send(t)
  <2>1. Head(queue[t]) \in Ops /\ Tail(queue[t]) \in Seq(Ops)
    BY <1>2, HeadTailProperties DEF Send, MyTurn, TypeOK
  <2>2. call' \in [Tabs -> {NoCall} \cup Calls]
    <3>1. [step |-> "sent", op |-> Head(queue[t]), view |-> NoView] \in Calls
      BY <2>1 DEF Views
    <3>2. QED
      BY <1>2, <3>1 DEF Send, TypeOK
  <2>3. queue' \in [Tabs -> Seq(Ops)]
    BY <1>2, <2>1 DEF Send, TypeOK
  <2>4. Connected(t)
    BY <1>0, <1>2 DEF Send, MyTurn
  <2>5. QED
    BY <1>2, <2>2, <2>3, <2>4 DEF Send, TypeOK, viewVars, serverVars, Connected, Left
<1>3. CASE Check(t)
  <2>1. call' \in [Tabs -> {NoCall} \cup Calls]
    BY <1>0, <1>3 DEF Check, TypeOK
  <2>2. QED
    BY <1>0, <1>3, <2>1 DEF Check, TypeOK, viewVars, serverVars, Connected, Left
<1>4. CASE Update(t)
  <2>1. row' \in [live : BOOLEAN, flag : BOOLEAN, ran : BOOLEAN,
                  journal : 0 .. MaxClicks, clock : BOOLEAN, ver : Nat]
    BY <1>0, <1>4, PatchType DEF Update, TypeOK
  <2>2. View' \in Views
    BY <2>1 DEF View, Revealed, Collaboration, Answers, Views
  <2>3. call' \in [Tabs -> {NoCall} \cup Calls]
    <3> DEFINE shown == IF row.live THEN View' ELSE NoView
    <3>1. shown \in Views
      BY <2>2 DEF Views
    <3>2. call[t] \in Calls
      BY <1>0, <1>4 DEF Update, TypeOK
    <3>3. [call[t] EXCEPT !.step = "done", !.view = shown] \in Calls
      BY <3>1, <3>2
    <3>4. call' = [call EXCEPT ![t] = [call[t] EXCEPT !.step = "done", !.view = shown]]
      BY <1>4 DEF Update, TypeOK
    <3> HIDE DEF shown
    <3> QED
      BY <3>3, <3>4 DEF TypeOK
  <2>4. QED
    BY <1>0, <1>4, <2>1, <2>3 DEF Update, TypeOK, viewVars, Connected, Left
<1>5. CASE Answered(t)
  <2>1. call[t].view = NoView \/ call[t].view \in Answers
    BY <1>0, <1>5 DEF Answered, Views
  <2>2. /\ reveal' \in [Tabs -> BOOLEAN]
        /\ collab' \in [Tabs -> Collaboration]
    BY <1>5, <2>1 DEF Answered, Answers, RevealAnswered, TypeOK
  <2>3. Connected(t)
    BY <1>0, <1>5 DEF Answered
  <2>4. QED
    BY <1>5, <2>2, <2>3 DEF Answered, TypeOK, serverVars, Connected, Left
<1>6. CASE CallFails(t)
  <2>1. late' \in SUBSET [step : {"sent", "checked"}, op : Ops]
    BY <1>6, AbandonedType DEF CallFails, TypeOK
  <2>2. QED
    BY <1>0, <1>6, <2>1 DEF CallFails, TypeOK, viewVars, Connected, Left
<1>7. QED
  BY <1>1, <1>2, <1>3, <1>4, <1>5, <1>6

\* The candidate's refresh and run, and the steps of the server.
LEMMA RefreshAndRunTypes ==
    ASSUME TypeOK, NEW t \in Tabs,
           \/ Refresh(t) \/ RefreshRead(t) \/ Refreshed(t) \/ RefreshFails(t)
           \/ SubmitRun(t) \/ RunHeard(t) \/ LoopEnds(t) \/ Marked(t)
    PROVE  TypeOK'
<1> USE PollTypes
<1>1. CASE Refresh(t)
  BY <1>1 DEF Refresh, TypeOK, viewVars, serverVars, Connected, Left
<1>2. CASE RefreshRead(t)
  BY <1>2, ViewType DEF RefreshRead, TypeOK, Views, viewVars, serverVars, Connected, Left
<1>3. CASE Refreshed(t)
  BY <1>3 DEF Refreshed, TypeOK, Show, Views, Answers, serverVars, Connected, Left
<1>4. CASE RefreshFails(t)
  BY <1>4 DEF RefreshFails, TypeOK, viewVars, serverVars, Connected, Left
<1>5. CASE SubmitRun(t)
  <2>1. /\ run' \in [state : {"none", "open", "completed", "failed"}, kept : BOOLEAN, plain : BOOLEAN]
        /\ loop' \in [Tabs -> {"idle", "polling", "marking"}]
    BY <1>5 DEF SubmitRun, TypeOK
  <2>2. \A u \in Tabs : Connected(u)' \/ Left(u)'
    <3>1. Connected(t)
      BY <1>5 DEF SubmitRun, Connected
    <3>2. QED
      BY <1>5, <3>1 DEF SubmitRun, TypeOK, Connected, Left
  <2>3. QED
    BY <1>5, <2>1, <2>2 DEF SubmitRun, TypeOK, viewVars
<1>6. CASE RunHeard(t)
  <2>1. loop[t] # "idle"
    BY <1>6 DEF RunHeard
  <2>2. Connected(t)
    BY <2>1 DEF TypeOK, Left
  <2>3. QED
    BY <1>6, <2>2 DEF RunHeard, PostMilestone, TypeOK, Views, viewVars, Connected, Left
<1>7. CASE LoopEnds(t)
  BY <1>7 DEF LoopEnds, TypeOK, viewVars, serverVars, Connected, Left
<1>8. CASE Marked(t)
  BY <1>8 DEF Marked, TypeOK, Show, Views, Answers, serverVars, Connected, Left
<1>9. QED
  BY <1>1, <1>2, <1>3, <1>4, <1>5, <1>6, <1>7, <1>8

LEMMA ServerTypes == ASSUME TypeOK, ServerNext PROVE TypeOK'
<1> USE DEF tabVars, viewVars, callVars
<1> DEFINE Rows == [live : BOOLEAN, flag : BOOLEAN, ran : BOOLEAN,
                    journal : 0 .. MaxClicks, clock : BOOLEAN, ver : Nat]
<1>1. ASSUME NEW h \in late, LateCheck(h) PROVE TypeOK'
  <2>1. h \in [step : {"sent", "checked"}, op : Ops]
    BY DEF TypeOK
  <2>2. [h EXCEPT !.step = "checked"] \in [step : {"sent", "checked"}, op : Ops]
    BY <2>1
  <2>3. late' \in SUBSET [step : {"sent", "checked"}, op : Ops]
    BY <1>1, <2>2 DEF LateCheck, TypeOK
  <2>4. QED
    BY <1>1, <2>3 DEF LateCheck, TypeOK, Connected, Left
<1>2. ASSUME NEW h \in late, LateUpdate(h) PROVE TypeOK'
  <2>1. h.op \in Ops
    BY DEF TypeOK
  <2>2. row' \in Rows
    BY <1>2, <2>1, PatchType DEF LateUpdate, TypeOK
  <2>3. QED
    BY <1>2, <2>2 DEF LateUpdate, TypeOK, Connected, Left
<1>3. ASSUME NEW outcome \in {"completed", "failed"}, RunSettles(outcome) PROVE TypeOK'
  BY <1>3 DEF RunSettles, TypeOK, Connected, Left
<1>4. CASE RunEvicted
  BY <1>4 DEF RunEvicted, TypeOK, Connected, Left
<1>5. CASE Milestone
  <2>1. marking' \in [step : {"none", "scenario", "run", "match", "mark", "done"},
                      client : Tabs \cup {NoView}, view : Views]
    BY <1>5 DEF Milestone, PostMilestone, Views
  <2>2. loads' \in 0 .. MaxLoads
    BY <1>5, BoundAssumption DEF Milestone, Load, TypeOK
  <2>3. QED
    BY <1>5, <2>1, <2>2 DEF Milestone, TypeOK, Connected, Left
<1>6. CASE MilestoneStep
  <2>1. row' \in Rows
    <3>1. row' \in {row, [row EXCEPT !.ran = TRUE]}
      BY <1>6 DEF MilestoneStep
    <3>2. QED
      BY <3>1 DEF TypeOK
  <2>2. View' \in Views
    BY <2>1 DEF View, Revealed, Collaboration, Answers, Views
  <2>3. marking' \in [step : {"none", "scenario", "run", "match", "mark", "done"},
                      client : Tabs \cup {NoView}, view : Views]
    <3> DEFINE Steps == {"none", "scenario", "run", "match", "mark", "done"}
               Markings == [step : Steps, client : Tabs \cup {NoView}, view : Views]
    <3>1. marking \in Markings /\ NoView \in Views
      BY DEF TypeOK, Views
    <3>2. \/ \E step \in Steps : marking' = [marking EXCEPT !.step = step]
          \/ \E view \in Views : marking' = [marking EXCEPT !.step = "done", !.view = view]
      <4>1. CASE marking.step \in {"scenario", "run", "match"} /\ marking.step # "mark"
        BY <1>6, <4>1 DEF MilestoneStep
      <4>2. CASE marking.step = "mark"
        <5>1. PICK view : marking' = [marking EXCEPT !.step = "done", !.view = view]
                          /\ view = IF row.live THEN View' ELSE NoView
          BY <1>6, <4>2 DEF MilestoneStep
        <5> QED
          BY <2>2, <3>1, <5>1
      <4> QED
        BY <1>6, <4>1, <4>2 DEF MilestoneStep
    <3>3. \A step \in Steps : [marking EXCEPT !.step = step] \in Markings
      BY <3>1
    <3>4. \A view \in Views : [marking EXCEPT !.step = "done", !.view = view] \in Markings
      BY <3>1
    <3> QED
      BY <3>2, <3>3, <3>4
  <2>4. QED
    BY <1>6, <2>1, <2>3 DEF MilestoneStep, TypeOK, Connected, Left
<1>7. CASE Expire
  BY <1>7 DEF Expire, TypeOK, Connected, Left
<1>8. QED
  BY <1>1, <1>2, <1>3, <1>4, <1>5, <1>6, <1>7 DEF ServerNext

LEMMA TypeStep == TypeOK /\ [Next]_vars => TypeOK'
<1>1. CASE UNCHANGED vars
  BY <1>1 DEF vars, serverVars, tabVars, viewVars, callVars, TypeOK, Connected, Left
<1>2. QED
  BY <1>1, PageTypes, MutationTypes, RefreshAndRunTypes, ServerTypes DEF Next, TabNext

\* The row, the handlers and every tab keep their types in every behaviour, and
\* a tab outside the session has no operation of it queued, sent or polled.
THEOREM TypeCorrect == Spec => []TypeOK
BY TypeInit, TypeStep, PTL DEF Spec

-----------------------------------------------------------------------------
(* Criteria are earned before they are shown *)

Earned ==
    /\ Policy # "never"
    /\ Policy = "after-run" => row.ran /\ run.state = "completed" /\ run.plain

\* What a tab shows, has stored or is about to be told.
TabEarned(t) ==
    /\ reveal[t] \/ stored[t] => Earned
    /\ call[t].view # NoView /\ call[t].view.reveal => Earned
    /\ poll[t].view # NoView /\ poll[t].view.reveal => Earned

\* What the handler of the milestone has verified stays true while it awaits.
MilestoneEarned ==
    /\ row.ran => run.state = "completed" /\ run.plain
    /\ marking.step \in {"match", "mark"} => run.state = "completed"
    /\ marking.step = "mark" => run.plain
    /\ marking.view # NoView /\ marking.view.reveal => Earned

EarnedInv == MilestoneEarned /\ \A t \in Tabs : TabEarned(t)

LEMMA PatchKeeps ==
    ASSUME TypeOK, NEW op \in Ops
    PROVE  Patched(op).ran = row.ran /\ Patched(op).ver \in {row.ver, row.ver + 1}
<1>1. op.kind \in {"reveal", "journal", "clock"}
  BY DEF Ops, Kinds
<1>2. QED
  BY <1>1 DEF TypeOK, Patched

\* What the milestone needs of the run and the row never goes away again.
LEMMA EarnedStays ==
    ASSUME TypeOK, [Next]_vars
    PROVE  /\ row.ran => row'.ran
           /\ run.state = "completed" => run'.state = "completed" /\ run'.plain = run.plain
           /\ Earned => Earned'
<1> DEFINE P == /\ row.ran => row'.ran
                /\ run.state = "completed" => run'.state = "completed" /\ run'.plain = run.plain
<1>1. ASSUME NEW t \in Tabs, TabNext(t) PROVE P
  <2>1. CASE UNCHANGED <<row, run>>
    BY <2>1
  <2>2. CASE Update(t)
    <3>1. call[t].op \in Ops
      BY <2>2 DEF Update, TypeOK, NoCall
    <3>2. QED
      BY <2>2, <3>1, PatchKeeps DEF Update
  <2>3. CASE SubmitRun(t)
    BY <2>3 DEF SubmitRun
  <2>4. QED
    BY <1>1, <2>1, <2>2, <2>3
    DEF TabNext, FollowLink, Opened, OpenFails, Hydrate, OpenWorkbench, Leave, Edit, Click, Send,
        Check, Answered, CallFails, Refresh, RefreshRead, Refreshed, RefreshFails, RunHeard,
        LoopEnds, Marked, serverVars
<1>2. ASSUME ServerNext PROVE P
  <2>1. CASE UNCHANGED <<row, run>>
    BY <2>1
  <2>2. ASSUME NEW h \in late, LateUpdate(h) PROVE P
    <3>1. h.op \in Ops
      BY DEF TypeOK
    <3>2. QED
      BY <2>2, <3>1, PatchKeeps DEF LateUpdate
  <2>3. ASSUME NEW outcome \in {"completed", "failed"}, RunSettles(outcome) PROVE P
    BY <2>3 DEF RunSettles
  <2>4. CASE RunEvicted
    BY <2>4 DEF RunEvicted, TypeOK
  <2>5. CASE MilestoneStep
    BY <2>5 DEF MilestoneStep, TypeOK
  <2>6. CASE Expire
    BY <2>6 DEF Expire, TypeOK
  <2>7. QED
    BY <1>2, <2>1, <2>2, <2>3, <2>4, <2>5, <2>6 DEF ServerNext, LateCheck, Milestone
<1>3. ASSUME UNCHANGED vars PROVE P
  BY <1>3 DEF vars, serverVars
<1>4. P
  BY <1>1, <1>2, <1>3 DEF Next
<1>5. QED
  BY <1>4 DEF Earned

\* The API answers with criteria only where they are earned.
LEMMA ViewIsEarned == ASSUME MilestoneEarned, View.reveal PROVE Earned
BY DEF View, Revealed, MilestoneEarned, Earned

LEMMA MilestoneStaysEarned ==
    ASSUME TypeOK, EarnedInv, [Next]_vars PROVE MilestoneEarned'
<1> USE EarnedStays DEF EarnedInv, MilestoneEarned
<1>1. ASSUME NEW t \in Tabs, TabNext(t) PROVE MilestoneEarned'
  <2>1. CASE UNCHANGED <<row, run, marking>>
    BY <2>1
  <2>2. CASE Update(t)
    <3>1. call[t].op \in Ops
      BY <2>2 DEF Update, TypeOK, NoCall
    <3>2. QED
      BY <2>2, <3>1, PatchKeeps DEF Update
  <2>3. CASE SubmitRun(t)
    BY <2>3 DEF SubmitRun, TypeOK
  <2>4. CASE RunHeard(t)
    BY <2>4 DEF RunHeard, PostMilestone
  <2>5. QED
    BY <1>1, <2>1, <2>2, <2>3, <2>4
    DEF TabNext, FollowLink, Opened, OpenFails, Hydrate, OpenWorkbench, Leave, Edit, Click, Send,
        Check, Answered, CallFails, Refresh, RefreshRead, Refreshed, RefreshFails,
        LoopEnds, Marked, serverVars
<1>2. ASSUME ServerNext PROVE MilestoneEarned'
  <2>1. ASSUME NEW h \in late, LateCheck(h) PROVE MilestoneEarned'
    BY <2>1 DEF LateCheck
  <2>2. ASSUME NEW h \in late, LateUpdate(h) PROVE MilestoneEarned'
    <3>1. h.op \in Ops
      BY DEF TypeOK
    <3>2. QED
      BY <2>2, <3>1, PatchKeeps DEF LateUpdate
  <2>3. ASSUME NEW outcome \in {"completed", "failed"}, RunSettles(outcome)
        PROVE MilestoneEarned'
    BY <2>3 DEF RunSettles, TypeOK
  <2>4. CASE RunEvicted
    BY <2>4 DEF RunEvicted, TypeOK
  <2>5. CASE Milestone
    BY <2>5 DEF Milestone, PostMilestone
  <2>6. CASE MilestoneStep
    <3>1. row'.ran => run'.state = "completed" /\ run'.plain
      BY <2>6 DEF MilestoneStep, TypeOK
    <3>2. View'.reveal => Earned'
      BY <3>1 DEF View, Revealed, Earned
    <3>3. QED
      <4>1. run' = run
        BY <2>6 DEF MilestoneStep
      <4> DEFINE Steps == {"none", "scenario", "run", "match", "mark", "done"}
      <4>m. marking \in [step : Steps, client : Tabs \cup {NoView}, view : Views]
        BY DEF TypeOK
      <4>c. marking.step \in {"scenario", "run", "match", "mark"}
        BY <2>6 DEF MilestoneStep
      <4>2. /\ marking'.view \in {marking.view, View', NoView}
            /\ marking'.step = "match" => RunIsCompleted
            /\ marking'.step = "mark" => marking.step = "match" /\ RunMatches
        <5>1. CASE marking.step = "scenario"
          <6> DEFINE step == IF row.live THEN "run" ELSE "done"
          <6>1. marking' = [marking EXCEPT !.step = step]
            BY <2>6, <5>1 DEF MilestoneStep
          <6>2. marking'.step = step /\ marking'.view = marking.view
            BY <4>m, <6>1
          <6> QED
            BY <6>2
        <5>2. CASE marking.step = "run"
          <6> DEFINE step == IF RunIsCompleted THEN "match" ELSE "done"
          <6>1. marking' = [marking EXCEPT !.step = step]
            BY <2>6, <5>2 DEF MilestoneStep
          <6>2. marking'.step = step /\ marking'.view = marking.view
            BY <4>m, <6>1
          <6> QED
            BY <6>2
        <5>3. CASE marking.step = "match"
          <6> DEFINE step == IF RunMatches THEN "mark" ELSE "done"
          <6>1. marking' = [marking EXCEPT !.step = step]
            BY <2>6, <5>3 DEF MilestoneStep
          <6>2. marking'.step = step /\ marking'.view = marking.view
            BY <4>m, <6>1
          <6> QED
            BY <5>3, <6>2
        <5>4. CASE marking.step = "mark"
          <6> DEFINE shown == IF row.live THEN View' ELSE NoView
          <6>1. marking' = [marking EXCEPT !.step = "done", !.view = shown]
            BY <2>6, <5>4 DEF MilestoneStep
          <6>2. marking'.step = "done" /\ marking'.view = shown
            BY <4>m, <6>1
          <6> QED
            BY <6>2
        <5> QED
          BY <4>c, <5>1, <5>2, <5>3, <5>4
      <4>3. marking'.view # NoView /\ marking'.view.reveal => Earned'
        BY <3>2, <4>2
      <4> QED
        BY <3>1, <4>1, <4>2, <4>3 DEF RunIsCompleted, RunMatches
  <2>7. CASE Expire
    BY <2>7 DEF Expire, TypeOK
  <2>8. QED
    BY <1>2, <2>1, <2>2, <2>3, <2>4, <2>5, <2>6, <2>7 DEF ServerNext
<1>3. CASE UNCHANGED vars
  BY <1>3 DEF vars, serverVars
<1>4. QED
  BY <1>1, <1>2, <1>3 DEF Next

LEMMA TabsStayEarned ==
    ASSUME TypeOK, EarnedInv, [Next]_vars PROVE \A t \in Tabs : TabEarned(t)'
<1>0. (Earned => Earned') /\ MilestoneEarned'
  BY EarnedStays, MilestoneStaysEarned
<1> USE <1>0 DEF TabEarned, EarnedInv
<1> DEFINE P == \A t \in Tabs : TabEarned(t)'
<1>1. CASE UNCHANGED <<reveal, stored, call, poll>>
  BY <1>1
<1>2. ASSUME NEW t \in Tabs,
             \/ FollowLink(t) \/ Hydrate(t) \/ Leave(t) \/ Click(t) \/ Send(t) \/ Check(t)
             \/ CallFails(t) \/ Refresh(t) \/ OpenFails(t) \/ RefreshFails(t)
      PROVE  P
  <2>1. /\ stored' = stored
        /\ reveal' = reveal \/ reveal' = [reveal EXCEPT ![t] = stored[t]]
    BY <1>2 DEF FollowLink, Hydrate, Leave, Click, Send, Check, CallFails, Refresh, OpenFails,
                RefreshFails, viewVars
  <2>2. \A u \in Tabs : poll'[u].view \in {poll[u].view, NoView}
    BY <1>2 DEF FollowLink, Hydrate, Leave, Click, Send, Check, CallFails, Refresh, OpenFails,
                RefreshFails, CancelOperations, CancelRefresh, NoPoll, Asked, TypeOK
  <2>3. \A u \in Tabs : call'[u].view \in {call[u].view, NoView}
    <3>1. CASE UNCHANGED call
      BY <3>1
    <3>2. CASE call' = [call EXCEPT ![t] = NoCall]
      BY <3>2 DEF NoCall, TypeOK
    <3>3. CASE Send(t)
      BY <3>3 DEF Send, TypeOK
    <3>4. CASE Check(t)
      BY <3>4 DEF Check, TypeOK
    <3>5. QED
      BY <1>2, <3>1, <3>2, <3>3, <3>4
      DEF FollowLink, Hydrate, Leave, Click, CallFails, Refresh, OpenFails, RefreshFails,
          CancelOperations
  <2>4. QED
    BY <2>1, <2>2, <2>3 DEF TypeOK
<1>3. ASSUME NEW t \in Tabs, Opened(t) \/ Refreshed(t) \/ Marked(t) PROVE P
  <2>1. CASE Opened(t) \/ Refreshed(t)
    <3>1. /\ reveal' = [reveal EXCEPT ![t] = poll[t].view.reveal]
          /\ stored' = [stored EXCEPT ![t] = poll[t].view.reveal]
          /\ poll' = [poll EXCEPT ![t] = NoPoll]
          /\ call' = call
      BY <2>1 DEF Opened, Refreshed, Show
    <3>2. poll[t].view.reveal => Earned'
      BY <2>1 DEF Opened, Refreshed
    <3>3. QED
      BY <3>1, <3>2 DEF NoPoll, TypeOK
  <2>2. CASE Marked(t)
    BY <2>2 DEF Marked, Show, TypeOK, MilestoneEarned
  <2>3. QED
    BY <1>3, <2>1, <2>2
<1>4. ASSUME NEW t \in Tabs, Update(t) PROVE P
  <2>1. View'.reveal => Earned'
    BY DEF View, Revealed, MilestoneEarned, Earned
  <2>2. QED
    BY <1>4, <2>1 DEF Update, TypeOK, viewVars
<1>5. ASSUME NEW t \in Tabs, Answered(t) PROVE P
  BY <1>5 DEF Answered, RevealAnswered, NoCall, TypeOK
<1>6. ASSUME NEW t \in Tabs, RefreshRead(t) PROVE P
  BY <1>6, ViewIsEarned DEF RefreshRead, TypeOK, viewVars
<1>7. QED
  BY <1>1, <1>2, <1>3, <1>4, <1>5, <1>6
  DEF Next, TabNext, OpenWorkbench, Edit, SubmitRun, RunHeard, LoopEnds, ServerNext, LateCheck,
      LateUpdate, RunSettles, RunEvicted, Milestone, MilestoneStep, Expire, vars, tabVars,
      viewVars, callVars

LEMMA EarnedInit == Init => EarnedInv
BY DEF Init, EarnedInv, MilestoneEarned, TabEarned, NoCall, NoPoll

\* No tab shows or stores evaluation criteria under the private policy, nor under
\* the after-run policy before the API verified a completed run of the interview.
THEOREM RevealEarned == Spec => []RevealIsEarned
<1>1. Init => TypeOK /\ EarnedInv
  BY TypeInit, EarnedInit
<1>2. (TypeOK /\ EarnedInv) /\ [Next]_vars => (TypeOK /\ EarnedInv)'
  BY TypeStep, MilestoneStaysEarned, TabsStayEarned DEF EarnedInv
<1>3. EarnedInv => RevealIsEarned
  BY DEF EarnedInv, TabEarned, Earned, RevealIsEarned
<1>4. QED
  BY <1>1, <1>2, <1>3, PTL DEF Spec

-----------------------------------------------------------------------------
(* The journal and the clock of a tab never go back *)

\* An answer that a tab will still apply lies between what the tab shows and the
\* row; and a refresh is under way only where no mutation is.
TabCurrent(t) ==
    /\ collab[t].ver <= row.ver
    /\ call[t].view # NoView =>
          collab[t].ver <= call[t].view.collab.ver /\ call[t].view.collab.ver <= row.ver
    /\ poll[t].view # NoView =>
          collab[t].ver <= poll[t].view.collab.ver /\ poll[t].view.collab.ver <= row.ver
    /\ poll[t] # NoPoll => ~Busy(t)

CurrentInv == \A t \in Tabs : TabCurrent(t)

\* The versions that TabCurrent compares are numbers.
LEMMA VersionsAreNumbers ==
    ASSUME TypeOK
    PROVE  /\ row.ver \in Nat
           /\ \A t \in Tabs :
                 /\ collab[t].ver \in Nat
                 /\ call[t].view # NoView => call[t].view.collab.ver \in Nat
                 /\ poll[t].view # NoView => poll[t].view.collab.ver \in Nat
<1>1. row.ver \in Nat
  BY DEF TypeOK
<1>2. ASSUME NEW t \in Tabs
      PROVE  /\ collab[t].ver \in Nat
             /\ call[t].view # NoView => call[t].view.collab.ver \in Nat
             /\ poll[t].view # NoView => poll[t].view.collab.ver \in Nat
  <2>1. collab[t] \in Collaboration /\ call[t].view \in Views /\ poll[t].view \in Views
    BY DEF TypeOK, NoCall, Views
  <2>2. QED
    BY <2>1 DEF Views, Answers, Collaboration
<1>3. QED
  BY <1>1, <1>2

\* The version of the row only grows.
LEMMA RowGrows == ASSUME TypeOK, [Next]_vars PROVE row'.ver >= row.ver
<1> USE VersionsAreNumbers
<1>1. ASSUME NEW t \in Tabs, TabNext(t) PROVE row'.ver >= row.ver
  <2>1. CASE UNCHANGED row
    BY <2>1
  <2>2. CASE Update(t)
    <3>1. call[t].op \in Ops
      BY <2>2 DEF Update, TypeOK, NoCall
    <3>2. QED
      BY <2>2, <3>1, PatchKeeps DEF Update
  <2>3. QED
    BY <1>1, <2>1, <2>2
    DEF TabNext, FollowLink, Opened, OpenFails, Hydrate, OpenWorkbench, Leave, Edit, Click, Send,
        Check, Answered, CallFails, Refresh, RefreshRead, Refreshed, RefreshFails, SubmitRun,
        RunHeard, LoopEnds, Marked, serverVars
<1>2. ASSUME ServerNext PROVE row'.ver >= row.ver
  <2>1. CASE UNCHANGED row
    BY <2>1
  <2>2. ASSUME NEW h \in late, LateUpdate(h) PROVE row'.ver >= row.ver
    <3>1. h.op \in Ops
      BY DEF TypeOK
    <3>2. QED
      BY <2>2, <3>1, PatchKeeps DEF LateUpdate
  <2>3. CASE MilestoneStep \/ Expire
    <3>1. row' \in {row, [row EXCEPT !.ran = TRUE], [row EXCEPT !.live = FALSE]}
      BY <2>3 DEF MilestoneStep, Expire
    <3>2. row'.ver = row.ver
      BY <3>1 DEF TypeOK
    <3>3. QED
      BY <3>2
  <2>4. QED
    BY <1>2, <2>1, <2>2, <2>3 DEF ServerNext, LateCheck, RunSettles, RunEvicted, Milestone
<1>3. ASSUME UNCHANGED vars PROVE row'.ver >= row.ver
  BY <1>3 DEF vars, serverVars
<1>4. QED
  BY <1>1, <1>2, <1>3 DEF Next

\* A tab whose collaboration, answers and operations are as before stays current.
LEMMA SameTabCurrent ==
    ASSUME TypeOK, [Next]_vars, NEW t \in Tabs, TabCurrent(t),
           collab'[t] = collab[t] \/ collab'[t] = Blank,
           call'[t].view = call[t].view \/ call'[t].view = NoView,
           poll'[t].view = poll[t].view \/ poll'[t].view = NoView,
           poll'[t] # NoPoll => ~Busy(t)'
    PROVE  TabCurrent(t)'
<1>1. row'.ver >= row.ver /\ row'.ver \in Nat
  BY RowGrows, TypeStep DEF TypeOK
<1>2. collab'[t].ver <= collab[t].ver
  BY VersionsAreNumbers DEF Blank
<1>3. collab'[t].ver \in Nat
  BY VersionsAreNumbers DEF Blank
<1>4. QED
  BY <1>1, <1>2, <1>3, VersionsAreNumbers DEF TabCurrent

LEMMA TabStaysCurrent ==
    ASSUME TypeOK, CurrentInv, [Next]_vars, NEW t \in Tabs PROVE TabCurrent(t)'
<1> USE DEF CurrentInv
<1>1. CASE UNCHANGED <<collab, call, poll, queue>>
  BY <1>1, SameTabCurrent DEF TabCurrent, Busy
<1>2. ASSUME NEW u \in Tabs, FollowLink(u) \/ Opened(u) \/ Hydrate(u) \/ Leave(u)
      PROVE  TabCurrent(t)'
  <2>1. CASE u # t
    BY <1>2, <2>1, SameTabCurrent
    DEF FollowLink, Opened, Hydrate, Leave, Show, CancelOperations, TabCurrent, Busy, TypeOK, viewVars
  <2>2. CASE u = t /\ Opened(u)
    BY <2>2, SameTabCurrent DEF Opened, Show, NoPoll, TypeOK
  <2>3. CASE u = t /\ ~Opened(u)
    <3>1. /\ queue'[t] = << >> /\ call'[t] = NoCall
          /\ poll'[t] = NoPoll \/ poll'[t] = Asked
          /\ collab'[t] = collab[t] \/ collab'[t] = Blank
      BY <1>2, <2>3 DEF FollowLink, Hydrate, Leave, CancelOperations, TypeOK, viewVars
    <3>2. QED
      BY <3>1, SameTabCurrent DEF NoCall, NoPoll, Asked, Busy
  <2>4. QED
    BY <2>1, <2>2, <2>3
<1>3. ASSUME NEW u \in Tabs, OpenFails(u) \/ RefreshFails(u) \/ Click(u)
      PROVE  TabCurrent(t)'
  <2>1. u # t => queue'[t] = queue[t]
    BY <1>3 DEF OpenFails, RefreshFails, Click, TypeOK
  <2>2. /\ poll' = [poll EXCEPT ![u] = NoPoll]
        /\ UNCHANGED <<collab, call>>
    BY <1>3 DEF OpenFails, RefreshFails, Click, CancelRefresh, viewVars
  <2>3. poll'[t] = IF u = t THEN NoPoll ELSE poll[t]
    BY <2>2 DEF TypeOK
  <2>4. QED
    BY <2>1, <2>2, <2>3, SameTabCurrent DEF TabCurrent, Busy, NoPoll
<1>4. ASSUME NEW u \in Tabs, Send(u) \/ Check(u) \/ CallFails(u) PROVE TabCurrent(t)'
  <2>1. /\ UNCHANGED <<collab, poll>>
        /\ call'[t].view = call[t].view \/ call'[t].view = NoView
    BY <1>4 DEF Send, Check, CallFails, NoCall, TypeOK, viewVars
  <2>2. ~Busy(t) => ~Busy(t)'
    BY <1>4 DEF Send, MyTurn, Check, CallFails, NoCall, Busy, TypeOK
  <2>3. QED
    BY <2>1, <2>2, SameTabCurrent DEF TabCurrent
<1>5. ASSUME NEW u \in Tabs, Update(u) PROVE TabCurrent(t)'
  <2>1. CASE u # t
    BY <1>5, <2>1, SameTabCurrent DEF Update, TabCurrent, Busy, TypeOK, viewVars
  <2>2. CASE u = t
    <3>1. poll[t] = NoPoll
      BY <1>5, <2>2 DEF Update, TabCurrent, Busy
    <3>2. UNCHANGED <<collab, poll>> /\ (call'[t].view = NoView \/ call'[t].view.collab.ver = row'.ver)
      BY <1>5, <2>2 DEF Update, View, TypeOK, viewVars
    <3>3. row'.ver >= row.ver /\ row'.ver \in Nat
      BY RowGrows, TypeStep DEF TypeOK
    <3>4. collab[t].ver <= row'.ver
      BY <3>3, VersionsAreNumbers DEF TabCurrent
    <3>5. QED
      BY <3>1, <3>2, <3>3, <3>4 DEF TabCurrent, NoPoll
  <2>3. QED
    BY <2>1, <2>2
<1>6. ASSUME NEW u \in Tabs, Answered(u) PROVE TabCurrent(t)'
  <2>1. CASE u # t
    BY <1>6, <2>1, SameTabCurrent DEF Answered, TabCurrent, Busy, TypeOK
  <2>2. CASE u = t
    <3>1. poll[t] = NoPoll
      BY <1>6, <2>2 DEF Answered, TabCurrent, Busy
    <3>2. /\ UNCHANGED <<row, poll>> /\ call'[t] = NoCall
          /\ collab'[t] = IF call[t].view = NoView THEN collab[t] ELSE call[t].view.collab
      BY <1>6, <2>2 DEF Answered, TypeOK, serverVars
    <3>3. QED
      BY <3>1, <3>2, VersionsAreNumbers DEF TabCurrent, NoPoll, NoCall
  <2>3. QED
    BY <2>1, <2>2
<1>7. ASSUME NEW u \in Tabs, Refresh(u) \/ RefreshRead(u) PROVE TabCurrent(t)'
  <2>1. UNCHANGED <<row, collab, call, queue>>
    BY <1>7 DEF Refresh, RefreshRead, serverVars, viewVars
  <2>2. CASE u # t
    <3>1. poll'[t] = poll[t]
      BY <1>7, <2>2 DEF Refresh, RefreshRead, TypeOK
    <3>2. QED
      BY <2>1, <3>1 DEF TabCurrent, Busy
  <2>3. CASE u = t
    <3>1. ~Busy(t)
      BY <1>7, <2>3 DEF Refresh, Polls, RefreshRead, TabCurrent, NoPoll
    <3>2. poll'[t].view = NoView \/ poll'[t].view.collab.ver = row.ver
      BY <1>7, <2>3 DEF Refresh, RefreshRead, Asked, View, TypeOK
    <3>3. QED
      BY <2>1, <3>1, <3>2, VersionsAreNumbers DEF TabCurrent, Busy
  <2>4. QED
    BY <2>2, <2>3
<1>8. ASSUME NEW u \in Tabs, Refreshed(u) PROVE TabCurrent(t)'
  <2>1. UNCHANGED <<row, call, queue>>
    BY <1>8 DEF Refreshed, serverVars
  <2>2. CASE u # t
    <3>1. poll'[t] = poll[t] /\ collab'[t] = collab[t]
      BY <1>8, <2>2 DEF Refreshed, TypeOK
    <3>2. QED
      BY <2>1, <3>1 DEF TabCurrent, Busy
  <2>3. CASE u = t
    <3>1. poll[t].view # NoView /\ poll[t] # NoPoll
      BY <1>8, <2>3 DEF Refreshed, NoPoll
    <3>2. call[t] = NoCall
      BY <3>1 DEF TabCurrent, Busy, TypeOK
    <3>3. poll'[t] = NoPoll /\ collab'[t] = poll[t].view.collab
      BY <1>8, <2>3 DEF Refreshed, TypeOK
    <3>4. QED
      BY <2>1, <3>1, <3>2, <3>3, VersionsAreNumbers DEF TabCurrent, NoPoll, NoCall
  <2>4. QED
    BY <2>2, <2>3
<1>9. QED
  BY <1>1, <1>2, <1>3, <1>4, <1>5, <1>6, <1>7, <1>8
  DEF Next, TabNext, OpenWorkbench, Edit, SubmitRun, RunHeard, LoopEnds, Marked, ServerNext,
      LateCheck, LateUpdate, RunSettles, RunEvicted, Milestone, MilestoneStep, Expire, vars,
      tabVars, viewVars, callVars

LEMMA CurrentInit == Init => CurrentInv
BY DEF Init, CurrentInv, TabCurrent, Blank, NoCall, NoPoll

LEMMA StepNeverRewinds ==
    ASSUME TypeOK, CurrentInv, [Next]_vars, NEW t \in Tabs, Connected(t), Connected(t)'
    PROVE  collab'[t] = Blank \/ collab'[t].ver >= collab[t].ver
<1> USE VersionsAreNumbers DEF CurrentInv
<1>1. CASE UNCHANGED collab
  BY <1>1
<1>2. ASSUME NEW u \in Tabs, Opened(u) \/ Hydrate(u)
      PROVE  collab'[t] = Blank \/ collab'[t].ver >= collab[t].ver
  <2>1. collab'[t] = Blank \/ collab'[t] = collab[t]
    BY <1>2 DEF Opened, Hydrate, TypeOK
  <2>2. QED
    BY <2>1
<1>3. ASSUME NEW u \in Tabs, Answered(u) PROVE collab'[t].ver >= collab[t].ver
  <2>1. collab'[t] \in {collab[t], call[t].view.collab}
        /\ (call[t].view = NoView => collab'[t] = collab[t])
    BY <1>3 DEF Answered, TypeOK
  <2>2. QED
    BY <2>1 DEF TabCurrent
<1>4. ASSUME NEW u \in Tabs, Refreshed(u) PROVE collab'[t].ver >= collab[t].ver
  <2>1. collab'[t] = IF u = t THEN poll[t].view.collab ELSE collab[t]
    BY <1>4 DEF Refreshed, TypeOK
  <2>2. u = t => poll[t].view # NoView
    BY <1>4 DEF Refreshed
  <2>3. QED
    BY <2>1, <2>2 DEF TabCurrent
<1>5. QED
  BY <1>1, <1>2, <1>3, <1>4
  DEF Next, TabNext, FollowLink, OpenFails, OpenWorkbench, Leave, Edit, Click, Send, Check, Update,
      CallFails, Refresh, RefreshRead, RefreshFails, SubmitRun, RunHeard, LoopEnds, Marked,
      ServerNext, LateCheck, LateUpdate, RunSettles, RunEvicted, Milestone, MilestoneStep, Expire,
      vars, tabVars, viewVars

\* While a tab stays in its session, no answer takes its journal or its clock back
\* to an older state of the row, however polls and mutations overtake each other.
THEOREM NoRewind == Spec => NeverRewinds
<1>1. Init => TypeOK /\ CurrentInv
  BY TypeInit, CurrentInit
<1>2. (TypeOK /\ CurrentInv) /\ [Next]_vars => (TypeOK /\ CurrentInv)'
  BY TypeStep, TabStaysCurrent DEF CurrentInv
<1>3. (TypeOK /\ CurrentInv) /\ [Next]_vars =>
         [\A t \in Tabs : Connected(t) /\ Connected(t)' =>
             collab'[t] = Blank \/ collab'[t].ver >= collab[t].ver]_vars
  BY StepNeverRewinds
<1>4. QED
  BY <1>1, <1>2, <1>3, PTL DEF Spec, NeverRewinds

-----------------------------------------------------------------------------
(* After a run, shown criteria stay *)

\* Under the after-run policy what a tab shows is in its session, no refresh is
\* under way in the session, and a mutation that is answered is no reveal.
TabKept(t) ==
    /\ reveal[t] => stored[t]
    /\ Connected(t) => poll[t] = NoPoll
    /\ call[t].step = "checked" \/ call[t].view # NoView => call[t].op.kind # "reveal"

KeptInv ==
    Policy = "after-run" =>
       /\ marking.view # NoView => marking.view.reveal
       /\ \A t \in Tabs : TabKept(t)

LEMMA MarkedViewReveals ==
    ASSUME TypeOK, KeptInv, [Next]_vars, Policy = "after-run"
    PROVE  marking'.view # NoView => marking'.view.reveal
<1> USE DEF KeptInv
<1>1. CASE UNCHANGED marking
  BY <1>1
<1>2. ASSUME NEW client, PostMilestone(client) PROVE marking'.view = NoView
  BY <1>2 DEF PostMilestone
<1>3. ASSUME MilestoneStep PROVE marking'.view # NoView => marking'.view.reveal
  <2>1. CASE marking.step = "mark"
    <3>1. /\ row' = IF row.live THEN [row EXCEPT !.ran = TRUE] ELSE row
          /\ marking' = [marking EXCEPT !.step = "done", !.view = IF row.live THEN View' ELSE NoView]
      BY <1>3, <2>1 DEF MilestoneStep
    <3>2. marking'.view = IF row.live THEN View' ELSE NoView
      BY <3>1 DEF TypeOK
    <3>3. row.live => row'.ran
      BY <3>1 DEF TypeOK
    <3>4. View'.reveal = Revealed'
      BY DEF View
    <3>5. row.live => Revealed'
      BY <3>3 DEF Revealed
    <3>6. QED
      BY <3>2, <3>4, <3>5
  <2>2. CASE marking.step # "mark"
    <3>1. marking'.view = marking.view
      BY <1>3, <2>2 DEF MilestoneStep, TypeOK
    <3>2. QED
      BY <3>1
  <2>3. QED
    BY <2>1, <2>2
<1>4. QED
  BY <1>1, <1>2, <1>3
  DEF Next, TabNext, FollowLink, Opened, OpenFails, Hydrate, OpenWorkbench, Leave, Edit, Click, Send,
      Check, Update, Answered, CallFails, Refresh, RefreshRead, Refreshed, RefreshFails, SubmitRun,
      RunHeard, LoopEnds, Marked, ServerNext, LateCheck, LateUpdate, RunSettles, RunEvicted,
      Milestone, Expire, vars, serverVars

LEMMA TabStaysKept ==
    ASSUME TypeOK, KeptInv, [Next]_vars, Policy = "after-run", NEW t \in Tabs
    PROVE  TabKept(t)'
<1> USE DEF TabKept, Connected
<1>0. TabKept(t)
  BY DEF KeptInv
<1>1. CASE UNCHANGED <<page, reveal, stored, call, poll>>
  BY <1>0, <1>1
<1>2. ASSUME NEW u \in Tabs, FollowLink(u) \/ Hydrate(u) \/ Leave(u) PROVE TabKept(t)'
  <2>1. CASE u # t
    <3>1. /\ page'[t] = page[t] /\ reveal'[t] = reveal[t] /\ stored' = stored
          /\ call'[t] = call[t] /\ poll'[t] = poll[t]
      BY <1>2, <2>1 DEF FollowLink, Hydrate, Leave, CancelOperations, TypeOK, viewVars
    <3>2. QED
      BY <1>0, <3>1
  <2>2. CASE u = t
    <3>1. /\ call'[t] = NoCall /\ stored' = stored
          /\ page'[t] = "opening" \/ poll'[t] = NoPoll
          /\ reveal'[t] = reveal[t] \/ reveal'[t] = stored[t]
      BY <1>2, <2>2 DEF FollowLink, Hydrate, Leave, CancelOperations, TypeOK, viewVars
    <3>2. QED
      BY <1>0, <3>1 DEF NoCall
  <2>3. QED
    BY <2>1, <2>2
<1>3. ASSUME NEW u \in Tabs, Opened(u) \/ OpenFails(u) \/ RefreshFails(u) PROVE TabKept(t)'
  <2>1. CASE u # t
    BY <1>0, <1>3, <2>1 DEF Opened, OpenFails, RefreshFails, Show, TypeOK, viewVars
  <2>2. CASE u = t
    <3>1. poll'[t] = NoPoll /\ call' = call
      BY <1>3, <2>2 DEF Opened, OpenFails, RefreshFails, TypeOK
    <3>2. reveal'[t] => stored'[t]
      BY <1>0, <1>3, <2>2 DEF Opened, OpenFails, RefreshFails, Show, TypeOK, viewVars
    <3>3. QED
      BY <1>0, <3>1, <3>2
  <2>3. QED
    BY <2>1, <2>2
<1>4. ASSUME NEW u \in Tabs, OpenWorkbench(u) PROVE TabKept(t)'
  BY <1>0, <1>4 DEF OpenWorkbench, TypeOK, tabVars, viewVars, callVars
<1>5. ASSUME NEW u \in Tabs, Click(u) PROVE TabKept(t)'
  BY <1>0, <1>5 DEF Click, CancelRefresh, TypeOK, viewVars
<1>6. ASSUME NEW u \in Tabs, Send(u) \/ Check(u) \/ Update(u) \/ CallFails(u) PROVE TabKept(t)'
  <2>1. UNCHANGED <<page, reveal, stored, poll>>
    BY <1>6 DEF Send, Check, Update, CallFails, viewVars
  <2>2. CASE u # t
    <3>1. call'[t] = call[t]
      BY <1>6, <2>2 DEF Send, Check, Update, CallFails, TypeOK
    <3>2. QED
      BY <1>0, <2>1, <3>1
  <2>3. CASE u = t /\ Send(t)
    BY <1>0, <2>1, <2>3 DEF Send, TypeOK
  <2>4. CASE u = t /\ Check(t)
    <3>1. /\ call'[t].op = call[t].op /\ call'[t].view = call[t].view
          /\ call'[t].step = "checked" => call[t].op.kind # "reveal"
      BY <2>4 DEF Check, Permitted, TypeOK
    <3>2. QED
      BY <1>0, <2>1, <3>1
  <2>5. CASE u = t /\ Update(t)
    <3>1. call[t].step = "checked" /\ call'[t].op = call[t].op
      BY <2>5 DEF Update, TypeOK
    <3>2. QED
      BY <1>0, <2>1, <3>1
  <2>6. CASE u = t /\ CallFails(t)
    <3>1. call'[t] = NoCall
      BY <2>6 DEF CallFails, TypeOK
    <3>2. QED
      BY <1>0, <2>1, <3>1 DEF NoCall
  <2>7. QED
    BY <1>6, <2>2, <2>3, <2>4, <2>5, <2>6
<1>7. ASSUME NEW u \in Tabs, Answered(u) PROVE TabKept(t)'
  <2>1. UNCHANGED <<page, stored, poll>> /\ call'[t] \in {call[t], NoCall}
    BY <1>7 DEF Answered, TypeOK
  <2>2. reveal'[t] = reveal[t]
    BY <1>7 DEF Answered, RevealAnswered, KeptInv, TypeOK
  <2>3. QED
    BY <1>0, <2>1, <2>2 DEF NoCall
<1>8. ASSUME NEW u \in Tabs, Refresh(u) \/ RefreshRead(u) \/ Refreshed(u) PROVE TabKept(t)'
  <2>1. RefreshRead(u) /\ ~Connected(u)
    BY <1>8 DEF Refresh, Polls, RefreshRead, Refreshed, KeptInv, NoPoll
  <2>2. UNCHANGED <<page, reveal, stored, call>> /\ (u # t => poll'[t] = poll[t])
    BY <2>1 DEF RefreshRead, TypeOK, viewVars
  <2>3. QED
    BY <1>0, <2>1, <2>2
<1>9. ASSUME NEW u \in Tabs, Marked(u) PROVE TabKept(t)'
  BY <1>0, <1>9 DEF Marked, Show, TypeOK
<1>10. QED
  BY <1>1, <1>2, <1>3, <1>4, <1>5, <1>6, <1>7, <1>8, <1>9
  DEF Next, TabNext, Edit, SubmitRun, RunHeard, LoopEnds, ServerNext, LateCheck, LateUpdate,
      RunSettles, RunEvicted, Milestone, MilestoneStep, Expire, vars, tabVars, viewVars, callVars

LEMMA StepKeepsReveal ==
    ASSUME TypeOK, KeptInv, [Next]_vars, Policy = "after-run", NEW t \in Tabs,
           Connected(t), Connected(t)', reveal[t]
    PROVE  reveal'[t]
<1>0. \A u \in Tabs : TabKept(u)
  BY DEF KeptInv
<1>1. CASE UNCHANGED reveal
  BY <1>1
<1>2. ASSUME NEW u \in Tabs, Opened(u) \/ Refreshed(u) PROVE reveal'[t]
  BY <1>0, <1>2 DEF Opened, Refreshed, Show, TabKept, Connected, NoPoll, TypeOK
<1>3. ASSUME NEW u \in Tabs, Hydrate(u) PROVE reveal'[t]
  BY <1>0, <1>3 DEF Hydrate, TabKept, TypeOK
<1>4. ASSUME NEW u \in Tabs, Answered(u) PROVE reveal'[t]
  BY <1>0, <1>4 DEF Answered, RevealAnswered, TabKept, TypeOK
<1>5. ASSUME NEW u \in Tabs, Marked(u) PROVE reveal'[t]
  BY <1>5 DEF Marked, Show, KeptInv, TypeOK
<1>6. QED
  BY <1>1, <1>2, <1>3, <1>4, <1>5
  DEF Next, TabNext, FollowLink, OpenFails, OpenWorkbench, Leave, Edit, Click, Send, Check, Update,
      CallFails, Refresh, RefreshRead, RefreshFails, SubmitRun, RunHeard, LoopEnds,
      ServerNext, LateCheck, LateUpdate, RunSettles, RunEvicted, Milestone, MilestoneStep, Expire,
      vars, tabVars, viewVars

LEMMA KeptInit == Init => KeptInv
BY DEF Init, KeptInv, TabKept, NoCall, NoPoll

\* In an after-run interview the criteria a tab shows survive every answer, every
\* reload and every return to the Lab.
THEOREM RevealKept == Spec => RevealIsKept
<1>1. Init => TypeOK /\ KeptInv
  BY TypeInit, KeptInit
<1>2. (TypeOK /\ KeptInv) /\ [Next]_vars => (TypeOK /\ KeptInv)'
  BY TypeStep, MarkedViewReveals, TabStaysKept DEF KeptInv
<1>3. (TypeOK /\ KeptInv) /\ [Next]_vars =>
         [\A t \in Tabs :
             Policy = "after-run" /\ Connected(t) /\ Connected(t)' /\ reveal[t] => reveal'[t]]_vars
  BY StepKeepsReveal
<1>4. QED
  BY <1>1, <1>2, <1>3, PTL DEF Spec, RevealIsKept
-----------------------------------------------------------------------------
(* The interviewer's tab agrees with the row *)

\* Only the interviewer's Lab offers to reveal: no candidate asks for it.
CandidateAsks(u) ==
    /\ \A i \in 1 .. Len(queue[u]) : queue[u][i].kind # "reveal"
    /\ call[u].step # "none" => call[u].op.kind # "reveal"

\* An interviewer reports no milestone, and polls only to open the link.
HostWaits(t) == loop[t] = "idle" /\ (Connected(t) => poll[t] = NoPoll)

\* The server has told the tab its reveal state, and the tab does not show it yet.
Untold(t) == call[t].step = "done" /\ call[t].op.kind = "reveal" /\ call[t].view # NoView

\* Of one interviewer whose mutations were all answered: no handler is left that
\* could change the reveal state, the answer that opens the link is not outdated, and
\* the tab shows the row's state or is about to.
HostKnows(t) ==
    /\ \A h \in late : h.op.kind # "reveal"
    /\ call[t].step # "done" => call[t].view = NoView
    /\ page[t] = "opening" /\ poll[t].view # NoView => poll[t].view.reveal = row.flag
    /\ Connected(t) /\ ~reloaded[t] =>
          (IF Untold(t) THEN call[t].view.reveal ELSE reveal[t]) = row.flag

HostInv ==
    /\ \A u \in Candidates : CandidateAsks(u)
    /\ \A t \in Hosts : HostWaits(t)
    /\ Policy = "interviewer-controlled" =>
          \A t \in Hosts : Hosts = {t} /\ tracked[t] => HostKnows(t)

\* What is cancelled in one tab goes on in the others.
LEMMA OthersGoOn ==
    ASSUME TypeOK, NEW t \in Tabs, NEW p, CancelOperations(t, p), NEW u \in Tabs, u # t
    PROVE  queue'[u] = queue[u] /\ call'[u] = call[u] /\ poll'[u] = poll[u] /\ loop'[u] = loop[u]
BY DEF CancelOperations, TypeOK

LEMMA CandidateStillAsks ==
    ASSUME TypeOK, [Next]_vars, NEW u \in Candidates, CandidateAsks(u)
    PROVE  CandidateAsks(u)'
<1> USE DEF CandidateAsks
<1>0. u \in Tabs /\ u \notin Hosts /\ queue[u] \in Seq(Ops)
  BY TabAssumption DEF TypeOK, Tabs
<1>1. CASE UNCHANGED <<queue, call>>
  BY <1>1
<1>2. ASSUME NEW t \in Tabs, FollowLink(t) \/ Hydrate(t) \/ Leave(t) PROVE CandidateAsks(u)'
  <2>1. CASE u = t
    <3>1. queue'[u] = << >> /\ call'[u] = NoCall
      BY <1>2, <2>1 DEF FollowLink, Hydrate, Leave, CancelOperations, TypeOK
    <3>2. QED
      BY <3>1 DEF NoCall
  <2>2. CASE u # t
    <3>1. queue'[u] = queue[u] /\ call'[u] = call[u]
      BY <1>0, <1>2, <2>2, OthersGoOn DEF FollowLink, Hydrate, Leave
    <3>2. QED
      BY <3>1
  <2>3. QED
    BY <2>1, <2>2
<1>3. ASSUME NEW t \in Tabs, Click(t) PROVE CandidateAsks(u)'
  <2>1. CASE u = t
    <3>1. PICK op \in Offered(u) : queue'[u] = Append(queue[u], op)
      BY <1>0, <1>3, <2>1 DEF Click, TypeOK
    <3>2. op.kind # "reveal" /\ call' = call
      BY <1>3, <3>1 DEF Click, Offered
    <3>3. \A i \in 1 .. Len(queue'[u]) : queue'[u][i].kind # "reveal"
      BY <1>0, <3>1, <3>2, AppendProperties
    <3>4. QED
      BY <3>2, <3>3
  <2>2. CASE u # t
    <3>1. queue'[u] = queue[u] /\ call' = call
      BY <1>3, <2>2 DEF Click, TypeOK
    <3>2. QED
      BY <3>1
  <2>3. QED
    BY <2>1, <2>2
<1>4. ASSUME NEW t \in Tabs, Send(t) PROVE CandidateAsks(u)'
  <2>1. CASE u = t
    <3>1. queue[u] # << >> /\ queue'[u] = Tail(queue[u]) /\ call'[u].op = Head(queue[u])
      BY <1>4, <2>1 DEF Send, MyTurn, TypeOK
    <3>2. Head(queue[u]) = queue[u][1] /\ 1 \in 1 .. Len(queue[u])
      BY <1>0, <3>1
    <3>3. \A i \in 1 .. Len(Tail(queue[u])) : Tail(queue[u])[i] = queue[u][i + 1] /\ i + 1 \in 1 .. Len(queue[u])
      BY <1>0, <3>1, HeadTailProperties
    <3>4. QED
      BY <3>1, <3>2, <3>3
  <2>2. CASE u # t
    <3>1. queue'[u] = queue[u] /\ call'[u] = call[u]
      BY <1>4, <2>2 DEF Send, TypeOK
    <3>2. QED
      BY <3>1
  <2>3. QED
    BY <2>1, <2>2
<1>5. ASSUME NEW t \in Tabs, Check(t) \/ Update(t) \/ Answered(t) \/ CallFails(t)
      PROVE  CandidateAsks(u)'
  <2>1. queue' = queue
    BY <1>5 DEF Check, Update, Answered, CallFails
  <2>2. CASE call[t].step = "none"
    BY <1>5, <2>2 DEF Check, Update, Answered, CallFails
  <2>3. CASE call[t].step # "none"
    <3>1. call[t] \in [step : {"sent", "checked", "done"}, op : Ops, view : Views]
      BY <2>3 DEF TypeOK, NoCall
    <3>2. call'[u] = call[u] \/ call'[u] = NoCall \/ (call[u].step # "none" /\ call'[u].op = call[u].op)
      BY <1>0, <1>5, <2>3, <3>1 DEF Check, Update, Answered, CallFails, TypeOK
    <3>3. QED
      BY <2>1, <3>2 DEF NoCall
  <2>4. QED
    BY <2>2, <2>3
<1>6. QED
  BY <1>1, <1>2, <1>3, <1>4, <1>5
  DEF Next, TabNext, Opened, OpenFails, OpenWorkbench, Edit, Refresh, RefreshRead, Refreshed,
      RefreshFails, SubmitRun, RunHeard, LoopEnds, Marked, ServerNext, LateCheck, LateUpdate,
      RunSettles, RunEvicted, Milestone, MilestoneStep, Expire, vars, tabVars, callVars

LEMMA HostStillWaits ==
    ASSUME TypeOK, [Next]_vars, NEW t \in Hosts, HostWaits(t) PROVE HostWaits(t)'
<1> USE DEF HostWaits, Connected
<1>0. t \in Tabs /\ t \notin Candidates
  BY TabAssumption DEF Tabs
<1>1. CASE UNCHANGED <<page, poll, loop>>
  BY <1>1
<1>2. ASSUME NEW u \in Tabs, FollowLink(u) \/ Hydrate(u) \/ Leave(u) PROVE HostWaits(t)'
  <2>1. CASE u = t
    <3>1. loop'[t] = "idle" /\ (poll'[t] = NoPoll \/ page'[t] = "opening")
      BY <1>2, <2>1 DEF FollowLink, Hydrate, Leave, CancelOperations, TypeOK
    <3>2. QED
      BY <3>1
  <2>2. CASE u # t
    <3>1. loop'[t] = loop[t] /\ poll'[t] = poll[t]
      BY <1>0, <1>2, <2>2, OthersGoOn DEF FollowLink, Hydrate, Leave
    <3>2. page'[t] = page[t]
      BY <1>0, <1>2, <2>2 DEF FollowLink, Hydrate, Leave, TypeOK
    <3>3. QED
      BY <3>1, <3>2
  <2>3. QED
    BY <2>1, <2>2
<1>3. ASSUME NEW u \in Tabs, Opened(u) \/ OpenFails(u) \/ Click(u) \/ RefreshFails(u) PROVE HostWaits(t)'
  <2>1. loop' = loop /\ poll' = [poll EXCEPT ![u] = NoPoll]
    BY <1>3 DEF Opened, OpenFails, Click, CancelRefresh, RefreshFails
  <2>2. poll'[t] = IF u = t THEN NoPoll ELSE poll[t]
    BY <1>0, <2>1 DEF TypeOK
  <2>3. u # t => page'[t] = page[t]
    BY <1>0, <1>3 DEF Opened, OpenFails, Click, RefreshFails, TypeOK
  <2>4. QED
    BY <2>1, <2>2, <2>3
<1>4. ASSUME NEW u \in Tabs, OpenWorkbench(u) \/ Edit(u) \/ LoopEnds(u) PROVE HostWaits(t)'
  BY <1>0, <1>4 DEF OpenWorkbench, Edit, LoopEnds, TypeOK, tabVars, callVars
<1>5. ASSUME NEW u \in Tabs, Refresh(u) \/ RefreshRead(u) PROVE HostWaits(t)'
  <2>1. UNCHANGED <<page, loop>>
    BY <1>5 DEF Refresh, RefreshRead
  <2>2. u # t \/ ~Connected(t)
    BY <1>5 DEF Refresh, Polls, RefreshRead, NoPoll
  <2>3. u # t => poll'[t] = poll[t]
    BY <1>0, <1>5 DEF Refresh, RefreshRead, TypeOK
  <2>4. QED
    BY <2>1, <2>2, <2>3
<1>6. ASSUME NEW u \in Tabs, Refreshed(u) \/ SubmitRun(u) \/ RunHeard(u) \/ Marked(u) PROVE HostWaits(t)'
  <2>1. u # t
    BY <1>0, <1>6 DEF Refreshed, SubmitRun, RunHeard, Marked, NoPoll
  <2>2. page' = page /\ poll'[t] = poll[t] /\ loop'[t] = loop[t]
    BY <1>0, <1>6, <2>1 DEF Refreshed, SubmitRun, RunHeard, Marked, TypeOK
  <2>3. QED
    BY <2>2
<1>7. QED
  BY <1>1, <1>2, <1>3, <1>4, <1>5, <1>6
  DEF Next, TabNext, Send, Check, Update, Answered, CallFails, ServerNext, LateCheck, LateUpdate,
      RunSettles, RunEvicted, Milestone, MilestoneStep, Expire, vars, tabVars, callVars

\* Once a mutation went unanswered, the tab stays untracked.
LEMMA TrackedBefore == ASSUME TypeOK, [Next]_vars, NEW t \in Tabs, tracked'[t] PROVE tracked[t]
<1>1. CASE UNCHANGED tracked
  BY <1>1
<1>2. ASSUME NEW u \in Tabs, FollowLink(u) \/ Hydrate(u) \/ Leave(u) \/ CallFails(u) PROVE tracked[t]
  BY <1>2 DEF FollowLink, Hydrate, Leave, CallFails, TypeOK
<1>3. QED
  BY <1>1, <1>2
  DEF Next, TabNext, Opened, OpenFails, OpenWorkbench, Edit, Click, Send, Check, Update, Answered,
      Refresh, RefreshRead, Refreshed, RefreshFails, SubmitRun, RunHeard, LoopEnds, Marked,
      ServerNext, LateCheck, LateUpdate, RunSettles, RunEvicted, Milestone, MilestoneStep, Expire,
      vars, tabVars, callVars

\* Where the only interviewer is tracked, nobody else reveals or conceals.
LEMMA OthersKeepFlag ==
    ASSUME TypeOK, HostInv, [Next]_vars, Policy = "interviewer-controlled",
           NEW t \in Hosts, Hosts = {t}, tracked[t], ~Update(t)
    PROVE  row'.flag = row.flag
<1>1. CASE UNCHANGED row
  BY <1>1
<1>2. ASSUME NEW op \in Ops, op.kind # "reveal", row' = IF row.live THEN Patched(op) ELSE row
      PROVE  row'.flag = row.flag
  <2>1. op.kind \in {"journal", "clock"}
    BY <1>2 DEF Ops, Kinds
  <2>2. QED
    BY <1>2, <2>1 DEF Patched, TypeOK
<1>3. ASSUME NEW u \in Tabs, Update(u) PROVE row'.flag = row.flag
  <2>1. u \in Candidates
    BY <1>3 DEF Tabs
  <2>2. call[u].op \in Ops
    BY <1>3 DEF Update, TypeOK, NoCall
  <2>3. call[u].op.kind # "reveal"
    BY <1>3, <2>1 DEF Update, HostInv, CandidateAsks
  <2>4. QED
    BY <1>2, <1>3, <2>2, <2>3 DEF Update
<1>4. ASSUME NEW h \in late, LateUpdate(h) PROVE row'.flag = row.flag
  <2>1. h.op \in Ops /\ h.op.kind # "reveal"
    BY DEF TypeOK, HostInv, HostKnows
  <2>2. QED
    BY <1>2, <1>4, <2>1 DEF LateUpdate
<1>5. ASSUME MilestoneStep \/ Expire PROVE row'.flag = row.flag
  BY <1>5 DEF MilestoneStep, Expire, TypeOK
<1>6. QED
  BY <1>1, <1>3, <1>4, <1>5
  DEF Next, TabNext, FollowLink, Opened, OpenFails, Hydrate, OpenWorkbench, Leave, Edit, Click, Send,
      Check, Answered, CallFails, Refresh, RefreshRead, Refreshed, RefreshFails, SubmitRun, RunHeard,
      LoopEnds, Marked, ServerNext, LateCheck, RunSettles, RunEvicted, Milestone, vars, serverVars

\* Nor does a handler nobody waits for hold a reveal.
LEMMA NoLateReveal ==
    ASSUME TypeOK, HostInv, [Next]_vars, Policy = "interviewer-controlled",
           NEW t \in Hosts, Hosts = {t}, tracked'[t]
    PROVE  \A h \in late' : h.op.kind # "reveal"
<1>0. /\ t \in Tabs /\ tracked[t] /\ \A u \in Tabs : u # t => u \in Candidates
  BY TrackedBefore DEF Tabs
<1>1. \A h \in late : h.op.kind # "reveal"
  BY <1>0 DEF HostInv, HostKnows
<1>2. CASE UNCHANGED late
  BY <1>1, <1>2
<1>3. ASSUME NEW u \in Tabs, FollowLink(u) \/ Hydrate(u) \/ Leave(u) \/ CallFails(u)
      PROVE  \A h \in late' : h.op.kind # "reveal"
  <2>1. PICK L \in Abandoned(u) : late' = late \cup L
    BY <1>3 DEF FollowLink, Hydrate, Leave, CallFails, CancelOperations
  <2>2. CASE u = t
    <3>1. call[t].step = "none"
      BY <1>0, <1>3, <2>2 DEF FollowLink, Hydrate, Leave, CallFails, Busy, TypeOK
    <3>2. L = {}
      BY <2>1, <2>2, <3>1 DEF Abandoned
    <3>3. QED
      BY <1>1, <2>1, <3>2
  <2>3. CASE u # t
    <3>1. u \in Candidates
      BY <1>0, <2>3
    <3>2. L = {} \/ (call[u].step # "none" /\ L = {[step |-> call[u].step, op |-> call[u].op]})
      BY <2>1 DEF Abandoned
    <3>3. call[u].step # "none" => call[u].op.kind # "reveal"
      BY <3>1 DEF HostInv, CandidateAsks
    <3>4. QED
      BY <1>1, <2>1, <3>2, <3>3
  <2>4. QED
    BY <2>2, <2>3
<1>4. ASSUME NEW h \in late, LateCheck(h) \/ LateUpdate(h) PROVE \A k \in late' : k.op.kind # "reveal"
  <2>1. h \in [step : {"sent", "checked"}, op : Ops]
    BY DEF TypeOK
  <2>2. [h EXCEPT !.step = "checked"].op = h.op
    BY <2>1
  <2>3. \A k \in late' : k \in late \/ k = [h EXCEPT !.step = "checked"]
    BY <1>4 DEF LateCheck, LateUpdate
  <2>4. QED
    BY <1>1, <2>2, <2>3
<1>5. QED
  BY <1>2, <1>3, <1>4
  DEF Next, TabNext, Opened, OpenFails, OpenWorkbench, Edit, Click, Send, Check, Update, Answered,
      Refresh, RefreshRead, Refreshed, RefreshFails, SubmitRun, RunHeard, LoopEnds, Marked,
      ServerNext, RunSettles, RunEvicted, Milestone, MilestoneStep, Expire, vars, serverVars

\* The answer that opens the link is the row's state until it is shown.
LEMMA OpeningIsTrue ==
    ASSUME TypeOK, HostInv, [Next]_vars, Policy = "interviewer-controlled",
           NEW t \in Hosts, Hosts = {t}, tracked[t],
           page'[t] = "opening", poll'[t].view # NoView
    PROVE  poll'[t].view.reveal = row'.flag
<1>0. t \in Tabs
  BY DEF Tabs
<1>1. CASE page[t] = "opening" /\ poll'[t] = poll[t]
  <2>1. poll[t].view.reveal = row.flag
    BY <1>1 DEF HostInv, HostKnows
  <2>2. ~Update(t)
    <3>1. call[t] = NoCall
      BY <1>0, <1>1 DEF TypeOK, Connected, Left
    <3>2. QED
      BY <3>1 DEF Update, NoCall
  <2>3. QED
    BY <1>1, <2>1, <2>2, OthersKeepFlag
<1>2. ASSUME NEW u \in Tabs, FollowLink(u) \/ Hydrate(u) \/ Leave(u)
      PROVE  page[t] = "opening" /\ poll'[t] = poll[t]
  <2>1. u # t
    <3>1. \E p \in {NoPoll, Asked} : poll' = [poll EXCEPT ![u] = p]
      BY <1>2 DEF FollowLink, Hydrate, Leave, CancelOperations
    <3>2. QED
      BY <1>0, <3>1 DEF NoPoll, Asked, TypeOK
  <2>2. poll'[t] = poll[t]
    BY <1>0, <1>2, <2>1, OthersGoOn DEF FollowLink, Hydrate, Leave
  <2>3. page'[t] = page[t]
    BY <1>0, <1>2, <2>1 DEF FollowLink, Hydrate, Leave, TypeOK
  <2>4. QED
    BY <2>2, <2>3
<1>3. ASSUME NEW u \in Tabs, \/ Opened(u) \/ OpenFails(u) \/ Click(u) \/ Refreshed(u)
                             \/ RefreshFails(u) \/ Refresh(u)
      PROVE  page[t] = "opening" /\ poll'[t] = poll[t]
  <2>1. \E p \in {NoPoll, Asked} : poll' = [poll EXCEPT ![u] = p]
    BY <1>3 DEF Opened, OpenFails, Click, CancelRefresh, Refreshed, RefreshFails, Refresh
  <2>2. u # t
    BY <1>0, <2>1 DEF NoPoll, Asked, TypeOK
  <2>3. poll'[t] = poll[t]
    BY <1>0, <2>1, <2>2 DEF TypeOK
  <2>4. page'[t] = page[t]
    BY <1>0, <1>3, <2>2 DEF Opened, OpenFails, Click, Refreshed, RefreshFails, Refresh, TypeOK
  <2>5. QED
    BY <2>3, <2>4
<1>4. ASSUME NEW u \in Tabs, RefreshRead(u) PROVE poll'[t].view.reveal = row'.flag
  <2>1. page' = page /\ row' = row
    BY <1>4 DEF RefreshRead, serverVars
  <2>2. CASE u # t
    <3>1. poll'[t] = poll[t]
      BY <1>0, <1>4, <2>2 DEF RefreshRead, TypeOK
    <3>2. QED
      BY <1>1, <2>1, <3>1
  <2>3. CASE u = t
    <3>1. poll'[t] = [step |-> "done", view |-> IF row.live THEN View ELSE NoView]
      BY <1>0, <1>4, <2>3 DEF RefreshRead, TypeOK
    <3>2. poll'[t].view = View
      BY <3>1
    <3>3. row.flag \in BOOLEAN /\ View.reveal = Revealed
      BY DEF TypeOK, View
    <3>4. Revealed = row.flag
      BY <3>3 DEF Revealed
    <3>5. QED
      BY <2>1, <3>2, <3>3, <3>4
  <2>4. QED
    BY <2>2, <2>3
<1>5. ASSUME NEW u \in Tabs, OpenWorkbench(u) PROVE page[t] = "opening" /\ poll'[t] = poll[t]
  BY <1>0, <1>5 DEF OpenWorkbench, TypeOK, tabVars, callVars
<1>6. CASE UNCHANGED <<page, poll>>
  BY <1>1, <1>6
<1>7. QED
  BY <1>1, <1>2, <1>3, <1>4, <1>5, <1>6
  DEF Next, TabNext, Edit, Send, Check, Update, Answered, CallFails, SubmitRun, RunHeard, LoopEnds,
      Marked, ServerNext, LateCheck, LateUpdate, RunSettles, RunEvicted, Milestone, MilestoneStep,
      Expire, vars, tabVars, callVars

\* Whatever is told and shown in the session, the two add up to the row's state.
LEMMA SessionIsTrue ==
    ASSUME TypeOK, HostInv, [Next]_vars, Policy = "interviewer-controlled",
           NEW t \in Hosts, Hosts = {t}, tracked'[t], Connected(t)', ~reloaded'[t]
    PROVE  (IF Untold(t)' THEN call'[t].view.reveal ELSE reveal'[t]) = row'.flag
<1> DEFINE Told == (IF Untold(t)' THEN call'[t].view.reveal ELSE reveal'[t]) = row'.flag
<1>0. /\ t \in Tabs /\ t \notin Candidates /\ tracked[t] /\ HostWaits(t)
      /\ call[t].step # "done" => call[t].view = NoView
  BY TabAssumption, TrackedBefore DEF Tabs, HostInv, HostKnows
<1>1. ~Update(t) => row'.flag = row.flag
  BY <1>0, OthersKeepFlag
<1>2. Connected(t) /\ ~reloaded[t] =>
         (IF Untold(t) THEN call[t].view.reveal ELSE reveal[t]) = row.flag
  BY <1>0 DEF HostInv, HostKnows
<1>3. ASSUME page'[t] = page[t] \/ Connected(t), reloaded'[t] = reloaded[t], reveal'[t] = reveal[t],
             call'[t] = call[t], ~Update(t)
      PROVE  Told
  BY <1>1, <1>2, <1>3 DEF Untold, Connected
<1>4. ASSUME NEW u \in Tabs, TabNext(u), u # t PROVE Told
  <2>1. page'[t] = page[t] /\ reloaded'[t] = reloaded[t]
    BY <1>0, <1>4
    DEF TabNext, FollowLink, Opened, OpenFails, Hydrate, OpenWorkbench, Leave, Edit, Click, Send,
        Check, Update, Answered, CallFails, Refresh, RefreshRead, Refreshed, RefreshFails, SubmitRun,
        RunHeard, LoopEnds, Marked, TypeOK, tabVars
  <2>2. reveal'[t] = reveal[t]
    BY <1>0, <1>4
    DEF TabNext, FollowLink, Opened, OpenFails, Hydrate, OpenWorkbench, Leave, Edit, Click, Send,
        Check, Update, Answered, CallFails, Refresh, RefreshRead, Refreshed, RefreshFails, SubmitRun,
        RunHeard, LoopEnds, Marked, Show, TypeOK, tabVars, viewVars
  <2>3. call'[t] = call[t]
    BY <1>0, <1>4
    DEF TabNext, FollowLink, Opened, OpenFails, Hydrate, OpenWorkbench, Leave, Edit, Click, Send,
        Check, Update, Answered, CallFails, Refresh, RefreshRead, Refreshed, RefreshFails, SubmitRun,
        RunHeard, LoopEnds, Marked, CancelOperations, TypeOK, tabVars, callVars
  <2>4. ~Update(t)
    <3>1. ~Update(t) \/ call'[t].step = "done"
      BY <1>0 DEF Update, TypeOK, NoCall
    <3>2. QED
      BY <2>3, <3>1 DEF Update
  <2>5. QED
    BY <1>3, <2>1, <2>2, <2>3, <2>4
<1>5. CASE Opened(t)
  <2>1. page[t] = "opening" /\ poll[t].view # NoView /\ reveal'[t] = poll[t].view.reveal /\ call' = call
    BY <1>0, <1>5 DEF Opened, Show, TypeOK
  <2>2. call[t] = NoCall
    BY <1>0, <2>1 DEF TypeOK, Connected, Left
  <2>3. ~Update(t) /\ ~Untold(t)'
    BY <2>1, <2>2 DEF Update, Untold, NoCall
  <2>4. poll[t].view.reveal = row.flag
    BY <1>0, <2>1 DEF HostInv, HostKnows
  <2>5. QED
    BY <1>1, <2>1, <2>3, <2>4
<1>6. ASSUME FollowLink(t) \/ Hydrate(t) \/ Leave(t) \/ OpenFails(t) PROVE FALSE
  BY <1>0, <1>6 DEF FollowLink, Hydrate, Leave, OpenFails, Connected, TypeOK
<1>7. ASSUME CallFails(t) PROVE FALSE
  BY <1>0, <1>7 DEF CallFails, TypeOK
<1>8. ASSUME Refreshed(t) \/ Marked(t) PROVE FALSE
  BY <1>0, <1>8 DEF HostWaits, Refreshed, Marked, NoPoll
<1>9. CASE Send(t)
  <2>1. /\ UNCHANGED <<page, reveal, reloaded>> /\ call[t].step = "none" /\ call'[t].step = "sent"
    BY <1>0, <1>9 DEF Send, MyTurn, viewVars, TypeOK
  <2>2. ~Update(t) /\ ~Untold(t) /\ ~Untold(t)'
    BY <2>1 DEF Update, Untold
  <2>3. QED
    BY <1>1, <1>2, <2>1, <2>2 DEF Connected
<1>10. CASE Check(t)
  <2>1. UNCHANGED <<page, reveal, reloaded>> /\ call[t].step = "sent" /\ call'[t].view = call[t].view
    BY <1>0, <1>10 DEF Check, viewVars, TypeOK, NoCall
  <2>2. ~Update(t) /\ ~Untold(t) /\ ~Untold(t)'
    BY <1>0, <2>1 DEF Update, Untold
  <2>3. QED
    BY <1>1, <1>2, <2>1, <2>2 DEF Connected
<1>11. CASE Update(t)
  <2>1. /\ UNCHANGED <<page, reveal, reloaded>> /\ call[t].step = "checked"
        /\ row' = IF row.live THEN Patched(call[t].op) ELSE row
    BY <1>11 DEF Update, viewVars
  <2>2. call[t] \in [step : {"sent", "checked", "done"}, op : Ops, view : Views]
    BY <1>0, <2>1 DEF TypeOK, NoCall
  <2>3. call'[t].op = call[t].op /\ call'[t].view = IF row.live THEN View' ELSE NoView
    BY <1>0, <1>11, <2>2 DEF Update, TypeOK
  <2>4. reveal[t] = row.flag
    BY <1>2, <2>1 DEF Untold, Connected
  <2>5. CASE row.live /\ call[t].op.kind = "reveal"
    <3>1. row'.flag \in BOOLEAN
      BY TypeStep DEF TypeOK
    <3>2. View'.reveal = row'.flag
      BY <3>1 DEF View, Revealed
    <3>3. call'[t].step = "done"
      BY <1>0, <1>11 DEF Update, TypeOK
    <3>4. View' # NoView => Untold(t)'
      BY <2>3, <2>5, <3>3 DEF Untold
    <3>5. View' # NoView
      <4>1. TypeOK'
        BY TypeStep
      <4>2. View' \in Answers
        BY <4>1 DEF TypeOK, View, Revealed, Answers, Collaboration
      <4>3. QED
        BY <4>2, NoViewAssumption
    <3>6. QED
      BY <2>3, <2>5, <3>2, <3>4, <3>5
  <2>6. CASE ~row.live \/ call[t].op.kind # "reveal"
    <3>1. ~Untold(t)'
      BY <2>3, <2>6 DEF Untold
    <3>2. row'.flag = row.flag
      BY <2>1, <2>2, <2>6 DEF Patched, Ops, Kinds, TypeOK
    <3>3. QED
      BY <2>1, <2>4, <3>1, <3>2
  <2>7. QED
    BY <2>5, <2>6
<1>12. CASE Answered(t)
  <2>1. /\ UNCHANGED <<page, reloaded>> /\ call[t].step = "done"
        /\ reveal'[t] = RevealAnswered(t) /\ call'[t] = NoCall
    BY <1>0, <1>12 DEF Answered, TypeOK
  <2>2. ~Update(t) /\ ~Untold(t)'
    BY <2>1 DEF Update, Untold, NoCall
  <2>3. RevealAnswered(t) = IF Untold(t) THEN call[t].view.reveal ELSE reveal[t]
    BY <2>1 DEF RevealAnswered, Untold
  <2>4. QED
    BY <1>1, <1>2, <2>1, <2>2, <2>3 DEF Connected
<1>13. ASSUME OpenWorkbench(t) PROVE Told
  <2>1. Connected(t) /\ UNCHANGED <<reveal, call, reloaded>> /\ ~Update(t)
    BY <1>0, <1>13 DEF OpenWorkbench, tabVars, viewVars, callVars, Connected, Update, TypeOK
  <2>2. QED
    BY <1>3, <2>1
<1>14. ASSUME \/ Edit(t) \/ Click(t) \/ Refresh(t) \/ RefreshRead(t) \/ RefreshFails(t)
              \/ SubmitRun(t) \/ RunHeard(t) \/ LoopEnds(t)
       PROVE  Told
  <2>1. UNCHANGED <<page, reveal, call, reloaded>>
    BY <1>14 DEF Edit, Click, Refresh, RefreshRead, RefreshFails, SubmitRun, RunHeard, LoopEnds, viewVars
  <2>2. ~Update(t)
    BY <1>0, <2>1 DEF Update, TypeOK, NoCall
  <2>3. QED
    BY <1>3, <2>1, <2>2
<1>15. ASSUME ServerNext \/ UNCHANGED vars PROVE Told
  <2>1. UNCHANGED <<page, reveal, call, reloaded>>
    BY <1>15 DEF ServerNext, LateCheck, LateUpdate, RunSettles, RunEvicted, Milestone, MilestoneStep,
                 Expire, vars, tabVars, viewVars, callVars
  <2>2. ~Update(t)
    BY <1>0, <2>1 DEF Update, TypeOK, NoCall
  <2>3. QED
    BY <1>3, <2>1, <2>2
<1>16. QED
  <2>1. ASSUME TabNext(t) PROVE Told
    BY <1>5, <1>6, <1>7, <1>8, <1>9, <1>10, <1>11, <1>12, <1>13, <1>14, <2>1 DEF TabNext
  <2>2. QED
    BY <1>4, <1>15, <2>1 DEF Next

\* Only a mutation that is done has an answer.
LEMMA OpenCallIsBlank ==
    ASSUME TypeOK, [Next]_vars, NEW t \in Tabs,
           call[t].step # "done" => call[t].view = NoView,
           call'[t].step # "done"
    PROVE  call'[t].view = NoView
<1>1. CASE call'[t] = call[t] \/ call'[t] = NoCall
  BY <1>1 DEF NoCall
<1>2. ASSUME NEW u \in Tabs, FollowLink(u) \/ Hydrate(u) \/ Leave(u) \/ Answered(u) \/ CallFails(u)
      PROVE  call'[t] = call[t] \/ call'[t] = NoCall
  BY <1>2 DEF FollowLink, Hydrate, Leave, Answered, CallFails, CancelOperations, TypeOK
<1>3. ASSUME NEW u \in Tabs, Send(u) PROVE call'[t].view = NoView
  <2>1. call' = [call EXCEPT ![u] = [step |-> "sent", op |-> Head(queue[u]), view |-> NoView]]
    BY <1>3 DEF Send
  <2>2. call'[t] = call[t] \/ call'[t].view = NoView
    BY <2>1 DEF TypeOK
  <2>3. QED
    BY <1>1, <2>2
<1>4. ASSUME NEW u \in Tabs, Check(u) \/ Update(u), u # t PROVE call'[t] = call[t]
  BY <1>4 DEF Check, Update, TypeOK
<1>5. CASE Check(t)
  BY <1>5 DEF Check, TypeOK, NoCall
<1>6. CASE Update(t)
  <2>1. call[t].step = "checked"
    BY <1>6 DEF Update
  <2>2. call'[t].step = "done"
    BY <1>6, <2>1 DEF Update, TypeOK, NoCall
  <2>3. QED
    BY <2>2
<1>7. CASE UNCHANGED call
  BY <1>1, <1>7
<1>8. QED
  BY <1>1, <1>2, <1>3, <1>4, <1>5, <1>6, <1>7
  DEF Next, TabNext, Opened, OpenFails, OpenWorkbench, Edit, Click, Refresh, RefreshRead, Refreshed,
      RefreshFails, SubmitRun, RunHeard, LoopEnds, Marked, ServerNext, LateCheck, LateUpdate,
      RunSettles, RunEvicted, Milestone, MilestoneStep, Expire, vars, tabVars, callVars

LEMMA HostStep == ASSUME TypeOK, HostInv, [Next]_vars PROVE HostInv'
<1>1. \A u \in Candidates : CandidateAsks(u)'
  BY CandidateStillAsks DEF HostInv
<1>2. \A t \in Hosts : HostWaits(t)'
  BY HostStillWaits DEF HostInv
<1>3. ASSUME Policy = "interviewer-controlled", NEW t \in Hosts, Hosts = {t}, tracked'[t]
      PROVE  HostKnows(t)'
  <2>1. t \in Tabs /\ tracked[t]
    BY <1>3, TrackedBefore DEF Tabs
  <2>2. HostKnows(t)
    BY <1>3, <2>1 DEF HostInv
  <2>3. \A h \in late' : h.op.kind # "reveal"
    BY <1>3, NoLateReveal
  <2>4. call'[t].step # "done" => call'[t].view = NoView
    BY <2>1, <2>2, OpenCallIsBlank DEF HostKnows
  <2>5. page'[t] = "opening" /\ poll'[t].view # NoView => poll'[t].view.reveal = row'.flag
    BY <1>3, <2>1, OpeningIsTrue
  <2>6. Connected(t)' /\ ~reloaded'[t] =>
           (IF Untold(t)' THEN call'[t].view.reveal ELSE reveal'[t]) = row'.flag
    BY <1>3, SessionIsTrue
  <2>7. QED
    BY <2>3, <2>4, <2>5, <2>6 DEF HostKnows
<1>4. QED
  BY <1>1, <1>2, <1>3 DEF HostInv

LEMMA HostStart == Init => HostInv
<1> SUFFICES ASSUME Init PROVE HostInv
  OBVIOUS
<1>1. ASSUME NEW u \in Candidates PROVE CandidateAsks(u)
  BY DEF Init, CandidateAsks, NoCall, Tabs
<1>2. ASSUME NEW t \in Hosts PROVE HostWaits(t) /\ HostKnows(t)
  BY DEF Init, HostWaits, HostKnows, Connected, NoCall, NoPoll, Tabs
<1>3. QED
  BY <1>1, <1>2 DEF HostInv

\* Under an interviewer-controlled policy the one interviewer whose mutations were all
\* answered, and who has not reloaded the Lab since the link was opened, is shown the
\* reveal state of the row whenever no mutation waits (setInterviewReveal,
\* loadSharedScenario).
THEOREM HostSeesTheRow == Spec => []HostAgrees
<1>1. Init => HostInv
  BY HostStart
<1>2. TypeOK /\ HostInv /\ [Next]_vars => HostInv'
  BY HostStep
<1>3. TypeOK /\ HostInv => HostAgrees
  <2> SUFFICES ASSUME TypeOK, HostInv, Policy = "interviewer-controlled",
                      NEW t \in Hosts, Hosts = {t}, Connected(t), tracked[t], ~reloaded[t], ~Busy(t)
               PROVE  reveal[t] = row.flag
    BY DEF HostAgrees
  <2>1. HostKnows(t)
    BY DEF HostInv
  <2>2. ~Untold(t)
    BY DEF Busy, Untold
  <2>3. QED
    BY <2>1, <2>2 DEF HostKnows
<1>4. QED
  BY <1>1, <1>2, <1>3, TypeCorrect, PTL DEF Spec

-----------------------------------------------------------------------------
(* Startup                                                                 *)

\* A run between taking and releasing the advisory lock.
Holding == {"looking", "applying", "reconciling"}

\* The lock is exclusive, and what a run has passed over stays recorded: so what
\* it is about to apply is not, and nothing before it is missing.
MigrationInv ==
  /\ \A m, n \in Migrators : runner[m] \in Holding /\ runner[n] \in Holding => m = n
  /\ \A m \in Migrators : 1..(next[m] - 1) \subseteq recorded
  /\ \A m \in Migrators : runner[m] = "applying" => next[m] \notin recorded /\ next[m] <= Files[m]
  /\ \A m \in Migrators : runner[m] \in {"reconciling", "done"} => next[m] > Files[m]
  /\ \A v \in Versions : applied[v] = IF v \in recorded THEN 1 ELSE 0
  /\ \A v \in recorded : 1..v \subseteq recorded

\* A good answer is no older than the ticks that its query and the cache have seen.
ReadyInv ==
  /\ Healthy => sound = 0
  /\ \A r \in Replicas : cache[r].query = "yes" => Needed \in recorded /\ sound <= cache[r].waits
  /\ \A r \in Replicas : TellsReady(r) => Needed \in recorded /\ sound <= cache[r].age + QueryTime

StartupInv == StartupTypeOK /\ MigrationInv /\ ReadyInv

CacheEntries == [ready : BOOLEAN, age : 0..CacheTime, query : {"none", "sent", "yes", "no"}, waits : 0..QueryTime]

\* No image has a migration beyond the latest.
LEMMA LatestIsLast == Latest \in Nat /\ \A m \in Migrators : Files[m] <= Latest
<1>1. \E n \in {Files[m] : m \in Migrators} : \A m \in Migrators : Files[m] <= n
  BY StartupAssumption
<1>2. Latest \in {Files[m] : m \in Migrators} /\ \A m \in Migrators : Files[m] <= Latest
  BY <1>1 DEF Latest
<1> QED
  BY <1>2, StartupAssumption

LEMMA StartupInitInv == StartupInit => StartupInv
<1> SUFFICES ASSUME StartupInit PROVE StartupInv
  OBVIOUS
<1>1. StartupTypeOK
  BY StartupAssumption DEF StartupInit, StartupTypeOK, Old
<1>2. MigrationInv
  BY DEF StartupInit, MigrationInv, Holding
<1>3. ReadyInv
  BY StartupAssumption DEF StartupInit, ReadyInv, Healthy, Sees, TellsReady
<1> QED
  BY <1>1, <1>2, <1>3 DEF StartupInv

\* A step of a migrate run that changes neither tables nor clocks.
LEMMA RunnerMoves ==
  ASSUME StartupInv, UNCHANGED <<recorded, applied, beat, cache, sound>>,
         NEW m \in Migrators,
         NEW place \in {"looking", "applying", "reconciling", "done", "failed"}, NEW at \in Nat \ {0},
         runner' = [runner EXCEPT ![m] = place], next' = [next EXCEPT ![m] = at],
         place \in Holding => \A n \in Migrators \ {m} : runner[n] \notin Holding,
         1..(at - 1) \subseteq recorded,
         place = "applying" => at \notin recorded /\ at <= Files[m],
         place \in {"reconciling", "done"} => at > Files[m]
  PROVE  StartupInv'
<1>1. StartupTypeOK'
  BY DEF StartupInv, StartupTypeOK
<1>2. MigrationInv'
  BY DEF StartupInv, StartupTypeOK, MigrationInv
<1>3. ReadyInv'
  BY DEF StartupInv, ReadyInv, Healthy, TellsReady
<1> QED
  BY <1>1, <1>2, <1>3 DEF StartupInv

LEMMA LockInv == ASSUME StartupInv, NEW m \in Migrators, Lock(m) PROVE StartupInv'
<1>1. next[m] \in Nat \ {0} /\ 1..(next[m] - 1) \subseteq recorded
  BY DEF StartupInv, StartupTypeOK, MigrationInv
<1>2. next' = [next EXCEPT ![m] = next[m]] /\ runner' = [runner EXCEPT ![m] = "looking"]
  BY DEF Lock, StartupInv, StartupTypeOK
<1>3. UNCHANGED <<recorded, applied, beat, cache, sound>>
  BY DEF Lock
<1>4. \A n \in Migrators \ {m} : runner[n] \notin Holding
  BY DEF Lock, LockFree, Holding
<1> QED
  BY <1>1, <1>2, <1>3, <1>4, RunnerMoves

\* What the holder of the lock knows.
LEMMA OthersWait ==
  ASSUME MigrationInv, NEW m \in Migrators, runner[m] \in Holding
  PROVE  \A n \in Migrators \ {m} : runner[n] \notin Holding
  BY DEF MigrationInv

LEMMA LookInv == ASSUME StartupInv, NEW m \in Migrators, Look(m) PROVE StartupInv'
<1>1. /\ next[m] \in Nat \ {0} /\ 1..(next[m] - 1) \subseteq recorded /\ Files[m] \in Nat
      /\ runner \in [Migrators -> {"new", "looking", "applying", "reconciling", "done", "failed"}]
      /\ next \in [Migrators -> Nat \ {0}]
  BY StartupAssumption DEF StartupInv, StartupTypeOK, MigrationInv
<1>2. UNCHANGED <<recorded, applied, beat, cache, sound>>
  BY DEF Look
<1>3. \A n \in Migrators \ {m} : runner[n] \notin Holding
  BY OthersWait DEF Look, StartupInv, Holding
<1>4. CASE next[m] > Files[m]
  <2>1. runner' = [runner EXCEPT ![m] = "reconciling"] /\ next' = [next EXCEPT ![m] = next[m]]
    BY <1>1, <1>4 DEF Look
  <2> QED
    BY <1>1, <1>2, <1>3, <1>4, <2>1, RunnerMoves
<1>5. CASE ~(next[m] > Files[m]) /\ next[m] \in recorded
  <2>1. runner' = [runner EXCEPT ![m] = "looking"] /\ next' = [next EXCEPT ![m] = next[m] + 1]
    BY <1>1, <1>5 DEF Look
  <2>2. 1..((next[m] + 1) - 1) \subseteq recorded /\ next[m] + 1 \in Nat \ {0}
    BY <1>1, <1>5
  <2> QED
    BY <1>1, <1>2, <1>3, <2>1, <2>2, RunnerMoves
<1>6. CASE ~(next[m] > Files[m]) /\ next[m] \notin recorded
  <2>1. runner' = [runner EXCEPT ![m] = "applying"] /\ next' = [next EXCEPT ![m] = next[m]]
    BY <1>1, <1>6 DEF Look
  <2>2. next[m] <= Files[m]
    BY <1>1, <1>6
  <2> QED
    BY <1>1, <1>2, <1>3, <1>6, <2>1, <2>2, RunnerMoves
<1> QED
  BY <1>4, <1>5, <1>6

LEMMA FinishInv == ASSUME StartupInv, NEW m \in Migrators, Finish(m) PROVE StartupInv'
<1>1. /\ next[m] \in Nat \ {0} /\ 1..(next[m] - 1) \subseteq recorded /\ next[m] > Files[m]
      /\ next' = [next EXCEPT ![m] = next[m]] /\ runner' = [runner EXCEPT ![m] = "done"]
      /\ UNCHANGED <<recorded, applied, beat, cache, sound>>
  BY DEF Finish, StartupInv, StartupTypeOK, MigrationInv
<1> QED
  BY <1>1, RunnerMoves DEF Holding

LEMMA FailInv == ASSUME StartupInv, NEW m \in Migrators, Fail(m) PROVE StartupInv'
<1>1. /\ next[m] \in Nat \ {0} /\ 1..(next[m] - 1) \subseteq recorded
      /\ next' = [next EXCEPT ![m] = next[m]] /\ runner' = [runner EXCEPT ![m] = "failed"]
      /\ UNCHANGED <<recorded, applied, beat, cache, sound>>
  BY DEF Fail, StartupInv, StartupTypeOK, MigrationInv
<1> QED
  BY <1>1, RunnerMoves DEF Holding

\* The SQL takes effect: the holder of the lock found it missing, and still does.
LEMMA ApplyInv == ASSUME StartupInv, NEW m \in Migrators, Apply(m) PROVE StartupInv'
<1> DEFINE v == next[m]
<1>1. /\ v \in Versions /\ v \notin recorded /\ 1..(v - 1) \subseteq recorded /\ v \in Nat \ {0}
      /\ runner[m] = "applying"
  <2>1. v \in Nat \ {0} /\ v \notin recorded /\ v <= Files[m] /\ 1..(v - 1) \subseteq recorded
    BY DEF Apply, StartupInv, StartupTypeOK, MigrationInv
  <2>2. Files[m] \in Nat
    BY StartupAssumption
  <2> QED
    BY <2>1, <2>2, LatestIsLast DEF Versions, Apply
<1>2. /\ recorded' = recorded \cup {v} /\ applied' = [applied EXCEPT ![v] = @ + 1]
      /\ UNCHANGED <<beat, cache>>
      /\ sound' = IF Sees(recorded \cup {v}, beat) THEN 0 ELSE sound
  BY DEF Apply
<1>3. \A n \in Migrators \ {m} : runner[n] \notin Holding
  BY <1>1, OthersWait DEF StartupInv, Holding
<1>4. \/ runner' = [runner EXCEPT ![m] = "looking"] /\ next' = [next EXCEPT ![m] = v + 1]
      \/ runner' = [runner EXCEPT ![m] = "failed"] /\ next' = next
  BY DEF Apply
<1>5. /\ runner \in [Migrators -> {"new", "looking", "applying", "reconciling", "done", "failed"}]
      /\ next \in [Migrators -> Nat \ {0}] /\ recorded \in SUBSET Versions
      /\ applied \in [Versions -> Nat] /\ sound \in 0..Old
  BY DEF StartupInv, StartupTypeOK
<1> HIDE DEF v
<1>6. StartupTypeOK'
  <2>1. next' \in [Migrators -> Nat \ {0}]
    BY <1>1, <1>4, <1>5
  <2>2. runner' \in [Migrators -> {"new", "looking", "applying", "reconciling", "done", "failed"}]
    BY <1>4, <1>5
  <2>3. recorded' \in SUBSET Versions /\ applied' \in [Versions -> Nat]
    BY <1>1, <1>2, <1>5
  <2>4. sound' \in 0..Old
    BY <1>2, <1>5, StartupAssumption DEF Old
  <2> QED
    BY <1>2, <2>1, <2>2, <2>3, <2>4 DEF StartupInv, StartupTypeOK
<1>7. MigrationInv'
  <2>1. \A p, q \in Migrators : runner'[p] \in Holding /\ runner'[q] \in Holding => p = q
    BY <1>3, <1>4, <1>5 DEF Holding
  <2>2. \A n \in Migrators : 1..(next'[n] - 1) \subseteq recorded'
    <3>1. \A n \in Migrators : 1..(next[n] - 1) \subseteq recorded
      BY DEF StartupInv, MigrationInv
    <3>2. 1..((v + 1) - 1) \subseteq recorded'
      BY <1>1, <1>2
    <3> QED
      BY <1>2, <1>4, <1>5, <3>1, <3>2
  <2>3. \A n \in Migrators : runner'[n] # "applying"
    BY <1>3, <1>4, <1>5 DEF Holding
  <2>4. \A n \in Migrators : runner'[n] \in {"reconciling", "done"} => next'[n] > Files[n]
    <3>1. \A n \in Migrators : runner[n] \in {"reconciling", "done"} => next[n] > Files[n]
      BY DEF StartupInv, MigrationInv
    <3> QED
      BY <1>4, <1>5, <3>1
  <2>5. \A w \in Versions : applied'[w] = IF w \in recorded' THEN 1 ELSE 0
    <3>1. \A w \in Versions : applied[w] = IF w \in recorded THEN 1 ELSE 0
      BY DEF StartupInv, MigrationInv
    <3> QED
      BY <1>1, <1>2, <1>5, <3>1
  <2>6. \A w \in recorded' : 1..w \subseteq recorded'
    <3>1. \A w \in recorded : 1..w \subseteq recorded
      BY DEF StartupInv, MigrationInv
    <3>2. 1..v \subseteq recorded'
      BY <1>1, <1>2
    <3> QED
      BY <1>2, <3>1, <3>2
  <2> QED
    BY <2>1, <2>2, <2>3, <2>4, <2>5, <2>6 DEF MigrationInv
<1>8. ReadyInv'
  <2>1. Healthy' => sound' = 0
    BY <1>2 DEF Healthy, Sees
  <2>2. sound' <= sound
    BY <1>2, <1>5, StartupAssumption DEF Old
  <2>3. \A r \in Replicas : cache[r].waits \in Nat /\ cache[r].age \in Nat
    BY DEF StartupInv, StartupTypeOK
  <2>4. sound \in Nat /\ sound' \in Nat
    BY <1>2, <1>5, StartupAssumption DEF Old
  <2>5. \A r \in Replicas : TellsReady(r)' <=> TellsReady(r)
    BY <1>2 DEF TellsReady
  <2>6. \A r \in Replicas : cache[r].query = "yes" => Needed \in recorded' /\ sound' <= cache[r].waits
    BY <1>2, <2>2, <2>3, <2>4 DEF StartupInv, ReadyInv
  <2>7. \A r \in Replicas : TellsReady(r) => Needed \in recorded' /\ sound' <= cache[r].age + QueryTime
    BY <1>2, <2>2, <2>3, <2>4, StartupAssumption DEF StartupInv, ReadyInv
  <2> QED
    BY <1>2, <2>1, <2>5, <2>6, <2>7 DEF ReadyInv
<1> QED
  BY <1>6, <1>7, <1>8 DEF StartupInv

\* A step that leaves the migrate runs alone.
LEMMA MigrationRests ==
  ASSUME MigrationInv, UNCHANGED migration
  PROVE  MigrationInv'
  BY DEF MigrationInv, migration

LEMMA ProbeInv == ASSUME StartupInv, NEW r \in Replicas, Probe(r) PROVE StartupInv'
<1>1. /\ UNCHANGED <<migration, beat, sound>>
      /\ cache' = [cache EXCEPT ![r] = [cache[r] EXCEPT !.query = "sent", !.waits = 0]]
      /\ cache \in [Replicas -> CacheEntries]
  BY DEF Probe, StartupInv, StartupTypeOK, CacheEntries
<1>2. MigrationInv'
  BY <1>1, MigrationRests DEF StartupInv
<1>3. StartupTypeOK'
  <2>1. cache[r] \in CacheEntries
    BY <1>1
  <2>2. [cache[r] EXCEPT !.query = "sent", !.waits = 0] \in CacheEntries
    <3>1. 0 \in 0..QueryTime
      BY StartupAssumption
    <3> QED
      BY <2>1, <3>1 DEF CacheEntries
  <2>3. cache' \in [Replicas -> CacheEntries]
    BY <1>1, <2>2
  <2> QED
    BY <1>1, <2>3 DEF StartupInv, StartupTypeOK, migration, CacheEntries
<1>4. ReadyInv'
  <2>1. Healthy' <=> Healthy
    BY <1>1 DEF Healthy, Sees, migration
  <2>2. \A q \in Replicas : cache'[q].ready = cache[q].ready /\ cache'[q].age = cache[q].age
    BY <1>1 DEF CacheEntries
  <2>3. \A q \in Replicas : TellsReady(q)' <=> TellsReady(q)
    BY <2>2 DEF TellsReady
  <2>4. \A q \in Replicas : cache'[q].query = "yes" => cache[q].query = "yes" /\ cache'[q].waits = cache[q].waits
    BY <1>1 DEF CacheEntries
  <2> QED
    BY <1>1, <2>1, <2>2, <2>3, <2>4 DEF StartupInv, ReadyInv, migration
<1> QED
  BY <1>2, <1>3, <1>4 DEF StartupInv

LEMMA QueryReadsInv == ASSUME StartupInv, NEW r \in Replicas, QueryReads(r) PROVE StartupInv'
<1>1. PICK found \in {"yes", "no"} : /\ found = "yes" => Healthy
                                    /\ cache' = [cache EXCEPT ![r].query = found]
  <2>1. PICK b \in {FALSE, Healthy} : cache' = [cache EXCEPT ![r].query = IF b THEN "yes" ELSE "no"]
    BY DEF QueryReads
  <2>2. CASE b
    <3>1. Healthy
      BY <2>1, <2>2, Zenon
    <3>2. cache' = [cache EXCEPT ![r].query = "yes"]
      BY <2>1, <2>2
    <3> QED
      BY <3>1, <3>2
  <2>3. CASE ~b
    <3>1. cache' = [cache EXCEPT ![r].query = "no"]
      BY <2>1, <2>3
    <3> QED
      BY <3>1
  <2> QED
    BY <2>2, <2>3
<1>2. UNCHANGED <<migration, beat, sound>> /\ cache \in [Replicas -> CacheEntries]
  BY DEF QueryReads, StartupInv, StartupTypeOK, CacheEntries
<1>3. MigrationInv'
  BY <1>2, MigrationRests DEF StartupInv
<1>4. StartupTypeOK'
  <2>1. cache' \in [Replicas -> CacheEntries]
    BY <1>1, <1>2 DEF CacheEntries
  <2> QED
    BY <1>2, <2>1 DEF StartupInv, StartupTypeOK, migration, CacheEntries
<1>5. ReadyInv'
  <2>1. Healthy' <=> Healthy
    BY <1>2 DEF Healthy, Sees, migration
  <2>2. \A q \in Replicas : /\ cache'[q].ready = cache[q].ready /\ cache'[q].age = cache[q].age
                            /\ cache'[q].waits = cache[q].waits
    BY <1>1, <1>2 DEF CacheEntries
  <2>3. \A q \in Replicas : TellsReady(q)' <=> TellsReady(q)
    BY <2>2 DEF TellsReady
  <2>4. \A q \in Replicas : cache'[q].query = "yes" => cache[q].query = "yes" \/ Healthy
    BY <1>1, <1>2 DEF CacheEntries
  <2>5. Healthy => Needed \in recorded /\ sound = 0
    BY DEF StartupInv, ReadyInv, Healthy, Sees
  <2>6. \A q \in Replicas : cache[q].waits \in Nat
    BY <1>2 DEF CacheEntries
  <2> QED
    BY <1>2, <2>1, <2>2, <2>3, <2>4, <2>5, <2>6 DEF StartupInv, ReadyInv, migration
<1> QED
  BY <1>3, <1>4, <1>5 DEF StartupInv

LEMMA QueryReturnsInv == ASSUME StartupInv, NEW r \in Replicas, QueryReturns(r) PROVE StartupInv'
<1>1. /\ UNCHANGED <<migration, beat, sound>> /\ cache \in [Replicas -> CacheEntries]
      /\ cache' = [cache EXCEPT ![r] = [ready |-> cache[r].query = "yes", age |-> 0, query |-> "none", waits |-> 0]]
  BY DEF QueryReturns, StartupInv, StartupTypeOK, CacheEntries
<1>2. MigrationInv'
  BY <1>1, MigrationRests DEF StartupInv
<1>3. StartupTypeOK'
  <2>1. [ready |-> cache[r].query = "yes", age |-> 0, query |-> "none", waits |-> 0] \in CacheEntries
    BY StartupAssumption DEF CacheEntries
  <2>2. cache' \in [Replicas -> CacheEntries]
    BY <1>1, <2>1
  <2> QED
    BY <1>1, <2>2 DEF StartupInv, StartupTypeOK, migration, CacheEntries
<1>4. ReadyInv'
  <2>1. Healthy' <=> Healthy
    BY <1>1 DEF Healthy, Sees, migration
  <2>2. \A q \in Replicas \ {r} : cache'[q] = cache[q]
    BY <1>1
  <2>3. \A q \in Replicas \ {r} : TellsReady(q)' <=> TellsReady(q)
    BY <2>2 DEF TellsReady
  <2>4. cache'[r].query # "yes" /\ cache'[r].age = 0 /\ (cache'[r].ready => cache[r].query = "yes")
    BY <1>1
  <2>5. TellsReady(r)' => Needed \in recorded /\ sound <= QueryTime
    <3>1. TellsReady(r)' => cache[r].query = "yes"
      BY <2>4 DEF TellsReady
    <3>2. cache[r].query = "yes" => Needed \in recorded /\ sound <= cache[r].waits
      BY DEF StartupInv, ReadyInv
    <3>3. cache[r].waits \in 0..QueryTime /\ sound \in 0..Old
      BY <1>1 DEF CacheEntries, StartupInv, StartupTypeOK
    <3> QED
      BY <3>1, <3>2, <3>3, StartupAssumption DEF Old
  <2>6. \A q \in Replicas : cache'[q].query = "yes" => Needed \in recorded' /\ sound' <= cache'[q].waits
    BY <1>1, <2>2, <2>4 DEF StartupInv, ReadyInv, migration
  <2>7. ASSUME NEW q \in Replicas, TellsReady(q)' PROVE Needed \in recorded' /\ sound' <= cache'[q].age + QueryTime
    <3>1. CASE q = r
      BY <1>1, <2>4, <2>5, <2>7, <3>1, StartupAssumption DEF migration
    <3>2. CASE q # r
      BY <1>1, <2>2, <2>3, <2>7, <3>2 DEF StartupInv, ReadyInv, migration
    <3> QED
      BY <3>1, <3>2
  <2> QED
    BY <1>1, <2>1, <2>6, <2>7 DEF StartupInv, ReadyInv
<1> QED
  BY <1>2, <1>3, <1>4 DEF StartupInv

LEMMA BeatInv == ASSUME StartupInv, Beat PROVE StartupInv'
<1>1. /\ UNCHANGED <<migration, cache>> /\ beat' = 0 /\ sound' = IF Sees(recorded, 0) THEN 0 ELSE sound
  BY DEF Beat
<1>2. MigrationInv'
  BY <1>1, MigrationRests DEF StartupInv
<1>3. sound' \in 0..Old /\ sound \in 0..Old /\ sound' <= sound
  BY <1>1, StartupAssumption DEF StartupInv, StartupTypeOK, Old
<1>4. StartupTypeOK'
  BY <1>1, <1>3, StartupAssumption DEF StartupInv, StartupTypeOK, migration
<1>5. ReadyInv'
  <2>1. Healthy' => sound' = 0
    BY <1>1 DEF Healthy, Sees, migration
  <2>2. \A q \in Replicas : TellsReady(q)' <=> TellsReady(q)
    BY <1>1 DEF TellsReady
  <2>3. \A q \in Replicas : cache[q].waits \in Nat /\ cache[q].age \in Nat
    BY DEF StartupInv, StartupTypeOK
  <2>4. \A q \in Replicas : cache[q].query = "yes" => Needed \in recorded' /\ sound' <= cache[q].waits
    BY <1>1, <1>3, <2>3, StartupAssumption DEF StartupInv, ReadyInv, migration, Old
  <2>5. \A q \in Replicas : TellsReady(q) => Needed \in recorded' /\ sound' <= cache[q].age + QueryTime
    BY <1>1, <1>3, <2>3, StartupAssumption DEF StartupInv, ReadyInv, migration, Old
  <2> QED
    BY <1>1, <2>1, <2>2, <2>4, <2>5 DEF ReadyInv
<1> QED
  BY <1>2, <1>4, <1>5 DEF StartupInv

LEMMA TickInv == ASSUME StartupInv, Tick PROVE StartupInv'
<1>1. /\ UNCHANGED migration /\ beat' = Older(beat, HeartbeatTime)
      /\ cache \in [Replicas -> CacheEntries] /\ sound \in 0..Old /\ beat \in 0..HeartbeatTime
      /\ sound' = IF Sees(recorded, Older(beat, HeartbeatTime)) THEN 0 ELSE Older(sound, Old)
  BY DEF Tick, StartupInv, StartupTypeOK, CacheEntries
<1>2. \A r \in Replicas : cache[r].query # "none" => cache[r].waits < QueryTime
  BY DEF Tick
<1>3. cache' = [r \in Replicas |->
                 [cache[r] EXCEPT !.age = IF cache[r].age < CacheTime THEN cache[r].age + 1 ELSE CacheTime,
                                  !.waits = IF cache[r].query # "none" THEN cache[r].waits + 1 ELSE cache[r].waits]]
  BY <1>1 DEF Tick, Older, CacheEntries
<1>4. MigrationInv'
  BY <1>1, MigrationRests DEF StartupInv
<1>5. ASSUME NEW r \in Replicas
      PROVE  /\ cache'[r] \in CacheEntries
             /\ cache'[r].query = cache[r].query /\ cache'[r].ready = cache[r].ready
             /\ cache[r].query = "yes" => cache'[r].waits = cache[r].waits + 1
             /\ cache'[r].age < CacheTime => cache[r].age < CacheTime /\ cache'[r].age = cache[r].age + 1
  <2>1. cache[r] \in CacheEntries
    BY <1>1
  <2>2. cache'[r] = [cache[r] EXCEPT !.age = IF cache[r].age < CacheTime THEN cache[r].age + 1 ELSE CacheTime,
                                     !.waits = IF cache[r].query # "none" THEN cache[r].waits + 1 ELSE cache[r].waits]
    BY <1>3
  <2> DEFINE age == IF cache[r].age < CacheTime THEN cache[r].age + 1 ELSE CacheTime
             waits == IF cache[r].query # "none" THEN cache[r].waits + 1 ELSE cache[r].waits
  <2>3. age \in 0..CacheTime /\ waits \in 0..QueryTime
    BY <1>2, <2>1, StartupAssumption DEF CacheEntries
  <2>4. /\ age < CacheTime => cache[r].age < CacheTime /\ age = cache[r].age + 1
        /\ cache[r].query = "yes" => waits = cache[r].waits + 1
    BY <2>1, StartupAssumption DEF CacheEntries
  <2>5. cache'[r] = [cache[r] EXCEPT !.age = age, !.waits = waits]
    BY <2>2
  <2> HIDE DEF age, waits
  <2>6. cache'[r] \in CacheEntries
    BY <2>1, <2>3, <2>5 DEF CacheEntries
  <2>7. /\ cache'[r].query = cache[r].query /\ cache'[r].ready = cache[r].ready
        /\ cache'[r].age = age /\ cache'[r].waits = waits
    BY <2>1, <2>5 DEF CacheEntries
  <2> QED
    BY <2>4, <2>6, <2>7
<1>6. cache' \in [Replicas -> CacheEntries]
  BY <1>3, <1>5
<1>7. sound' \in 0..Old /\ sound' <= sound + 1
  BY <1>1, StartupAssumption DEF Old, Older
<1>8. StartupTypeOK'
  <2>1. beat' \in 0..HeartbeatTime
    BY <1>1, StartupAssumption DEF Older
  <2> QED
    BY <1>1, <1>6, <1>7, <2>1 DEF StartupInv, StartupTypeOK, migration, CacheEntries
<1>9. ReadyInv'
  <2>1. Healthy' => sound' = 0
    BY <1>1 DEF Healthy, Sees, migration
  <2>2. ASSUME NEW r \in Replicas, cache'[r].query = "yes"
        PROVE  Needed \in recorded' /\ sound' <= cache'[r].waits
    <3>1. cache[r].query = "yes" /\ cache'[r].waits = cache[r].waits + 1
      BY <1>5, <2>2
    <3>2. Needed \in recorded /\ sound <= cache[r].waits /\ cache[r].waits \in Nat
      BY <1>1, <3>1 DEF StartupInv, ReadyInv, CacheEntries
    <3> QED
      BY <1>1, <1>7, <3>1, <3>2, StartupAssumption DEF Old, migration
  <2>3. ASSUME NEW r \in Replicas, TellsReady(r)'
        PROVE  Needed \in recorded' /\ sound' <= cache'[r].age + QueryTime
    <3>1. TellsReady(r) /\ cache'[r].age = cache[r].age + 1
      BY <1>5, <2>3 DEF TellsReady
    <3>2. Needed \in recorded /\ sound <= cache[r].age + QueryTime /\ cache[r].age \in Nat
      BY <1>1, <3>1 DEF StartupInv, ReadyInv, CacheEntries
    <3> QED
      BY <1>1, <1>7, <3>1, <3>2, StartupAssumption DEF Old, migration
  <2> QED
    BY <2>1, <2>2, <2>3 DEF ReadyInv
<1> QED
  BY <1>4, <1>8, <1>9 DEF StartupInv

LEMMA StartupStep == StartupInv /\ [StartupNext]_startupVars => StartupInv'
<1> SUFFICES ASSUME StartupInv, [StartupNext]_startupVars PROVE StartupInv'
  OBVIOUS
<1>1. CASE UNCHANGED startupVars
  BY <1>1 DEF startupVars, migration, StartupInv, StartupTypeOK, MigrationInv, ReadyInv, Healthy, TellsReady
<1>2. ASSUME NEW m \in Migrators, Lock(m) \/ Look(m) \/ Apply(m) \/ Finish(m) \/ Fail(m) PROVE StartupInv'
  BY <1>2, LockInv, LookInv, ApplyInv, FinishInv, FailInv
<1>3. ASSUME NEW r \in Replicas, Probe(r) \/ QueryReads(r) \/ QueryReturns(r) PROVE StartupInv'
  BY <1>3, ProbeInv, QueryReadsInv, QueryReturnsInv
<1> QED
  BY <1>1, <1>2, <1>3, BeatInv, TickInv DEF StartupNext

\* The invariant is kept, and says what AppliedOnceInOrder does: a run that is
\* done has passed over every file of its image.
THEOREM MigrationsApplyOnce == StartupSpec => []AppliedOnceInOrder
<1>1. StartupInv => AppliedOnceInOrder
  <2> SUFFICES ASSUME StartupInv PROVE AppliedOnceInOrder
    OBVIOUS
  <2>1. \A m \in Migrators : runner[m] = "done" => 1..Files[m] \subseteq recorded
    <3>1. ASSUME NEW m \in Migrators, runner[m] = "done" PROVE 1..Files[m] \subseteq recorded
      <4>1. Files[m] \in Nat /\ next[m] \in Nat /\ next[m] > Files[m] /\ 1..(next[m] - 1) \subseteq recorded
        BY <3>1, StartupAssumption DEF StartupInv, StartupTypeOK, MigrationInv
      <4> QED
        BY <4>1
    <3> QED
      BY <3>1
  <2>2. ASSUME NEW r \in Replicas, TellsReady(r) PROVE Needed \in recorded /\ sound <= QueryTime + CacheTime
    <3>1. Needed \in recorded /\ sound <= cache[r].age + QueryTime
      BY <2>2 DEF StartupInv, ReadyInv
    <3>2. cache[r].age \in Nat /\ cache[r].age < CacheTime /\ sound \in 0..Old
      BY <2>2 DEF StartupInv, StartupTypeOK, TellsReady
    <3> QED
      BY <3>1, <3>2, StartupAssumption DEF Old
  <2> QED
    BY <2>1, <2>2 DEF StartupInv, MigrationInv, AppliedOnceInOrder
<1> QED
  BY <1>1, StartupInitInv, StartupStep, PTL DEF StartupSpec

-----------------------------------------------------------------------------
(* Backups                                                                 *)

Steps == {"idle", "started", "dumping", "dumped", "copying", "selected", "appended", "ran",
          "restoring", "drilled", "restored"}
PartNames == {"config", "password", "binary"}
Dump == [name : {"dump", "partial"}, stamp : Nat, day : Nat, whole : BOOLEAN, by : Scripts \cup {"none"}]
Snapshot == [stamp : Nat, whole : BOOLEAN]
Repository == [ready : BOOLEAN, snapshots : Seq(Snapshot)]
ScriptState == [at : Steps, id : Nat, began : Nat, manifest : Nat, config : Nat, picked : Nat, passed : BOOLEAN]
BackupStatus == [time : Nat, id : Nat]
RestoreStatus == [time : Nat, manifest : Nat, stamp : Nat]

HostTypeOK ==
  /\ now \in Nat /\ stamp \in Nat /\ manifest \in Nat /\ starts \in Nat
  /\ files \in SUBSET Dump
  /\ repository \in [Configs -> Repository]
  /\ evidence \in [backup : {NoStatus} \cup BackupStatus, restore : {NoStatus} \cup RestoreStatus]
  /\ installed \in [PartNames -> Nat]
  /\ script \in [Scripts -> ScriptState]
  /\ provision \in [at : Nat, config : Nat, previous : [PartNames -> Nat]]

\* A whole dump that was taken after "began" is off the host.
OffHostSince(began) == \E d \in Snapshots : d.whole /\ d.stamp > began
OffHost(id) == \E d \in Snapshots : d.whole /\ d.stamp = id

\* Under its final name a file is a whole dump that nobody writes any more; what a
\* script writes is partial, and only a script in its dump step writes.
FilesInv ==
  /\ \A f \in files : f.stamp <= stamp
  /\ \A f \in files : f.name = "dump" => f.whole /\ f.by = "none"
  /\ \A f \in files, s \in Scripts : f.by = s => script[s].at \in {"dumping", "dumped"}
  /\ \A s \in Scripts : script[s].at \in {"dumping", "dumped"} => \E f \in files : f.by = s
  /\ \A f \in files, s \in Scripts : f.by = s /\ script[s].at = "dumped" => f.whole
  /\ \A r, s \in Scripts : script[r].at \in {"dumping", "dumped"} /\ script[s].at \in {"dumping", "dumped"} => r = s

\* How far the gate has come: it holds, can find, has chosen or has saved a dump
\* that is newer than its beginning.  A dump the scheduled backup writes while the
\* gate copies is newer too, so that deleting the gate's does no harm.
GateInv ==
  LET gate == script["gate"]
  IN /\ gate.began <= stamp
     /\ gate.at # "idle" => gate.id > 0 /\ ~gate.passed
     /\ gate.id <= starts
     /\ script["scheduled"].id = 0
     /\ gate.at \in {"dumping", "dumped"} => \E f \in files : f.by = "gate" /\ f.stamp > gate.began
     /\ gate.at = "copying" => /\ \E d \in Dumps : d.stamp > gate.began
                               /\ \A f \in files : f.by = "scheduled" => f.stamp > gate.began
     /\ gate.at = "selected" => gate.picked > gate.began
     /\ gate.at \in {"appended", "restoring", "drilled", "restored"} => OffHostSince(gate.began)
     /\ gate.at = "drilled" => OffHost(gate.picked)

\* The backup status names the run that wrote it, and the gate's run only writes it
\* once its dump is off the host; the restore status is of a dump off the host.
EvidenceInv ==
  /\ evidence.backup # NoStatus => evidence.backup.id <= starts
  /\ evidence.backup # NoStatus /\ script["gate"].at # "idle" /\ evidence.backup.id = script["gate"].id =>
       OffHostSince(script["gate"].began)
  /\ evidence.restore # NoStatus => OffHost(evidence.restore.stamp)

BackupInv == HostTypeOK /\ FilesInv /\ GateInv /\ EvidenceInv /\ GateTellsTheTruth

LEMMA PartsAre ==
  /\ Range(Parts) = PartNames /\ Len(Parts) = 3 /\ DOMAIN Parts = 1..3
  /\ \A k \in 1..3 : Parts[k] \in PartNames
<1>1. DOMAIN Parts = 1..3 /\ Parts[1] = "config" /\ Parts[2] = "password" /\ Parts[3] = "binary" /\ Len(Parts) = 3
  BY DEF Parts
<1>2. \A k \in 1..3 : k = 1 \/ k = 2 \/ k = 3
  OBVIOUS
<1>3. Range(Parts) = {Parts[k] : k \in 1..3}
  BY <1>1 DEF Range
<1> QED
  BY <1>1, <1>2, <1>3 DEF PartNames

LEMMA IdleIsState == Idle \in ScriptState /\ Idle.at = "idle" /\ Idle.id = 0 /\ Idle.began = 0 /\ ~Idle.passed
  BY DEF Idle, ScriptState, Steps, NotInstalled

\* One field of one script's state changes.
LEMMA GoesTo ==
  ASSUME HostTypeOK, NEW s \in Scripts, NEW step \in Steps, Goes(s, step)
  PROVE  /\ script' \in [Scripts -> ScriptState]
         /\ script'[s].at = step
         /\ \A r \in Scripts : r # s => script'[r] = script[r]
         /\ \A r \in Scripts : /\ script'[r].id = script[r].id /\ script'[r].began = script[r].began
                               /\ script'[r].manifest = script[r].manifest
                               /\ script'[r].picked = script[r].picked /\ script'[r].passed = script[r].passed
<1>1. script \in [Scripts -> ScriptState] /\ script' = [script EXCEPT ![s] = [script[s] EXCEPT !.at = step]]
  BY DEF HostTypeOK, Goes
<1>2. script[s] \in ScriptState
  BY <1>1
<1>3. [script[s] EXCEPT !.at = step] \in ScriptState
  BY <1>2 DEF ScriptState
<1> QED
  BY <1>1, <1>2, <1>3 DEF ScriptState

\* Which scripts there are.
LEMMA TwoScripts == "gate" \in Scripts /\ "scheduled" \in Scripts /\ \A s \in Scripts : s = "gate" \/ s = "scheduled"
  BY DEF Scripts

\* What is off the host stays there.
LEMMA SnapshotsStay ==
  ASSUME Snapshots \subseteq Snapshots', NEW n \in Nat
  PROVE  (OffHostSince(n) => OffHostSince(n)') /\ (OffHost(n) => OffHost(n)')
  BY DEF OffHostSince, OffHost

\* A step that changes the readiness of repositories at most.
LEMMA SameSnapshots ==
  ASSUME HostTypeOK,
         \/ UNCHANGED repository
         \/ \E config : repository' = [repository EXCEPT ![config].ready = TRUE]
  PROVE  repository' \in [Configs -> Repository] /\ Snapshots' = Snapshots
<1>1. repository \in [Configs -> Repository]
  BY DEF HostTypeOK
<1>2. CASE UNCHANGED repository
  BY <1>1, <1>2 DEF Snapshots
<1>3. ASSUME NEW config, repository' = [repository EXCEPT ![config].ready = TRUE]
      PROVE  repository' \in [Configs -> Repository] /\ Snapshots' = Snapshots
  <2>1. repository' \in [Configs -> Repository]
    BY <1>1, <1>3 DEF Repository
  <2>2. \A c \in Configs : repository'[c].snapshots = repository[c].snapshots
    BY <1>1, <1>3 DEF Repository
  <2> QED
    BY <2>1, <2>2 DEF Snapshots
<1> QED
  BY <1>2, <1>3

\* Files stay when no script enters or leaves its dump steps.
LEMMA FilesStay ==
  ASSUME BackupInv, files' = files, stamp' = stamp,
         \A s \in Scripts : /\ script'[s].at \in {"dumping", "dumped"} <=> script[s].at \in {"dumping", "dumped"}
                            /\ script'[s].at = "dumped" => script[s].at = "dumped"
  PROVE  FilesInv'
  BY DEF BackupInv, FilesInv

\* The scheduled backup, or the world, takes a step.
LEMMA GateRests ==
  ASSUME BackupInv, HostTypeOK', script'["gate"] = script["gate"], script'["scheduled"].id = 0,
         stamp <= stamp', starts <= starts', Snapshots \subseteq Snapshots',
         evidence'.restore = evidence.restore,
         evidence'.backup = evidence.backup \/ evidence'.backup.id = 0,
         script["gate"].at \in {"dumping", "dumped"} =>
           \A f \in files : f.by = "gate" => f \in files',
         script["gate"].at = "copying" =>
           /\ \E d \in Dumps' : d.stamp > script["gate"].began
           /\ \A f \in files' : f.by = "scheduled" => f.stamp > script["gate"].began
  PROVE  GateInv' /\ EvidenceInv' /\ GateTellsTheTruth'
<1> DEFINE gate == script["gate"]
<1>1. /\ gate \in ScriptState /\ gate.began \in Nat /\ gate.id \in Nat /\ gate.picked \in Nat
      /\ stamp \in Nat /\ stamp' \in Nat /\ starts \in Nat /\ starts' \in Nat
  BY TwoScripts DEF BackupInv, HostTypeOK, ScriptState
<1>2. /\ OffHostSince(gate.began) => \E d \in Snapshots' : d.whole /\ d.stamp > gate.began
      /\ OffHost(gate.picked) => \E d \in Snapshots' : d.whole /\ d.stamp = gate.picked
  BY DEF OffHostSince, OffHost
<1>3. GateInv'
  <2>1. gate.began <= stamp' /\ gate.id <= starts'
    BY <1>1 DEF BackupInv, GateInv
  <2>2. gate.at # "idle" => gate.id > 0 /\ ~gate.passed
    BY DEF BackupInv, GateInv
  <2>3. gate.at \in {"dumping", "dumped"} => \E f \in files' : f.by = "gate" /\ f.stamp > gate.began
    BY DEF BackupInv, GateInv
  <2>4. gate.at = "selected" => gate.picked > gate.began
    BY DEF BackupInv, GateInv
  <2>5. gate.at \in {"appended", "restoring", "drilled", "restored"} => \E d \in Snapshots' : d.whole /\ d.stamp > gate.began
    BY <1>2 DEF BackupInv, GateInv
  <2>6. gate.at = "drilled" => \E d \in Snapshots' : d.whole /\ d.stamp = gate.picked
    BY <1>2 DEF BackupInv, GateInv
  <2>7. script'["gate"] = gate
    OBVIOUS
  <2> HIDE DEF gate
  <2> QED
    BY <2>1, <2>2, <2>3, <2>4, <2>5, <2>6, <2>7 DEF GateInv, OffHostSince, OffHost, gate
<1>4. EvidenceInv'
  <2>1. evidence'.backup # NoStatus => evidence'.backup.id <= starts'
    BY <1>1, SMT DEF BackupInv, EvidenceInv, HostTypeOK, BackupStatus
  <2>2. ASSUME evidence'.backup # NoStatus, gate.at # "idle", evidence'.backup.id = gate.id
        PROVE  \E d \in Snapshots' : d.whole /\ d.stamp > gate.began
    <3>1. gate.id > 0
      BY <2>2 DEF BackupInv, GateInv
    <3>2. evidence'.backup = evidence.backup
      BY <2>2, <3>1
    <3> QED
      BY <1>2, <2>2, <3>2 DEF BackupInv, EvidenceInv
  <2>3. evidence'.restore # NoStatus => \E d \in Snapshots' : d.whole /\ d.stamp = evidence'.restore.stamp
    BY DEF BackupInv, EvidenceInv, OffHost
  <2>4. script'["gate"] = gate
    OBVIOUS
  <2> HIDE DEF gate
  <2> QED
    BY <2>1, <2>2, <2>3, <2>4 DEF EvidenceInv, OffHostSince, OffHost, gate
<1>5. GateTellsTheTruth'
  BY DEF BackupInv, GateTellsTheTruth
<1> QED
  BY <1>3, <1>4, <1>5

\* A step that touches no script, no file and no evidence.
LEMMA WorldMoves ==
  ASSUME BackupInv, UNCHANGED <<stamp, files, evidence, script>>,
         now' \in Nat, manifest' \in Nat, starts' \in Nat, starts <= starts',
         \/ UNCHANGED repository
         \/ \E config : repository' = [repository EXCEPT ![config].ready = TRUE],
         installed' \in [PartNames -> Nat],
         provision' \in [at : Nat, config : Nat, previous : [PartNames -> Nat]]
  PROVE  BackupInv'
<1>1. repository' \in [Configs -> Repository] /\ Snapshots' = Snapshots
  BY SameSnapshots DEF BackupInv
<1>2. HostTypeOK'
  BY <1>1 DEF BackupInv, HostTypeOK
<1>3. FilesInv'
  BY DEF BackupInv, FilesInv
<1>4. stamp <= stamp'
  BY DEF BackupInv, HostTypeOK
<1>5. Dumps' = Dumps
  BY DEF Dumps
<1>6. /\ script["scheduled"].id = 0
      /\ script["gate"].at = "copying" => /\ \E d \in Dumps : d.stamp > script["gate"].began
                                          /\ \A f \in files : f.by = "scheduled" => f.stamp > script["gate"].began
  BY DEF BackupInv, GateInv
<1>7. GateInv' /\ EvidenceInv' /\ GateTellsTheTruth'
  BY <1>1, <1>2, <1>4, <1>5, <1>6, GateRests
<1> QED
  BY <1>2, <1>3, <1>7 DEF BackupInv

LEMMA WorldTypes ==
  ASSUME BackupInv
  PROVE  /\ now \in Nat /\ manifest \in Nat /\ starts \in Nat /\ starts + 1 \in Nat /\ starts <= starts + 1 /\ starts <= starts
         /\ installed \in [PartNames -> Nat] /\ installed["config"] \in Nat
         /\ provision \in [at : Nat, config : Nat, previous : [PartNames -> Nat]]
         /\ NotProvisioning \in [at : Nat, config : Nat, previous : [PartNames -> Nat]]
<1>1. NotProvisioning \in [at : Nat, config : Nat, previous : [PartNames -> Nat]]
  BY PartsAre DEF NotProvisioning, NotInstalled
<1> QED
  BY <1>1 DEF BackupInv, HostTypeOK, PartNames

LEMMA DayPassesInv == BackupInv /\ DayPasses => BackupInv'
<1> SUFFICES ASSUME BackupInv, DayPasses PROVE BackupInv'
  OBVIOUS
<1>1. now' \in Nat
  BY WorldTypes DEF DayPasses
<1> QED
  BY <1>1, WorldTypes, WorldMoves DEF DayPasses

LEMMA ReleaseInv == BackupInv /\ Release => BackupInv'
<1> SUFFICES ASSUME BackupInv, Release PROVE BackupInv'
  OBVIOUS
<1>1. manifest' \in Nat
  BY WorldTypes DEF Release
<1> QED
  BY <1>1, WorldTypes, WorldMoves DEF Release

LEMMA StartProvisionInv == BackupInv /\ StartProvision => BackupInv'
<1> SUFFICES ASSUME BackupInv, StartProvision PROVE BackupInv'
  OBVIOUS
<1>1. provision' \in [at : Nat, config : Nat, previous : [PartNames -> Nat]]
  BY WorldTypes DEF StartProvision
<1>2. starts' = starts + 1 /\ UNCHANGED <<now, stamp, manifest, files, repository, evidence, installed, script>>
  BY DEF StartProvision
<1> QED
  BY <1>1, <1>2, WorldTypes, WorldMoves

LEMMA InstallPartInv == BackupInv /\ InstallPart => BackupInv'
<1> SUFFICES ASSUME BackupInv, InstallPart PROVE BackupInv'
  OBVIOUS
<1>1. /\ installed' = [installed EXCEPT ![Parts[provision.at]] = provision.config]
      /\ provision' = [provision EXCEPT !.at = @ + 1]
      /\ UNCHANGED <<now, stamp, manifest, files, repository, evidence, script, starts>>
  BY DEF InstallPart
<1>2. installed' \in [PartNames -> Nat]
  BY <1>1, WorldTypes
<1>3. provision' \in [at : Nat, config : Nat, previous : [PartNames -> Nat]]
  <2> DEFINE P == [PartNames -> Nat]
  <2>1. provision \in [at : Nat, config : Nat, previous : P] /\ provision' = [provision EXCEPT !.at = provision.at + 1]
    BY <1>1, WorldTypes
  <2> HIDE DEF P
  <2>2. provision' \in [at : Nat, config : Nat, previous : P]
    BY <2>1
  <2> QED
    BY <2>2 DEF P
<1> QED
  BY <1>1, <1>2, <1>3, WorldTypes, WorldMoves

LEMMA InitRepositoryInv == BackupInv /\ InitRepository => BackupInv'
<1> SUFFICES ASSUME BackupInv, InitRepository PROVE BackupInv'
  OBVIOUS
<1>1. /\ repository' = [repository EXCEPT ![provision.config].ready = TRUE]
      /\ provision' = NotProvisioning
      /\ UNCHANGED <<now, stamp, manifest, files, evidence, installed, script, starts>>
  BY DEF InitRepository
<1> QED
  BY <1>1, WorldTypes, WorldMoves

LEMMA RollBackInv == BackupInv /\ RollBack => BackupInv'
<1> SUFFICES ASSUME BackupInv, RollBack PROVE BackupInv'
  OBVIOUS
<1>1. /\ installed' = provision.previous /\ provision' = NotProvisioning
      /\ UNCHANGED <<now, stamp, manifest, files, evidence, script, starts>>
      /\ \/ UNCHANGED repository
         \/ \E config : repository' = [repository EXCEPT ![config].ready = TRUE]
  BY DEF RollBack
<1>2. installed' \in [PartNames -> Nat]
  BY <1>1, WorldTypes
<1> QED
  BY <1>1, <1>2, WorldTypes, WorldMoves

-----------------------------------------------------------------------------
(* Steps of the scripts.                                                   *)

\* The scheduled backup moves between steps that write no dump.
LEMMA ScheduledMoves ==
  ASSUME BackupInv, NEW state \in ScriptState, state.id = 0,
         state.at \notin {"dumping", "dumped"}, script["scheduled"].at \notin {"dumping", "dumped"},
         script' = [script EXCEPT !["scheduled"] = state],
         UNCHANGED <<now, stamp, manifest, files, installed, provision>>,
         starts' \in Nat, starts <= starts',
         repository' \in [Configs -> Repository], Snapshots \subseteq Snapshots',
         evidence' \in [backup : {NoStatus} \cup BackupStatus, restore : {NoStatus} \cup RestoreStatus],
         evidence'.restore = evidence.restore,
         evidence'.backup = evidence.backup \/ evidence'.backup.id = 0
  PROVE  BackupInv'
<1>1. /\ script' \in [Scripts -> ScriptState] /\ script'["gate"] = script["gate"] /\ script'["scheduled"] = state
  BY TwoScripts DEF BackupInv, HostTypeOK
<1>2. HostTypeOK'
  BY <1>1 DEF BackupInv, HostTypeOK
<1>3. FilesInv'
  BY <1>1, FilesStay, TwoScripts
<1>4. stamp <= stamp' /\ Dumps' = Dumps
  BY DEF BackupInv, HostTypeOK, Dumps
<1>5. script["gate"].at = "copying" => /\ \E d \in Dumps : d.stamp > script["gate"].began
                                       /\ \A f \in files : f.by = "scheduled" => f.stamp > script["gate"].began
  BY DEF BackupInv, GateInv
<1>6. GateInv' /\ EvidenceInv' /\ GateTellsTheTruth'
  BY <1>1, <1>2, <1>4, <1>5, GateRests
<1> QED
  BY <1>2, <1>3, <1>6 DEF BackupInv

LEMMA StartScheduledInv == BackupInv /\ StartScheduled => BackupInv'
<1> SUFFICES ASSUME BackupInv, StartScheduled PROVE BackupInv'
  OBVIOUS
<1> DEFINE state == [Idle EXCEPT !.at = "started"]
<1>1. state \in ScriptState /\ state.id = 0 /\ state.at = "started"
  BY IdleIsState DEF ScriptState, Steps
<1>2. script' = [script EXCEPT !["scheduled"] = state] /\ starts' = starts + 1
  BY DEF StartScheduled
<1>3. UNCHANGED <<now, stamp, manifest, files, repository, evidence, installed, provision>>
  BY DEF StartScheduled
<1>4. script["scheduled"].at = "idle"
  BY DEF StartScheduled, At
<1>5. /\ repository' \in [Configs -> Repository] /\ Snapshots \subseteq Snapshots'
      /\ evidence' \in [backup : {NoStatus} \cup BackupStatus, restore : {NoStatus} \cup RestoreStatus]
  BY <1>3, SameSnapshots DEF BackupInv, HostTypeOK
<1> HIDE DEF state
<1> QED
  BY <1>1, <1>2, <1>3, <1>4, <1>5, WorldTypes, ScheduledMoves

LEMMA EndScheduledInv == BackupInv /\ EndScheduled => BackupInv'
<1> SUFFICES ASSUME BackupInv, EndScheduled PROVE BackupInv'
  OBVIOUS
<1>1. /\ script' = [script EXCEPT !["scheduled"] = Idle] /\ script["scheduled"].at = "ran"
      /\ UNCHANGED <<now, stamp, manifest, files, repository, evidence, installed, provision, starts>>
  BY DEF EndScheduled, At
<1>2. /\ repository' \in [Configs -> Repository] /\ Snapshots \subseteq Snapshots'
      /\ evidence' \in [backup : {NoStatus} \cup BackupStatus, restore : {NoStatus} \cup RestoreStatus]
  BY <1>1, SameSnapshots DEF BackupInv, HostTypeOK
<1> QED
  BY <1>1, <1>2, IdleIsState, WorldTypes, ScheduledMoves

\* The gate moves between steps that write no dump, at a place where the invariant
\* asks for no more than it has; nothing about the other script or the files changes.
LEMMA GateMoves ==
  ASSUME BackupInv, NEW state \in ScriptState,
         script' = [script EXCEPT !["gate"] = state],
         state.at \notin {"dumping", "dumped"}, script["gate"].at \notin {"dumping", "dumped"},
         UNCHANGED <<now, stamp, manifest, files, installed, provision>>,
         starts' \in Nat, starts <= starts',
         repository' \in [Configs -> Repository], Snapshots \subseteq Snapshots',
         evidence' \in [backup : {NoStatus} \cup BackupStatus, restore : {NoStatus} \cup RestoreStatus],
         state.began <= stamp, state.id <= starts',
         state.at # "idle" => state.id > 0 /\ ~state.passed,
         state.at # "copying",
         state.at = "selected" => state.picked > state.began,
         state.at \in {"appended", "restoring", "drilled", "restored"} => (\E d \in Snapshots' : d.whole /\ d.stamp > state.began),
         state.at = "drilled" => (\E d \in Snapshots' : d.whole /\ d.stamp = state.picked),
         evidence'.backup # NoStatus => evidence'.backup.id <= starts',
         evidence'.backup # NoStatus /\ state.at # "idle" /\ evidence'.backup.id = state.id => (\E d \in Snapshots' : d.whole /\ d.stamp > state.began),
         evidence'.restore # NoStatus => (\E d \in Snapshots' : d.whole /\ d.stamp = evidence'.restore.stamp),
         state.passed => /\ (\E d \in Snapshots' : d.whole /\ d.stamp > state.began)
                         /\ evidence'.restore # NoStatus /\ evidence'.restore.manifest = state.manifest
  PROVE  BackupInv'
<1>1. /\ script' \in [Scripts -> ScriptState] /\ script'["scheduled"] = script["scheduled"] /\ script'["gate"] = state
  BY TwoScripts DEF BackupInv, HostTypeOK
<1>2. HostTypeOK'
  BY <1>1 DEF BackupInv, HostTypeOK
<1>3. FilesInv'
  BY <1>1, FilesStay, TwoScripts
<1>4. GateInv'
  <2>1. script'["scheduled"].id = 0
    BY <1>1 DEF BackupInv, GateInv
  <2> QED
    BY <1>1, <2>1 DEF GateInv, OffHostSince, OffHost
<1>5. EvidenceInv'
  BY <1>1 DEF EvidenceInv, OffHostSince, OffHost
<1>6. GateTellsTheTruth'
  BY <1>1 DEF GateTellsTheTruth, OffHostSince, OffHost
<1> QED
  BY <1>2, <1>3, <1>4, <1>5, <1>6 DEF BackupInv

\* What a script's record says when it takes a step.
LEMMA ScriptTypes ==
  ASSUME BackupInv, NEW s \in Scripts
  PROVE  /\ script[s] \in ScriptState /\ script[s].at \in Steps
         /\ script[s].began \in Nat /\ script[s].id \in Nat /\ script[s].picked \in Nat /\ script[s].manifest \in Nat
         /\ stamp \in Nat /\ now \in Nat /\ starts \in Nat
         /\ \A f \in files : f \in Dump /\ f.stamp \in Nat
<1>1. script[s] \in ScriptState /\ files \in SUBSET Dump /\ stamp \in Nat /\ now \in Nat /\ starts \in Nat
  BY DEF BackupInv, HostTypeOK
<1> QED
  BY <1>1 DEF ScriptState, Dump

\* The gate enters, leaves or works in its dump steps.
LEMMA GateWrites ==
  ASSUME BackupInv, HostTypeOK', NEW step \in {"dumping", "dumped", "copying", "ran"}, Goes("gate", step),
         script["gate"].at # "idle", UNCHANGED <<starts, repository, evidence>>, stamp <= stamp',
         step \in {"dumping", "dumped"} =>
           \E f \in files' : f.by = "gate" /\ f.stamp > script["gate"].began,
         step = "copying" => /\ \E d \in Dumps' : d.stamp > script["gate"].began
                             /\ \A f \in files' : f.by = "scheduled" => f.stamp > script["gate"].began
  PROVE  GateInv' /\ EvidenceInv' /\ GateTellsTheTruth'
<1>1. step \in Steps /\ "gate" \in Scripts /\ HostTypeOK
  BY DEF Steps, Scripts, BackupInv
<1>2. /\ script'["gate"].at = step /\ script'["scheduled"] = script["scheduled"]
      /\ script'["gate"].began = script["gate"].began /\ script'["gate"].id = script["gate"].id
      /\ script'["gate"].passed = script["gate"].passed
  BY <1>1, GoesTo, TwoScripts
<1>3. Snapshots' = Snapshots
  BY <1>1, SameSnapshots
<1>4. script["gate"].id > 0 /\ ~script["gate"].passed /\ script["gate"].began <= stamp /\ script["gate"].id <= starts
  BY DEF BackupInv, GateInv
<1>5. stamp \in Nat /\ stamp' \in Nat /\ script["gate"].began \in Nat
  BY <1>1, ScriptTypes DEF HostTypeOK
<1>6. GateInv'
  <2>1. script'["scheduled"].id = 0
    BY <1>2 DEF BackupInv, GateInv
  <2> QED
    BY <1>2, <1>4, <1>5, <2>1 DEF GateInv
<1>7. EvidenceInv'
  BY <1>2, <1>3, <1>4 DEF BackupInv, EvidenceInv, OffHostSince, OffHost
<1>8. GateTellsTheTruth'
  BY <1>2, <1>4 DEF GateTellsTheTruth
<1> QED
  BY <1>6, <1>7, <1>8

\* While one script is in its dump steps the other is not, and owns no file.
LEMMA OneWriter ==
  ASSUME BackupInv, NEW s \in Scripts, NEW r \in Scripts, r # s,
         script[s].at \in {"dumping", "dumped"} \/ NobodyIn({"dumping", "dumped"})
  PROVE  script[r].at \notin {"dumping", "dumped"} /\ \A f \in files : f.by # r
<1>1. script[r].at \notin {"dumping", "dumped"}
  BY DEF BackupInv, FilesInv, NobodyIn
<1> QED
  BY <1>1 DEF BackupInv, FilesInv

LEMMA StartDumpInv == ASSUME BackupInv, NEW s \in Scripts, StartDump(s) PROVE BackupInv'
<1> DEFINE new == [name |-> Name, stamp |-> stamp + 1, day |-> now, whole |-> FALSE, by |-> s]
<1>1. /\ script[s].at = "started" /\ NobodyIn({"dumping", "dumped"}) /\ stamp' = stamp + 1
      /\ files' = files \cup {new} /\ Goes(s, "dumping")
      /\ UNCHANGED <<now, manifest, repository, evidence, installed, provision, starts>>
  BY DEF StartDump, At
<1>2. "dumping" \in Steps /\ HostTypeOK
  BY DEF Steps, BackupInv
<1>3. /\ script' \in [Scripts -> ScriptState] /\ script'[s].at = "dumping"
      /\ \A r \in Scripts : r # s => script'[r] = script[r]
      /\ script'["scheduled"].id = script["scheduled"].id
  BY <1>1, <1>2, GoesTo, TwoScripts
<1>4. /\ stamp \in Nat /\ stamp' \in Nat /\ stamp <= stamp' /\ script["gate"].began \in Nat
      /\ \A f \in files : f.stamp \in Nat /\ f.stamp <= stamp
  BY <1>1, ScriptTypes, TwoScripts DEF BackupInv, FilesInv
<1>5. new \in Dump /\ new.stamp = stamp + 1 /\ new.name = "partial" /\ new.by = s /\ ~new.whole
  BY <1>2, <1>4 DEF Dump, Name, HostTypeOK
<1> HIDE DEF new
<1>6. HostTypeOK'
  BY <1>1, <1>2, <1>3, <1>4, <1>5 DEF HostTypeOK
<1>7. \A r \in Scripts : \A f \in files : f.by # r
  BY <1>1 DEF BackupInv, FilesInv, NobodyIn
<1>8. FilesInv'
  <2>1. \A f \in files' : f.stamp <= stamp'
    BY <1>1, <1>4, <1>5
  <2>2. \A f \in files' : f.name = "dump" => f.whole /\ f.by = "none"
    BY <1>1, <1>5 DEF BackupInv, FilesInv
  <2>3. \A f \in files', r \in Scripts : f.by = r => r = s
    BY <1>1, <1>5, <1>7
  <2>4. \A r \in Scripts : script'[r].at \in {"dumping", "dumped"} => r = s
    BY <1>1, <1>3 DEF NobodyIn
  <2>5. \E f \in files' : f.by = s
    BY <1>1, <1>5
  <2> QED
    BY <1>3, <2>1, <2>2, <2>3, <2>4, <2>5 DEF FilesInv
<1>9. CASE s = "gate"
  <2>1. new.stamp > script["gate"].began
    BY <1>4, <1>5 DEF BackupInv, GateInv
  <2>2. GateInv' /\ EvidenceInv' /\ GateTellsTheTruth'
    BY <1>1, <1>4, <1>5, <1>6, <1>9, <2>1, GateWrites
  <2> QED
    BY <1>6, <1>8, <2>2 DEF BackupInv
<1>10. CASE s = "scheduled"
  <2>1. script'["gate"] = script["gate"] /\ script'["scheduled"].id = 0
    BY <1>3, <1>10, TwoScripts DEF BackupInv, GateInv
  <2>2. Snapshots' = Snapshots /\ Dumps' = Dumps
    BY <1>1, <1>2, <1>5, SameSnapshots DEF Dumps
  <2>3. script["gate"].began <= stamp
    BY DEF BackupInv, GateInv
  <2>4. \A f \in files' : f.by = "scheduled" => f.stamp > script["gate"].began
    BY <1>1, <1>4, <1>5, <1>7, <2>3, TwoScripts
  <2>5. script["gate"].at = "copying" => \E d \in Dumps : d.stamp > script["gate"].began
    BY DEF BackupInv, GateInv
  <2>6. GateInv' /\ EvidenceInv' /\ GateTellsTheTruth'
    BY <1>1, <1>4, <1>6, <2>1, <2>2, <2>4, <2>5, WorldTypes, GateRests
  <2> QED
    BY <1>6, <1>8, <2>6 DEF BackupInv
<1> QED
  BY <1>9, <1>10, TwoScripts

LEMMA FinishDumpInv == ASSUME BackupInv, NEW s \in Scripts, FinishDump(s) PROVE BackupInv'
<1> DEFINE done(f) == IF f.by = s /\ ~f.whole THEN [f EXCEPT !.whole = TRUE] ELSE f
<1>1. /\ script[s].at = "dumping" /\ files' = {done(f) : f \in files} /\ Goes(s, "dumped")
      /\ UNCHANGED <<now, stamp, manifest, repository, evidence, installed, provision, starts>>
  BY DEF FinishDump, At
<1>2. "dumped" \in Steps /\ HostTypeOK
  BY DEF Steps, BackupInv
<1>3. /\ script' \in [Scripts -> ScriptState] /\ script'[s].at = "dumped"
      /\ \A r \in Scripts : r # s => script'[r] = script[r]
      /\ script'["scheduled"].id = script["scheduled"].id
  BY <1>1, <1>2, GoesTo, TwoScripts
<1>4. ASSUME NEW f \in files
      PROVE  /\ done(f) \in Dump /\ done(f).stamp = f.stamp /\ done(f).name = f.name /\ done(f).by = f.by
             /\ done(f).by = s => done(f).whole
             /\ f.by # s => done(f) = f
             /\ f.whole => done(f) = f
  <2>1. f \in Dump
    BY <1>2 DEF HostTypeOK
  <2> QED
    BY <2>1 DEF Dump
<1> HIDE DEF done
<1>5. HostTypeOK'
  BY <1>1, <1>2, <1>3, <1>4 DEF HostTypeOK
<1>6. \A r \in Scripts : r # s => script[r].at \notin {"dumping", "dumped"} /\ \A f \in files : f.by # r
  BY <1>1, OneWriter
<1>7. FilesInv'
  <2>1. \A f \in files' : f.stamp <= stamp'
    BY <1>1, <1>4 DEF BackupInv, FilesInv
  <2>2. \A f \in files' : f.name = "dump" => f.whole /\ f.by = "none"
    BY <1>1, <1>4 DEF BackupInv, FilesInv
  <2>3. \A f \in files', r \in Scripts : f.by = r => r = s /\ f.whole
    BY <1>1, <1>4, <1>6
  <2>4. \A r \in Scripts : script'[r].at \in {"dumping", "dumped"} => r = s
    BY <1>3, <1>6
  <2>5. \E f \in files' : f.by = s
    <3>1. PICK f \in files : f.by = s
      BY <1>1 DEF BackupInv, FilesInv
    <3> QED
      BY <1>1, <1>4, <3>1
  <2> QED
    BY <1>3, <2>1, <2>2, <2>3, <2>4, <2>5 DEF FilesInv
<1>8. stamp <= stamp'
  BY <1>1, <1>2 DEF HostTypeOK
<1>9. CASE s = "gate"
  <2>1. \E f \in files' : f.by = "gate" /\ f.stamp > script["gate"].began
    <3>1. PICK f \in files : f.by = "gate" /\ f.stamp > script["gate"].began
      BY <1>1, <1>9 DEF BackupInv, GateInv
    <3> QED
      BY <1>1, <1>4, <3>1
  <2>2. GateInv' /\ EvidenceInv' /\ GateTellsTheTruth'
    BY <1>1, <1>5, <1>8, <1>9, <2>1, GateWrites
  <2> QED
    BY <1>5, <1>7, <2>2 DEF BackupInv
<1>10. CASE s = "scheduled"
  <2>1. script'["gate"] = script["gate"] /\ script'["scheduled"].id = 0
    BY <1>3, <1>10, TwoScripts DEF BackupInv, GateInv
  <2>2. Snapshots' = Snapshots
    BY <1>1, <1>2, SameSnapshots
  <2>3. \A d \in Dumps : d \in Dumps'
    BY <1>1, <1>4 DEF Dumps, BackupInv, FilesInv
  <2>4. script["gate"].at = "copying" => /\ \E d \in Dumps : d.stamp > script["gate"].began
                                         /\ \A f \in files : f.by = "scheduled" => f.stamp > script["gate"].began
    BY DEF BackupInv, GateInv
  <2>5. script["gate"].at = "copying" => /\ \E d \in Dumps' : d.stamp > script["gate"].began
                                         /\ \A f \in files' : f.by = "scheduled" => f.stamp > script["gate"].began
    BY <1>1, <1>4, <2>3, <2>4
  <2>6. script["gate"].at \notin {"dumping", "dumped"}
    BY <1>6, <1>10, TwoScripts
  <2>7. GateInv' /\ EvidenceInv' /\ GateTellsTheTruth'
    BY <1>1, <1>5, <1>8, <2>1, <2>2, <2>5, <2>6, WorldTypes, GateRests
  <2> QED
    BY <1>5, <1>7, <2>7 DEF BackupInv
<1> QED
  BY <1>9, <1>10, TwoScripts

LEMMA PublishDumpInv == ASSUME BackupInv, NEW s \in Scripts, PublishDump(s) PROVE BackupInv'
<1> DEFINE own == {f \in files : f.by = s}
           kept == {f \in files \ own : ~Expired(f)}
           Published(f) == [f EXCEPT !.name = "dump", !.by = "none"]
           step == IF installed["config"] # NotInstalled THEN "copying" ELSE "ran"
<1>1. /\ script[s].at = "dumped" /\ files' = kept \cup {Published(f) : f \in own} /\ Goes(s, step)
      /\ UNCHANGED <<now, stamp, manifest, repository, evidence, installed, provision, starts>>
  BY DEF PublishDump, At
<1>2. step \in Steps /\ HostTypeOK /\ step \in {"copying", "ran"}
  BY DEF Steps, BackupInv
<1> HIDE DEF step
<1>3. /\ script' \in [Scripts -> ScriptState] /\ script'[s].at = step
      /\ \A r \in Scripts : r # s => script'[r] = script[r]
      /\ script'["scheduled"].id = script["scheduled"].id
  BY <1>1, <1>2, GoesTo, TwoScripts
<1>4. ASSUME NEW f \in own
      PROVE  /\ Published(f) \in Dump /\ Published(f).stamp = f.stamp /\ Published(f).name = "dump"
             /\ Published(f).by = "none" /\ Published(f).whole
  <2>1. f \in Dump /\ f.whole
    BY <1>1, <1>2 DEF HostTypeOK, BackupInv, FilesInv
  <2> QED
    BY <2>1 DEF Dump
<1>5. kept \subseteq files /\ \A f \in kept : f.by # s
  OBVIOUS
<1>6. own \subseteq files /\ own # {}
  BY <1>1 DEF BackupInv, FilesInv
<1> HIDE DEF own, kept, Published
<1>7. HostTypeOK'
  BY <1>1, <1>2, <1>3, <1>4, <1>5 DEF HostTypeOK
<1>8. \A r \in Scripts : r # s => script[r].at \notin {"dumping", "dumped"} /\ \A f \in files : f.by # r
  BY <1>1, OneWriter
<1>9. "none" \notin Scripts
  BY DEF Scripts
<1>10. \A f \in files', r \in Scripts : f.by # r
  BY <1>1, <1>4, <1>5, <1>8, <1>9
<1>11. FilesInv'
  <2>1. \A f \in files' : f.stamp <= stamp'
    BY <1>1, <1>4, <1>5, <1>6 DEF BackupInv, FilesInv
  <2>2. \A f \in files' : f.name = "dump" => f.whole /\ f.by = "none"
    BY <1>1, <1>4, <1>5, <1>6 DEF BackupInv, FilesInv
  <2>3. \A r \in Scripts : script'[r].at \notin {"dumping", "dumped"}
    BY <1>2, <1>3, <1>8
  <2> QED
    BY <1>10, <2>1, <2>2, <2>3 DEF FilesInv
<1>12. stamp <= stamp'
  BY <1>1, <1>2 DEF HostTypeOK
<1>13. \A f \in own : \E d \in Dumps' : d.stamp = f.stamp
  <2>1. \A f \in own : Published(f) \in files' /\ Published(f).name = "dump" /\ Published(f).stamp = f.stamp
    BY <1>1, <1>4
  <2> QED
    BY <2>1 DEF Dumps
<1>14. CASE s = "gate"
  <2>1. \E d \in Dumps' : d.stamp > script["gate"].began
    <3>1. PICK f \in files : f.by = "gate" /\ f.stamp > script["gate"].began
      BY <1>1, <1>14 DEF BackupInv, GateInv
    <3>2. f \in own
      BY <1>14, <3>1 DEF own
    <3> QED
      BY <1>13, <3>1, <3>2
  <2>2. GateInv' /\ EvidenceInv' /\ GateTellsTheTruth'
    BY <1>1, <1>2, <1>7, <1>10, <1>12, <1>14, <2>1, TwoScripts, GateWrites
  <2> QED
    BY <1>7, <1>11, <2>2 DEF BackupInv
<1>15. CASE s = "scheduled"
  <2>1. script'["gate"] = script["gate"] /\ script'["scheduled"].id = 0
    BY <1>3, <1>15, TwoScripts DEF BackupInv, GateInv
  <2>2. Snapshots' = Snapshots
    BY <1>1, <1>2, SameSnapshots
  <2>3. script["gate"].at = "copying" => \E d \in Dumps' : d.stamp > script["gate"].began
    <3>1. SUFFICES ASSUME script["gate"].at = "copying" PROVE \E d \in Dumps' : d.stamp > script["gate"].began
      OBVIOUS
    <3>2. PICK f \in own : TRUE
      BY <1>6
    <3>3. f.stamp > script["gate"].began
      BY <1>6, <1>15, <3>1, <3>2 DEF BackupInv, GateInv, own
    <3> QED
      BY <1>13, <3>2, <3>3
  <2>4. script["gate"].at \notin {"dumping", "dumped"}
    BY <1>8, <1>15, TwoScripts
  <2>5. GateInv' /\ EvidenceInv' /\ GateTellsTheTruth'
    BY <1>1, <1>7, <1>10, <1>12, <2>1, <2>2, <2>3, <2>4, TwoScripts, WorldTypes, GateRests
  <2> QED
    BY <1>7, <1>11, <2>5 DEF BackupInv
<1> QED
  BY <1>14, <1>15, TwoScripts

\* ls | sort | tail: names sort by the second in them.
LEMMA SelectedIsNewest ==
  ASSUME BackupInv, Dumps # {}
  PROVE  Selected \in Dumps /\ \A g \in Dumps : Selected.stamp >= g.stamp
<1>1. stamp \in Nat /\ \A f \in Dumps : f.stamp \in Nat /\ f.stamp <= stamp
  BY DEF BackupInv, HostTypeOK, FilesInv, Dumps, Dump
<1> DEFINE ages == {stamp - f.stamp : f \in Dumps}
<1>2. ages \subseteq Nat /\ ages # {}
  BY <1>1
<1>3. PICK least \in ages : \A n \in ages : ~(<<n, least>> \in OpToRel(<, Nat))
  BY <1>2, NatLessThanWellFounded, WFMin
<1>4. PICK f \in Dumps : least = stamp - f.stamp
  BY <1>3
<1>5. \A g \in Dumps : stamp - g.stamp \in ages
  OBVIOUS
<1> HIDE DEF ages
<1>6. ASSUME NEW g \in Dumps PROVE f.stamp >= g.stamp
  <2>1. stamp - g.stamp \in Nat /\ least \in Nat /\ ~(<<stamp - g.stamp, least>> \in OpToRel(<, Nat))
    BY <1>2, <1>3, <1>5
  <2>2. ~(stamp - g.stamp < least)
    BY <2>1 DEF OpToRel
  <2>3. stamp \in Nat /\ f.stamp \in Nat /\ g.stamp \in Nat
    BY <1>1
  <2>4. ~(stamp - g.stamp < stamp - f.stamp)
    BY <1>4, <2>2
  <2> QED
    BY <2>3, <2>4
<1> QED
  BY <1>6 DEF Selected

LEMMA RepositoryRests ==
  ASSUME BackupInv, UNCHANGED repository
  PROVE  repository' \in [Configs -> Repository] /\ Snapshots \subseteq Snapshots'
  BY SameSnapshots DEF BackupInv

LEMMA EvidenceTypes ==
  ASSUME BackupInv
  PROVE  /\ evidence \in [backup : {NoStatus} \cup BackupStatus, restore : {NoStatus} \cup RestoreStatus]
         /\ evidence.backup # NoStatus => evidence.backup.id <= starts
         /\ evidence.restore # NoStatus => \E d \in Snapshots : d.whole /\ d.stamp = evidence.restore.stamp
         /\ evidence.backup # NoStatus /\ script["gate"].at # "idle" /\ evidence.backup.id = script["gate"].id =>
              \E d \in Snapshots : d.whole /\ d.stamp > script["gate"].began
  BY DEF BackupInv, HostTypeOK, EvidenceInv, OffHost, OffHostSince

\* What the gate's record says while it runs.
LEMMA GateRuns ==
  ASSUME BackupInv, script["gate"].at # "idle"
  PROVE  /\ script["gate"].id > 0 /\ script["gate"].id <= starts /\ script["gate"].began <= stamp
         /\ script["gate"].passed = FALSE
<1>1. script["gate"] \in ScriptState
  BY ScriptTypes, TwoScripts
<1> QED
  BY <1>1 DEF BackupInv, GateInv, ScriptState

LEMMA SelectDumpInv == ASSUME BackupInv, NEW s \in Scripts, SelectDump(s) PROVE BackupInv'
<1> DEFINE state == [script[s] EXCEPT !.at = "selected", !.config = installed["config"], !.picked = Selected.stamp]
<1>1. /\ script[s].at = "copying" /\ Dumps # {} /\ script' = [script EXCEPT ![s] = state]
      /\ UNCHANGED <<now, stamp, manifest, files, repository, evidence, installed, provision, starts>>
  <2>1. script \in [Scripts -> ScriptState]
    BY DEF BackupInv, HostTypeOK
  <2> QED
    BY <2>1 DEF SelectDump, At
<1>2. Selected \in Dumps /\ (\A g \in Dumps : Selected.stamp >= g.stamp) /\ Selected.stamp \in Nat
  BY <1>1, SelectedIsNewest, ScriptTypes DEF Dumps
<1>3. /\ state \in ScriptState /\ state.at = "selected" /\ state.picked = Selected.stamp
      /\ state.id = script[s].id /\ state.began = script[s].began /\ state.passed = script[s].passed
  <2>1. script[s] \in ScriptState /\ installed["config"] \in Nat
    BY ScriptTypes, WorldTypes
  <2> QED
    BY <1>2, <2>1 DEF ScriptState, Steps
<1> HIDE DEF state
<1>4. CASE s = "gate"
  <2>1. PICK d \in Dumps : d.stamp > script["gate"].began
    BY <1>1, <1>4 DEF BackupInv, GateInv
  <2>2. d.stamp \in Nat /\ script["gate"].began \in Nat
    BY <1>4, ScriptTypes DEF Dumps
  <2>3. state.picked > state.began
    BY <1>2, <1>3, <1>4, <2>1, <2>2
  <2> QED
    BY <1>1, <1>3, <1>4, <2>3, GateRuns, RepositoryRests, EvidenceTypes, WorldTypes, GateMoves
<1>5. CASE s = "scheduled"
  <2>1. state.id = 0
    BY <1>3, <1>5 DEF BackupInv, GateInv
  <2> QED
    BY <1>1, <1>3, <1>5, <2>1, RepositoryRests, EvidenceTypes, WorldTypes, ScheduledMoves
<1> QED
  BY <1>4, <1>5, TwoScripts

\* restic backup: the picked dump is a snapshot afterwards, whether it is added now
\* or was the last one before.
LEMMA SnapshotIsTaken ==
  ASSUME BackupInv, NEW config \in Configs, NEW f \in files,
         LET snapshots == repository[config].snapshots
             added == [stamp |-> f.stamp, whole |-> f.whole]
         IN repository' = [repository EXCEPT ![config].snapshots =
                             IF snapshots # <<>> /\ Last(snapshots) = added THEN snapshots
                             ELSE Append(snapshots, added)]
  PROVE  /\ repository' \in [Configs -> Repository]
         /\ Snapshots \subseteq Snapshots'
         /\ [stamp |-> f.stamp, whole |-> f.whole] \in Snapshots'
<1> DEFINE old == repository[config].snapshots
           added == [stamp |-> f.stamp, whole |-> f.whole]
           new == IF old # <<>> /\ Last(old) = added THEN old ELSE Append(old, added)
<1>1. repository \in [Configs -> Repository] /\ old \in Seq(Snapshot) /\ added \in Snapshot
  BY DEF BackupInv, HostTypeOK, Repository, Dump, Snapshot
<1>2. repository' = [repository EXCEPT ![config] = [repository[config] EXCEPT !.snapshots = new]]
  BY <1>1
<1>3. new \in Seq(Snapshot) /\ Range(old) \subseteq Range(new) /\ added \in Range(new)
  <2>1. CASE old # <<>> /\ Last(old) = added
    <3>1. new = old /\ Len(old) \in 1..Len(old)
      BY <1>1, <2>1
    <3> QED
      BY <1>1, <2>1, <3>1 DEF Last, Range
  <2>2. CASE ~(old # <<>> /\ Last(old) = added)
    <3>1. new = Append(old, added)
      BY <2>2
    <3>2. new \in Seq(Snapshot) /\ DOMAIN old = 1..Len(old) /\ DOMAIN new = 1..(Len(old) + 1)
          /\ new[Len(old) + 1] = added /\ \A k \in 1..Len(old) : new[k] = old[k]
      BY <1>1, <3>1
    <3>3. Len(old) \in Nat
      BY <1>1
    <3> HIDE DEF new, old, added
    <3> QED
      BY <3>2, <3>3 DEF Range
  <2> QED
    BY <2>1, <2>2
<1> HIDE DEF new, old, added
<1>4. repository[config] \in Repository
  BY <1>1
<1>5. /\ [repository[config] EXCEPT !.snapshots = new] \in Repository
      /\ [repository[config] EXCEPT !.snapshots = new].snapshots = new
  BY <1>3, <1>4 DEF Repository
<1>6. /\ repository' \in [Configs -> Repository] /\ repository'[config].snapshots = new
      /\ \A c \in Configs : c # config => repository'[c] = repository[c]
  BY <1>1, <1>2, <1>5
<1>7. \A c \in Configs : Range(repository[c].snapshots) \subseteq Range(repository'[c].snapshots)
  <2>1. SUFFICES ASSUME NEW c \in Configs
                 PROVE  Range(repository[c].snapshots) \subseteq Range(repository'[c].snapshots)
    OBVIOUS
  <2>2. CASE c # config
    BY <1>6, <2>2
  <2>3. CASE c = config
    BY <1>3, <1>6, <2>3 DEF old
  <2> QED
    BY <2>2, <2>3
<1>8. Snapshots \subseteq Snapshots'
  <2>1. SUFFICES ASSUME NEW d \in Snapshots PROVE d \in Snapshots'
    OBVIOUS
  <2>2. PICK c \in Configs : d \in Range(repository[c].snapshots)
    BY DEF Snapshots
  <2>3. d \in Range(repository'[c].snapshots)
    BY <1>7, <2>2
  <2> QED
    BY <2>3 DEF Snapshots
<1>9. added \in Snapshots'
  BY <1>3, <1>6 DEF Snapshots
<1> QED
  BY <1>6, <1>8, <1>9 DEF added

\* What a script picked is still there: it is a whole dump, in a repository that opens.
LEMMA PickedIsWhole ==
  ASSUME BackupInv, NEW s \in Scripts, NEW f \in Picked(s)
  PROVE  f \in files /\ f.whole = TRUE /\ f.stamp = script[s].picked
<1>1. f \in files /\ f.name = "dump" /\ f.stamp = script[s].picked
  BY DEF Picked, Dumps
<1>2. f \in Dump /\ f.whole
  BY <1>1 DEF BackupInv, HostTypeOK, FilesInv
<1> QED
  BY <1>1, <1>2 DEF Dump

LEMMA AppendSnapshotInv == ASSUME BackupInv, NEW s \in Scripts, AppendSnapshot(s) PROVE BackupInv'
<1>1. PICK f \in Picked(s) :
        LET snapshots == repository[script[s].config].snapshots
            added == [stamp |-> f.stamp, whole |-> f.whole]
        IN repository' = [repository EXCEPT ![script[s].config].snapshots =
                            IF snapshots # <<>> /\ Last(snapshots) = added THEN snapshots
                            ELSE Append(snapshots, added)]
  BY DEF AppendSnapshot
<1>2. /\ script[s].at = "selected" /\ script[s].config \in Configs /\ Goes(s, "appended")
      /\ UNCHANGED <<now, stamp, manifest, files, evidence, installed, provision, starts>>
  BY DEF AppendSnapshot, At, Opens
<1>3. f \in files /\ f.whole = TRUE /\ f.stamp = script[s].picked
  BY PickedIsWhole
<1>4. /\ repository' \in [Configs -> Repository] /\ Snapshots \subseteq Snapshots'
      /\ [stamp |-> f.stamp, whole |-> f.whole] \in Snapshots'
  BY <1>1, <1>2, <1>3, SnapshotIsTaken
<1> DEFINE state == [script[s] EXCEPT !.at = "appended"]
<1>5. script' = [script EXCEPT ![s] = state]
  BY <1>2 DEF Goes
<1>6. /\ state \in ScriptState /\ state.at = "appended" /\ state.picked = script[s].picked
      /\ state.id = script[s].id /\ state.began = script[s].began /\ state.passed = script[s].passed
  <2>1. script[s] \in ScriptState
    BY ScriptTypes
  <2> QED
    BY <2>1 DEF ScriptState, Steps
<1> HIDE DEF state
<1>7. CASE s = "gate"
  <2>1. \E d \in Snapshots' : d.whole /\ d.stamp > script["gate"].began
    <3>1. script["gate"].picked > script["gate"].began
      BY <1>2, <1>7 DEF BackupInv, GateInv
    <3> DEFINE d == [stamp |-> f.stamp, whole |-> f.whole]
    <3>2. d.whole = TRUE /\ d.stamp > script["gate"].began
      BY <1>3, <1>7, <3>1
    <3> QED
      BY <1>4, <3>2
  <2>2. \A e \in Snapshots : e \in Snapshots'
    BY <1>4
  <2>3. evidence.restore # NoStatus => \E d \in Snapshots' : d.whole /\ d.stamp = evidence.restore.stamp
    BY <2>2, EvidenceTypes
  <2> QED
    BY <1>2, <1>4, <1>5, <1>6, <1>7, <2>1, <2>3, GateRuns, EvidenceTypes, WorldTypes, GateMoves
<1>8. CASE s = "scheduled"
  <2>1. state.id = 0
    BY <1>6, <1>8 DEF BackupInv, GateInv
  <2> QED
    BY <1>2, <1>4, <1>5, <1>6, <1>8, <2>1, EvidenceTypes, WorldTypes, ScheduledMoves
<1> QED
  BY <1>7, <1>8, TwoScripts

LEMMA RecordBackupInv == ASSUME BackupInv, NEW s \in Scripts, RecordBackup(s) PROVE BackupInv'
<1> DEFINE state == [script[s] EXCEPT !.at = "ran"]
           status == [time |-> now, id |-> script[s].id]
<1>1. /\ script[s].at = "appended" /\ script' = [script EXCEPT ![s] = state]
      /\ evidence' = [evidence EXCEPT !.backup = status]
      /\ UNCHANGED <<now, stamp, manifest, files, repository, installed, provision, starts>>
  BY DEF RecordBackup, At, Goes
<1>2. /\ state \in ScriptState /\ state.at = "ran" /\ state.picked = script[s].picked
      /\ state.id = script[s].id /\ state.began = script[s].began /\ state.passed = script[s].passed
      /\ status \in BackupStatus /\ status.id = script[s].id
  <2>1. script[s] \in ScriptState /\ now \in Nat /\ script[s].id \in Nat
    BY ScriptTypes
  <2> QED
    BY <2>1 DEF ScriptState, Steps, BackupStatus
<1> HIDE DEF state, status
<1>3. /\ evidence' \in [backup : {NoStatus} \cup BackupStatus, restore : {NoStatus} \cup RestoreStatus]
      /\ evidence'.restore = evidence.restore /\ evidence'.backup = status
  BY <1>1, <1>2, EvidenceTypes
<1>4. CASE s = "gate"
  <2>1. \E d \in Snapshots : d.whole /\ d.stamp > script["gate"].began
    BY <1>1, <1>4 DEF BackupInv, GateInv, OffHostSince
  <2>2. \A e \in Snapshots : e \in Snapshots'
    BY <1>1, RepositoryRests
  <2>3. evidence'.restore # NoStatus => \E d \in Snapshots' : d.whole /\ d.stamp = evidence'.restore.stamp
    BY <1>3, <2>2, EvidenceTypes
  <2>4. \E d \in Snapshots' : d.whole /\ d.stamp > script["gate"].began
    BY <2>1, <2>2
  <2>5. evidence'.backup.id <= starts
    BY <1>1, <1>2, <1>3, <1>4, GateRuns
  <2> QED
    BY <1>1, <1>2, <1>3, <1>4, <2>3, <2>4, <2>5, GateRuns, RepositoryRests, WorldTypes, GateMoves
<1>5. CASE s = "scheduled"
  <2>1. state.id = 0 /\ status.id = 0
    BY <1>2, <1>5 DEF BackupInv, GateInv
  <2> QED
    BY <1>1, <1>2, <1>3, <1>5, <2>1, RepositoryRests, WorldTypes, ScheduledMoves
<1> QED
  BY <1>4, <1>5, TwoScripts

-----------------------------------------------------------------------------
(* Steps of the gate alone.                                                *)

LEMMA StartGateInv == BackupInv /\ StartGate => BackupInv'
<1> SUFFICES ASSUME BackupInv, StartGate PROVE BackupInv'
  OBVIOUS
<1> DEFINE state == [Idle EXCEPT !.at = "started", !.id = starts + 1, !.began = stamp, !.manifest = manifest]
<1>1. /\ script["gate"].at = "idle" /\ starts' = starts + 1 /\ script' = [script EXCEPT !["gate"] = state]
      /\ UNCHANGED <<now, stamp, manifest, files, repository, evidence, installed, provision>>
  BY DEF StartGate, At
<1>2. /\ state \in ScriptState /\ state.at = "started" /\ state.id = starts + 1 /\ state.began = stamp /\ state.passed = FALSE
  <2>1. Idle \in ScriptState /\ Idle.passed = FALSE /\ stamp \in Nat /\ starts + 1 \in Nat /\ manifest \in Nat
    BY IdleIsState, WorldTypes, ScriptTypes, TwoScripts
  <2>2. PICK id : id = starts + 1
    OBVIOUS
  <2>3. state = [Idle EXCEPT !.at = "started", !.id = id, !.began = stamp, !.manifest = manifest]
    BY <2>2
  <2> HIDE DEF state
  <2>4. id \in Nat
    BY <2>1, <2>2
  <2>5. /\ state \in ScriptState /\ state.at = "started" /\ state.id = id /\ state.began = stamp
        /\ state.passed = Idle.passed
    BY <2>1, <2>3, <2>4 DEF ScriptState, Steps
  <2> QED
    BY <2>1, <2>2, <2>5
<1> HIDE DEF state
<1>3. /\ state.began <= stamp /\ state.id <= starts' /\ state.id > 0
      /\ evidence'.backup # NoStatus => evidence'.backup.id <= starts' /\ evidence'.backup.id # state.id
  <2>1. stamp \in Nat /\ starts \in Nat
    BY ScriptTypes, TwoScripts
  <2>2. evidence.backup # NoStatus => evidence.backup.id \in Nat /\ evidence.backup.id <= starts
    BY EvidenceTypes DEF BackupStatus
  <2> QED
    BY <1>1, <1>2, <2>1, <2>2
<1>4. evidence'.restore # NoStatus => \E d \in Snapshots' : d.whole /\ d.stamp = evidence'.restore.stamp
  <2>1. \A e \in Snapshots : e \in Snapshots'
    BY <1>1, RepositoryRests
  <2> QED
    BY <1>1, <2>1, EvidenceTypes
<1>5. /\ repository' \in [Configs -> Repository] /\ Snapshots \subseteq Snapshots'
      /\ evidence' \in [backup : {NoStatus} \cup BackupStatus, restore : {NoStatus} \cup RestoreStatus]
      /\ starts' \in Nat /\ starts <= starts'
  BY <1>1, RepositoryRests, EvidenceTypes, WorldTypes
<1> QED
  BY <1>1, <1>2, <1>3, <1>4, <1>5, GateMoves

\* The gate takes its next step on evidence of its own run.
LEMMA GateGoes ==
  ASSUME BackupInv, script["gate"].at \notin {"idle", "dumping", "dumped"},
         NEW state \in ScriptState, script' = [script EXCEPT !["gate"] = state],
         state.at \in {"restoring", "restored", "drilled", "idle"},
         state.id = script["gate"].id, state.began = script["gate"].began, state.manifest = script["gate"].manifest,
         UNCHANGED <<now, stamp, manifest, files, repository, installed, provision, starts>>,
         evidence' \in [backup : {NoStatus} \cup BackupStatus, restore : {NoStatus} \cup RestoreStatus],
         evidence'.backup = evidence.backup,
         evidence'.restore # NoStatus => OffHost(evidence'.restore.stamp),
         OffHostSince(script["gate"].began),
         state.at = "drilled" => OffHost(state.picked),
         state.at # "idle" => state.passed = FALSE,
         state.passed => evidence'.restore # NoStatus /\ evidence'.restore.manifest = state.manifest
  PROVE  BackupInv'
<1>1. Snapshots' = Snapshots /\ repository' \in [Configs -> Repository]
  BY SameSnapshots DEF BackupInv
<1>2. /\ \E d \in Snapshots : d.whole /\ d.stamp > state.began
      /\ evidence'.restore # NoStatus => \E d \in Snapshots : d.whole /\ d.stamp = evidence'.restore.stamp
      /\ state.at = "drilled" => \E d \in Snapshots : d.whole /\ d.stamp = state.picked
  BY DEF OffHost, OffHostSince
<1> QED
  BY <1>1, <1>2, GateRuns, EvidenceTypes, WorldTypes, GateMoves

LEMMA JudgeBackupInv == BackupInv /\ JudgeBackup => BackupInv'
<1> SUFFICES ASSUME BackupInv, JudgeBackup PROVE BackupInv'
  OBVIOUS
<1> DEFINE step == IF Covers(evidence.restore) THEN "restored" ELSE "restoring"
           state == [script["gate"] EXCEPT !.at = step]
<1>1. /\ script["gate"].at = "ran" /\ evidence.backup.time >= 0 /\ evidence.backup.id = script["gate"].id
      /\ script' = [script EXCEPT !["gate"] = state]
      /\ UNCHANGED <<now, stamp, manifest, files, repository, evidence, installed, provision, starts>>
  BY DEF JudgeBackup, At, Goes, Fresh
<1>2. step \in {"restoring", "restored"}
  OBVIOUS
<1> HIDE DEF step
<1>3. /\ state \in ScriptState /\ state.at = step /\ state.id = script["gate"].id /\ state.began = script["gate"].began
      /\ state.manifest = script["gate"].manifest /\ state.passed = script["gate"].passed
  <2>1. script["gate"] \in ScriptState
    BY ScriptTypes, TwoScripts
  <2> QED
    BY <1>2, <2>1 DEF ScriptState, Steps
<1> HIDE DEF state
<1>4. evidence.backup # NoStatus
  BY <1>1 DEF NoStatus
<1>5. OffHostSince(script["gate"].began)
  BY <1>1, <1>4, EvidenceTypes DEF OffHostSince
<1>6. evidence.restore # NoStatus => OffHost(evidence.restore.stamp)
  BY EvidenceTypes DEF OffHost
<1> QED
  BY <1>1, <1>2, <1>3, <1>5, <1>6, GateRuns, EvidenceTypes, GateGoes

LEMMA RestoreLatestInv == BackupInv /\ RestoreLatest => BackupInv'
<1> SUFFICES ASSUME BackupInv, RestoreLatest PROVE BackupInv'
  OBVIOUS
<1> DEFINE snapshots == repository[installed["config"]].snapshots
           state == [script["gate"] EXCEPT !.at = "drilled", !.picked = Last(snapshots).stamp]
<1>1. /\ script["gate"].at = "restoring" /\ installed["config"] \in Configs
      /\ snapshots # <<>> /\ Last(snapshots).whole
      /\ UNCHANGED <<now, stamp, manifest, files, repository, evidence, installed, provision, starts>>
  BY DEF RestoreLatest, At, Opens, Restorable
<1>2. script' = [script EXCEPT !["gate"] = state]
  <2>1. script \in [Scripts -> ScriptState] /\ "gate" \in Scripts
    BY TwoScripts DEF BackupInv, HostTypeOK
  <2> QED
    BY <2>1 DEF RestoreLatest
<1>3. Last(snapshots) \in Snapshot /\ Last(snapshots) \in Snapshots
  <2>1. snapshots \in Seq(Snapshot)
    BY <1>1 DEF BackupInv, HostTypeOK, Repository
  <2>2. Len(snapshots) \in DOMAIN snapshots
    BY <1>1, <2>1
  <2>3. Last(snapshots) \in Snapshot /\ Last(snapshots) \in Range(snapshots)
    BY <2>1, <2>2 DEF Last, Range
  <2> QED
    BY <1>1, <2>3 DEF Snapshots
<1> HIDE DEF snapshots
<1>4. /\ state \in ScriptState /\ state.at = "drilled" /\ state.id = script["gate"].id /\ state.began = script["gate"].began
      /\ state.manifest = script["gate"].manifest /\ state.passed = script["gate"].passed
      /\ state.picked = Last(snapshots).stamp
  <2>1. script["gate"] \in ScriptState /\ Last(snapshots).stamp \in Nat
    BY <1>3, ScriptTypes, TwoScripts DEF Snapshot
  <2> QED
    BY <2>1 DEF ScriptState, Steps
<1> HIDE DEF state
<1>5. OffHost(state.picked)
  BY <1>1, <1>3, <1>4 DEF OffHost
<1>6. OffHostSince(script["gate"].began)
  BY <1>1 DEF BackupInv, GateInv
<1>7. evidence.restore # NoStatus => OffHost(evidence.restore.stamp)
  BY EvidenceTypes DEF OffHost
<1> QED
  BY <1>1, <1>2, <1>4, <1>5, <1>6, <1>7, GateRuns, EvidenceTypes, GateGoes

LEMMA RecordRestoreInv == BackupInv /\ RecordRestore => BackupInv'
<1> SUFFICES ASSUME BackupInv, RecordRestore PROVE BackupInv'
  OBVIOUS
<1> DEFINE state == [script["gate"] EXCEPT !.at = "restored"]
           status == [time |-> now, manifest |-> script["gate"].manifest, stamp |-> script["gate"].picked]
<1>1. /\ script["gate"].at = "drilled" /\ evidence' = [evidence EXCEPT !.restore = status]
      /\ script' = [script EXCEPT !["gate"] = state]
      /\ UNCHANGED <<now, stamp, manifest, files, repository, installed, provision, starts>>
  BY DEF RecordRestore, At, Goes
<1>2. /\ state \in ScriptState /\ state.at = "restored" /\ state.id = script["gate"].id /\ state.began = script["gate"].began
      /\ state.manifest = script["gate"].manifest /\ state.passed = script["gate"].passed
      /\ status \in RestoreStatus /\ status.stamp = script["gate"].picked
  <2>1. script["gate"] \in ScriptState /\ script["gate"].picked \in Nat /\ script["gate"].manifest \in Nat /\ now \in Nat
    BY ScriptTypes, TwoScripts
  <2> QED
    BY <2>1 DEF ScriptState, Steps, RestoreStatus
<1> HIDE DEF state, status
<1>3. /\ evidence' \in [backup : {NoStatus} \cup BackupStatus, restore : {NoStatus} \cup RestoreStatus]
      /\ evidence'.backup = evidence.backup /\ evidence'.restore = status
  BY <1>1, <1>2, EvidenceTypes
<1>4. OffHost(script["gate"].picked) /\ OffHostSince(script["gate"].began)
  BY <1>1 DEF BackupInv, GateInv
<1> QED
  BY <1>1, <1>2, <1>3, <1>4, GateRuns, GateGoes

LEMMA PassGateInv == BackupInv /\ PassGate => BackupInv'
<1> SUFFICES ASSUME BackupInv, PassGate PROVE BackupInv'
  OBVIOUS
<1> DEFINE state == [script["gate"] EXCEPT !.at = "idle", !.passed = TRUE]
<1>1. /\ script["gate"].at = "restored" /\ evidence.restore.time >= 0
      /\ evidence.restore.manifest = script["gate"].manifest
      /\ script' = [script EXCEPT !["gate"] = state]
      /\ UNCHANGED <<now, stamp, manifest, files, repository, evidence, installed, provision, starts>>
  BY DEF PassGate, At, Covers, Fresh
<1>2. /\ state \in ScriptState /\ state.at = "idle" /\ state.id = script["gate"].id /\ state.began = script["gate"].began
      /\ state.manifest = script["gate"].manifest
  <2>1. script["gate"] \in ScriptState
    BY ScriptTypes, TwoScripts
  <2> QED
    BY <2>1 DEF ScriptState, Steps
<1> HIDE DEF state
<1>3. evidence.restore # NoStatus
  BY <1>1 DEF NoStatus
<1>4. OffHostSince(script["gate"].began)
  BY <1>1 DEF BackupInv, GateInv
<1>5. evidence.restore # NoStatus => OffHost(evidence.restore.stamp)
  BY EvidenceTypes DEF OffHost
<1> QED
  BY <1>1, <1>2, <1>3, <1>4, <1>5, EvidenceTypes, GateGoes

-----------------------------------------------------------------------------
(* A script fails, and the host loses power.                               *)

\* A script that failed wrote what is partial and its own: no dump is lost.
LEMMA FailsInv == ASSUME BackupInv, NEW s \in Scripts, Fails(s) PROVE BackupInv'
<1>1. /\ script[s].at # "idle" /\ files' = {f \in files : f.by # s} /\ script' = [script EXCEPT ![s] = Idle]
      /\ UNCHANGED <<now, stamp, manifest, repository, evidence, installed, provision, starts>>
  BY DEF Fails, At
<1>2. /\ script' \in [Scripts -> ScriptState] /\ script'[s] = Idle
      /\ \A r \in Scripts : r # s => script'[r] = script[r]
  BY <1>1, IdleIsState DEF BackupInv, HostTypeOK
<1>3. Snapshots' = Snapshots /\ stamp <= stamp' /\ starts <= starts'
  BY <1>1, SameSnapshots, ScriptTypes DEF BackupInv
<1>4. HostTypeOK'
  BY <1>1, <1>2 DEF BackupInv, HostTypeOK
<1>5. FilesInv'
  <2>1. \A f \in files' : f \in files /\ f.by # s
    BY <1>1
  <2>2. /\ \A f \in files' : f.stamp <= stamp'
        /\ \A f \in files' : f.name = "dump" => f.whole /\ f.by = "none"
    BY <1>1, <2>1 DEF BackupInv, FilesInv
  <2>3. /\ \A f \in files', r \in Scripts : f.by = r => script'[r].at \in {"dumping", "dumped"}
        /\ \A f \in files', r \in Scripts : f.by = r /\ script'[r].at = "dumped" => f.whole
    BY <1>2, <2>1 DEF BackupInv, FilesInv
  <2>4. \A r \in Scripts : script'[r].at \in {"dumping", "dumped"} => r # s /\ script[r].at \in {"dumping", "dumped"}
    BY <1>2, IdleIsState
  <2>5. \A r \in Scripts : script'[r].at \in {"dumping", "dumped"} => \E f \in files' : f.by = r
    BY <1>1, <2>4 DEF BackupInv, FilesInv
  <2>6. \A q, r \in Scripts : script'[q].at \in {"dumping", "dumped"} /\ script'[r].at \in {"dumping", "dumped"} => q = r
    BY <2>4 DEF BackupInv, FilesInv
  <2> QED
    BY <2>2, <2>3, <2>5, <2>6 DEF FilesInv
<1>6. CASE s = "gate"
  <2>1. script'["gate"] = Idle /\ script'["scheduled"] = script["scheduled"]
    BY <1>2, <1>6, TwoScripts
  <2>2. GateInv'
    <3>1. 0 <= stamp' /\ 0 <= starts' /\ script["scheduled"].id = 0
      BY <1>1, ScriptTypes DEF BackupInv, GateInv
    <3> QED
      BY <2>1, <3>1, IdleIsState DEF GateInv
  <2>3. EvidenceInv'
    BY <1>1, <1>3, <2>1, IdleIsState DEF BackupInv, EvidenceInv, OffHost
  <2>4. GateTellsTheTruth'
    BY <2>1, IdleIsState DEF GateTellsTheTruth
  <2> QED
    BY <1>4, <1>5, <2>2, <2>3, <2>4 DEF BackupInv
<1>7. CASE s = "scheduled"
  <2>1. script'["gate"] = script["gate"] /\ script'["scheduled"].id = 0
    BY <1>2, <1>7, TwoScripts, IdleIsState
  <2>2. \A f \in files : f.by = "gate" => f \in files'
    BY <1>1, <1>7
  <2>3. \A d \in Dumps : d \in Dumps'
    <3>1. \A d \in Dumps : d \in files /\ d.name = "dump" /\ d.by = "none"
      BY DEF Dumps, BackupInv, FilesInv
    <3> QED
      BY <1>1, <1>7, <3>1 DEF Dumps
  <2>4. script["gate"].at = "copying" => \E d \in Dumps' : d.stamp > script["gate"].began
    BY <2>3 DEF BackupInv, GateInv
  <2>5. \A f \in files' : f.by # "scheduled"
    BY <1>1, <1>7
  <2>6. GateInv' /\ EvidenceInv' /\ GateTellsTheTruth'
    BY <1>1, <1>3, <1>4, <2>1, <2>2, <2>4, <2>5, GateRests
  <2> QED
    BY <1>4, <1>5, <2>6 DEF BackupInv
<1> QED
  BY <1>6, <1>7, TwoScripts

\* Partial dumps that a power cut leaves belong to nobody.
LEMMA LosePowerInv == BackupInv /\ LosePower => BackupInv'
<1> SUFFICES ASSUME BackupInv, LosePower PROVE BackupInv'
  OBVIOUS
<1> DEFINE left(f) == [f EXCEPT !.by = "none"]
<1>1. /\ starts' = starts + 1 /\ files' = {left(f) : f \in files}
      /\ script' = [s \in Scripts |-> Idle] /\ provision' = NotProvisioning
      /\ UNCHANGED <<now, stamp, manifest, repository, evidence, installed>>
  BY DEF LosePower
<1>2. ASSUME NEW f \in files
      PROVE  left(f) \in Dump /\ left(f).by = "none" /\ left(f).stamp = f.stamp
             /\ left(f).name = f.name /\ left(f).whole = f.whole
  BY ScriptTypes, TwoScripts DEF Dump
<1> HIDE DEF left
<1>3. /\ script' \in [Scripts -> ScriptState] /\ \A s \in Scripts : script'[s] = Idle
  BY <1>1, IdleIsState
<1>4. Snapshots' = Snapshots
  BY <1>1, SameSnapshots DEF BackupInv
<1>5. HostTypeOK'
  <2>1. files' \in SUBSET Dump
    BY <1>1, <1>2
  <2>2. starts' \in Nat /\ provision' \in [at : Nat, config : Nat, previous : [PartNames -> Nat]]
    BY <1>1, WorldTypes
  <2> QED
    BY <1>1, <1>3, <2>1, <2>2 DEF BackupInv, HostTypeOK
<1>6. FilesInv'
  <2>1. \A f \in files' : /\ f.by = "none" /\ f.stamp <= stamp' /\ (f.name = "dump" => f.whole)
    BY <1>1, <1>2 DEF BackupInv, FilesInv
  <2>2. "none" \notin Scripts
    BY DEF Scripts
  <2>3. \A s \in Scripts : script'[s].at = "idle"
    BY <1>3, IdleIsState
  <2> QED
    BY <2>1, <2>2, <2>3 DEF FilesInv
<1>7. script'["gate"] = Idle /\ script'["scheduled"] = Idle
  BY <1>3, TwoScripts
<1>8. GateInv'
  <2>1. 0 <= stamp' /\ 0 <= starts'
    BY <1>1, ScriptTypes, TwoScripts
  <2> QED
    BY <1>7, <2>1, IdleIsState DEF GateInv
<1>9. EvidenceInv'
  <2>1. evidence.backup # NoStatus => evidence.backup.id <= starts + 1
    <3>1. evidence.backup # NoStatus => evidence.backup.id \in Nat /\ evidence.backup.id <= starts
      BY EvidenceTypes DEF BackupStatus
    <3>2. starts \in Nat
      BY WorldTypes
    <3> QED
      BY <3>1, <3>2
  <2> QED
    BY <1>1, <1>4, <1>7, <2>1, IdleIsState DEF BackupInv, EvidenceInv, OffHost
<1>10. GateTellsTheTruth'
  BY <1>7, IdleIsState DEF GateTellsTheTruth
<1> QED
  BY <1>5, <1>6, <1>8, <1>9, <1>10 DEF BackupInv

-----------------------------------------------------------------------------

LEMMA HostInitInv == HostInit => BackupInv
<1> SUFFICES ASSUME HostInit PROVE BackupInv
  OBVIOUS
<1>1. PICK config \in {NotInstalled, 1} :
        /\ now = 0 /\ stamp = 0 /\ manifest = 0 /\ files = {} /\ starts = 0
        /\ repository = [c \in Configs |-> [ready |-> c = config, snapshots |-> <<>>]]
        /\ evidence = [backup |-> NoStatus, restore |-> NoStatus]
        /\ installed = [p \in Range(Parts) |-> config]
        /\ script = [s \in Scripts |-> Idle] /\ provision = NotProvisioning
  BY DEF HostInit
<1>2. script \in [Scripts -> ScriptState] /\ script["gate"] = Idle /\ script["scheduled"] = Idle
      /\ \A s \in Scripts : script[s] = Idle
  BY <1>1, IdleIsState, TwoScripts
<1>3. HostTypeOK
  <2>1. repository \in [Configs -> Repository]
    <3>1. <<>> \in Seq(Snapshot)
      OBVIOUS
    <3>2. ASSUME NEW c \in Configs PROVE [ready |-> c = config, snapshots |-> <<>>] \in Repository
      BY <3>1 DEF Repository
    <3> QED
      BY <1>1, <3>2
  <2>2. installed \in [PartNames -> Nat]
    BY <1>1, PartsAre DEF NotInstalled
  <2>3. provision \in [at : Nat, config : Nat, previous : [PartNames -> Nat]]
    BY <1>1, PartsAre DEF NotProvisioning, NotInstalled
  <2> QED
    BY <1>1, <1>2, <2>1, <2>2, <2>3 DEF HostTypeOK
<1>4. FilesInv
  BY <1>1, <1>2, IdleIsState DEF FilesInv
<1>5. GateInv
  BY <1>1, <1>2, IdleIsState DEF GateInv
<1>6. EvidenceInv /\ GateTellsTheTruth
  BY <1>1, <1>2, IdleIsState DEF EvidenceInv, GateTellsTheTruth
<1> QED
  BY <1>3, <1>4, <1>5, <1>6 DEF BackupInv

LEMMA BackupStep == BackupInv /\ [HostNext]_hostVars => BackupInv'
<1> SUFFICES ASSUME BackupInv, [HostNext]_hostVars PROVE BackupInv'
  OBVIOUS
<1>1. CASE UNCHANGED hostVars
  BY <1>1, WorldTypes, WorldMoves DEF hostVars
<1>2. CASE \E s \in Scripts : \/ StartDump(s) \/ FinishDump(s) \/ PublishDump(s)
                              \/ SelectDump(s) \/ AppendSnapshot(s) \/ RecordBackup(s) \/ Fails(s)
  BY <1>2, StartDumpInv, FinishDumpInv, PublishDumpInv, SelectDumpInv, AppendSnapshotInv, RecordBackupInv, FailsInv
<1>3. CASE \/ StartScheduled \/ EndScheduled \/ StartGate
           \/ JudgeBackup \/ RestoreLatest \/ RecordRestore \/ PassGate
  BY <1>3, StartScheduledInv, EndScheduledInv, StartGateInv, JudgeBackupInv, RestoreLatestInv, RecordRestoreInv, PassGateInv
<1>4. CASE \/ StartProvision \/ InstallPart \/ InitRepository \/ RollBack
           \/ LosePower \/ Release \/ DayPasses
  BY <1>4, StartProvisionInv, InstallPartInv, InitRepositoryInv, RollBackInv, LosePowerInv, ReleaseInv, DayPassesInv
<1> QED
  BY <1>1, <1>2, <1>3, <1>4 DEF HostNext

\* A release passes the gate only when a whole dump taken since the gate began is
\* off the host, with restore evidence of a whole dump for this release: for any
\* number of days, configurations and scripts, failing and losing power anywhere.
THEOREM GateIsTruthful == HostSpec => []GateTellsTheTruth
<1>1. BackupInv => GateTellsTheTruth
  BY DEF BackupInv
<1> QED
  BY <1>1, HostInitInv, BackupStep, PTL DEF HostSpec

-----------------------------------------------------------------------------
(* ControlStores: the runs.                                                *)

Statuses == {"queued", "running", "completed", "failed"}
StoredRun == [id : Nat, status : Statuses]
StoredRow == [id : Nat, status : Statuses, createdAt : Nat, completedAt : Int]

\* Runs in memory: in the order of their ids, and those that ended before the others.
RunsInOrder(runs, made) ==
  /\ runs \in Seq(StoredRun) /\ Len(runs) <= MaxStored
  /\ \A k \in 1..Len(runs) : runs[k].id <= made
  /\ \A j, k \in 1..Len(runs) : j < k => runs[j].id < runs[k].id
  /\ \A j, k \in 1..Len(runs) : j < k /\ ~Active(runs[k]) => ~Active(runs[j])

\* The table has a row for each of them, and what ended before was queued before.
RowsOfRuns(runs, rows, sec) ==
  /\ rows \subseteq StoredRow
  /\ \A r \in rows : \E k \in 1..Len(runs) : r.id = runs[k].id /\ r.status = runs[k].status
  /\ \A k \in 1..Len(runs) : \E r \in rows : r.id = runs[k].id
  /\ \A r, s \in rows : r.id = s.id => r = s
  /\ \A r \in rows : r.createdAt = r.id
  /\ \A r \in rows : ~Active(r) => r.completedAt <= sec
  /\ \A r, s \in rows : ~Active(r) /\ ~Active(s) /\ r.id < s.id => r.completedAt <= s.completedAt

LEMMA RunsAre ==
  ASSUME NEW runs, NEW made, RunsInOrder(runs, made)
  PROVE  /\ runs \in Seq(StoredRun) /\ Len(runs) \in Nat /\ DOMAIN runs = 1..Len(runs)
         /\ \A k \in 1..Len(runs) : runs[k] \in StoredRun /\ runs[k].id \in Nat /\ runs[k].status \in Statuses
         /\ \A j, k \in 1..Len(runs) : j # k => runs[j].id # runs[k].id
<1> DEFINE N == Len(runs)
<1>1. runs \in Seq(StoredRun)
  BY DEF RunsInOrder
<1>2. N \in Nat /\ DOMAIN runs = 1..N /\ \A k \in 1..N : runs[k] \in StoredRun
  BY <1>1
<1>3. \A k \in 1..N : runs[k].id \in Nat /\ runs[k].status \in Statuses
  BY <1>2 DEF StoredRun
<1>4. \A j, k \in 1..N : j < k => runs[j].id < runs[k].id
  BY DEF RunsInOrder
<1> HIDE DEF N
<1>5. ASSUME NEW j \in 1..N, NEW k \in 1..N, j # k PROVE runs[j].id # runs[k].id
  <2>1. j < k \/ k < j
    BY <1>2, <1>5
  <2>2. runs[j].id < runs[k].id \/ runs[k].id < runs[j].id
    BY <1>4, <2>1
  <2> QED
    BY <1>3, <2>2
<1> QED
  BY <1>1, <1>2, <1>3, <1>5 DEF N

\* Each run has its row.
LEMMA RunsHaveRows ==
  ASSUME NEW runs, NEW rows, NEW made, NEW sec, RunsInOrder(runs, made), RowsOfRuns(runs, rows, sec)
  PROVE  \E f \in Bijection(1..Len(runs), rows) :
           \A k \in 1..Len(runs) : f[k].id = runs[k].id /\ f[k].status = runs[k].status
<1> DEFINE N == Len(runs)
           f == [k \in 1..N |-> CHOOSE r \in rows : r.id = runs[k].id]
<1>1. N \in Nat /\ \A j, k \in 1..N : j # k => runs[j].id # runs[k].id
  BY RunsAre
<1>2. \A k \in 1..N : f[k] \in rows /\ f[k].id = runs[k].id
  BY DEF RowsOfRuns
<1>3. ASSUME NEW k \in 1..N PROVE f[k].status = runs[k].status
  <2>1. PICK j \in 1..N : f[k].id = runs[j].id /\ f[k].status = runs[j].status
    BY <1>2 DEF RowsOfRuns
  <2> HIDE DEF f
  <2> QED
    BY <1>1, <1>2, <2>1
<1>4. f \in [1..N -> rows]
  BY <1>2
<1> HIDE DEF f
<1>5. \A j, k \in 1..N : f[j] = f[k] => j = k
  BY <1>1, <1>2
<1>6. \A r \in rows : \E k \in 1..N : f[k] = r
  <2>1. ASSUME NEW r \in rows PROVE \E k \in 1..N : f[k] = r
    <3>1. PICK k \in 1..N : r.id = runs[k].id
      BY DEF RowsOfRuns
    <3>2. f[k] = r
      BY <1>2, <3>1 DEF RowsOfRuns
    <3> QED
      BY <3>2
  <2> QED
    BY <2>1
<1>7. f \in Bijection(1..N, rows)
  BY <1>4, <1>5, <1>6 DEF Bijection, Injection, Surjection, IsInjective
<1> QED
  BY <1>2, <1>3, <1>7

\* As many rows as runs, and as many active rows as active runs.
LEMMA RunsAreCounted ==
  ASSUME NEW runs, NEW rows, NEW made, NEW sec, RunsInOrder(runs, made), RowsOfRuns(runs, rows, sec)
  PROVE  /\ IsFiniteSet(rows) /\ Cardinality(rows) = Len(runs)
         /\ Cardinality({r \in rows : r.status \in {"queued", "running"}}) = Cardinality(ActiveRuns(runs))
<1> DEFINE N == Len(runs)
           active == {r \in rows : r.status \in {"queued", "running"}}
<1>1. PICK f \in Bijection(1..N, rows) : \A k \in 1..N : f[k].id = runs[k].id /\ f[k].status = runs[k].status
  BY RunsHaveRows
<1>2. N \in Nat /\ DOMAIN runs = 1..N
  BY DEF RunsInOrder
<1>3. IsFiniteSet(1..N) /\ Cardinality(1..N) = N
  <2>1. 1 \in Int /\ N \in Int
    BY <1>2
  <2>2. IsFiniteSet(1..N) /\ Cardinality(1..N) = IF 1 > N THEN 0 ELSE N - 1 + 1
    BY <2>1, FS_Interval
  <2>3. (IF 1 > N THEN 0 ELSE N - 1 + 1) = N
    BY <1>2
  <2> QED
    BY <2>2, <2>3
<1>4. ActiveRuns(runs) = {k \in 1..N : runs[k].status \in {"queued", "running"}}
  BY <1>2 DEF ActiveRuns, Active
<1> HIDE DEF N
<1>5. IsFiniteSet(rows) /\ Cardinality(rows) = N
  BY <1>1, <1>3, FS_Bijection DEF ExistsBijection
<1> DEFINE S == {k \in 1..N : runs[k].status \in {"queued", "running"}}
           g == [k \in S |-> f[k]]
<1>6. f \in [1..N -> rows] /\ (\A j, k \in 1..N : f[j] = f[k] => j = k) /\ \A r \in rows : \E k \in 1..N : f[k] = r
  BY <1>1 DEF Bijection, Injection, Surjection, IsInjective
<1>7. g \in Bijection(S, active)
  <2>1. g \in [S -> active]
    BY <1>1, <1>6
  <2>2. \A j, k \in S : g[j] = g[k] => j = k
    BY <1>6
  <2>3. \A r \in active : \E k \in S : g[k] = r
    <3>1. ASSUME NEW r \in active PROVE \E k \in S : g[k] = r
      <4>1. PICK k \in 1..N : f[k] = r
        BY <1>6
      <4>2. k \in S
        BY <1>1, <4>1
      <4> QED
        BY <4>1, <4>2
    <3> QED
      BY <3>1
  <2> HIDE DEF g, S, active
  <2> QED
    BY <2>1, <2>2, <2>3 DEF Bijection, Injection, Surjection, IsInjective
<1>8. IsFiniteSet(S)
  <2>1. S \subseteq 1..N
    OBVIOUS
  <2> QED
    BY <1>3, <2>1, FS_Subset
<1> HIDE DEF S, active, g
<1>9. Cardinality(active) = Cardinality(S)
  BY <1>7, <1>8, FS_Bijection DEF ExistsBijection
<1> QED
  BY <1>4, <1>5, <1>9 DEF N, S, active

LEMMA MinOfTwo ==
  ASSUME NEW a \in Int, NEW b \in Int
  PROVE  /\ Min({a, b}) \in {a, b} /\ Min({a, b}) <= a /\ Min({a, b}) <= b
         /\ Max({a, b}) \in {a, b} /\ Max({a, b}) >= a /\ Max({a, b}) >= b
<1>1. \E x \in {a, b} : \A y \in {a, b} : x <= y
  OBVIOUS
<1>2. \E x \in {a, b} : \A y \in {a, b} : x >= y
  OBVIOUS
<1> QED
  BY <1>1, <1>2 DEF Min, Max

\* Memory makes room for one run: the oldest if it ended, else none.
LEMMA MemoryEvicts ==
  ASSUME NEW runs, NEW made, RunsInOrder(runs, made)
  PROVE  EvictOldest(runs, Len(runs) - MaxStored + 1) =
           IF Len(runs) = MaxStored /\ Len(runs) > 0 /\ ~Active(runs[1]) THEN Tail(runs) ELSE runs
<1> DEFINE N == Len(runs)
           excess == N - MaxStored + 1
           D == DOMAIN runs \ ActiveRuns(runs)
           done == Keep(runs, D)
           least == Min({excess, Len(done)})
           gone == {done[k] : k \in 1..least}
           left == {k \in DOMAIN runs : runs[k] \notin gone}
<1>1. /\ runs \in Seq(StoredRun) /\ N \in Nat /\ DOMAIN runs = 1..N /\ N <= MaxStored /\ MaxStored \in Nat
      /\ \A j, k \in 1..N : j # k => runs[j].id # runs[k].id
  BY RunsAre, StoresAssumption DEF RunsInOrder
<1>2. D = {k \in 1..N : ~Active(runs[k])}
  BY <1>1 DEF ActiveRuns
<1>3. D \in SUBSET (1..N)
  BY <1>2
<1>4. Len(done) = Cardinality(D) /\ Cardinality(D) \in Nat /\ IsFiniteSet(D)
  BY <1>1, <1>3, KeepKeeps
<1>5. EvictOldest(runs, excess) = Keep(runs, left)
  BY DEF EvictOldest, Without
<1>6. excess \in Int /\ excess <= 1 /\ Len(done) \in Int
  BY <1>1, <1>4
<1> HIDE DEF D, done, excess
<1>7. least \in {excess, Len(done)} /\ least <= excess /\ least <= Len(done)
  BY <1>6, MinOfTwo
<1> HIDE DEF least
<1>8. CASE N = MaxStored /\ N > 0 /\ ~Active(runs[1])
  <2>1. 1 \in D
    BY <1>1, <1>2, <1>8
  <2>2. Len(done) >= 1 /\ done[1] = runs[1]
    BY <1>1, <1>3, <2>1, KeepFirst DEF done
  <2>3. least = 1
    <3>1. excess = 1
      BY <1>1, <1>8 DEF excess
    <3> QED
      BY <1>6, <1>7, <2>2, <3>1
  <2>4. gone = {runs[1]}
    <3>1. 1..1 = {1}
      OBVIOUS
    <3> QED
      BY <2>2, <2>3, <3>1
  <2>5. \A k \in 1..N : runs[k] \notin gone <=> k # 1
    <3>1. ASSUME NEW k \in 1..N, k # 1 PROVE runs[k] # runs[1]
      BY <1>1, <1>8, <3>1
    <3> QED
      BY <2>4, <3>1
  <2>6. left = 2..N
    BY <1>1, <2>5
  <2>7. Keep(runs, 2..N) = Tail(runs)
    <3>1. runs # <<>>
      BY <1>8
    <3> QED
      BY <1>1, <3>1, KeepTail
  <2> QED
    BY <1>5, <1>8, <2>6, <2>7 DEF excess
<1>9. CASE ~(N = MaxStored /\ N > 0 /\ ~Active(runs[1]))
  <2>1. least <= 0
    <3>1. CASE N < MaxStored
      BY <1>1, <1>7, <3>1 DEF excess
    <3>2. CASE N = MaxStored
      <4>1. \A k \in 1..N : Active(runs[k])
        <5>1. ASSUME NEW k \in 1..N PROVE Active(runs[k])
          <6>1. 1 \in 1..N /\ Active(runs[1]) /\ (k = 1 \/ 1 < k)
            BY <1>1, <1>9, <3>2
          <6> QED
            BY <6>1 DEF RunsInOrder
        <5> QED
          BY <5>1
      <4>2. D = {}
        BY <1>2, <4>1
      <4>3. Cardinality(D) = 0
        BY <4>2, FS_EmptySet
      <4> QED
        BY <1>4, <1>6, <1>7, <4>3
    <3>3. N < MaxStored \/ N = MaxStored
      <4>1. N \in Int /\ MaxStored \in Int /\ N <= MaxStored
        BY <1>1
      <4> HIDE DEF N
      <4> QED
        BY <4>1
    <3> QED
      BY <3>1, <3>2, <3>3
  <2>2. least \in Int
    BY <1>6, <1>7
  <2>3. 1..least = {}
    BY <2>1, <2>2
  <2>4. left = 1..N
    BY <1>1, <2>3
  <2>5. Keep(runs, 1..N) = runs
    BY <1>1, KeepAll
  <2> QED
    BY <1>5, <1>9, <2>4, <2>5 DEF excess
<1> QED
  BY <1>8, <1>9

\* So does the table.
LEMMA TablesEvict ==
  ASSUME NEW runs, NEW rows, NEW made, NEW sec \in Int, RunsInOrder(runs, made), RowsOfRuns(runs, rows, sec)
  PROVE  /\ FirstCompleted(rows, 0) = {}
         /\ Len(runs) = 0 \/ Active(runs[1]) => FirstCompleted(rows, 1) = {}
         /\ Len(runs) > 0 /\ ~Active(runs[1]) =>
              FirstCompleted(rows, 1) = {r \in rows : r.id = runs[1].id}
<1> DEFINE N == Len(runs)
           done == {r \in rows : r.status \in {"completed", "failed"}}
           before(r) == {s \in done : s.completedAt < r.completedAt
                                      \/ (s.completedAt = r.completedAt /\ s.createdAt < r.createdAt)}
<1>1. N \in Nat /\ \A k \in 1..N : runs[k].id \in Nat /\ runs[k].status \in Statuses
  BY RunsAre
<1>2. IsFiniteSet(rows)
  BY RunsAreCounted
<1>3. \A r \in rows : /\ r.id \in Nat /\ r.status \in Statuses /\ r.createdAt = r.id /\ r.completedAt \in Int
                      /\ \E k \in 1..N : r.id = runs[k].id /\ r.status = runs[k].status
  BY DEF RowsOfRuns, StoredRow
<1>4. done = {r \in rows : ~Active(r)}
  BY <1>3 DEF Active, Statuses
<1>5. FirstCompleted(rows, 0) = {r \in done : Cardinality(before(r)) < 0}
      /\ FirstCompleted(rows, 1) = {r \in done : Cardinality(before(r)) < 1}
  BY DEF FirstCompleted
<1>6. ASSUME NEW r PROVE IsFiniteSet(before(r)) /\ Cardinality(before(r)) \in Nat /\ (Cardinality(before(r)) = 0 <=> before(r) = {})
  <2>1. before(r) \subseteq rows
    OBVIOUS
  <2> HIDE DEF before
  <2> QED
    BY <1>2, <2>1, FS_Subset, FS_CardinalityType, FS_EmptySet
<1>7. \A r, s \in done : s \in before(r) <=>
        (s.completedAt < r.completedAt \/ (s.completedAt = r.completedAt /\ s.id < r.id))
  BY <1>3
<1> HIDE DEF done, before
<1>8. FirstCompleted(rows, 0) = {}
  BY <1>5, <1>6
<1>9. FirstCompleted(rows, 1) = {r \in done : before(r) = {}}
  BY <1>5, <1>6
<1>10. ASSUME NEW r \in done PROVE N > 0 /\ ~Active(runs[1])
  <2>1. PICK k \in 1..N : r.id = runs[k].id /\ r.status = runs[k].status
    BY <1>3, <1>4
  <2>2. ~Active(runs[k])
    BY <1>4, <2>1 DEF Active
  <2>3. k = 1 \/ 1 < k
    BY <1>1
  <2> QED
    BY <1>1, <2>2, <2>3 DEF RunsInOrder
<1>11. ASSUME N > 0, ~Active(runs[1]), NEW r \in rows
       PROVE  (r \in done /\ before(r) = {}) <=> r.id = runs[1].id
  <2>0. 1 \in 1..N
    BY <1>1, <1>11
  <2>1. PICK first \in rows : first.id = runs[1].id
    BY <2>0 DEF RowsOfRuns
  <2>2. PICK k \in 1..N : r.id = runs[k].id /\ r.status = runs[k].status
    BY <1>3
  <2>3. first \in done
    <3>1. PICK j \in 1..N : first.id = runs[j].id /\ first.status = runs[j].status
      BY <1>3
    <3>2. j = 1
      BY <2>0, <2>1, <3>1, RunsAre
    <3> QED
      BY <1>4, <1>11, <2>1, <3>1, <3>2 DEF Active
  <2>4. CASE r.id = runs[1].id
    <3>1. r = first
      BY <2>1, <2>4 DEF RowsOfRuns
    <3>2. ASSUME NEW s \in before(first) PROVE FALSE
      <4>1. s \in done /\ s \in rows
        BY <1>4 DEF before
      <4>2. PICK j \in 1..N : s.id = runs[j].id
        BY <1>3, <4>1
      <4>3. s.completedAt < first.completedAt \/ (s.completedAt = first.completedAt /\ s.id < first.id)
        BY <1>7, <2>3, <4>1
      <4>4. j = 1 \/ runs[1].id < runs[j].id
        BY <1>1, <2>0 DEF RunsInOrder
      <4>5. s = first \/ first.id < s.id
        BY <2>1, <4>1, <4>2, <4>4 DEF RowsOfRuns
      <4>6. s = first \/ first.completedAt <= s.completedAt
        BY <1>4, <2>3, <4>1, <4>5 DEF RowsOfRuns
      <4>7. s.completedAt \in Int /\ first.completedAt \in Int /\ s.id \in Nat /\ first.id \in Nat
        BY <1>3, <4>1
      <4> QED
        BY <4>3, <4>5, <4>6, <4>7
    <3> QED
      BY <2>3, <2>4, <3>1, <3>2
  <2>5. CASE r.id # runs[1].id
    <3>1. SUFFICES ASSUME r \in done PROVE before(r) # {}
      BY <2>5
    <3>2. runs[1].id < runs[k].id
      BY <1>1, <2>0, <2>2, <2>5 DEF RunsInOrder
    <3>3. first.id < r.id
      BY <2>1, <2>2, <3>2
    <3>4. first.completedAt <= r.completedAt
      BY <1>4, <2>3, <3>1, <3>3 DEF RowsOfRuns
    <3>5. r.completedAt \in Int /\ first.completedAt \in Int
      BY <1>3
    <3>6. first \in before(r)
      BY <1>7, <2>3, <3>1, <3>3, <3>4, <3>5
    <3> QED
      BY <3>6
  <2> QED
    BY <2>4, <2>5
<1> HIDE DEF N
<1>12. N = 0 \/ Active(runs[1]) => FirstCompleted(rows, 1) = {}
  <2>1. ASSUME N = 0 \/ Active(runs[1]) PROVE \A r \in done : FALSE
    BY <1>1, <1>10, <2>1
  <2> QED
    BY <1>9, <2>1
<1>13. N > 0 /\ ~Active(runs[1]) => FirstCompleted(rows, 1) = {r \in rows : r.id = runs[1].id}
  <2>1. ASSUME N > 0, ~Active(runs[1]) PROVE FirstCompleted(rows, 1) = {r \in rows : r.id = runs[1].id}
    <3>1. \A r \in done : r \in rows
      BY <1>4
    <3> QED
      BY <1>9, <1>11, <2>1, <3>1
  <2> QED
    BY <2>1
<1> QED
  BY <1>8, <1>12, <1>13 DEF N

\* The oldest run and its row go.
LEMMA RunGoes ==
  ASSUME NEW runs, NEW rows, NEW made, NEW sec, RunsInOrder(runs, made), RowsOfRuns(runs, rows, sec), Len(runs) > 0
  PROVE  LET left == rows \ {r \in rows : r.id = runs[1].id}
         IN /\ RunsInOrder(Tail(runs), made) /\ RowsOfRuns(Tail(runs), left, sec)
            /\ Len(Tail(runs)) = Len(runs) - 1
<1> DEFINE N == Len(runs)
           left == rows \ {r \in rows : r.id = runs[1].id}
<1>1. /\ runs \in Seq(StoredRun) /\ N \in Nat /\ N <= MaxStored /\ MaxStored \in Nat /\ runs # <<>>
      /\ \A j, k \in 1..N : j # k => runs[j].id # runs[k].id
  <2>1. runs # <<>>
    OBVIOUS
  <2>2. N <= MaxStored /\ MaxStored \in Nat
    BY StoresAssumption DEF RunsInOrder
  <2> QED
    BY <2>1, <2>2, RunsAre
<1>2. PICK rest \in Seq(StoredRun) : rest = Tail(runs) /\ Len(rest) = N - 1 /\ \A k \in 1..(N - 1) : rest[k] = runs[k + 1]
  <2>1. Tail(runs) \in Seq(StoredRun) /\ Len(Tail(runs)) = N - 1 /\ \A k \in 1..Len(Tail(runs)) : Tail(runs)[k] = runs[k+1]
    BY <1>1, HeadTailProperties
  <2> QED
    BY <2>1
<1>3. \A k \in 1..(N - 1) : k + 1 \in 1..N
  BY <1>1
<1>4. RunsInOrder(rest, made)
  <2>1. \A k \in 1..(N - 1) : rest[k].id <= made
    BY <1>2, <1>3 DEF RunsInOrder
  <2>2. ASSUME NEW j \in 1..(N - 1), NEW k \in 1..(N - 1), j < k
        PROVE  rest[j].id < rest[k].id /\ (~Active(rest[k]) => ~Active(rest[j]))
    <3>1. j + 1 \in 1..N /\ k + 1 \in 1..N /\ j + 1 < k + 1
      BY <1>3, <2>2
    <3> QED
      BY <1>2, <3>1 DEF RunsInOrder
  <2> QED
    BY <1>1, <1>2, <2>1, <2>2 DEF RunsInOrder
<1>5. RowsOfRuns(rest, left, sec)
  <2>1. ASSUME NEW r \in left PROVE \E k \in 1..(N - 1) : r.id = rest[k].id /\ r.status = rest[k].status
    <3>1. PICK k \in 1..N : r.id = runs[k].id /\ r.status = runs[k].status
      BY DEF RowsOfRuns
    <3>2. k # 1
      BY <3>1
    <3>3. k - 1 \in 1..(N - 1) /\ (k - 1) + 1 = k
      BY <1>1, <3>2
    <3> QED
      BY <1>2, <3>1, <3>3
  <2>2. ASSUME NEW k \in 1..(N - 1) PROVE \E r \in left : r.id = rest[k].id
    <3>1. k + 1 \in 1..N /\ 1 \in 1..N /\ k + 1 # 1
      BY <1>1, <1>3
    <3>2. PICK r \in rows : r.id = runs[k + 1].id
      BY <3>1 DEF RowsOfRuns
    <3>3. r.id # runs[1].id
      BY <1>1, <3>1, <3>2
    <3> QED
      BY <1>2, <3>2, <3>3
  <2>3. \A r \in left : r \in rows
    OBVIOUS
  <2> HIDE DEF left
  <2> QED
    BY <1>2, <2>1, <2>2, <2>3 DEF RowsOfRuns
<1> QED
  BY <1>2, <1>4, <1>5

\* A new run comes last.
LEMMA RunComes ==
  ASSUME NEW runs, NEW rows, NEW made \in Nat, NEW sec, RunsInOrder(runs, made), RowsOfRuns(runs, rows, sec),
         Len(runs) < MaxStored
  PROVE  LET job == [id |-> made + 1, status |-> "queued"]
             added == [id |-> made + 1, status |-> "queued", createdAt |-> made + 1, completedAt |-> Never]
         IN RunsInOrder(Append(runs, job), made + 1) /\ RowsOfRuns(Append(runs, job), rows \cup {added}, sec)
<1> DEFINE N == Len(runs)
           job == [id |-> made + 1, status |-> "queued"]
           added == [id |-> made + 1, status |-> "queued", createdAt |-> made + 1, completedAt |-> Never]
<1>1. /\ runs \in Seq(StoredRun) /\ N \in Nat /\ MaxStored \in Nat /\ N + 1 <= MaxStored
      /\ \A k \in 1..N : runs[k].id \in Nat /\ runs[k].id <= made
  <2>1. runs \in Seq(StoredRun) /\ N \in Nat /\ \A k \in 1..N : runs[k].id \in Nat
    BY RunsAre
  <2>2. \A k \in 1..N : runs[k].id <= made
    BY DEF RunsInOrder
  <2>3. N < MaxStored /\ MaxStored \in Nat
    BY StoresAssumption
  <2> HIDE DEF N
  <2>4. N + 1 <= MaxStored
    BY <2>1, <2>3
  <2> QED
    BY <2>1, <2>2, <2>3, <2>4
<1>2. job \in StoredRun /\ job.id = made + 1 /\ Active(job) /\ job.status = "queued"
  BY DEF StoredRun, Statuses, Active
<1>3. /\ added \in StoredRow /\ added.id = made + 1 /\ Active(added) /\ added.status = "queued"
      /\ added.createdAt = added.id
  BY DEF StoredRow, Statuses, Active, Never
<1> HIDE DEF job, added
<1>4. PICK more \in Seq(StoredRun) : /\ more = Append(runs, job) /\ Len(more) = N + 1 /\ more[N + 1] = job
                                     /\ \A k \in 1..N : more[k] = runs[k]
  <2>1. Append(runs, job) \in Seq(StoredRun)
    BY <1>1, <1>2
  <2>2. Len(Append(runs, job)) = N + 1 /\ Append(runs, job)[N + 1] = job /\ \A k \in 1..N : Append(runs, job)[k] = runs[k]
    BY <1>1, <1>2
  <2> QED
    BY <2>1, <2>2
<1>5. \A k \in 1..(N + 1) : k \in 1..N \/ k = N + 1
  BY <1>1
<1>6. RunsInOrder(more, made + 1)
  <2>1. ASSUME NEW k \in 1..(N + 1) PROVE more[k].id <= made + 1
    BY <1>1, <1>2, <1>4, <1>5
  <2>2. ASSUME NEW j \in 1..(N + 1), NEW k \in 1..(N + 1), j < k
        PROVE  more[j].id < more[k].id /\ (~Active(more[k]) => ~Active(more[j]))
    <3>1. j \in 1..N
      BY <1>1, <2>2
    <3>2. CASE k = N + 1
      BY <1>1, <1>2, <1>4, <3>1, <3>2
    <3>3. CASE k \in 1..N
      BY <1>4, <2>2, <3>1, <3>3 DEF RunsInOrder
    <3> QED
      BY <1>5, <3>2, <3>3
  <2> QED
    BY <1>1, <1>4, <2>1, <2>2 DEF RunsInOrder
<1>7. RowsOfRuns(more, rows \cup {added}, sec)
  <2>1. \A r \in rows : r.id <= made /\ r.id \in Nat
    BY <1>1 DEF RowsOfRuns
  <2>2. ASSUME NEW r \in rows \cup {added} PROVE \E k \in 1..(N + 1) : r.id = more[k].id /\ r.status = more[k].status
    <3>1. CASE r \in rows
      <4>1. PICK k \in 1..N : r.id = runs[k].id /\ r.status = runs[k].status
        BY <3>1 DEF RowsOfRuns
      <4>2. k \in 1..(N + 1)
        BY <1>1
      <4> QED
        BY <1>4, <4>1, <4>2
    <3>2. CASE r = added
      <4>1. N + 1 \in 1..(N + 1)
        BY <1>1
      <4> QED
        BY <1>2, <1>3, <1>4, <3>2, <4>1
    <3> QED
      BY <3>1, <3>2
  <2>3. ASSUME NEW k \in 1..(N + 1) PROVE \E r \in rows \cup {added} : r.id = more[k].id
    <3>1. CASE k \in 1..N
      BY <1>4, <3>1 DEF RowsOfRuns
    <3>2. CASE k = N + 1
      BY <1>2, <1>3, <1>4, <3>2
    <3> QED
      BY <1>5, <3>1, <3>2
  <2>4. \A r \in rows : r.id # added.id
    BY <1>3, <2>1
  <2>5. \A r, s \in rows \cup {added} : r.id = s.id => r = s
    BY <2>4 DEF RowsOfRuns
  <2>6. rows \cup {added} \subseteq StoredRow /\ \A r \in rows \cup {added} : r.createdAt = r.id /\ (~Active(r) => r \in rows)
    BY <1>3 DEF RowsOfRuns
  <2> PICK all : all = rows \cup {added}
    OBVIOUS
  <2>7. \A r \in all : ~Active(r) => r.completedAt <= sec
    BY <2>6 DEF RowsOfRuns
  <2>8. \A r, s \in all : ~Active(r) /\ ~Active(s) /\ r.id < s.id => r.completedAt <= s.completedAt
    BY <2>6 DEF RowsOfRuns
  <2>9. \A k \in 1..Len(more) : \E r \in all : r.id = more[k].id
    BY <1>4, <2>3
  <2>10. \A r \in all : \E k \in 1..Len(more) : r.id = more[k].id /\ r.status = more[k].status
    BY <1>4, <2>2
  <2>11. RowsOfRuns(more, all, sec)
    BY <2>5, <2>6, <2>7, <2>8, <2>9, <2>10 DEF RowsOfRuns
  <2> QED
    BY <2>11
<1> QED
  BY <1>4, <1>6, <1>7 DEF job, added

\* The runs and the rows after a worker has claimed or ended one of them.
RunsWith(runs, id, after) ==
  [k \in DOMAIN runs |-> IF runs[k].id = id THEN [runs[k] EXCEPT !.status = after] ELSE runs[k]]
RowsWith(rows, id, after, sec) ==
  {IF r.id # id THEN r
   ELSE [r EXCEPT !.status = after, !.completedAt = IF after = "running" THEN @ ELSE sec] : r \in rows}

\* The oldest active run goes on, in memory and in its row.
LEMMA RunGoesOn ==
  ASSUME NEW runs, NEW rows, NEW made, NEW sec \in Int, RunsInOrder(runs, made), RowsOfRuns(runs, rows, sec),
         NEW id \in Nat, NEW prior \in {"queued", "running"}, NEW after \in {"running", "completed", "failed"},
         \E r \in rows : r.id = id /\ r.status = prior,
         \A r \in rows : r.status \in {"queued", "running"} => r.id >= id
  PROVE  /\ RunsInOrder(RunsWith(runs, id, after), made)
         /\ RowsOfRuns(RunsWith(runs, id, after), RowsWith(rows, id, after, sec), sec)
<1> DEFINE N == Len(runs)
           On(job) == IF job.id = id THEN [job EXCEPT !.status = after] ELSE job
           later == [k \in DOMAIN runs |-> On(runs[k])]
           Changed(r) == IF r.id # id THEN r
                         ELSE [r EXCEPT !.status = after, !.completedAt = IF after = "running" THEN @ ELSE sec]
           changed == {Changed(r) : r \in rows}
<1>1. /\ runs \in Seq(StoredRun) /\ N \in Nat /\ DOMAIN runs = 1..N
      /\ \A k \in 1..N : runs[k] \in StoredRun /\ runs[k].id \in Nat /\ runs[k].status \in Statuses
      /\ \A j, k \in 1..N : j # k => runs[j].id # runs[k].id
  BY RunsAre
<1>2. \A r \in rows : r \in StoredRow /\ r.id \in Nat /\ r.status \in Statuses /\ r.completedAt \in Int /\ r.createdAt = r.id
  BY DEF RowsOfRuns, StoredRow
<1>3. PICK its \in rows : its.id = id /\ its.status = prior
  OBVIOUS
<1>4. PICK i \in 1..N : runs[i].id = id /\ runs[i].status = prior
  BY <1>3 DEF RowsOfRuns
<1>5. ASSUME NEW job \in StoredRun
      PROVE  /\ On(job) \in StoredRun /\ On(job).id = job.id
             /\ On(job).status = IF job.id = id THEN after ELSE job.status
  BY DEF StoredRun, Statuses
<1>6. ASSUME NEW r \in rows
      PROVE  /\ Changed(r) \in StoredRow /\ Changed(r).id = r.id /\ Changed(r).createdAt = r.id
             /\ Changed(r).status = IF r.id = id THEN after ELSE r.status
             /\ r.id = id /\ after # "running" => Changed(r).completedAt = sec
             /\ r.id # id => Changed(r) = r
  BY <1>2 DEF StoredRow, Statuses
<1> HIDE DEF On, Changed
<1>7. /\ later \in Seq(StoredRun) /\ Len(later) = N
      /\ \A k \in 1..N : later[k].id = runs[k].id /\ later[k].status = (IF k = i THEN after ELSE runs[k].status)
  <2>1. later \in [1..N -> StoredRun]
    BY <1>1, <1>5
  <2>2. later \in Seq(StoredRun) /\ Len(later) = N
    <3> HIDE DEF later
    <3> QED
      BY <1>1, <2>1
  <2>3. ASSUME NEW k \in 1..N PROVE later[k].id = runs[k].id /\ later[k].status = IF k = i THEN after ELSE runs[k].status
    <3>1. later[k] = On(runs[k]) /\ runs[k] \in StoredRun
      BY <1>1
    <3>2. runs[k].id = id <=> k = i
      BY <1>1, <1>4
    <3> HIDE DEF later
    <3> QED
      BY <1>5, <3>1, <3>2
  <2> QED
    BY <2>2, <2>3
<1> HIDE DEF later
\* What is older than the run has ended, and what is newer is active.
<1>8. \A k \in 1..N : k < i => ~Active(runs[k])
  <2>1. ASSUME NEW k \in 1..N, k < i, Active(runs[k]) PROVE FALSE
    <3>1. runs[k].id < id
      BY <1>4, <2>1 DEF RunsInOrder
    <3>2. PICK r \in rows : r.id = runs[k].id
      BY DEF RowsOfRuns
    <3>3. PICK j \in 1..N : r.id = runs[j].id /\ r.status = runs[j].status
      BY DEF RowsOfRuns
    <3>4. j = k
      BY <1>1, <3>2, <3>3
    <3>5. r.id >= id
      BY <2>1, <3>3, <3>4 DEF Active
    <3> QED
      BY <1>1, <3>1, <3>2, <3>5
  <2> QED
    BY <2>1
<1>9. \A k \in 1..N : i < k => Active(runs[k])
  <2>1. Active(runs[i])
    BY <1>4 DEF Active
  <2> QED
    BY <2>1 DEF RunsInOrder
<1>10. \A k \in 1..N : k # i => (Active(later[k]) <=> Active(runs[k]))
  BY <1>7 DEF Active
<1>11. RunsInOrder(later, made)
  <2>1. ASSUME NEW j \in 1..N, NEW k \in 1..N, j < k PROVE ~Active(later[k]) => ~Active(later[j])
    <3>1. j < i \/ j = i \/ i < j
      BY <1>1
    <3>2. CASE j < i
      <4>1. j # i
        BY <1>1, <3>2
      <4> QED
        BY <1>8, <1>10, <3>2, <4>1
    <3>3. CASE j = i \/ i < j
      <4>1. i < k /\ k # i
        BY <1>1, <2>1, <3>3
      <4> QED
        BY <1>9, <1>10, <4>1
    <3> QED
      BY <3>1, <3>2, <3>3
  <2>2. Len(runs) <= MaxStored /\ \A j, k \in 1..N : j < k => later[j].id < later[k].id
    BY <1>7 DEF RunsInOrder
  <2>3. \A k \in 1..N : later[k].id <= made
    BY <1>7 DEF RunsInOrder
  <2> QED
    BY <1>7, <2>1, <2>2, <2>3 DEF RunsInOrder
<1>12. RowsOfRuns(later, changed, sec)
  <2>1. changed \subseteq StoredRow /\ \A r \in changed : r.createdAt = r.id
    BY <1>6
  <2>2. ASSUME NEW s \in changed PROVE \E k \in 1..N : s.id = later[k].id /\ s.status = later[k].status
    <3>1. PICK r \in rows : s = Changed(r)
      OBVIOUS
    <3>2. PICK k \in 1..N : r.id = runs[k].id /\ r.status = runs[k].status
      BY DEF RowsOfRuns
    <3>3. r.id = id <=> k = i
      BY <1>1, <1>4, <3>2
    <3> QED
      BY <1>6, <1>7, <3>1, <3>2, <3>3
  <2>3. ASSUME NEW k \in 1..N PROVE \E s \in changed : s.id = later[k].id
    <3>1. PICK r \in rows : r.id = runs[k].id
      BY DEF RowsOfRuns
    <3>2. Changed(r) \in changed /\ Changed(r).id = later[k].id
      BY <1>6, <1>7, <3>1
    <3> QED
      BY <3>2
  <2>4. \A r, s \in changed : r.id = s.id => r = s
    BY <1>6 DEF RowsOfRuns
  <2>5. ASSUME NEW r \in rows, ~Active(Changed(r))
        PROVE  /\ Changed(r).completedAt <= sec
               /\ r.id # id => ~Active(r) /\ r.id < id /\ Changed(r).completedAt = r.completedAt
               /\ r.id = id => Changed(r).completedAt = sec
    <3>1. CASE r.id = id
      <4>1. after # "running"
        BY <1>6, <2>5, <3>1 DEF Active
      <4> QED
        BY <1>6, <3>1, <4>1
    <3>2. CASE r.id # id
      <4>1. Changed(r) = r /\ ~Active(r)
        BY <1>6, <2>5, <3>2
      <4>2. PICK k \in 1..N : r.id = runs[k].id /\ r.status = runs[k].status
        BY DEF RowsOfRuns
      <4>3. ~Active(runs[k]) /\ k # i
        BY <1>4, <3>2, <4>1, <4>2 DEF Active
      <4>4. k < i
        BY <1>1, <1>9, <4>3
      <4>5. r.id < id
        BY <1>4, <4>2, <4>4 DEF RunsInOrder
      <4> QED
        BY <3>2, <4>1, <4>5 DEF RowsOfRuns
    <3> QED
      BY <3>1, <3>2
  <2>6. \A r \in changed : ~Active(r) => r.completedAt <= sec
    BY <2>5
  <2>7. ASSUME NEW r \in rows, NEW s \in rows, ~Active(Changed(r)), ~Active(Changed(s)), r.id < s.id
        PROVE  Changed(r).completedAt <= Changed(s).completedAt
    <3>1. CASE s.id = id
      BY <2>5, <2>7, <3>1
    <3>2. CASE s.id # id
      <4>1. r.id # id
        BY <1>2, <2>5, <2>7, <3>2
      <4> QED
        BY <2>5, <2>7, <3>2, <4>1 DEF RowsOfRuns
    <3> QED
      BY <3>1, <3>2
  <2>8. \A r, s \in changed : ~Active(r) /\ ~Active(s) /\ r.id < s.id => r.completedAt <= s.completedAt
    BY <1>6, <2>7
  <2> HIDE DEF changed
  <2> QED
    BY <1>7, <2>1, <2>2, <2>3, <2>4, <2>6, <2>8 DEF RowsOfRuns
<1> QED
  BY <1>11, <1>12 DEF later, changed, On, Changed, RunsWith, RowsWith

\* The table shows the runs that memory holds.
LEMMA RunsAreShown ==
  ASSUME NEW runs, NEW rows, NEW made, NEW sec, RunsInOrder(runs, made), RowsOfRuns(runs, rows, sec)
  PROVE  {[id |-> r.id, status |-> r.status] : r \in rows} = Range(runs)
<1> DEFINE N == Len(runs)
<1>1. PICK f \in Bijection(1..N, rows) : \A k \in 1..N : f[k].id = runs[k].id /\ f[k].status = runs[k].status
  BY RunsHaveRows
<1>2. /\ DOMAIN runs = 1..N
      /\ \A k \in 1..N : runs[k] = [id |-> runs[k].id, status |-> runs[k].status]
  <2>1. DOMAIN runs = 1..N /\ \A k \in 1..N : runs[k] \in StoredRun
    BY RunsAre
  <2> QED
    BY <2>1 DEF StoredRun
<1>3. f \in [1..N -> rows] /\ \A r \in rows : \E k \in 1..N : f[k] = r
  BY <1>1 DEF Bijection, Injection, Surjection
<1>4. Range(runs) = {runs[k] : k \in 1..N}
  BY <1>2 DEF Range
<1> HIDE DEF N
<1>5. ASSUME NEW r \in rows PROVE \E k \in 1..N : runs[k] = [id |-> r.id, status |-> r.status]
  BY <1>1, <1>2, <1>3
<1>6. ASSUME NEW k \in 1..N PROVE \E r \in rows : runs[k] = [id |-> r.id, status |-> r.status]
  BY <1>1, <1>2, <1>3
<1> DEFINE shown == {[id |-> r.id, status |-> r.status] : r \in rows}
<1>7. ASSUME NEW x \in shown PROVE x \in {runs[k] : k \in 1..N}
  BY <1>5
<1>8. ASSUME NEW x \in {runs[k] : k \in 1..N} PROVE x \in shown
  BY <1>6
<1>9. shown = {runs[k] : k \in 1..N}
  <2> HIDE DEF shown
  <2> QED
    BY <1>7, <1>8
<1> QED
  BY <1>4, <1>9

-----------------------------------------------------------------------------
(* ControlStores: the reservations.                                        *)

Reservation == [at : Nat, cost : 1..2]
ReservedRow(n, r) == [id |-> n - 1, at |-> r.at, cost |-> r.cost]

\* The table has a row for every reservation in memory and no other.
RowsOfReservations(reservations, rows) ==
  /\ reservations \in Seq(Reservation)
  /\ rows = {ReservedRow(k, reservations[k]) : k \in 1..Len(reservations)}

\* A sum depends on the costs only.
LEMMA CentsAgree ==
  ASSUME NEW S, NEW T, NEW f \in [S -> 1..2], NEW h \in [T -> 1..2], IsFiniteSet(S),
         NEW g \in Bijection(S, T), \A x \in S : h[g[x]] = f[x]
  PROVE  Cents(f) = Cents(h)
<1> DEFINE A == UNION {{x} \X (1..f[x]) : x \in DOMAIN f}
           B == UNION {{y} \X (1..h[y]) : y \in DOMAIN h}
           m == [p \in A |-> <<g[p[1]], p[2]>>]
<1>1. /\ g \in [S -> T] /\ (\A x, y \in S : g[x] = g[y] => x = y) /\ \A y \in T : \E x \in S : g[x] = y
  BY DEF Bijection, Injection, Surjection, IsInjective
<1>2. \A p : p \in A <=> \E x \in S : \E c \in 1..f[x] : p = <<x, c>>
  OBVIOUS
<1>3. \A p : p \in B <=> \E y \in T : \E c \in 1..h[y] : p = <<y, c>>
  OBVIOUS
<1>4. \A x \in S : f[x] \in 1..2
  OBVIOUS
<1>5. Cents(f) = Cardinality(A) /\ Cents(h) = Cardinality(B)
  BY DEF Cents
<1> HIDE DEF A, B
<1>6. IsFiniteSet(A)
  <2>1. IsFiniteSet(1..2)
    <3>1. 1 \in Int /\ 2 \in Int
      OBVIOUS
    <3> QED
      BY <3>1, FS_Interval
  <2>2. IsFiniteSet(S \X (1..2))
    BY <2>1, FS_Product
  <2>3. A \subseteq S \X (1..2)
    <3>1. ASSUME NEW p \in A PROVE p \in S \X (1..2)
      <4>1. PICK x \in S, c \in 1..2 : c \in 1..f[x] /\ p = <<x, c>>
        BY <1>2
      <4>2. c \in 1..2
        BY <1>4, <4>1
      <4> QED
        BY <4>1, <4>2
    <3> QED
      BY <3>1
  <2> QED
    BY <2>2, <2>3, FS_Subset
<1>7. m \in [A -> B]
  <2>1. ASSUME NEW p \in A PROVE m[p] \in B
    <3>1. PICK x \in S, c \in 1..2 : c \in 1..f[x] /\ p = <<x, c>>
      BY <1>2
    <3>2. m[p] = <<g[x], c>> /\ g[x] \in T /\ c \in 1..h[g[x]]
      BY <1>1, <3>1
    <3> QED
      BY <1>3, <3>2
  <2> QED
    BY <2>1
<1>8. ASSUME NEW p \in A, NEW q \in A, m[p] = m[q] PROVE p = q
  <2>1. PICK x \in S, c \in 1..2 : c \in 1..f[x] /\ p = <<x, c>>
    BY <1>2
  <2>2. PICK y \in S, d \in 1..2 : d \in 1..f[y] /\ q = <<y, d>>
    BY <1>2
  <2>3. <<g[x], c>> = <<g[y], d>>
    BY <1>8, <2>1, <2>2
  <2> QED
    BY <1>1, <2>1, <2>2, <2>3
<1>9. ASSUME NEW q \in B PROVE \E p \in A : m[p] = q
  <2>1. PICK y \in T, c \in 1..2 : c \in 1..h[y] /\ q = <<y, c>>
    BY <1>3
  <2>2. PICK x \in S : g[x] = y
    BY <1>1
  <2>3. <<x, c>> \in A
    BY <1>2, <2>1, <2>2
  <2>4. m[<<x, c>>] = q
    BY <2>1, <2>2, <2>3
  <2> QED
    BY <2>3, <2>4
<1>10. m \in Bijection(A, B)
  <2> HIDE DEF m
  <2> QED
    BY <1>7, <1>8, <1>9 DEF Bijection, Injection, Surjection, IsInjective
<1>11. Cardinality(A) = Cardinality(B)
  <2> HIDE DEF m
  <2> QED
    BY <1>6, <1>10, FS_Bijection DEF ExistsBijection
<1> QED
  BY <1>5, <1>11

\* What was reserved since a time, and what it costs, in memory and in the table.
PlacesSince(reservations, start) == {k \in DOMAIN reservations : reservations[k].at >= start}
RowsSince(rows, start) == {r \in rows : r.at >= start}
CentsSince(reservations, start) == Cents([k \in PlacesSince(reservations, start) |-> reservations[k].cost])
CentsOfRows(rows, start) == Cents([r \in RowsSince(rows, start) |-> r.cost])

\* Both stores count the same reservations and cents since any time.
LEMMA ReservationsAgree ==
  ASSUME NEW reservations, NEW rows, RowsOfReservations(reservations, rows), NEW start \in Int
  PROVE  /\ IsFiniteSet(rows) /\ Cardinality(rows) = Len(reservations)
         /\ Cardinality(PlacesSince(reservations, start)) = Cardinality(RowsSince(rows, start))
         /\ CentsSince(reservations, start) = CentsOfRows(rows, start)
<1> DEFINE N == Len(reservations)
           places == {k \in DOMAIN reservations : reservations[k].at >= start}
           since == {r \in rows : r.at >= start}
           b == [k \in 1..N |-> ReservedRow(k, reservations[k])]
           g == [k \in places |-> b[k]]
<1>1. /\ N \in Nat /\ DOMAIN reservations = 1..N
      /\ \A k \in 1..N : reservations[k].at \in Nat /\ reservations[k].cost \in 1..2
  <2>1. N \in Nat /\ DOMAIN reservations = 1..N /\ \A k \in 1..N : reservations[k] \in Reservation
    BY DEF RowsOfReservations
  <2> QED
    BY <2>1 DEF Reservation
<1>2. \A k \in 1..N : b[k] \in rows /\ b[k].id = k - 1 /\ b[k].at = reservations[k].at /\ b[k].cost = reservations[k].cost
  BY DEF RowsOfReservations, ReservedRow
<1>3. \A r \in rows : \E k \in 1..N : b[k] = r
  BY DEF RowsOfReservations
<1>4. IsFiniteSet(1..N) /\ Cardinality(1..N) = N
  <2>1. 1 \in Int /\ N \in Int
    BY <1>1
  <2>2. IsFiniteSet(1..N) /\ Cardinality(1..N) = IF 1 > N THEN 0 ELSE N - 1 + 1
    BY <2>1, FS_Interval
  <2>3. (IF 1 > N THEN 0 ELSE N - 1 + 1) = N
    BY <1>1
  <2> QED
    BY <2>2, <2>3
<1>5. \A k \in 1..N : k \in Nat
  OBVIOUS
<1>6. b \in [1..N -> rows]
  BY <1>2
<1> HIDE DEF b, N
<1>7. \A j, k \in 1..N : b[j] = b[k] => j = k
  BY <1>2, <1>5
<1>8. b \in Bijection(1..N, rows)
  BY <1>3, <1>6, <1>7 DEF Bijection, Injection, Surjection, IsInjective
<1>9. IsFiniteSet(rows) /\ Cardinality(rows) = N
  BY <1>4, <1>8, FS_Bijection DEF ExistsBijection
<1>10. places \subseteq 1..N /\ IsFiniteSet(places)
  <2>1. places \subseteq 1..N
    BY <1>1
  <2> HIDE DEF places
  <2> QED
    BY <1>4, <2>1, FS_Subset
<1>11. g \in [places -> since] /\ \A k \in places : g[k].cost = reservations[k].cost /\ g[k] = b[k]
  BY <1>2, <1>10
<1>12. \A r \in since : \E k \in places : g[k] = r
  <2>1. ASSUME NEW r \in since PROVE \E k \in places : g[k] = r
    <3>1. PICK k \in 1..N : b[k] = r
      BY <1>3
    <3>2. k \in places
      BY <1>1, <1>2, <3>1
    <3> QED
      BY <3>1, <3>2
  <2> QED
    BY <2>1
<1>13. g \in Bijection(places, since)
  <2> HIDE DEF g, places, since
  <2>1. \A j, k \in places : g[j] = g[k] => j = k
    BY <1>7, <1>10, <1>11
  <2> QED
    BY <1>11, <1>12, <2>1 DEF Bijection, Injection, Surjection, IsInjective
<1> DEFINE f == [k \in places |-> reservations[k].cost]
           h == [r \in since |-> r.cost]
<1>14. f \in [places -> 1..2] /\ h \in [since -> 1..2] /\ \A k \in places : h[g[k]] = f[k]
  <2>1. f \in [places -> 1..2]
    BY <1>1
  <2>2. \A r \in rows : r.cost \in 1..2
    BY <1>1, <1>2, <1>3
  <2>3. h \in [since -> 1..2]
    BY <2>2
  <2>4. \A k \in places : h[g[k]] = f[k]
    BY <1>11
  <2> QED
    BY <2>1, <2>3, <2>4
<1> HIDE DEF f, h, g, places, since
<1>15. Cardinality(places) = Cardinality(since)
  BY <1>10, <1>13, FS_Bijection DEF ExistsBijection
<1>16. Cents(f) = Cents(h)
  <2>1. IsFiniteSet(places) /\ g \in Bijection(places, since)
    BY <1>10, <1>13
  <2>2. f \in [places -> 1..2] /\ h \in [since -> 1..2]
    BY <1>14
  <2>3. \A k \in places : h[g[k]] = f[k]
    BY <1>14
  <2> QED
    BY <2>1, <2>2, <2>3, CentsAgree
<1> QED
  <2>1. places = PlacesSince(reservations, start) /\ since = RowsSince(rows, start)
    BY DEF places, since, PlacesSince, RowsSince
  <2>2. /\ f = [k \in PlacesSince(reservations, start) |-> reservations[k].cost]
        /\ h = [r \in RowsSince(rows, start) |-> r.cost]
    BY <2>1 DEF f, h
  <2>3. CentsSince(reservations, start) = Cents(f) /\ CentsOfRows(rows, start) = Cents(h)
    BY <2>2, Zenon DEF CentsSince, CentsOfRows
  <2>4. Cardinality(PlacesSince(reservations, start)) = Cardinality(RowsSince(rows, start))
    BY <1>15, <2>1
  <2> QED
    BY <1>9, <1>16, <2>3, <2>4 DEF N

\* One more reservation.
LEMMA ReservationComes ==
  ASSUME NEW reservations, NEW rows, RowsOfReservations(reservations, rows), NEW sec \in Nat, NEW cost \in 1..2
  PROVE  RowsOfReservations(Append(reservations, [at |-> sec, cost |-> cost]),
                            rows \cup {[id |-> Cardinality(rows), at |-> sec, cost |-> cost]})
<1> DEFINE N == Len(reservations)
           new == [at |-> sec, cost |-> cost]
           added == [id |-> Cardinality(rows), at |-> sec, cost |-> cost]
<1>1. reservations \in Seq(Reservation) /\ N \in Nat /\ new \in Reservation
  BY DEF RowsOfReservations, Reservation
<1>2. Cardinality(rows) = N
  <2>1. 0 \in Int
    OBVIOUS
  <2> QED
    BY <2>1, ReservationsAgree
<1>3. added = ReservedRow(N + 1, new)
  BY <1>1, <1>2 DEF ReservedRow
<1> HIDE DEF new, added
<1>4. PICK more \in Seq(Reservation) : more = Append(reservations, new)
  <2>1. Append(reservations, new) \in Seq(Reservation)
    BY <1>1
  <2> QED
    BY <2>1
<1>5. Len(more) = N + 1 /\ more[N + 1] = new /\ \A k \in 1..N : more[k] = reservations[k]
  BY <1>1, <1>4
<1>6. 1..(N + 1) = (1..N) \cup {N + 1}
  BY <1>1
<1> HIDE DEF N
<1>7. {ReservedRow(k, more[k]) : k \in 1..(N + 1)} = {ReservedRow(k, reservations[k]) : k \in 1..N} \cup {added}
  BY <1>3, <1>5, <1>6
<1>8. rows = {ReservedRow(k, reservations[k]) : k \in 1..N}
  BY DEF RowsOfReservations, N
<1>9. RowsOfReservations(more, rows \cup {added})
  BY <1>5, <1>7, <1>8 DEF RowsOfReservations
<1> QED
  BY <1>4, <1>9 DEF new, added

-----------------------------------------------------------------------------
(* ControlStores: the calls about shared scenarios.                        *)

Texts == {"", "text"}
Shared == [id : Nat, scenario : Scenarios]
SharedState == [candidateRevealed : BOOLEAN, firstRunAt : Int, candidateNotes : Texts, interviewerNotes : Texts,
                sessionStartedAt : Int, updatedAt : Int]

\* The row that stands for a shared scenario and its state in memory.
Row(shared, state) ==
  [id |-> shared.id, scenario |-> shared.scenario, hostTokenHash |-> <<"sha256", "host">>,
   candidateRevealed |-> state.candidateRevealed, firstRunAt |-> state.firstRunAt,
   candidateNotes |-> state.candidateNotes, interviewerNotes |-> state.interviewerNotes,
   sessionStartedAt |-> state.sessionStartedAt, updatedAt |-> state.updatedAt]

\* What both say of a scenario to who asks with a token.
ViewOf(shared, state, token) ==
  [id |-> shared.id, scenario |-> shared.scenario, isHost |-> token = "host",
   revealed |-> IsRevealed(shared.scenario, state),
   candidateNotes |-> state.candidateNotes, startedAt |-> state.sessionStartedAt, updatedAt |-> state.updatedAt,
   interviewerNotes |-> IF token = "host" THEN state.interviewerNotes ELSE Null]

\* The table has the row of every scenario in memory and no other.
RowsOf(scenarios, state, rows) ==
  /\ scenarios \in Seq(Shared) /\ state \in Seq(SharedState) /\ Len(state) = Len(scenarios)
  /\ \A j, k \in 1..Len(scenarios) : scenarios[j].id = scenarios[k].id => j = k
  /\ rows = {Row(scenarios[k], state[k]) : k \in 1..Len(scenarios)}
  /\ IsFiniteSet(rows) /\ Cardinality(rows) = Len(scenarios)

OthersInv ==
  /\ runsMade \in Nat /\ RunsInOrder(memory.runs, runsMade) /\ RowsOfRuns(memory.runs, tables.runs, clock)
  /\ RowsOfReservations(memory.reservations, tables.reservations)

StoresInv ==
  /\ scenariosMade \in Nat /\ clock \in Nat
  /\ memory = [runs |-> memory.runs, scenarios |-> memory.scenarios, state |-> memory.state, reservations |-> memory.reservations]
  /\ tables = [runs |-> tables.runs, scenarios |-> tables.scenarios, reservations |-> tables.reservations]
  /\ \A k \in 1..Len(memory.scenarios) : memory.scenarios[k].id <= scenariosMade
  /\ RowsOf(memory.scenarios, memory.state, tables.scenarios)
  /\ OthersInv
  /\ answers[1] = answers[2]

LEMMA ScenariosAre ==
  ASSUME NEW scenario \in Scenarios
  PROVE  \/ scenario.mode = "interview" /\ scenario.revealPolicy = "after-run"
         \/ scenario.mode = "interview" /\ scenario.revealPolicy = "interviewer-controlled"
         \/ scenario.mode = "custom" /\ scenario.revealPolicy = "null"
  BY DEF Scenarios, Null

\* A row is seen as the scenario it stands for.
LEMMA RowIsSeen ==
  ASSUME NEW shared \in Shared, NEW state \in SharedState, NEW token \in Tokens
  PROVE  MapScenario(Row(shared, state), token) = ViewOf(shared, state, token)
<1>1. (token # Null /\ <<"sha256", token>> = Row(shared, state).hostTokenHash) = (token = "host")
  BY DEF Row, Tokens, Null
<1>2. /\ shared.scenario \in Scenarios /\ state.candidateRevealed \in BOOLEAN
  BY DEF Shared, SharedState
<1> DEFINE s == shared.scenario
           shown == /\ s.mode = "interview"
                    /\ \/ s.revealPolicy = "after-run" /\ state.firstRunAt # Never
                       \/ s.revealPolicy = "interviewer-controlled" /\ state.candidateRevealed
<1>3. shown = IsRevealed(s, state)
  <2>1. CASE s.mode = "interview" /\ s.revealPolicy = "after-run"
    BY <2>1 DEF IsRevealed
  <2>2. CASE s.mode = "interview" /\ s.revealPolicy = "interviewer-controlled"
    BY <1>2, <2>2 DEF IsRevealed
  <2>3. CASE s.mode = "custom"
    BY <2>3 DEF IsRevealed
  <2> QED
    BY <1>2, <2>1, <2>2, <2>3, ScenariosAre
<1>4. MapScenario(Row(shared, state), token) =
        [id |-> shared.id, scenario |-> shared.scenario, isHost |-> token = "host", revealed |-> shown,
         candidateNotes |-> state.candidateNotes, startedAt |-> state.sessionStartedAt, updatedAt |-> state.updatedAt,
         interviewerNotes |-> IF token = "host" THEN state.interviewerNotes ELSE Null]
  <2> DEFINE r == Row(shared, state)
             isHost == token # Null /\ <<"sha256", token>> = r.hostTokenHash
  <2>1. /\ r.id = shared.id /\ r.scenario = s /\ r.firstRunAt = state.firstRunAt /\ r.candidateRevealed = state.candidateRevealed
        /\ r.candidateNotes = state.candidateNotes /\ r.sessionStartedAt = state.sessionStartedAt
        /\ r.updatedAt = state.updatedAt /\ r.interviewerNotes = state.interviewerNotes
    BY DEF Row
  <2>2. isHost = (token = "host")
    BY <1>1
  <2>3. MapScenario(r, token) =
          [id |-> r.id, scenario |-> r.scenario, isHost |-> isHost,
           revealed |-> /\ r.scenario.mode = "interview"
                        /\ \/ r.scenario.revealPolicy = "after-run" /\ r.firstRunAt # Never
                           \/ r.scenario.revealPolicy = "interviewer-controlled" /\ r.candidateRevealed,
           candidateNotes |-> r.candidateNotes, startedAt |-> r.sessionStartedAt, updatedAt |-> r.updatedAt,
           interviewerNotes |-> IF isHost THEN r.interviewerNotes ELSE Null]
    BY DEF MapScenario
  <2> HIDE DEF r, isHost
  <2> QED
    BY <2>1, <2>2, <2>3 DEF r
<1> HIDE DEF shown
<1> QED
  BY <1>3, <1>4 DEF ViewOf

\* Where a scenario is in memory, and which row it has.
LEMMA RowIsFound ==
  ASSUME NEW scenarios, NEW state, NEW rows, RowsOf(scenarios, state, rows), NEW id \in Nat, Has(scenarios, id)
  PROVE  LET k == IndexOf(scenarios, id)
         IN /\ k \in 1..Len(scenarios) /\ scenarios[k].id = id
            /\ scenarios[k] \in Shared /\ state[k] \in SharedState
            /\ Row(scenarios[k], state[k]) \in rows
            /\ {r \in rows : r.id = id} = {Row(scenarios[k], state[k])}
<1> DEFINE k == IndexOf(scenarios, id)
<1>1. DOMAIN scenarios = 1..Len(scenarios)
  BY DEF RowsOf
<1>2. k \in 1..Len(scenarios) /\ scenarios[k].id = id
  BY <1>1 DEF Has, IndexOf
<1> HIDE DEF k
<1>3. scenarios[k] \in Shared /\ state[k] \in SharedState /\ Row(scenarios[k], state[k]) \in rows
  BY <1>2 DEF RowsOf
<1>4. \A j \in 1..Len(scenarios) : Row(scenarios[j], state[j]).id = scenarios[j].id
  BY DEF Row
<1>5. \A r \in rows : r.id = id => r = Row(scenarios[k], state[k])
  BY <1>2, <1>4 DEF RowsOf
<1>6. Row(scenarios[k], state[k]).id = id
  BY <1>2, <1>4
<1> QED
  BY <1>2, <1>3, <1>5, <1>6 DEF k

LEMMA RowIsMissing ==
  ASSUME NEW scenarios, NEW state, NEW rows, RowsOf(scenarios, state, rows), NEW id \in Nat, ~Has(scenarios, id)
  PROVE  \A r \in rows : r.id # id
<1>1. \A j \in 1..Len(scenarios) : Row(scenarios[j], state[j]).id = scenarios[j].id
  BY DEF Row
<1>2. DOMAIN scenarios = 1..Len(scenarios)
  BY DEF RowsOf
<1> QED
  BY <1>1, <1>2 DEF RowsOf, Has

\* Both stores show the same of every scenario.
LEMMA ViewsAgree ==
  ASSUME RowsOf(memory.scenarios, memory.state, tables.scenarios), NEW id \in Nat, NEW token \in Tokens
  PROVE  MemoryView(memory, id, token) = TablesView(id, token)
<1>1. CASE ~Has(memory.scenarios, id)
  BY <1>1, RowIsMissing DEF MemoryView, TablesView
<1>2. CASE Has(memory.scenarios, id)
  <2> DEFINE k == IndexOf(memory.scenarios, id)
             rec == Row(memory.scenarios[k], memory.state[k])
             rows == {r \in tables.scenarios : r.id = id}
  <2>1. /\ rows = {rec} /\ memory.scenarios[k].id = id
        /\ memory.scenarios[k] \in Shared /\ memory.state[k] \in SharedState
    BY <1>2, RowIsFound
  <2>2. MemoryView(memory, id, token) = ViewOf(memory.scenarios[k], memory.state[k], token)
    BY <1>2, <2>1 DEF MemoryView, ViewOf
  <2>3. TablesView(id, token) = MapScenario(rec, token)
    <3>1. TablesView(id, token) = IF rows = {} THEN Missing ELSE MapScenario(CHOOSE r \in rows : TRUE, token)
      BY DEF TablesView
    <3>2. rows # {} /\ (CHOOSE r \in rows : TRUE) = rec
      BY <2>1
    <3> QED
      BY <3>1, <3>2
  <2> QED
    BY <2>1, <2>2, <2>3, RowIsSeen
<1> QED
  BY <1>1, <1>2


\* The state of one scenario changes in both.
LEMMA RowChanges ==
  ASSUME NEW scenarios, NEW state, NEW rows, RowsOf(scenarios, state, rows),
         NEW k \in 1..Len(scenarios), NEW new \in SharedState
  PROVE  RowsOf(scenarios, [state EXCEPT ![k] = new],
                (rows \ {Row(scenarios[k], state[k])}) \cup {Row(scenarios[k], new)})
<1> DEFINE later == [state EXCEPT ![k] = new]
           old == Row(scenarios[k], state[k])
           rec == Row(scenarios[k], new)
           others == rows \ {old}
<1>1. /\ scenarios \in Seq(Shared) /\ state \in Seq(SharedState) /\ Len(state) = Len(scenarios)
      /\ \A i, j \in 1..Len(scenarios) : scenarios[i].id = scenarios[j].id => i = j
      /\ rows = {Row(scenarios[j], state[j]) : j \in 1..Len(scenarios)}
      /\ IsFiniteSet(rows) /\ Cardinality(rows) = Len(scenarios)
  BY DEF RowsOf
<1>2. later \in Seq(SharedState) /\ Len(later) = Len(state) /\ later[k] = new
      /\ \A j \in 1..Len(scenarios) : j # k => later[j] = state[j]
  BY <1>1
<1>3. old \in rows /\ rec.id = scenarios[k].id /\ \A j \in 1..Len(scenarios) : Row(scenarios[j], state[j]).id = scenarios[j].id
  BY <1>1 DEF Row
<1>4. \A j \in 1..Len(scenarios) : j # k <=> Row(scenarios[j], state[j]) # old
  BY <1>1, <1>3
<1>5. others = {Row(scenarios[j], state[j]) : j \in 1..Len(scenarios) \ {k}}
  BY <1>1, <1>4
<1> HIDE DEF later, old, rec, others
<1>6. others \cup {rec} = {Row(scenarios[j], later[j]) : j \in 1..Len(scenarios)}
  BY <1>2, <1>5 DEF rec
<1>7. rec \notin others
  BY <1>1, <1>3, <1>5
<1>8. IsFiniteSet(others) /\ Cardinality(others) = Len(scenarios) - 1
  <2>1. IsFiniteSet(others) /\ Cardinality(others) = Cardinality(rows) - 1
    BY <1>1, <1>3, FS_RemoveElement DEF others
  <2> QED
    BY <1>1, <2>1
<1>9. IsFiniteSet(others \cup {rec}) /\ Cardinality(others \cup {rec}) = Len(scenarios)
  <2>1. IsFiniteSet(others \cup {rec}) /\ Cardinality(others \cup {rec}) = Cardinality(others) + 1
    BY <1>7, <1>8, FS_AddElement
  <2>2. Len(scenarios) \in Nat
    BY <1>1
  <2> QED
    BY <1>8, <2>1, <2>2
<1>10. RowsOf(scenarios, later, others \cup {rec})
  BY <1>1, <1>2, <1>6, <1>9 DEF RowsOf
<1> QED
  BY <1>10 DEF later, others, old, rec

\* A new scenario comes last.
LEMMA RowIsAdded ==
  ASSUME NEW scenarios, NEW state, NEW rows, RowsOf(scenarios, state, rows),
         NEW shared \in Shared, NEW new \in SharedState,
         \A k \in 1..Len(scenarios) : scenarios[k].id # shared.id
  PROVE  RowsOf(Append(scenarios, shared), Append(state, new), rows \cup {Row(shared, new)})
<1> DEFINE longer == Append(scenarios, shared)
           later == Append(state, new)
           rec == Row(shared, new)
           n == Len(scenarios)
<1>1. /\ scenarios \in Seq(Shared) /\ state \in Seq(SharedState) /\ Len(state) = n /\ n \in Nat
      /\ \A i, j \in 1..n : scenarios[i].id = scenarios[j].id => i = j
      /\ rows = {Row(scenarios[j], state[j]) : j \in 1..n}
      /\ IsFiniteSet(rows) /\ Cardinality(rows) = n
  BY DEF RowsOf
<1>2. /\ longer \in Seq(Shared) /\ Len(longer) = n + 1 /\ longer[n + 1] = shared
      /\ \A j \in 1..n : longer[j] = scenarios[j]
  BY <1>1
<1>3. /\ later \in Seq(SharedState) /\ Len(later) = n + 1 /\ later[n + 1] = new
      /\ \A j \in 1..n : later[j] = state[j]
  BY <1>1
<1>4. rec.id = shared.id /\ \A j \in 1..n : Row(scenarios[j], state[j]).id = scenarios[j].id
  BY DEF Row
<1> HIDE DEF longer, later, rec, n
<1>5. 1..(n + 1) = 1..n \cup {n + 1}
  BY <1>1
<1>6. rows \cup {rec} = {Row(longer[j], later[j]) : j \in 1..(n + 1)}
  <2>1. \A j \in 1..n : Row(longer[j], later[j]) = Row(scenarios[j], state[j])
    BY <1>2, <1>3
  <2>2. Row(longer[n + 1], later[n + 1]) = rec
    BY <1>2, <1>3 DEF rec
  <2>3. rows \subseteq {Row(longer[j], later[j]) : j \in 1..(n + 1)}
    BY <1>1, <1>5, <2>1
  <2>4. \A j \in 1..(n + 1) : Row(longer[j], later[j]) \in rows \cup {rec}
    BY <1>1, <1>5, <2>1, <2>2
  <2> QED
    BY <1>5, <2>2, <2>3, <2>4
<1>7. rec \notin rows
  BY <1>1, <1>4 DEF n
<1>8. IsFiniteSet(rows \cup {rec}) /\ Cardinality(rows \cup {rec}) = n + 1
  BY <1>1, <1>7, FS_AddElement
<1>9. \A i, j \in 1..(n + 1) : longer[i].id = longer[j].id => i = j
  BY <1>1, <1>2, <1>5 DEF n
<1>10. RowsOf(longer, later, rows \cup {rec})
  BY <1>2, <1>3, <1>6, <1>8, <1>9 DEF RowsOf
<1> QED
  BY <1>10 DEF longer, later, rec

\* Updates of the two stores, field by field.
LEMMA StoreUpdates ==
  ASSUME NEW scenarios, NEW state, NEW rows, NEW k, NEW new, NEW others,
         NEW m1, NEW m2, NEW t1, NEW t2
  PROVE  LET inMemory == [runs |-> m1, scenarios |-> scenarios, state |-> state, reservations |-> m2]
             onTables == [runs |-> t1, scenarios |-> rows, reservations |-> t2]
         IN /\ [inMemory EXCEPT !.state[k] = new] =
                  [runs |-> m1, scenarios |-> scenarios, state |-> [state EXCEPT ![k] = new], reservations |-> m2]
            /\ [onTables EXCEPT !.scenarios = others] = [runs |-> t1, scenarios |-> others, reservations |-> t2]
<1> DEFINE inMemory == [runs |-> m1, scenarios |-> scenarios, state |-> state, reservations |-> m2]
           onTables == [runs |-> t1, scenarios |-> rows, reservations |-> t2]
           later == [state EXCEPT ![k] = new]
<1>1. [inMemory EXCEPT !.state[k] = new] = [inMemory EXCEPT !.state = later]
  <2>1. inMemory.state = state
    OBVIOUS
  <2> HIDE DEF inMemory
  <2> QED
    BY <2>1
<1>2. [inMemory EXCEPT !.state = later] = [runs |-> m1, scenarios |-> scenarios, state |-> later, reservations |-> m2]
  <2> HIDE DEF later
  <2> QED
    OBVIOUS
<1>3. [onTables EXCEPT !.scenarios = others] = [runs |-> t1, scenarios |-> others, reservations |-> t2]
  OBVIOUS
<1> QED
  BY <1>1, <1>2, <1>3

\* The answer of the store in memory to a change of the scenario at a place.
LEMMA MemoryChanges ==
  ASSUME StoresInv, NEW id \in Nat, Has(memory.scenarios, id), NEW new \in SharedState, NEW token \in Tokens
  PROVE  LET k == IndexOf(memory.scenarios, id)
             store == [memory EXCEPT !.state[k] = new]
         IN /\ store = [runs |-> memory.runs, scenarios |-> memory.scenarios, state |-> [memory.state EXCEPT ![k] = new],
                        reservations |-> memory.reservations]
            /\ MemoryView(store, id, token) = ViewOf(memory.scenarios[k], new, token)
<1> DEFINE k == IndexOf(memory.scenarios, id)
           store == [memory EXCEPT !.state[k] = new]
<1>1. k \in 1..Len(memory.scenarios) /\ memory.scenarios[k].id = id
  BY RowIsFound DEF StoresInv
<1>2. /\ memory = [runs |-> memory.runs, scenarios |-> memory.scenarios, state |-> memory.state, reservations |-> memory.reservations]
      /\ memory.state \in Seq(SharedState) /\ Len(memory.state) = Len(memory.scenarios)
  BY DEF StoresInv, RowsOf
<1> HIDE DEF k
<1>3. store = [runs |-> memory.runs, scenarios |-> memory.scenarios, state |-> [memory.state EXCEPT ![k] = new],
               reservations |-> memory.reservations]
  <2> DEFINE p == memory.scenarios
             q == memory.state
  <2>1. memory = [runs |-> memory.runs, scenarios |-> p, state |-> q, reservations |-> memory.reservations]
    BY <1>2
  <2> HIDE DEF p, q
  <2>2. store = [[runs |-> memory.runs, scenarios |-> p, state |-> q, reservations |-> memory.reservations] EXCEPT !.state[k] = new]
    BY <2>1 DEF store
  <2>3. store = [runs |-> memory.runs, scenarios |-> p, state |-> [q EXCEPT ![k] = new], reservations |-> memory.reservations]
    BY <2>2, StoreUpdates
  <2> QED
    BY <2>3 DEF p, q
<1>4. store.scenarios = memory.scenarios /\ store.state[k] = new
  BY <1>1, <1>2, <1>3
<1> HIDE DEF store
<1>5. MemoryView(store, id, token) = ViewOf(memory.scenarios[k], new, token)
  BY <1>1, <1>4 DEF MemoryView, ViewOf, k
<1> QED
  BY <1>3, <1>5 DEF store, k

\* What every call but ShareScenario does: one scenario gets a new state in both
\* stores, which answer what they show of it.
LEMMA BothChange ==
  ASSUME StoresInv, NEW id \in Nat, Has(memory.scenarios, id), NEW new \in SharedState, NEW token \in Tokens,
         UNCHANGED <<runsMade, scenariosMade, clock>>,
         LET k == IndexOf(memory.scenarios, id)
             rec == Row(memory.scenarios[k], new)
             store == [memory EXCEPT !.state[k] = new]
         IN /\ memory' = store
            /\ tables' = [tables EXCEPT !.scenarios = (@ \ {Row(memory.scenarios[k], memory.state[k])}) \cup {rec}]
            /\ answers' = <<MemoryView(store, id, token), MapScenario(rec, token)>>
  PROVE  StoresInv'
<1> DEFINE k == IndexOf(memory.scenarios, id)
           rec == Row(memory.scenarios[k], new)
           old == Row(memory.scenarios[k], memory.state[k])
           store == [memory EXCEPT !.state[k] = new]
<1>1. k \in 1..Len(memory.scenarios) /\ memory.scenarios[k] \in Shared
  BY RowIsFound DEF StoresInv
<1>2. RowsOf(memory.scenarios, [memory.state EXCEPT ![k] = new], (tables.scenarios \ {old}) \cup {rec})
  <2> HIDE DEF k
  <2> QED
    BY <1>1, RowChanges DEF StoresInv
<1>3. /\ store = [runs |-> memory.runs, scenarios |-> memory.scenarios, state |-> [memory.state EXCEPT ![k] = new],
                  reservations |-> memory.reservations]
      /\ MemoryView(store, id, token) = ViewOf(memory.scenarios[k], new, token)
  BY MemoryChanges
<1>4. MapScenario(rec, token) = ViewOf(memory.scenarios[k], new, token)
  <2> HIDE DEF k
  <2> QED
    BY <1>1, RowIsSeen
<1>5. /\ memory' = store /\ answers' = <<MemoryView(store, id, token), MapScenario(rec, token)>>
      /\ tables' = [tables EXCEPT !.scenarios = (tables.scenarios \ {old}) \cup {rec}]
  OBVIOUS
<1> HIDE DEF k, rec, old, store
<1>6. tables = [runs |-> tables.runs, scenarios |-> tables.scenarios, reservations |-> tables.reservations]
  BY DEF StoresInv
<1>7. tables' = [runs |-> tables.runs, scenarios |-> (tables.scenarios \ {old}) \cup {rec}, reservations |-> tables.reservations]
  <2> DEFINE p == tables.scenarios
             others == (p \ {old}) \cup {rec}
  <2>1. tables = [runs |-> tables.runs, scenarios |-> p, reservations |-> tables.reservations] /\ tables' = [tables EXCEPT !.scenarios = others]
    BY <1>5, <1>6
  <2> HIDE DEF p, others
  <2>2. tables' = [runs |-> tables.runs, scenarios |-> others, reservations |-> tables.reservations]
    BY <2>1, StoreUpdates
  <2> QED
    BY <2>2 DEF p, others
<1>8. /\ memory'.runs = memory.runs /\ memory'.reservations = memory.reservations
      /\ tables'.runs = tables.runs /\ tables'.reservations = tables.reservations
      /\ memory'.scenarios = memory.scenarios /\ memory'.state = [memory.state EXCEPT ![k] = new]
      /\ memory' = [runs |-> memory'.runs, scenarios |-> memory'.scenarios, state |-> memory'.state,
                     reservations |-> memory'.reservations]
      /\ tables'.scenarios = (tables.scenarios \ {old}) \cup {rec}
      /\ tables' = [runs |-> tables'.runs, scenarios |-> tables'.scenarios, reservations |-> tables'.reservations]
  <2>1. memory' = [runs |-> memory.runs, scenarios |-> memory.scenarios, state |-> [memory.state EXCEPT ![k] = new],
                   reservations |-> memory.reservations]
    BY <1>3, <1>5
  <2>2. /\ memory'.scenarios = memory.scenarios /\ memory'.state = [memory.state EXCEPT ![k] = new]
        /\ memory'.runs = memory.runs /\ memory'.reservations = memory.reservations
    BY <2>1
  <2>3. /\ tables'.scenarios = (tables.scenarios \ {old}) \cup {rec}
        /\ tables'.runs = tables.runs /\ tables'.reservations = tables.reservations
    BY <1>7
  <2> QED
    BY <1>7, <2>1, <2>2, <2>3, Zenon
<1>9. answers'[1] = answers'[2]
  BY <1>3, <1>4, <1>5
<1>10. RowsOf(memory'.scenarios, memory'.state, tables'.scenarios)
  BY <1>2, <1>8
<1>11. OthersInv'
  BY <1>8 DEF StoresInv, OthersInv
<1> QED
  BY <1>8, <1>9, <1>10, <1>11 DEF StoresInv

\* A call that both refuse.
LEMMA BothRefuse ==
  ASSUME StoresInv, UNCHANGED <<memory, tables, runsMade, clock>>, scenariosMade' \in Nat, scenariosMade <= scenariosMade',
         answers'[1] = answers'[2]
  PROVE  StoresInv'
<1>1. \A k \in 1..Len(memory.scenarios) : memory.scenarios[k].id <= scenariosMade'
  <2>1. \A k \in 1..Len(memory.scenarios) : memory.scenarios[k].id \in Nat /\ memory.scenarios[k].id <= scenariosMade
    <3>1. memory.scenarios \in Seq(Shared)
      BY DEF StoresInv, RowsOf
    <3>2. \A k \in 1..Len(memory.scenarios) : memory.scenarios[k] \in Shared
      BY <3>1
    <3> QED
      BY <3>2 DEF StoresInv, Shared
  <2> QED
    BY <2>1 DEF StoresInv
<1>2. OthersInv'
  BY DEF StoresInv, OthersInv
<1> QED
  BY <1>1, <1>2 DEF StoresInv

\* What a call does to both stores.
LEMMA CallMoves ==
  ASSUME NEW inMemory, NEW onTables, Call(inMemory, onTables)
  PROVE  /\ memory' = inMemory.store /\ tables' = onTables.store
         /\ answers' = <<inMemory.answer, onTables.answer>>
         /\ answers'[1] = inMemory.answer /\ answers'[2] = onTables.answer
  BY DEF Call

LEMMA MarkScenarioRunInv == StoresInv /\ MarkScenarioRun => StoresInv'
<1> SUFFICES ASSUME StoresInv, MarkScenarioRun PROVE StoresInv'
  OBVIOUS
<1>1. PICK id \in 1..scenariosMade :
        /\ Call(MemoryChange(id, TRUE, Null, FirstRun), UpdateRow(LAMBDA r : r.id = id, Null, FirstRun))
        /\ UNCHANGED <<runsMade, scenariosMade, clock>>
  BY DEF MarkScenarioRun
<1>2. id \in Nat /\ clock \in Nat /\ scenariosMade \in Nat /\ Null \in Tokens
      /\ RowsOf(memory.scenarios, memory.state, tables.scenarios)
  BY DEF StoresInv, Tokens
<1> DEFINE inMemory == MemoryChange(id, TRUE, Null, FirstRun)
           onTables == UpdateRow(LAMBDA r : r.id = id, Null, FirstRun)
           rows == {r \in tables.scenarios : r.id = id}
           k == IndexOf(memory.scenarios, id)
<1>3. memory' = inMemory.store /\ tables' = onTables.store /\ answers' = <<inMemory.answer, onTables.answer>>
  BY <1>1, CallMoves
<1>4. CASE ~Has(memory.scenarios, id)
  <2>1. inMemory = [store |-> memory, answer |-> Missing]
    BY <1>4 DEF MemoryChange
  <2>2. rows = {}
    BY <1>2, <1>4, RowIsMissing
  <2>3. onTables = [store |-> tables, answer |-> Missing]
    BY <2>2 DEF UpdateRow
  <2> HIDE DEF inMemory, onTables
  <2>4. memory' = memory /\ tables' = tables /\ answers'[1] = answers'[2]
    BY <1>3, <2>1, <2>3
  <2> QED
    BY <1>1, <1>2, <2>4, BothRefuse
<1>5. CASE Has(memory.scenarios, id)
  <2> DEFINE new == FirstRun(memory.state[k])
             rec == Row(memory.scenarios[k], new)
             old == Row(memory.scenarios[k], memory.state[k])
             store == [memory EXCEPT !.state[k] = new]
  <2>1. /\ rows = {old} /\ memory.scenarios[k] \in Shared /\ memory.state[k] \in SharedState
    BY <1>2, <1>5, RowIsFound
  <2>2. new \in SharedState
    BY <1>2, <2>1 DEF FirstRun, SharedState, Never
  <2>3. FirstRun(old) = rec
    BY <2>1 DEF FirstRun, Row, SharedState
  <2>4. inMemory = [store |-> store, answer |-> MemoryView(store, id, Null)]
    BY <1>5 DEF MemoryChange
  <2>5. onTables = [store |-> [tables EXCEPT !.scenarios = (@ \ {old}) \cup {rec}], answer |-> MapScenario(rec, Null)]
    <3>1. rows # {} /\ (CHOOSE r \in rows : TRUE) = old
      BY <2>1
    <3>2. onTables = IF rows = {} THEN [store |-> tables, answer |-> Missing]
                     ELSE LET r == CHOOSE r \in rows : TRUE
                          IN [store |-> [tables EXCEPT !.scenarios = (@ \ {r}) \cup {FirstRun(r)}],
                              answer |-> MapScenario(FirstRun(r), Null)]
      BY DEF UpdateRow
    <3> HIDE DEF onTables, rows, rec, old
    <3> QED
      BY <2>3, <3>1, <3>2
  <2> HIDE DEF inMemory, onTables
  <2>6. /\ memory' = store /\ tables' = [tables EXCEPT !.scenarios = (@ \ {old}) \cup {rec}]
        /\ answers' = <<MemoryView(store, id, Null), MapScenario(rec, Null)>>
    <3> HIDE DEF store, rec, old
    <3> QED
      BY <1>3, <2>4, <2>5
  <2> HIDE DEF new
  <2> QED
    BY <1>1, <1>2, <1>5, <2>2, <2>6, BothChange
<1> QED
  BY <1>4, <1>5

LEMMA SetScenarioRevealInv == StoresInv /\ SetScenarioReveal => StoresInv'
<1> SUFFICES ASSUME StoresInv, SetScenarioReveal PROVE StoresInv'
  OBVIOUS
<1>1. PICK id \in 1..scenariosMade, token \in Tokens \ {Null}, revealed \in BOOLEAN :
        LET Reveal(s) == [s EXCEPT !.candidateRevealed = revealed]
            Matches(r) == r.id = id /\ r.hostTokenHash = <<"sha256", token>>
        IN /\ Call(MemoryChange(id, token = "host", token, Reveal), UpdateRow(Matches, token, Reveal))
           /\ UNCHANGED <<runsMade, scenariosMade, clock>>
  BY DEF SetScenarioReveal
<1>2. id \in Nat /\ clock \in Nat /\ scenariosMade \in Nat /\ token \in Tokens
      /\ RowsOf(memory.scenarios, memory.state, tables.scenarios)
  BY DEF StoresInv
<1> DEFINE Reveal(s) == [s EXCEPT !.candidateRevealed = revealed]
           Matches(r) == r.id = id /\ r.hostTokenHash = <<"sha256", token>>
           inMemory == MemoryChange(id, token = "host", token, Reveal)
           onTables == UpdateRow(Matches, token, Reveal)
           rows == {r \in tables.scenarios : Matches(r)}
           k == IndexOf(memory.scenarios, id)
<1>3. memory' = inMemory.store /\ tables' = onTables.store /\ answers' = <<inMemory.answer, onTables.answer>>
  BY <1>1, CallMoves
<1>4. CASE ~Has(memory.scenarios, id) \/ token # "host"
  <2>1. inMemory = [store |-> memory, answer |-> Missing]
    BY <1>4 DEF MemoryChange
  <2>2. rows = {}
    <3>1. CASE ~Has(memory.scenarios, id)
      BY <1>2, <3>1, RowIsMissing
    <3>2. CASE token # "host"
      <4>1. \A r \in tables.scenarios : r.hostTokenHash = <<"sha256", "host">>
        BY <1>2 DEF RowsOf, Row
      <4> QED
        BY <3>2, <4>1
    <3> QED
      BY <1>4, <3>1, <3>2
  <2>3. onTables = [store |-> tables, answer |-> Missing]
    BY <2>2 DEF UpdateRow
  <2> HIDE DEF inMemory, onTables
  <2>4. memory' = memory /\ tables' = tables /\ answers'[1] = answers'[2]
    BY <1>3, <2>1, <2>3
  <2> QED
    BY <1>1, <1>2, <2>4, BothRefuse
<1>5. CASE Has(memory.scenarios, id) /\ token = "host"
  <2> DEFINE new == Reveal(memory.state[k])
             rec == Row(memory.scenarios[k], new)
             old == Row(memory.scenarios[k], memory.state[k])
             store == [memory EXCEPT !.state[k] = new]
  <2>1. /\ rows = {old} /\ memory.scenarios[k] \in Shared /\ memory.state[k] \in SharedState
    <3>1. /\ {r \in tables.scenarios : r.id = id} = {old}
          /\ memory.scenarios[k] \in Shared /\ memory.state[k] \in SharedState
      BY <1>2, <1>5, RowIsFound
    <3>2. old.hostTokenHash = <<"sha256", token>>
      BY <1>5 DEF Row
    <3> HIDE DEF old, k
    <3> QED
      BY <3>1, <3>2
  <2>2. new \in SharedState
    BY <1>2, <2>1 DEF SharedState
  <2>3. Reveal(old) = rec
    BY <2>1 DEF Row, SharedState
  <2>4. inMemory = [store |-> store, answer |-> MemoryView(store, id, token)]
    BY <1>5 DEF MemoryChange
  <2>5. onTables = [store |-> [tables EXCEPT !.scenarios = (@ \ {old}) \cup {rec}], answer |-> MapScenario(rec, token)]
    <3>1. rows # {} /\ (CHOOSE r \in rows : TRUE) = old
      BY <2>1
    <3>2. onTables = IF rows = {} THEN [store |-> tables, answer |-> Missing]
                     ELSE LET r == CHOOSE r \in rows : TRUE
                          IN [store |-> [tables EXCEPT !.scenarios = (@ \ {r}) \cup {Reveal(r)}],
                              answer |-> MapScenario(Reveal(r), token)]
      BY DEF UpdateRow
    <3> HIDE DEF onTables, rows, rec, old
    <3> QED
      BY <2>3, <3>1, <3>2
  <2> HIDE DEF inMemory, onTables
  <2>6. /\ memory' = store /\ tables' = [tables EXCEPT !.scenarios = (@ \ {old}) \cup {rec}]
        /\ answers' = <<MemoryView(store, id, token), MapScenario(rec, token)>>
    <3> HIDE DEF store, rec, old
    <3> QED
      BY <1>3, <2>4, <2>5
  <2> HIDE DEF new
  <2> QED
    BY <1>1, <1>2, <1>5, <2>2, <2>6, BothChange
<1> QED
  BY <1>4, <1>5

LEMMA PatchesAre ==
  ASSUME NEW patch \in Patches
  PROVE  patch.candidateNotes \in Texts \cup {Null} /\ patch.interviewerNotes \in Texts \cup {Null}
<1>1. \/ patch = [NoPatch EXCEPT !.candidateNotes = "text"] \/ patch = [NoPatch EXCEPT !.interviewerNotes = "text"]
      \/ patch = [NoPatch EXCEPT !.candidateNotes = "", !.clockAction = "start"]
      \/ patch = [NoPatch EXCEPT !.clockAction = "reset"]
  BY DEF Patches
<1> QED
  BY <1>1 DEF NoPatch, Texts

LEMMA UpdateScenarioCollaborationInv == StoresInv /\ UpdateScenarioCollaboration => StoresInv'
<1> SUFFICES ASSUME StoresInv, UpdateScenarioCollaboration PROVE StoresInv'
  OBVIOUS
<1>1. PICK id \in 1..scenariosMade, token \in Tokens, patch \in Patches :
        /\ Call(MemoryCollaborate(id, token, patch), TablesCollaborate(id, token, patch))
        /\ UNCHANGED <<runsMade, scenariosMade, clock>>
  BY DEF UpdateScenarioCollaboration
<1>2. id \in Nat /\ clock \in Nat /\ scenariosMade \in Nat
      /\ RowsOf(memory.scenarios, memory.state, tables.scenarios)
  BY DEF StoresInv
<1> DEFINE inMemory == MemoryCollaborate(id, token, patch)
           onTables == TablesCollaborate(id, token, patch)
           current == TablesView(id, token)
           k == IndexOf(memory.scenarios, id)
<1>3. memory' = inMemory.store /\ tables' = onTables.store /\ answers' = <<inMemory.answer, onTables.answer>>
  BY <1>1, CallMoves
<1>4. current = MemoryView(memory, id, token)
  BY <1>2, ViewsAgree
<1>5. Has(memory.scenarios, id) => current # Missing /\ current.isHost = (token = "host")
  <2>1. SUFFICES ASSUME Has(memory.scenarios, id) PROVE current # Missing /\ current.isHost = (token = "host")
    OBVIOUS
  <2>2. "isHost" \in DOMAIN current /\ current.isHost = (token = "host")
    BY <1>4, <2>1 DEF MemoryView
  <2>3. DOMAIN Missing = {"missing"}
    BY DEF Missing
  <2> HIDE DEF current
  <2> QED
    BY <2>2, <2>3
<1>6. CASE ~Has(memory.scenarios, id) \/ (Private(patch) /\ token # "host")
  <2>1. inMemory = [store |-> memory, answer |-> Missing]
    BY <1>6 DEF MemoryCollaborate, MemoryChange
  <2>2. current = Missing \/ (Private(patch) /\ ~current.isHost)
    <3>1. CASE ~Has(memory.scenarios, id)
      BY <1>4, <3>1 DEF MemoryView
    <3>2. CASE Has(memory.scenarios, id)
      BY <1>5, <1>6, <3>2
    <3> QED
      BY <3>1, <3>2
  <2>3. onTables = [store |-> tables, answer |-> Missing]
    BY <2>2 DEF TablesCollaborate
  <2> HIDE DEF inMemory, onTables
  <2>4. memory' = memory /\ tables' = tables /\ answers'[1] = answers'[2]
    BY <1>3, <2>1, <2>3
  <2> QED
    BY <1>1, <1>2, <2>4, BothRefuse
<1>7. CASE Has(memory.scenarios, id) /\ (~Private(patch) \/ token = "host")
  <2> DEFINE Given(value, old) == IF value # Null THEN value ELSE old
             clockOf(s) == CASE patch.clockAction = "start" -> clock
                             [] patch.clockAction = "reset" -> Never
                             [] OTHER -> s.sessionStartedAt
             shared == memory.scenarios[k]
             state == memory.state[k]
             new == [state EXCEPT !.candidateNotes = Given(patch.candidateNotes, state.candidateNotes),
                                  !.interviewerNotes = Given(patch.interviewerNotes, state.interviewerNotes),
                                  !.sessionStartedAt = clockOf(state), !.updatedAt = clock]
             rec == Row(shared, new)
             old == Row(shared, state)
             changed == [old EXCEPT !.candidateNotes = Given(patch.candidateNotes, old.candidateNotes),
                                    !.interviewerNotes = Given(patch.interviewerNotes, old.interviewerNotes),
                                    !.sessionStartedAt = clockOf(old), !.updatedAt = clock]
             store == [memory EXCEPT !.state[k] = new]
             hash == IF Private(patch) /\ token # Null THEN <<"sha256", token>> ELSE Null
             Matches(r) == r.id = id /\ (~(Private(patch) /\ token # Null) \/ r.hostTokenHash = hash)
             rows == {r \in tables.scenarios : Matches(r)}
  <2>1. /\ rows = {old} /\ shared \in Shared /\ state \in SharedState
    <3>1. {r \in tables.scenarios : r.id = id} = {old} /\ shared \in Shared /\ state \in SharedState
      BY <1>2, <1>7, RowIsFound
    <3>2. ~(Private(patch) /\ token # Null) \/ old.hostTokenHash = hash
      BY <1>7 DEF Row
    <3> HIDE DEF old, hash, state, shared
    <3> QED
      BY <3>1, <3>2
  <2> HIDE DEF shared, state
  <2>2. new \in SharedState
    <3> DEFINE c == Given(patch.candidateNotes, state.candidateNotes)
               i == Given(patch.interviewerNotes, state.interviewerNotes)
               at == clockOf(state)
    <3>1. c \in Texts /\ i \in Texts /\ at \in Int /\ clock \in Int
      BY <1>2, <2>1, PatchesAre DEF SharedState, Never
    <3> HIDE DEF c, i, at
    <3>2. [state EXCEPT !.candidateNotes = c, !.interviewerNotes = i, !.sessionStartedAt = at, !.updatedAt = clock]
            \in SharedState
      BY <2>1, <3>1 DEF SharedState
    <3> QED
      BY <3>2 DEF c, i, at
  <2>3. changed = rec
    <3>1. /\ old.candidateNotes = state.candidateNotes /\ old.interviewerNotes = state.interviewerNotes
          /\ old.sessionStartedAt = state.sessionStartedAt
      BY DEF Row
    <3> DEFINE c == Given(patch.candidateNotes, state.candidateNotes)
               i == Given(patch.interviewerNotes, state.interviewerNotes)
               at == clockOf(state)
    <3>2. changed = [old EXCEPT !.candidateNotes = c, !.interviewerNotes = i, !.sessionStartedAt = at, !.updatedAt = clock]
      <4> HIDE DEF old
      <4> QED
        BY <3>1
    <3>3. new = [state EXCEPT !.candidateNotes = c, !.interviewerNotes = i, !.sessionStartedAt = at, !.updatedAt = clock]
      OBVIOUS
    <3> HIDE DEF c, i, at, changed, new
    <3> QED
      BY <2>1, <3>2, <3>3 DEF Row, SharedState
  <2>4. inMemory = [store |-> store, answer |-> MemoryView(store, id, token)]
    BY <1>7 DEF MemoryCollaborate, MemoryChange, state
  <2>5. onTables = [store |-> [tables EXCEPT !.scenarios = (@ \ {old}) \cup {rec}], answer |-> MapScenario(rec, token)]
    <3>1. rows # {} /\ (CHOOSE r \in rows : TRUE) = old
      BY <2>1
    <3>2. ~(current = Missing) /\ ~(Private(patch) /\ ~current.isHost)
      BY <1>5, <1>7
    <3> DEFINE Coalesce(value, was) == IF value = Null THEN was ELSE value
               Change(r) == [r EXCEPT !.candidateNotes = Coalesce(patch.candidateNotes, r.candidateNotes),
                                      !.interviewerNotes = Coalesce(patch.interviewerNotes, r.interviewerNotes),
                                      !.sessionStartedAt = clockOf(r), !.updatedAt = clock]
    <3>3. onTables = UpdateRow(Matches, token, Change)
      BY <3>2 DEF TablesCollaborate
    <3>4. Change(old) = changed
      <4> HIDE DEF old
      <4> QED
        OBVIOUS
    <3>5. UpdateRow(Matches, token, Change) =
            IF rows = {} THEN [store |-> tables, answer |-> Missing]
            ELSE LET r == CHOOSE r \in rows : TRUE
                 IN [store |-> [tables EXCEPT !.scenarios = (@ \ {r}) \cup {Change(r)}],
                     answer |-> MapScenario(Change(r), token)]
      BY DEF UpdateRow
    <3> HIDE DEF onTables, rows, rec, old, changed, Change
    <3> QED
      BY <2>3, <3>1, <3>3, <3>4, <3>5
  <2> HIDE DEF inMemory, onTables
  <2>6. /\ memory' = store /\ tables' = [tables EXCEPT !.scenarios = (@ \ {old}) \cup {rec}]
        /\ answers' = <<MemoryView(store, id, token), MapScenario(rec, token)>>
    <3> HIDE DEF store, rec, old
    <3> QED
      BY <1>3, <2>4, <2>5
  <2> HIDE DEF new
  <2> QED
    BY <1>1, <1>2, <1>7, <2>2, <2>6, BothChange DEF shared, state
<1> QED
  BY <1>6, <1>7

LEMMA ShareScenarioInv == StoresInv /\ ShareScenario => StoresInv'
<1> SUFFICES ASSUME StoresInv, ShareScenario PROVE StoresInv'
  OBVIOUS
<1> DEFINE id == scenariosMade + 1
<1>1. PICK scenario \in Scenarios :
        /\ Call(MemoryShare(id, scenario), TablesShare(id, scenario))
        /\ scenariosMade' = scenariosMade + 1
        /\ UNCHANGED <<runsMade, clock>>
  BY DEF ShareScenario
<1> DEFINE inMemory == MemoryShare(id, scenario)
           onTables == TablesShare(id, scenario)
           p == memory.scenarios
           q == memory.state
           rows == tables.scenarios
<1>2. memory' = inMemory.store /\ tables' = onTables.store /\ answers' = <<inMemory.answer, onTables.answer>>
  BY <1>1, CallMoves
<1>3. /\ clock \in Nat /\ scenariosMade \in Nat /\ scenariosMade' \in Nat /\ scenariosMade <= scenariosMade'
      /\ id \in Nat /\ RowsOf(p, q, rows) /\ Cardinality(rows) = Len(p)
  BY <1>1 DEF StoresInv, RowsOf
<1>4. CASE Len(p) >= MaxShared
  <2>1. inMemory = [store |-> memory, answer |-> Refused(60)] /\ onTables = [store |-> tables, answer |-> Refused(60)]
    BY <1>3, <1>4 DEF MemoryShare, TablesShare
  <2> HIDE DEF inMemory, onTables
  <2>2. memory' = memory /\ tables' = tables /\ answers'[1] = answers'[2]
    BY <1>2, <2>1
  <2> QED
    BY <1>1, <1>3, <2>2, BothRefuse
<1>5. CASE ~(Len(p) >= MaxShared)
  <2> DEFINE shared == [id |-> id, scenario |-> scenario]
             new == [candidateRevealed |-> FALSE, firstRunAt |-> Never, candidateNotes |-> "", interviewerNotes |-> "",
                     sessionStartedAt |-> Never, updatedAt |-> clock]
             rec == Row(shared, new)
  <2>1. shared \in Shared /\ new \in SharedState
    BY <1>3 DEF Shared, SharedState, Never, Texts
  <2>2. rec = [id |-> id, scenario |-> scenario, hostTokenHash |-> <<"sha256", "host">>,
               candidateRevealed |-> FALSE, firstRunAt |-> Never, candidateNotes |-> "",
               interviewerNotes |-> "", sessionStartedAt |-> Never, updatedAt |-> clock]
    BY DEF Row
  <2>3. \A k \in 1..Len(p) : p[k].id \in Nat /\ p[k].id <= scenariosMade
    <3>1. p \in Seq(Shared)
      BY <1>3 DEF RowsOf
    <3>2. \A k \in 1..Len(p) : p[k] \in Shared
      BY <3>1
    <3> QED
      BY <3>2 DEF StoresInv, Shared
  <2>4. inMemory = [store |-> [memory EXCEPT !.scenarios = Append(p, shared), !.state = Append(q, new)], answer |-> shared]
    BY <1>5 DEF MemoryShare
  <2>5. onTables = [store |-> [tables EXCEPT !.scenarios = rows \cup {rec}], answer |-> shared]
    <3> HIDE DEF rec, new
    <3>1. onTables = [store |-> [tables EXCEPT !.scenarios = @ \cup {rec}], answer |-> shared]
      BY <1>3, <1>5, <2>2 DEF TablesShare
    <3> QED
      BY <3>1
  <2>6. RowsOf(Append(p, shared), Append(q, new), rows \cup {rec})
    <3>1. \A k \in 1..Len(p) : p[k].id # shared.id
      BY <1>3, <2>3
    <3> HIDE DEF shared, new, p, q, rows
    <3> QED
      BY <1>3, <2>1, <3>1, RowIsAdded
  <2> DEFINE longer == Append(p, shared)
             later == Append(q, new)
             more == rows \cup {rec}
  <2>7. /\ memory' = [memory EXCEPT !.scenarios = longer, !.state = later]
        /\ tables' = [tables EXCEPT !.scenarios = more] /\ answers'[1] = answers'[2]
    <3> HIDE DEF inMemory, onTables, longer, later, more, shared
    <3> QED
      BY <1>2, <2>4, <2>5 DEF longer, later, more
  <2>8. /\ memory = [runs |-> memory.runs, scenarios |-> p, state |-> q, reservations |-> memory.reservations]
        /\ tables = [runs |-> tables.runs, scenarios |-> rows, reservations |-> tables.reservations]
    BY DEF StoresInv
  <2>9. \A k \in 1..Len(longer) : longer[k].id <= id
    <3>1. p \in Seq(Shared) /\ longer \in Seq(Shared) /\ shared.id = id
      <4>1. p \in Seq(Shared)
        BY <1>3 DEF RowsOf
      <4>2. shared.id = id
        OBVIOUS
      <4>3. shared \in Shared
        BY <2>1
      <4> HIDE DEF shared, p, id
      <4>4. Append(p, shared) \in Seq(Shared)
        BY <4>1, <4>3
      <4> QED
        BY <4>1, <4>2, <4>4
    <3>2. Len(longer) = Len(p) + 1 /\ longer[Len(p) + 1] = shared /\ \A k \in 1..Len(p) : longer[k] = p[k]
      BY <3>1
    <3>3. \A k \in 1..Len(longer) : k \in 1..Len(p) \/ k = Len(p) + 1
      BY <3>1, <3>2
    <3> HIDE DEF longer, shared
    <3>4. longer[Len(p) + 1].id <= id
      BY <1>3, <3>1, <3>2
    <3>5. \A k \in 1..Len(p) : longer[k].id <= id
      <4> HIDE DEF p
      <4> QED
        BY <1>3, <2>3, <3>2
    <3> HIDE DEF id, p
    <3> QED
      BY <3>3, <3>4, <3>5
  <2> HIDE DEF longer, later, more, p, q, rows, shared, new, rec
  <2>10. /\ memory' = [runs |-> memory.runs, scenarios |-> longer, state |-> later, reservations |-> memory.reservations]
         /\ tables' = [runs |-> tables.runs, scenarios |-> more, reservations |-> tables.reservations]
    <3>1. memory' = [runs |-> memory.runs, scenarios |-> longer, state |-> later, reservations |-> memory.reservations]
      BY <2>7, <2>8
    <3>2. tables' = [runs |-> tables.runs, scenarios |-> more, reservations |-> tables.reservations]
      BY <2>7, <2>8, StoreUpdates
    <3> QED
      BY <3>1, <3>2
  <2>11. /\ memory'.scenarios = longer /\ memory'.state = later /\ tables'.scenarios = more
         /\ memory'.runs = memory.runs /\ memory'.reservations = memory.reservations
         /\ tables'.runs = tables.runs /\ tables'.reservations = tables.reservations
    BY <2>10
  <2>12. RowsOf(longer, later, more)
    BY <2>6 DEF longer, later, more
  <2>13. /\ memory' = [runs |-> memory'.runs, scenarios |-> memory'.scenarios, state |-> memory'.state,
                     reservations |-> memory'.reservations]
         /\ tables' = [runs |-> tables'.runs, scenarios |-> tables'.scenarios, reservations |-> tables'.reservations]
         /\ RowsOf(memory'.scenarios, memory'.state, tables'.scenarios)
         /\ \A k \in 1..Len(memory'.scenarios) : memory'.scenarios[k].id <= id
    BY <2>9, <2>10, <2>11, <2>12, Zenon
  <2>14. OthersInv'
    BY <1>1, <2>11 DEF StoresInv, OthersInv
  <2> QED
    BY <1>1, <1>3, <2>7, <2>13, <2>14 DEF StoresInv
<1> QED
  BY <1>4, <1>5

LEMMA StoresInitInv == StoresInit => StoresInv
<1> SUFFICES ASSUME StoresInit PROVE StoresInv
  OBVIOUS
<1>1. /\ scenariosMade = 0 /\ runsMade = 0 /\ clock = 0 /\ answers[1] = answers[2]
      /\ memory = [runs |-> <<>>, scenarios |-> <<>>, state |-> <<>>, reservations |-> <<>>]
      /\ tables = [runs |-> {}, scenarios |-> {}, reservations |-> {}]
  BY DEF StoresInit
<1>2. /\ memory.scenarios = <<>> /\ memory.state = <<>> /\ memory.runs = <<>> /\ memory.reservations = <<>>
      /\ tables.scenarios = {} /\ tables.runs = {} /\ tables.reservations = {}
  BY <1>1
<1>3. IsFiniteSet({}) /\ Cardinality({}) = 0
  BY FS_EmptySet
<1>4. Len(<<>>) = 0 /\ 1..Len(<<>>) = {}
  OBVIOUS
<1>5. RowsOf(<<>>, <<>>, {})
  <2>1. <<>> \in Seq(Shared) /\ <<>> \in Seq(SharedState)
    OBVIOUS
  <2> QED
    BY <1>3, <1>4, <2>1 DEF RowsOf
<1>6. RunsInOrder(<<>>, 0) /\ RowsOfRuns(<<>>, {}, 0)
  <2>1. <<>> \in Seq(StoredRun) /\ Len(<<>>) <= MaxStored
    BY <1>4, StoresAssumption
  <2> QED
    BY <1>4, <2>1 DEF RunsInOrder, RowsOfRuns
<1>7. RowsOfReservations(<<>>, {})
  <2>1. <<>> \in Seq(Reservation)
    OBVIOUS
  <2> QED
    BY <1>4, <2>1 DEF RowsOfReservations
<1>8. OthersInv
  BY <1>1, <1>2, <1>6, <1>7 DEF OthersInv
<1> QED
  BY <1>1, <1>2, <1>4, <1>5, <1>8 DEF StoresInv

LEMMA WaitInv == StoresInv /\ (Wait \/ UNCHANGED storeVars) => StoresInv'
<1> SUFFICES ASSUME StoresInv, Wait \/ UNCHANGED storeVars PROVE StoresInv'
  OBVIOUS
<1>1. /\ clock \in Nat /\ clock' \in Nat /\ clock <= clock'
      /\ UNCHANGED <<runsMade, scenariosMade, memory, tables, answers>>
  BY DEF Wait, storeVars, StoresInv
<1>2. OthersInv'
  <2>1. RowsOfRuns(memory.runs, tables.runs, clock)
    BY DEF StoresInv, OthersInv
  <2>2. \A r \in tables.runs : r.completedAt \in Int
    BY <2>1 DEF RowsOfRuns, StoredRow
  <2>3. \A r \in tables.runs : ~Active(r) => r.completedAt <= clock'
    BY <1>1, <2>1, <2>2 DEF RowsOfRuns
  <2>4. RowsOfRuns(memory.runs, tables.runs, clock')
    BY <2>1, <2>3 DEF RowsOfRuns
  <2> QED
    BY <1>1, <2>4 DEF StoresInv, OthersInv
<1> QED
  BY <1>1, <1>2 DEF StoresInv

\* Records of the two stores, with one of their fields replaced.
LEMMA MemoryWith ==
  ASSUME NEW a, NEW b, NEW d, NEW e, NEW m, m = [runs |-> d, scenarios |-> a, state |-> b, reservations |-> e]
  PROVE  /\ m.runs = d /\ m.scenarios = a /\ m.state = b /\ m.reservations = e
         /\ \A x : [m EXCEPT !.runs = x] = [runs |-> x, scenarios |-> a, state |-> b, reservations |-> e]
         /\ \A x : [m EXCEPT !.reservations = x] = [runs |-> d, scenarios |-> a, state |-> b, reservations |-> x]
<1>1. ASSUME NEW x PROVE [m EXCEPT !.runs = x] = [runs |-> x, scenarios |-> a, state |-> b, reservations |-> e]
  OBVIOUS
<1>2. ASSUME NEW x PROVE [m EXCEPT !.reservations = x] = [runs |-> d, scenarios |-> a, state |-> b, reservations |-> x]
  OBVIOUS
<1>3. m.runs = d /\ m.scenarios = a /\ m.state = b /\ m.reservations = e
  OBVIOUS
<1> QED
  BY <1>1, <1>2, <1>3

LEMMA TablesWith ==
  ASSUME NEW c, NEW f, NEW g, NEW s, s = [runs |-> f, scenarios |-> c, reservations |-> g]
  PROVE  /\ s.runs = f /\ s.scenarios = c /\ s.reservations = g
         /\ \A x : [s EXCEPT !.runs = x] = [runs |-> x, scenarios |-> c, reservations |-> g]
         /\ \A x : [s EXCEPT !.reservations = x] = [runs |-> f, scenarios |-> c, reservations |-> x]
<1>1. ASSUME NEW x PROVE [s EXCEPT !.runs = x] = [runs |-> x, scenarios |-> c, reservations |-> g]
  OBVIOUS
<1>2. ASSUME NEW x PROVE [s EXCEPT !.reservations = x] = [runs |-> f, scenarios |-> c, reservations |-> x]
  OBVIOUS
<1>3. s.runs = f /\ s.scenarios = c /\ s.reservations = g
  OBVIOUS
<1> QED
  BY <1>1, <1>2, <1>3

\* What the two stores are made of when a call has changed nothing but the runs p and
\* q, or nothing but the reservations u and v.
MemoryOf(p, u) == [runs |-> p, scenarios |-> memory.scenarios, state |-> memory.state, reservations |-> u]
TablesOf(q, v) == [runs |-> q, scenarios |-> tables.scenarios, reservations |-> v]

LEMMA StoresAre ==
  ASSUME StoresInv
  PROVE  /\ memory = MemoryOf(memory.runs, memory.reservations)
         /\ tables = TablesOf(tables.runs, tables.reservations)
         /\ \A x : [memory EXCEPT !.runs = x] = MemoryOf(x, memory.reservations)
         /\ \A x : [tables EXCEPT !.runs = x] = TablesOf(x, tables.reservations)
         /\ \A x : [memory EXCEPT !.reservations = x] = MemoryOf(memory.runs, x)
         /\ \A x : [tables EXCEPT !.reservations = x] = TablesOf(tables.runs, x)
<1>1. memory = [runs |-> memory.runs, scenarios |-> memory.scenarios, state |-> memory.state,
                reservations |-> memory.reservations]
  BY DEF StoresInv
<1>2. tables = [runs |-> tables.runs, scenarios |-> tables.scenarios, reservations |-> tables.reservations]
  BY DEF StoresInv
<1>3. /\ \A x : [memory EXCEPT !.runs = x] = [runs |-> x, scenarios |-> memory.scenarios, state |-> memory.state,
                                              reservations |-> memory.reservations]
      /\ \A x : [memory EXCEPT !.reservations = x] = [runs |-> memory.runs, scenarios |-> memory.scenarios,
                                                      state |-> memory.state, reservations |-> x]
  BY <1>1, MemoryWith
<1>4. /\ \A x : [tables EXCEPT !.runs = x] = [runs |-> x, scenarios |-> tables.scenarios,
                                              reservations |-> tables.reservations]
      /\ \A x : [tables EXCEPT !.reservations = x] = [runs |-> tables.runs, scenarios |-> tables.scenarios,
                                                      reservations |-> x]
  BY <1>2, TablesWith
<1>5. memory = MemoryOf(memory.runs, memory.reservations) /\ tables = TablesOf(tables.runs, tables.reservations)
  BY <1>1, <1>2, Zenon DEF MemoryOf, TablesOf
<1>6. /\ \A x : [memory EXCEPT !.runs = x] = MemoryOf(x, memory.reservations)
      /\ \A x : [memory EXCEPT !.reservations = x] = MemoryOf(memory.runs, x)
  BY <1>3, Zenon DEF MemoryOf
<1>7. /\ \A x : [tables EXCEPT !.runs = x] = TablesOf(x, tables.reservations)
      /\ \A x : [tables EXCEPT !.reservations = x] = TablesOf(tables.runs, x)
  BY <1>4, Zenon DEF TablesOf
<1> QED
  BY <1>5, <1>6, <1>7

LEMMA OthersMove ==
  ASSUME StoresInv, NEW p, NEW q, NEW u, NEW v, memory' = MemoryOf(p, u), tables' = TablesOf(q, v),
         UNCHANGED <<scenariosMade, clock>>, runsMade' \in Nat,
         RunsInOrder(p, runsMade'), RowsOfRuns(p, q, clock), RowsOfReservations(u, v),
         answers'[1] = answers'[2]
  PROVE  StoresInv'
<1>1. /\ memory'.runs = p /\ memory'.scenarios = memory.scenarios /\ memory'.state = memory.state
      /\ memory'.reservations = u
  BY DEF MemoryOf
<1>2. tables'.runs = q /\ tables'.scenarios = tables.scenarios /\ tables'.reservations = v
  BY DEF TablesOf
<1>3. OthersInv'
  BY <1>1, <1>2 DEF OthersInv
<1>4. memory' = [runs |-> memory'.runs, scenarios |-> memory'.scenarios, state |-> memory'.state,
                 reservations |-> memory'.reservations]
  BY <1>1, Zenon DEF MemoryOf
<1>5. tables' = [runs |-> tables'.runs, scenarios |-> tables'.scenarios, reservations |-> tables'.reservations]
  BY <1>2, Zenon DEF TablesOf
<1>6. /\ RowsOf(memory'.scenarios, memory'.state, tables'.scenarios)
      /\ \A k \in 1..Len(memory'.scenarios) : memory'.scenarios[k].id <= scenariosMade
  BY <1>1, <1>2 DEF StoresInv
<1>7. scenariosMade' \in Nat /\ clock' \in Nat /\ scenariosMade' = scenariosMade
  BY DEF StoresInv
<1> QED
  BY <1>3, <1>4, <1>5, <1>6, <1>7 DEF StoresInv

LEMMA QueueRunInv == StoresInv /\ QueueRun => StoresInv'
<1> SUFFICES ASSUME StoresInv, QueueRun PROVE StoresInv'
  OBVIOUS
<1> DEFINE job == [id |-> runsMade + 1, status |-> "queued"]
           added == [id |-> runsMade + 1, status |-> "queued", createdAt |-> runsMade + 1, completedAt |-> Never]
           inMemory == MemoryQueueRun(job)
           onTables == TablesQueueRun(job)
           runs == memory.runs
           rows == tables.runs
           kept == EvictOldest(runs, Len(runs) - MaxStored + 1)
           excess == Max({0, Cardinality(rows) - MaxStored + 1})
           evicted == FirstCompleted(rows, excess)
<1>1. /\ memory' = inMemory.store /\ tables' = onTables.store /\ answers' = <<inMemory.answer, onTables.answer>>
      /\ runsMade' = runsMade + 1 /\ UNCHANGED <<scenariosMade, clock>>
  BY CallMoves DEF QueueRun
<1>2. /\ runsMade \in Nat /\ clock \in Nat /\ RunsInOrder(runs, runsMade) /\ RowsOfRuns(runs, rows, clock)
      /\ RowsOfReservations(memory.reservations, tables.reservations)
  BY DEF StoresInv, OthersInv
<1>3. /\ IsFiniteSet(rows) /\ Cardinality(rows) = Len(runs)
      /\ Cardinality({r \in rows : r.status \in {"queued", "running"}}) = Cardinality(ActiveRuns(runs))
  BY <1>2, RunsAreCounted
<1>4. /\ Len(runs) \in Nat /\ MaxStored \in Nat /\ Len(runs) <= MaxStored
      /\ runs \in Seq(StoredRun)
  BY <1>2, RunsAre, StoresAssumption DEF RunsInOrder
<1>5. kept = IF Len(runs) = MaxStored /\ Len(runs) > 0 /\ ~Active(runs[1]) THEN Tail(runs) ELSE runs
  BY <1>2, MemoryEvicts
<1>6. excess = IF Len(runs) = MaxStored THEN 1 ELSE 0
  <2>1. Cardinality(rows) - MaxStored + 1 \in Int /\ 0 \in Int
    BY <1>3, <1>4
  <2>2. /\ excess \in {0, Cardinality(rows) - MaxStored + 1} /\ excess >= 0
        /\ excess >= Cardinality(rows) - MaxStored + 1
    BY <2>1, MinOfTwo
  <2> HIDE DEF excess
  <2> QED
    BY <1>3, <1>4, <2>2
<1>7. /\ FirstCompleted(rows, 0) = {}
      /\ Len(runs) = 0 \/ Active(runs[1]) => FirstCompleted(rows, 1) = {}
      /\ Len(runs) > 0 /\ ~Active(runs[1]) => FirstCompleted(rows, 1) = {r \in rows : r.id = runs[1].id}
  BY <1>2, TablesEvict
<1>8. Cardinality({}) = 0
  BY FS_EmptySet
<1>9. inMemory = IF Cardinality(ActiveRuns(runs)) >= MaxQueued
                 THEN [store |-> memory, answer |-> Refused(30)]
                 ELSE IF Len(kept) >= MaxStored
                 THEN [store |-> [memory EXCEPT !.runs = kept], answer |-> Refused(30)]
                 ELSE [store |-> [memory EXCEPT !.runs = Append(kept, job)], answer |-> job]
  BY DEF MemoryQueueRun
<1>10. onTables = IF Cardinality({r \in rows : r.status \in {"queued", "running"}}) >= MaxQueued
                  THEN [store |-> tables, answer |-> Refused(30)]
                  ELSE IF Cardinality(evicted) < excess
                  THEN [store |-> tables, answer |-> Refused(30)]
                  ELSE [store |-> [tables EXCEPT !.runs = (rows \ evicted) \cup {added}], answer |-> job]
  BY DEF TablesQueueRun
<1> HIDE DEF inMemory, onTables, kept, excess, evicted, added, job
<1>11. CASE Cardinality(ActiveRuns(runs)) >= MaxQueued \/ (Len(runs) = MaxStored /\ (Len(runs) = 0 \/ Active(runs[1])))
  <2>1. inMemory = [store |-> memory, answer |-> Refused(30)]
    <3>1. CASE Cardinality(ActiveRuns(runs)) >= MaxQueued
      BY <1>9, <3>1
    <3>2. CASE ~(Cardinality(ActiveRuns(runs)) >= MaxQueued)
      <4>1. kept = runs /\ Len(kept) >= MaxStored
        BY <1>4, <1>5, <1>11, <3>2
      <4>2. [memory EXCEPT !.runs = runs] = memory
        BY StoresAre, Zenon
      <4> QED
        BY <1>9, <3>2, <4>1, <4>2
    <3> QED
      BY <3>1, <3>2
  <2>2. onTables = [store |-> tables, answer |-> Refused(30)]
    <3>1. CASE Cardinality(ActiveRuns(runs)) >= MaxQueued
      BY <1>3, <1>10, <3>1
    <3>2. CASE ~(Cardinality(ActiveRuns(runs)) >= MaxQueued)
      <4>1. excess = 1 /\ evicted = {}
        BY <1>6, <1>7, <1>11, <3>2 DEF evicted
      <4>2. Cardinality(evicted) < excess
        BY <1>8, <4>1
      <4> QED
        BY <1>3, <1>10, <3>2, <4>2
    <3> QED
      BY <3>1, <3>2
  <2>3. memory' = memory /\ tables' = tables /\ answers'[1] = answers'[2]
    BY <1>1, <2>1, <2>2
  <2>4. RunsInOrder(runs, runsMade')
    <3>1. \A k \in 1..Len(runs) : runs[k].id \in Nat /\ runs[k].id <= runsMade
      BY <1>2, RunsAre DEF RunsInOrder
    <3>2. \A k \in 1..Len(runs) : runs[k].id <= runsMade + 1
      BY <1>2, <3>1
    <3> HIDE DEF runs
    <3>3. RunsInOrder(runs, runsMade + 1)
      BY <1>2, <3>2 DEF RunsInOrder
    <3> QED
      BY <1>1, <3>3
  <2>5. runsMade' \in Nat
    BY <1>1, <1>2
  <2> DEFINE u == memory.reservations
             v == tables.reservations
  <2>6. memory' = MemoryOf(runs, u) /\ tables' = TablesOf(rows, v)
    BY <2>3, StoresAre
  <2> HIDE DEF runs, rows, u, v
  <2> QED
    BY <1>1, <1>2, <2>3, <2>4, <2>5, <2>6, OthersMove DEF u, v
<1>12. CASE ~(Cardinality(ActiveRuns(runs)) >= MaxQueued \/ (Len(runs) = MaxStored /\ (Len(runs) = 0 \/ Active(runs[1]))))
  <2>1. /\ RunsInOrder(kept, runsMade) /\ RowsOfRuns(kept, rows \ evicted, clock) /\ Len(kept) < MaxStored
        /\ ~(Cardinality(evicted) < excess)
    <3>1. CASE Len(runs) = MaxStored
      <4>1. Len(runs) > 0 /\ ~Active(runs[1])
        BY <1>4, <1>12, <3>1
      <4>2. kept = Tail(runs) /\ excess = 1 /\ evicted = {r \in rows : r.id = runs[1].id}
        BY <1>5, <1>6, <1>7, <3>1, <4>1 DEF evicted
      <4>3. RunsInOrder(kept, runsMade) /\ RowsOfRuns(kept, rows \ evicted, clock) /\ Len(kept) = Len(runs) - 1
        BY <1>2, <4>1, <4>2, RunGoes
      <4>4. Len(kept) < MaxStored
        BY <1>4, <3>1, <4>3
      <4>5. evicted # {} /\ IsFiniteSet(evicted)
        <5>1. 1 \in 1..Len(runs)
          BY <1>4, <4>1
        <5>2. evicted # {}
          BY <1>2, <4>2, <5>1 DEF RowsOfRuns
        <5>3. evicted \subseteq rows
          BY <4>2
        <5> QED
          BY <1>3, <5>2, <5>3, FS_Subset
      <4>6. Cardinality(evicted) \in Nat /\ Cardinality(evicted) # 0
        BY <4>5, FS_CardinalityType, FS_EmptySet
      <4> QED
        BY <4>2, <4>3, <4>4, <4>6
    <3>2. CASE Len(runs) # MaxStored
      <4>1. kept = runs /\ excess = 0 /\ evicted = {}
        BY <1>5, <1>6, <1>7, <3>2 DEF evicted
      <4>2. rows \ evicted = rows /\ Len(kept) < MaxStored
        BY <1>4, <3>2, <4>1
      <4> QED
        BY <1>2, <1>8, <4>1, <4>2
    <3> QED
      BY <3>1, <3>2
  <2> DEFINE more == Append(kept, job)
             left == (rows \ evicted) \cup {added}
             u == memory.reservations
             v == tables.reservations
  <2>2. RunsInOrder(more, runsMade + 1) /\ RowsOfRuns(more, left, clock)
    BY <1>2, <2>1, RunComes DEF job, added
  <2>3. ~(Len(kept) >= MaxStored)
    <3>1. Len(kept) \in Nat
      BY <2>1, RunsAre
    <3> QED
      BY <1>4, <2>1, <3>1
  <2> HIDE DEF more, left
  <2>4. inMemory = [store |-> [memory EXCEPT !.runs = more], answer |-> job]
    BY <1>9, <1>12, <2>3 DEF more
  <2>5. onTables = [store |-> [tables EXCEPT !.runs = left], answer |-> job]
    BY <1>3, <1>10, <1>12, <2>1 DEF left
  <2>6. memory' = [memory EXCEPT !.runs = more] /\ tables' = [tables EXCEPT !.runs = left] /\ answers'[1] = answers'[2]
    BY <1>1, <2>4, <2>5
  <2>7. memory' = MemoryOf(more, u) /\ tables' = TablesOf(left, v)
    BY <2>6, StoresAre
  <2>8. runsMade' \in Nat
    BY <1>1, <1>2
  <2> HIDE DEF u, v
  <2> QED
    BY <1>1, <1>2, <2>2, <2>6, <2>7, <2>8, OthersMove DEF u, v
<1> QED
  BY <1>11, <1>12

LEMMA WorkInv == StoresInv /\ Work => StoresInv'
<1> SUFFICES ASSUME StoresInv, Work PROVE StoresInv'
  OBVIOUS
<1>1. runsMade \in Nat
  BY DEF StoresInv, OthersInv
<1>2. PICK id \in 1..runsMade, prior \in {"queued", "running"}, after \in {"running", "completed", "failed"} :
        WorkOn(id, prior, after)
  BY DEF Work
<1> DEFINE runs == memory.runs
           rows == tables.runs
           later == RunsWith(runs, id, after)
           changed == RowsWith(rows, id, after, clock)
           u == memory.reservations
           v == tables.reservations
<1>3. /\ \E r \in rows : r.id = id /\ r.status = prior
      /\ \A r \in rows : r.status \in {"queued", "running"} => r.id >= id
      /\ UNCHANGED <<runsMade, scenariosMade, clock, answers>>
  BY <1>2 DEF WorkOn
<1>4. memory' = [memory EXCEPT !.runs = later] /\ tables' = [tables EXCEPT !.runs = changed]
  BY <1>2 DEF WorkOn, RunsWith, RowsWith
<1>5. /\ clock \in Int /\ RunsInOrder(runs, runsMade) /\ RowsOfRuns(runs, rows, clock) /\ id \in Nat
      /\ RowsOfReservations(u, v) /\ answers[1] = answers[2]
  BY <1>1 DEF StoresInv, OthersInv
<1>6. RunsInOrder(later, runsMade) /\ RowsOfRuns(later, changed, clock)
  <2> HIDE DEF runs, rows
  <2> QED
    BY <1>3, <1>5, RunGoesOn
<1> HIDE DEF later, changed
<1>7. /\ memory' = MemoryOf(later, u)
      /\ tables' = TablesOf(changed, v)
  BY <1>4, StoresAre
<1> HIDE DEF runs, rows, u, v
<1> QED
  BY <1>1, <1>3, <1>5, <1>6, <1>7, OthersMove

LEMMA ReserveAiUsageInv == StoresInv /\ ReserveAiUsage => StoresInv'
<1> SUFFICES ASSUME StoresInv, ReserveAiUsage PROVE StoresInv'
  OBVIOUS
<1>1. PICK cost \in {1, 2} : Call(MemoryReserve(cost), TablesReserve(cost)) /\ UNCHANGED <<runsMade, scenariosMade, clock>>
  BY DEF ReserveAiUsage
<1> DEFINE inMemory == MemoryReserve(cost)
           onTables == TablesReserve(cost)
           u == memory.reservations
           v == tables.reservations
           day == 2 * Day(clock)
           month == 4 * Month(clock)
           here == BudgetAnswer(Cardinality(PlacesSince(u, day)), Cardinality(PlacesSince(u, month)),
                                CentsSince(u, month), cost)
           there == BudgetAnswer(Cardinality(RowsSince(v, day)), Cardinality(RowsSince(v, month)),
                                 CentsOfRows(v, month), cost)
<1>2. memory' = inMemory.store /\ tables' = onTables.store /\ answers' = <<inMemory.answer, onTables.answer>>
  BY <1>1, CallMoves
<1>3. /\ runsMade \in Nat /\ clock \in Nat /\ RunsInOrder(memory.runs, runsMade)
      /\ RowsOfRuns(memory.runs, tables.runs, clock) /\ RowsOfReservations(u, v)
  BY DEF StoresInv, OthersInv
<1>4. day \in Int /\ month \in Int
  BY <1>3 DEF Day, Month
<1>5. inMemory = [store |-> IF "refused" \in DOMAIN here THEN memory
                            ELSE [memory EXCEPT !.reservations = Append(u, [at |-> clock, cost |-> cost])],
                  answer |-> here]
  BY DEF MemoryReserve, PlacesSince, CentsSince
<1>6. onTables = [store |-> IF "refused" \in DOMAIN there THEN tables
                            ELSE [tables EXCEPT !.reservations =
                                    v \cup {[id |-> Cardinality(v), at |-> clock, cost |-> cost]}],
                  answer |-> there]
  BY DEF TablesReserve, RowsSince, CentsOfRows
<1>7. here = there
  <2> HIDE DEF u, v, day, month
  <2>1. Cardinality(PlacesSince(u, day)) = Cardinality(RowsSince(v, day))
    BY <1>3, <1>4, ReservationsAgree
  <2>2. /\ Cardinality(PlacesSince(u, month)) = Cardinality(RowsSince(v, month))
        /\ CentsSince(u, month) = CentsOfRows(v, month)
    BY <1>3, <1>4, ReservationsAgree
  <2> QED
    BY <2>1, <2>2
<1> HIDE DEF here, there, inMemory, onTables
<1>8. answers'[1] = answers'[2]
  BY <1>2, <1>5, <1>6, <1>7
<1>9. PICK m, t : /\ RowsOfReservations(m, t)
                  /\ memory' = MemoryOf(memory.runs, m)
                  /\ tables' = TablesOf(tables.runs, t)
  <2>1. CASE "refused" \in DOMAIN here
    <3>1. memory' = memory /\ tables' = tables
      BY <1>2, <1>5, <1>6, <1>7, <2>1
    <3> QED
      BY <1>3, <3>1, StoresAre
  <2>2. CASE "refused" \notin DOMAIN here
    <3> DEFINE m == Append(u, [at |-> clock, cost |-> cost])
               t == v \cup {[id |-> Cardinality(v), at |-> clock, cost |-> cost]}
    <3>1. RowsOfReservations(m, t)
      <4>1. cost \in 1..2
        OBVIOUS
      <4> HIDE DEF u, v
      <4> QED
        BY <1>3, <4>1, ReservationComes
    <3> HIDE DEF m, t
    <3>2. memory' = [memory EXCEPT !.reservations = m] /\ tables' = [tables EXCEPT !.reservations = t]
      BY <1>2, <1>5, <1>6, <1>7, <2>2 DEF m, t
    <3>3. /\ memory' = MemoryOf(memory.runs, m)
          /\ tables' = TablesOf(tables.runs, t)
      BY <3>2, StoresAre
    <3> QED
      BY <3>1, <3>3
  <2> QED
    BY <2>1, <2>2
<1> DEFINE p == memory.runs
           q == tables.runs
<1>10. /\ runsMade' \in Nat /\ RunsInOrder(p, runsMade') /\ RowsOfRuns(p, q, clock)
       /\ memory' = MemoryOf(p, m)
       /\ tables' = TablesOf(q, t)
  BY <1>1, <1>3, <1>9
<1> HIDE DEF p, q
<1> QED
  BY <1>1, <1>8, <1>9, <1>10, OthersMove

\* To every call, from whoever it comes, the two stores give the same answer, and
\* they keep the same runs and show the same of a scenario afterwards: for any
\* number of calls, runs and scenarios and all limits.
THEOREM StoresAlwaysAgree == StoresSpec => []StoresAgree
<1>1. StoresInv /\ [StoresNext]_storeVars => StoresInv'
  BY QueueRunInv, WorkInv, ReserveAiUsageInv, ShareScenarioInv, MarkScenarioRunInv, SetScenarioRevealInv,
     UpdateScenarioCollaborationInv, WaitInv DEF StoresNext, RunCalls, ScenarioCalls, BudgetCalls
<1>2. StoresInv => StoresAgree
  <2> SUFFICES ASSUME StoresInv PROVE StoresAgree
    OBVIOUS
  <2>1. answers[1] = answers[2] /\ RunsInOrder(memory.runs, runsMade) /\ RowsOfRuns(memory.runs, tables.runs, clock)
    BY DEF StoresInv, OthersInv
  <2>2. {[id |-> r.id, status |-> r.status] : r \in tables.runs} = Range(memory.runs)
    BY <2>1, RunsAreShown
  <2>3. \A id \in 1..scenariosMade : id \in Nat
    BY DEF StoresInv
  <2> QED
    BY <2>1, <2>2, <2>3, ViewsAgree DEF StoresInv, StoresAgree
<1> QED
  BY <1>1, <1>2, StoresInitInv, PTL DEF StoresSpec
=============================================================================

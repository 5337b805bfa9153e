--------------------------- MODULE MCLocalSession ---------------------------
(* One tab; the kinds of action are the two the store can post.  The same    *)
(* runs also check the other pages that wait for answers, each by itself:    *)
(* part tells which of them a behaviour is of.                               *)
EXTENDS LocalSession, Analyses, ScenarioDrafting

CONSTANTS
  Parts,         \* the pages of a run
  EventSeconds   \* the seconds at which the engine emits an event by itself
VARIABLE part

\* An engine that tells every action from every other: a frame is its second and
\* the actions that it was computed under, an event the action that it belongs to.
FramesOf(acts) ==
  [i \in 1 .. LastSecond + 1 |->
    [second |-> i - 1, under |-> {a \in Range(acts) : a.shows <= i - 1}]]

EventsAt(acts, s) ==
  (IF s \in EventSeconds THEN <<[second |-> s, under |-> {}]>> ELSE <<>>)
    \o LET Shows(a) == a.shows = s
           own == SelectSeq(acts, Shows)
       IN [i \in DOMAIN own |-> [second |-> s, under |-> {own[i]}]]

EventsOf(acts) == FlattenSeq([i \in 1 .. LastSecond + 1 |-> EventsAt(acts, i - 1)])

CausalEngine(acts) == [frames |-> FramesOf(acts), events |-> EventsOf(acts)]
Causes == [second : 0 .. LastSecond, under : SUBSET Actions]

allVars == <<vars, jobVars, consoleVars, panelVars, draftingVars, part>>

\* Replay: two simulations and a digest; robustness: nine seeds in the code, three here.
SlicesOf == [replay |-> 2, robustness |-> 3, solver |-> 0, share |-> 0]
DigestingOf == {"replay"}

SystemInit ==
  /\ part \in Parts
  /\ Init /\ AnalysesInit /\ DraftingInit
  /\ part = "designer" \/ mode = "custom"

SystemNext ==
  /\ UNCHANGED part
  /\ \/ part = "session" /\ Next /\ UNCHANGED <<jobVars, consoleVars, panelVars, draftingVars>>
     \/ part = "replay" /\ ReplayPage /\ UNCHANGED <<vars, draftingVars>>
     \/ part = "workbench" /\ WorkbenchPage /\ UNCHANGED <<vars, draftingVars>>
     \/ part = "designer" /\ DraftingNext /\ UNCHANGED <<vars, jobVars, consoleVars, panelVars>>

System == SystemInit /\ [][SystemNext]_allVars

PlayingSystem ==
  /\ System
  /\ WF_vars(WorkerNext) /\ SF_vars(Tick) /\ WF_vars(ReceiveNext)
  /\ ConsoleFairness /\ PanelFairness

\* Whatever the user waits for ends, also when a worker hangs, crashes or cannot
\* be started: a run that plays, unless it is paused, an action that was posted,
\* a comparison, an estimate, a solution, and a decoded link.
WaitingEnds ==
  LET waiting == output.state = "running" \/ running \/ Calling
  IN PlaybackEnds /\ (waiting ~> ~waiting)
=============================================================================

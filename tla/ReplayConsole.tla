--------------------------- MODULE ReplayConsole ----------------------------
(***************************************************************************)
(* pages/ReplayPage.tsx: two replay files are read, their inputs compared  *)
(* on the page and their outputs in a worker.  Reading a file takes time;  *)
(* what a handler sees of the page's state is what was last drawn, and     *)
(* only a handler of the user's own events draws at once.                  *)
(***************************************************************************)
EXTENDS WorkerJob

CONSTANTS
  Files,        \* what the user may select
  Readable,     \* those that hold a replay bundle
  Compatible,   \* those this build can replay
  MaxReads,     \* bound on the selections
  None

ASSUME FilesAssumption == Compatible \subseteq Readable /\ Readable \subseteq Files

VARIABLES
  source, other,    \* the two files: state of the check, and the bundle
  inputs,           \* comparison of the inputs
  output,           \* comparison of the outputs
  reads,            \* files being read, with what their handlers closed over
  sequences,        \* sourceReadSequence and comparisonReadSequence
  active,           \* activeComparison
  drawn             \* what the handlers of the last render see

consoleVars == <<source, other, inputs, output, reads, sequences, active, drawn>>

Empty == [state |-> "idle", loaded |-> None]
Reading == [state |-> "reading", loaded |-> None]
NoOutput == [state |-> "idle", result |-> None]

ConsoleInit ==
  /\ source = Empty /\ other = Empty /\ inputs = None /\ output = NoOutput
  /\ reads = {} /\ sequences = [source |-> 0, other |-> 0]
  /\ active = None /\ drawn = [source |-> None, other |-> None]

Opened(file) ==
  IF file \in Readable THEN [state |-> "ready", loaded |-> file] ELSE [state |-> "error", loaded |-> None]

Draw == drawn' = [source |-> source'.loaded, other |-> other'.loaded]

CancelOutputComparison ==
  /\ active' = None
  /\ IF active # None THEN CancelJob ELSE UNCHANGED jobVars

\* Mutant: a file that is still being compared is not outrun.
OutrunSourceOnly == sequences' = [sequences EXCEPT !.source = @ + 1]

OutrunReads == sequences' = [source |-> sequences.source + 1, other |-> sequences.other + 1]

SelectSourceFile(file) ==
  /\ sequences.source + sequences.other < MaxReads
  /\ OutrunReads
  /\ CancelOutputComparison
  /\ source' = Reading /\ other' = Empty /\ inputs' = None /\ output' = NoOutput
  /\ reads' = reads \cup {[into |-> "source", sequence |-> sequences'.source, file |-> file, with |-> None]}
  /\ Draw

SelectComparisonFile(file) ==
  /\ drawn.source # None /\ drawn.source \in Compatible
  /\ sequences.source + sequences.other < MaxReads
  /\ sequences' = [sequences EXCEPT !.other = @ + 1]
  /\ CancelOutputComparison
  /\ other' = Reading /\ inputs' = None /\ output' = NoOutput
  /\ reads' = reads \cup {[into |-> "other", sequence |-> sequences'.other, file |-> file,
                           with |-> drawn.source]}
  /\ UNCHANGED source
  /\ Draw

\* readCompletedRunReplayBundleFile returns or throws.
FileRead(read) ==
  /\ read \in reads
  /\ reads' = reads \ {read}
  /\ IF read.sequence # sequences[read.into]
     THEN UNCHANGED <<source, other, inputs>>
     ELSE IF read.into = "source"
     THEN source' = Opened(read.file) /\ UNCHANGED <<other, inputs>>
     ELSE /\ other' = Opened(read.file) /\ UNCHANGED source
          /\ inputs' = IF read.file \in Readable THEN <<read.with, read.file>> ELSE None
  /\ UNCHANGED <<output, sequences, active, drawn, jobVars>>

Render ==
  /\ UNCHANGED <<source, other, inputs, output, reads, sequences, active, jobVars>>
  /\ Draw /\ drawn' # drawn

\* A session that is refused at once rejects before anything else happens.
StartOutputComparison(refused) ==
  /\ {drawn.source, drawn.other} \subseteq Compatible /\ output.state # "running"
  /\ OpenJob("replay", <<drawn.source, drawn.other>>, refused)
  /\ active' = IF refused THEN None ELSE job'.id
  /\ output' = [state |-> IF refused THEN "error" ELSE "running", result |-> None]
  /\ UNCHANGED <<source, other, inputs, reads, sequences>>
  /\ Draw

\* session.result is settled: by the session the page waits for, or by another.
ComparisonSettles(outcome) ==
  /\ JobEnds(outcome)
  /\ active' = IF active = job.id THEN None ELSE active
  /\ output' = IF active # job.id THEN output
               ELSE [state |-> outcome, result |-> IF outcome = "complete" THEN job.input ELSE None]
  /\ UNCHANGED <<source, other, inputs, reads, sequences, drawn>>

Hear == (HearProgress \/ HearLate) /\ UNCHANGED consoleVars

\* The page is left, for the lab with the replay queued or for elsewhere: the
\* session is cancelled and the reads still under way change nothing any more.
LeaveConsole ==
  /\ CancelOutputComparison
  /\ source' = Empty /\ other' = Empty /\ inputs' = None /\ output' = NoOutput /\ reads' = {}
  /\ UNCHANGED sequences
  /\ Draw

ConsoleNext ==
  \/ \E file \in Files : SelectSourceFile(file) \/ SelectComparisonFile(file)
  \/ \E read \in reads : FileRead(read)
  \/ Render
  \/ \E refused \in BOOLEAN : StartOutputComparison(refused)
  \/ \E outcome \in {"complete", "error"} : ComparisonSettles(outcome)
  \/ Hear
  \/ LeaveConsole
  \/ JobNext /\ UNCHANGED consoleVars

\* Timers fire; a worker may take for ever.
ConsoleTimers == (DeadlinePasses /\ UNCHANGED consoleVars) \/ (TimesOut /\ ComparisonSettles("error"))
ConsoleFairness == WF_<<jobVars, consoleVars>>(ConsoleTimers)

-----------------------------------------------------------------------------
(* Properties.                                                             *)

\* Whatever files were selected while others were still being read or compared,
\* the comparison of inputs and that of outputs are of the two files shown, and
\* the page says it is recomputing exactly while a worker recomputes these two.
ComparisonIsOfFiles ==
  LET pair == <<source.loaded, other.loaded>> IN
  /\ inputs # None => inputs = pair
  /\ output.result # None => output.result = pair
  /\ (output.state = "running") = (active # None)
  /\ (AtWork /\ job.kind = "replay") = (active # None)
  /\ active # None => job.id = active /\ job.input = pair
=============================================================================

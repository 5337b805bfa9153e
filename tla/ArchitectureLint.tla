-------------------------- MODULE ArchitectureLint --------------------------
(***************************************************************************)
(* The editor's own judgement of an architecture (lib/architectureLint.ts):*)
(* the buttons that start a run are disabled while it finds an error.  It  *)
(* repeats the validation of the engine in other words, and shares with it *)
(* only the bounds analysis.                                               *)
(***************************************************************************)
EXTENDS Topology

\* All links of a component, disabled ones among them: shares for none, or for
\* all and adding up.
LintShares ==
  \A n \in Place :
    LET out == {e \in Edges : From(e) = n}
        explicit == {e \in out : given.edges[e].share # Unset}
    IN explicit # {} => explicit = out /\ MapThenSumSet(Share, out) = Whole

LintEntries ==
  IF Explicit # {} THEN Explicit ELSE Place \ {To(e) : e \in Enabled}
LintReached == Reachable(LintEntries, Enabled)

LintIncidents ==
  \A i \in given.incidents :
    /\ i.target # None => i.target \in Place
    /\ i.region # None => i.region \in Range(given.region)
    /\ i.global => {i.target, i.region} = {None}
    /\ ~i.global => \E n \in LintReached : n \in Struck(i)

HasNoErrors == LintShares /\ LintEntries # {} /\ Bounded /\ LintIncidents

\* A run that the linter lets start is not refused by the engine's validation,
\* and what the linter refuses the engine refuses too; but for two things: the
\* linter does not look for an entry that leads nowhere, and counts links of
\* share 0, which the engine leaves out.
LintForeseesTheEngine ==
  phase = "bounds" /\ position > Len(ready) =>
    /\ HasNoErrors /\ SourcesLead /\ RulesApply => Accepts
    /\ Accepts /\ Enabled = Edges => HasNoErrors
=============================================================================

--------------------------- MODULE TraceSampling ---------------------------
(***************************************************************************)
(* The trace the engine samples of a request class in one second           *)
(* (sampledTraceForRequestClass of simulate.ts), once its work has been    *)
(* spread: spans for the entries, for each link that carried work, for its *)
(* retries, cache decisions and messages, and for the end of the request.  *)
(*                                                                         *)
(* Rates, latencies, failure causes and names are left out.  given.marks   *)
(* says which components are caches, which take asynchronous messages, and *)
(* how often each retries a call to a component that is offline.           *)
(***************************************************************************)
EXTENDS Topology

CONSTANTS
  MaxSpans,     \* MAX_SPANS_PER_TRACE
  MaxRetrySpans \* sampledRetryAttempts

-----------------------------------------------------------------------------
(* What the flow leaves for the trace.                                     *)

EntryOrder == SelectSeq([n \in Place |-> n], LAMBDA n : n \in Entries)
MultiEntry == Len(EntryOrder) > 1

Attempted(e) == IF From(e) = Terminal THEN 0 ELSE (forward[From(e)] * route[e]) \div Whole
Accepted(e) == IF Passes(To(e)) THEN Attempted(e) ELSE 0
Retries(e) == IF Accepted(e) < Attempted(e) THEN given.marks.retries[From(e)] ELSE 0

\* Mutant: links in authored order.
AuthoredOrder == [e \in Edges |-> e]

\* routeEdgeOrder: the links of an authored route, or those out of each component
\* in the order of execution.
RouteEdgeOrder ==
  IF Request.route # <<>> THEN Request.route
  ELSE FlattenSeq([k \in DOMAIN order |->
         SelectSeq([e \in Edges |-> e], LAMBDA e : From(e) = order[k])])

-----------------------------------------------------------------------------
(* Spans: what a span stands at, the span it hangs from, the message it is  *)
(* about and the message that one came from.                                *)

Request0 == <<"request", 0>>
Plainly(message) == [message |-> message, parentMessage |-> Unset]
Span(kind, at, parent, lineage) ==
  [kind |-> kind, at |-> at, parent |-> parent, message |-> lineage.message,
   parentMessage |-> lineage.parentMessage]

\* pushSpan
Push(trace, span) ==
  IF Len(trace.spans) >= MaxSpans THEN [trace EXCEPT !.truncated = TRUE]
  ELSE [trace EXCEPT !.spans = Append(@, span)]
Pushed(before, after) == Len(after.spans) > Len(before.spans)

\* One span for the request, and one for each of several entries.
Entered ==
  LET root == Push([spans |-> <<>>, truncated |-> FALSE, stopped |-> FALSE, last |-> None,
                    parent |-> [n \in Place |-> 0], lineage |-> [n \in Place |-> Plainly(Request0)]],
                   Span("entry", IF MultiEntry THEN None ELSE EntryOrder[1], 0, Plainly(Request0)))
      Enter(trace, n) ==
        LET own == [message |-> <<"entry", n>>, parentMessage |-> Request0]
            next == Push(trace, Span("entry", n, 1, own))
        IN [next EXCEPT !.parent[n] = IF Pushed(trace, next) THEN Len(next.spans) ELSE 1,
                        !.lineage[n] = own]
  IN IF MultiEntry THEN FoldLeft(Enter, root, EntryOrder)
     ELSE [root EXCEPT !.parent[EntryOrder[1]] = 1]

\* Each retry hangs from the one before; no more than MaxRetrySpans are shown.
Retried(trace, e, lineage) ==
  LET wanted == Retries(e)
      shown == Min({wanted, MaxRetrySpans})
      again == FoldLeft(LAMBDA t, k : Push(t, Span("retry", e, Len(t.spans), lineage)),
                        trace, [k \in 1..shown |-> k])
  IN [again EXCEPT !.truncated = @ \/ wanted > shown]

\* A hop through a queue is a message of its own, also when its span is cut off.
Enqueued(trace, e, at, lineage) ==
  LET queued == [message |-> <<"queued", e>>, parentMessage |-> lineage.message]
  IN IF To(e) \in given.marks.queues /\ Accepted(e) > 0
     THEN [Push(trace, Span("async-queue", e, at, queued)) EXCEPT !.lineage[To(e)] = queued]
     ELSE trace

Follow(trace, e) ==
  LET lineage == trace.lineage[From(e)]
      parent == IF trace.parent[From(e)] = 0 THEN 1 ELSE trace.parent[From(e)]
      linked == Push(trace, Span("edge", e, parent, lineage))
      at == Len(linked.spans)
      placed == [linked EXCEPT !.parent[To(e)] = at, !.lineage[To(e)] = lineage, !.last = To(e)]
      retried == Retried(placed, e, lineage)
      decided == IF To(e) \in given.marks.caches /\ Accepted(e) > 0
                 THEN Push(retried, Span("cache", e, at, lineage)) ELSE retried
  IN IF trace.stopped \/ Attempted(e) = 0 THEN trace
     ELSE IF ~Pushed(trace, linked) THEN [linked EXCEPT !.stopped = TRUE]
     ELSE Enqueued(decided, e, at, lineage)

\* The request ends at its terminal, or where the last link led.
Ended(trace) ==
  LET terminal == IF Terminal = None THEN trace.last ELSE Terminal
      parent == IF MultiEntry THEN 1 ELSE trace.parent[terminal]
      lineage == IF MultiEntry THEN Plainly(Request0) ELSE trace.lineage[terminal]
  IN IF terminal = None THEN trace
     ELSE IF parent = 0 THEN trace
     ELSE Push(trace, Span("terminal", terminal, parent, lineage))

SampledTrace == Ended(FoldLeft(Follow, Entered, RouteEdgeOrder))

-----------------------------------------------------------------------------
(* A trace can be read as what happened to one request: every span hangs   *)
(* from an earlier one, a link from a span that stands where the link      *)
(* begins, a retry from its own link, a message from one that is in the    *)
(* trace; and nothing is missing from a trace that does not say so.        *)

StandsAt(span, n) == \/ span.kind = "entry" /\ span.at = n
                     \/ span.kind = "edge" /\ To(span.at) = n

TraceIsATree ==
  phase = "done" /\ Ordinary =>
    LET trace == SampledTrace
        spans == trace.spans
        Kind(kind) == {k \in DOMAIN spans : spans[k].kind = kind}
        carried(k) == {spans[j].message : j \in 1..(k - 1)}
    IN /\ \A k \in DOMAIN spans : spans[k].parent < k /\ (spans[k].parent = 0) = (k = 1)
       /\ \A k \in Kind("edge") : StandsAt(spans[spans[k].parent], From(spans[k].at))
       /\ \A k \in Kind("retry") : LET parent == spans[spans[k].parent]
                                   IN parent.kind \in {"edge", "retry"} /\ parent.at = spans[k].at
       /\ \A k \in Kind("cache") \cup Kind("async-queue") :
            LET parent == spans[spans[k].parent] IN parent.kind = "edge" /\ parent.at = spans[k].at
       /\ \A k \in DOMAIN spans : spans[k].parentMessage # Unset => spans[k].parentMessage \in carried(k)
       /\ \A k \in Kind("terminal") : k = Len(spans)
       /\ Len(spans) <= MaxSpans
       /\ \/ trace.truncated
          \/ /\ {spans[k].at : k \in Kind("edge")} = {e \in Edges : Attempted(e) > 0}
             /\ \A e \in Edges : Cardinality({k \in Kind("retry") : spans[k].at = e}) = Retries(e)
=============================================================================

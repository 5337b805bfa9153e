------------------------- MODULE ApiAdmissionProofs -------------------------
(***************************************************************************)
(* Proofs about ApiAdmission for every number of clients and replicas and  *)
(* for all limits.  A counter of a replica is shown equal to the number of *)
(* requests that hold what it counts: a step of a handler moves one        *)
(* request, so only the sets of its own replica change, by that request.   *)
(***************************************************************************)
EXTENDS ApiAdmission, FiniteSetTheorems, TLAPS

\* A request that is under way.
Open == [at : Phases, on : Replicas, kind : Kinds, day : Days, gone : BOOLEAN, thread : BOOLEAN]

\* What a request at this place holds.
HoldsSolver(x) == x.at = "solving"
HoldsAi(x) == \/ x.at \in {"preparing", "calling"}
              \/ x.at \in {"waiting", "counting", "writing"} /\ x.kind = "ai"
InHandler(x) == x.at \notin {"idle", "failed", "replying"}

\* A handler runs only for a request that was admitted.
HandlersAreAdmitted == \A q \in Requests : InHandler(req[q]) => q \in admitted[req[q].on]

\* Each handler keeps to the places of its route.
FitsKind(x) == /\ x.at \in {"preparing", "calling"} => x.kind = "ai"
               /\ x.at \in {"waiting", "counting", "writing"} => x.kind \in {"ai", "share"}
KindsFit == \A q \in Requests : FitsKind(req[q])

CountersInv == TypeOK /\ CountersMatch /\ HandlersAreAdmitted /\ KindsFit

\* The count of the members of S goes from n to m as q joins, leaves or stays.
Kept(q, S, T, n, m, limit) ==
  \/ T = S /\ m = n
  \/ q \notin S /\ T = S \union {q} /\ m = n + 1 /\ m <= limit
  \/ q \in S /\ T = S \ {q} /\ m = Minus(n)

SolverSlot(q, r, new) ==
  \/ UNCHANGED solving /\ (HoldsSolver(new) <=> HoldsSolver(req[q]))
  \/ /\ solving[r] < MaxConcurrentSolves /\ solving' = [solving EXCEPT ![r] = @ + 1]
     /\ HoldsSolver(new) /\ ~HoldsSolver(req[q])
  \/ /\ solving' = [solving EXCEPT ![r] = Minus(@)]
     /\ ~HoldsSolver(new) /\ HoldsSolver(req[q])

AiSlot(q, r, new) ==
  \/ UNCHANGED asking /\ (HoldsAi(new) <=> HoldsAi(req[q]))
  \/ asking[r] < 1 /\ asking' = [asking EXCEPT ![r] = @ + 1] /\ HoldsAi(new) /\ ~HoldsAi(req[q])
  \/ asking' = [asking EXCEPT ![r] = Minus(@)] /\ ~HoldsAi(new) /\ HoldsAi(req[q])

\* A step of the handler of q on its replica r.
HandlerMoves(q, r, new) ==
  /\ req[q] \in Open /\ req[q].on = r
  /\ new \in Open /\ new.on = r
  /\ req' = [req EXCEPT ![q] = new]
  /\ InHandler(new) => InHandler(req[q])
  /\ FitsKind(new)
  /\ UNCHANGED <<admitted, busy>>
  /\ SolverSlot(q, r, new) /\ AiSlot(q, r, new)

LEMMA RequestKinds ==
  ASSUME TypeOK, NEW q \in Requests
  PROVE  /\ req[q] \in {Idle} \union Open
         /\ req[q].at # "idle" <=> req[q] \in Open
BY DEF TypeOK, Open, Idle, Phases

\* The sets of holders after one request has moved on replica r.
LEMMA HoldersMove ==
  ASSUME TypeOK, NEW q \in Requests, NEW r \in Replicas, NEW new,
         req[q].at = "idle" \/ req[q].on = r, new.at = "idle" \/ new.on = r,
         req' = [req EXCEPT ![q] = new]
  PROVE  /\ \A x \in Replicas \ {r} : /\ On(x)' = On(x)
                                      /\ SolvingOn(x)' = SolvingOn(x)
                                      /\ AskingOn(x)' = AskingOn(x)
         /\ On(r)' = IF new.at # "idle" THEN On(r) \union {q} ELSE On(r) \ {q}
         /\ SolvingOn(r)' = IF HoldsSolver(new) THEN SolvingOn(r) \union {q} ELSE SolvingOn(r) \ {q}
         /\ AskingOn(r)' = IF HoldsAi(new) THEN AskingOn(r) \union {q} ELSE AskingOn(r) \ {q}
<1>1. \A p \in Requests : req'[p] = IF p = q THEN new ELSE req[p]
  BY DEF TypeOK
<1>2. \A x \in Replicas :
        /\ On(x) = {p \in Requests : req[p].at # "idle" /\ req[p].on = x}
        /\ On(x)' = {p \in Requests : req'[p].at # "idle" /\ req'[p].on = x}
  BY DEF On, At
<1>3. \A x \in Replicas :
        /\ SolvingOn(x) = {p \in Requests : req[p].at # "idle" /\ req[p].on = x /\ HoldsSolver(req[p])}
        /\ SolvingOn(x)' = {p \in Requests : req'[p].at # "idle" /\ req'[p].on = x /\ HoldsSolver(req'[p])}
        /\ AskingOn(x) = {p \in Requests : req[p].at # "idle" /\ req[p].on = x /\ HoldsAi(req[p])}
        /\ AskingOn(x)' = {p \in Requests : req'[p].at # "idle" /\ req'[p].on = x /\ HoldsAi(req'[p])}
  <2>1. \A x \in Replicas :
          /\ SolvingOn(x) = {p \in Requests : req[p].at # "idle" /\ req[p].on = x /\ HoldsSolver(req[p])}
          /\ SolvingOn(x)' = {p \in Requests : req'[p].at # "idle" /\ req'[p].on = x /\ HoldsSolver(req'[p])}
    BY DEF SolvingOn, On, At, HoldsSolver
  <2>2. \A x \in Replicas :
          /\ AskingOn(x) = {p \in Requests : req[p].at # "idle" /\ req[p].on = x /\ HoldsAi(req[p])}
          /\ AskingOn(x)' = {p \in Requests : req'[p].at # "idle" /\ req'[p].on = x /\ HoldsAi(req'[p])}
    BY DEF AskingOn, On, At, HoldsAi
  <2>3. QED
    BY <2>1, <2>2
<1>4. \A x \in Replicas \ {r} : On(x)' = On(x) /\ SolvingOn(x)' = SolvingOn(x) /\ AskingOn(x)' = AskingOn(x)
  <2> SUFFICES ASSUME NEW x \in Replicas \ {r}
               PROVE  On(x)' = On(x) /\ SolvingOn(x)' = SolvingOn(x) /\ AskingOn(x)' = AskingOn(x)
    OBVIOUS
  <2>1. \A p \in Requests : \/ req'[p] = req[p]
                           \/ /\ ~(req'[p].at # "idle" /\ req'[p].on = x)
                              /\ ~(req[p].at # "idle" /\ req[p].on = x)
    BY <1>1
  <2>2. On(x)' = On(x)
    <3>1. \A p : p \in On(x)' <=> p \in On(x)
      BY <1>2, <2>1
    <3>2. QED
      BY <3>1
  <2>3. SolvingOn(x)' = SolvingOn(x)
    <3>1. \A p : p \in SolvingOn(x)' <=> p \in SolvingOn(x)
      BY <1>3, <2>1
    <3>2. QED
      BY <3>1
  <2>4. AskingOn(x)' = AskingOn(x)
    <3>1. \A p : p \in AskingOn(x)' <=> p \in AskingOn(x)
      BY <1>3, <2>1
    <3>2. QED
      BY <3>1
  <2>5. QED
    BY <2>2, <2>3, <2>4
<1>5. On(r)' = IF new.at # "idle" THEN On(r) \union {q} ELSE On(r) \ {q}
  BY <1>1, <1>2
<1>6. HoldsSolver(new) => new.at # "idle"
  BY DEF HoldsSolver
<1>7. HoldsAi(new) => new.at # "idle"
  BY DEF HoldsAi
<1>8. SolvingOn(r)' = IF HoldsSolver(new) THEN SolvingOn(r) \union {q} ELSE SolvingOn(r) \ {q}
  BY <1>1, <1>3, <1>6
<1>9. AskingOn(r)' = IF HoldsAi(new) THEN AskingOn(r) \union {q} ELSE AskingOn(r) \ {q}
  BY <1>1, <1>3, <1>7
<1>10. QED
  BY <1>4, <1>5, <1>8, <1>9

\* Counting one more, one less, or the same.
LEMMA KeptCounts ==
  ASSUME NEW S, IsFiniteSet(S), NEW T, NEW q, NEW n \in Nat, NEW m \in Nat, NEW limit \in Nat,
         n = Cardinality(S), n <= limit, Kept(q, S, T, n, m, limit)
  PROVE  m = Cardinality(T) /\ m <= limit
<1>1. CASE q \notin S /\ T = S \union {q} /\ m = n + 1 /\ m <= limit
  BY <1>1, FS_AddElement
<1>2. CASE q \in S /\ T = S \ {q} /\ m = Minus(n)
  <2>1. n # 0
    BY <1>2, FS_EmptySet
  <2>2. Cardinality(S \ {q}) = n - 1
    BY <1>2, FS_RemoveElement
  <2>3. QED
    BY <1>2, <2>1, <2>2 DEF Minus
<1>3. QED
  BY <1>1, <1>2 DEF Kept

\* What the limits are.
LEMMA LimitsAreNumbers ==
  /\ IsFiniteSet(Requests)
  /\ \A r \in Replicas : MaxConcurrentRequests[r] \in Nat
  /\ MaxConcurrentSolves \in Nat /\ MaxDaily \in Nat /\ MaxMonthly \in Nat /\ MaxShared \in Nat
  /\ Cost \in Nat /\ DaysPerMonth \in Nat \ {0} /\ LinkDays \in Nat \ {0}
  /\ MaxMonthlyCost \in Nat /\ MaxDay \in Nat
BY LimitsAssumption

LEMMA HoldersAreFinite ==
  ASSUME TypeOK, NEW r \in Replicas
  PROVE  /\ IsFiniteSet(SolvingOn(r)) /\ IsFiniteSet(AskingOn(r))
         /\ IsFiniteSet(admitted[r])
<1>1. SolvingOn(r) \subseteq Requests /\ AskingOn(r) \subseteq Requests /\ admitted[r] \subseteq Requests
  BY DEF SolvingOn, AskingOn, On, TypeOK
<1>2. QED
  BY <1>1, LimitsAreNumbers, FS_Subset

\* Every step of a handler keeps the counters.
LEMMA HandlerKeepsCounters ==
  ASSUME CountersInv, NEW q \in Requests, NEW r \in Replicas, NEW new, HandlerMoves(q, r, new)
  PROVE  CountersMatch' /\ HandlersAreAdmitted' /\ KindsFit'
<1> USE DEF CountersInv
<1>1. /\ TypeOK /\ CountersMatch
      /\ req[q] \in Open /\ req[q].on = r /\ new \in Open /\ new.on = r
      /\ req[q].at # "idle" /\ new.at # "idle"
      /\ req' = [req EXCEPT ![q] = new] /\ UNCHANGED <<admitted, busy>>
  BY DEF HandlerMoves, Open, Phases
<1>2. /\ \A x \in Replicas \ {r} : /\ On(x)' = On(x)
                                   /\ SolvingOn(x)' = SolvingOn(x)
                                   /\ AskingOn(x)' = AskingOn(x)
      /\ On(r)' = On(r) \union {q}
      /\ SolvingOn(r)' = IF HoldsSolver(new) THEN SolvingOn(r) \union {q} ELSE SolvingOn(r) \ {q}
      /\ AskingOn(r)' = IF HoldsAi(new) THEN AskingOn(r) \union {q} ELSE AskingOn(r) \ {q}
  <2>1. TypeOK /\ (req[q].at = "idle" \/ req[q].on = r) /\ (new.at = "idle" \/ new.on = r)
        /\ req' = [req EXCEPT ![q] = new]
    BY <1>1
  <2>2. /\ \A x \in Replicas \ {r} : /\ On(x)' = On(x)
                                     /\ SolvingOn(x)' = SolvingOn(x)
                                     /\ AskingOn(x)' = AskingOn(x)
        /\ On(r)' = IF new.at # "idle" THEN On(r) \union {q} ELSE On(r) \ {q}
        /\ SolvingOn(r)' = IF HoldsSolver(new) THEN SolvingOn(r) \union {q} ELSE SolvingOn(r) \ {q}
        /\ AskingOn(r)' = IF HoldsAi(new) THEN AskingOn(r) \union {q} ELSE AskingOn(r) \ {q}
    BY <2>1, HoldersMove, Zenon
  <2> QED
    BY <1>1, <2>2
<1>3. (q \in SolvingOn(r) <=> HoldsSolver(req[q])) /\ (q \in AskingOn(r) <=> HoldsAi(req[q]))
  <2>1. q \in On(r)
    BY <1>1 DEF On, At
  <2>2. QED
    BY <2>1 DEF SolvingOn, AskingOn, At, HoldsSolver, HoldsAi
<1>4. HandlersAreAdmitted'
  <2>1. \A p \in Requests : req'[p] = IF p = q THEN new ELSE req[p]
    BY <1>1 DEF TypeOK
  <2>2. InHandler(new) => q \in admitted[r]
    BY <1>1 DEF HandlerMoves, HandlersAreAdmitted
  <2>3. QED
    BY <1>1, <2>1, <2>2 DEF HandlersAreAdmitted
<1>5. \A x \in Replicas : solving'[x] = Cardinality(SolvingOn(x)') /\ solving'[x] <= MaxConcurrentSolves
  <2>1. solving \in [Replicas -> Nat] /\ Minus(solving[r]) \in Nat /\ SolverSlot(q, r, new)
    BY DEF TypeOK, Minus, HandlerMoves
  <2>2. PICK m \in Nat : /\ \A x \in Replicas : solving'[x] = IF x = r THEN m ELSE solving[x]
                         /\ Kept(q, SolvingOn(r), SolvingOn(r)', solving[r], m, MaxConcurrentSolves)
    <3>1. CASE UNCHANGED solving /\ (HoldsSolver(new) <=> HoldsSolver(req[q]))
      <4>1. SolvingOn(r)' = SolvingOn(r)
        BY <1>2, <1>3, <3>1
      <4>2. QED
        BY <2>1, <3>1, <4>1 DEF Kept
    <3>2. CASE solving[r] < MaxConcurrentSolves /\ solving' = [solving EXCEPT ![r] = @ + 1] /\ HoldsSolver(new) /\ ~HoldsSolver(req[q])
      <4>1. Kept(q, SolvingOn(r), SolvingOn(r)', solving[r], solving[r] + 1, MaxConcurrentSolves)
        BY <1>2, <1>3, <2>1, <3>2, LimitsAreNumbers DEF Kept
      <4>2. QED
        BY <2>1, <3>2, <4>1
    <3>3. CASE solving' = [solving EXCEPT ![r] = Minus(@)] /\ ~HoldsSolver(new) /\ HoldsSolver(req[q])
      <4>1. Kept(q, SolvingOn(r), SolvingOn(r)', solving[r], Minus(solving[r]), MaxConcurrentSolves)
        BY <1>2, <1>3, <3>3 DEF Kept
      <4>2. QED
        BY <2>1, <3>3, <4>1
    <3>4. QED
      BY <2>1, <3>1, <3>2, <3>3 DEF SolverSlot
  <2>3. solving[r] = Cardinality(SolvingOn(r)) /\ solving[r] <= MaxConcurrentSolves
    BY <1>1 DEF CountersMatch
  <2>4. m = Cardinality(SolvingOn(r)') /\ m <= MaxConcurrentSolves
    BY <1>1, <2>1, <2>2, <2>3, HoldersAreFinite, KeptCounts, LimitsAreNumbers
  <2>5. QED
    BY <1>1, <1>2, <2>2, <2>4 DEF CountersMatch
<1>6. \A x \in Replicas : asking'[x] = Cardinality(AskingOn(x)') /\ asking'[x] <= 1
  <2>1. asking \in [Replicas -> Nat] /\ Minus(asking[r]) \in Nat /\ AiSlot(q, r, new)
    BY DEF TypeOK, Minus, HandlerMoves
  <2>2. PICK m \in Nat : /\ \A x \in Replicas : asking'[x] = IF x = r THEN m ELSE asking[x]
                         /\ Kept(q, AskingOn(r), AskingOn(r)', asking[r], m, 1)
    <3>1. CASE UNCHANGED asking /\ (HoldsAi(new) <=> HoldsAi(req[q]))
      <4>1. AskingOn(r)' = AskingOn(r)
        BY <1>2, <1>3, <3>1
      <4>2. QED
        BY <2>1, <3>1, <4>1 DEF Kept
    <3>2. CASE asking[r] < 1 /\ asking' = [asking EXCEPT ![r] = @ + 1] /\ HoldsAi(new) /\ ~HoldsAi(req[q])
      <4>1. Kept(q, AskingOn(r), AskingOn(r)', asking[r], asking[r] + 1, 1)
        BY <1>2, <1>3, <2>1, <3>2 DEF Kept
      <4>2. QED
        BY <2>1, <3>2, <4>1
    <3>3. CASE asking' = [asking EXCEPT ![r] = Minus(@)] /\ ~HoldsAi(new) /\ HoldsAi(req[q])
      <4>1. Kept(q, AskingOn(r), AskingOn(r)', asking[r], Minus(asking[r]), 1)
        BY <1>2, <1>3, <3>3 DEF Kept
      <4>2. QED
        BY <2>1, <3>3, <4>1
    <3>4. QED
      BY <2>1, <3>1, <3>2, <3>3 DEF AiSlot
  <2>3. asking[r] = Cardinality(AskingOn(r)) /\ asking[r] <= 1
    BY <1>1 DEF CountersMatch
  <2>4. m = Cardinality(AskingOn(r)') /\ m <= 1
    BY <1>1, <2>1, <2>2, <2>3, HoldersAreFinite, KeptCounts
  <2>5. QED
    BY <1>1, <1>2, <2>2, <2>4 DEF CountersMatch
<1>7. \A x \in Replicas : admitted'[x] \subseteq On(x)'
  BY <1>1, <1>2 DEF CountersMatch
<1>8. \A x \in Replicas : SolvingOn(x)' \union AskingOn(x)' \subseteq admitted'[x]
  <2>1. \A x \in Replicas : SolvingOn(x) \union AskingOn(x) \subseteq admitted[x]
    BY <1>1 DEF CountersMatch
  <2>2. HoldsSolver(new) \/ HoldsAi(new) => q \in admitted[r]
    BY <1>1 DEF HoldsSolver, HoldsAi, HandlerMoves, InHandler, HandlersAreAdmitted
  <2>3. QED
    BY <1>1, <1>2, <2>1, <2>2
<1>9. \A x \in Replicas : busy'[x] = Cardinality(admitted'[x]) /\ busy'[x] <= MaxConcurrentRequests[x]
  BY <1>1 DEF CountersMatch
<1>10. KindsFit'
  <2>1. \A p \in Requests : req'[p] = IF p = q THEN new ELSE req[p]
    BY <1>1 DEF TypeOK
  <2>2. QED
    BY <2>1 DEF KindsFit, HandlerMoves
<1>11. QED
  BY <1>4, <1>5, <1>6, <1>7, <1>8, <1>9, <1>10 DEF CountersMatch
-----------------------------------------------------------------------------
(* Each action of a handler is such a step.                                *)

LEMMA MovesTo ==
  ASSUME TypeOK, NEW q \in Requests, req[q] \in Open, NEW phase \in Phases, MoveTo(q, phase),
         InHandler(req[q]), UNCHANGED <<admitted, busy>>,
         FitsKind([req[q] EXCEPT !.at = phase]),
         SolverSlot(q, req[q].on, [req[q] EXCEPT !.at = phase]),
         AiSlot(q, req[q].on, [req[q] EXCEPT !.at = phase])
  PROVE  \E r \in Replicas, new \in Open : HandlerMoves(q, r, new)
<1> DEFINE new == [req[q] EXCEPT !.at = phase]
<1>1. new \in Open /\ new.on = req[q].on /\ req[q].on \in Replicas
  BY DEF Open
<1>2. req' = [req EXCEPT ![q] = new]
  BY DEF MoveTo, TypeOK
<1>3. HandlerMoves(q, req[q].on, new)
  BY <1>1, <1>2 DEF HandlerMoves
<1>4. QED
  BY <1>1, <1>3

\* The request leaves a transaction or a slot.
LEMMA Leaves ==
  ASSUME TypeOK, NEW q \in Requests, req[q] \in Open, NEW phase \in Phases, Leave(q, phase),
         InHandler(req[q]), UNCHANGED <<admitted, busy>>,
         FitsKind(NewRequest(phase, req[q].on, req[q].kind)),
         SolverSlot(q, req[q].on, NewRequest(phase, req[q].on, req[q].kind)),
         AiSlot(q, req[q].on, NewRequest(phase, req[q].on, req[q].kind))
  PROVE  \E r \in Replicas, new \in Open : HandlerMoves(q, r, new)
<1> DEFINE new == NewRequest(phase, req[q].on, req[q].kind)
<1>1. new \in Open /\ new.on = req[q].on /\ req[q].on \in Replicas
  BY LimitsAreNumbers DEF Open, NewRequest, Days
<1>2. HandlerMoves(q, req[q].on, new)
  BY <1>1 DEF HandlerMoves, Leave
<1>3. QED
  BY <1>1, <1>2

\* The steps of handlers: what Next does to a request apart from the gate.
HandlerNext(q) ==
  \/ AnswerAtOnce(q) \/ Disconnect(q) \/ SolverExitsQuietly(q)
  \/ Solve(q) \/ SolverPosts(q) \/ SolverCrashes(q) \/ SolverTimesOut(q)
  \/ ExecuteAiRequest(q) \/ PreparationFails(q) \/ ProviderAnswers(q) \/ ProviderFails(q)
  \/ Begin(q) \/ Lock(q) \/ Count(q) \/ TransactionFails(q)
  \/ CommitReservation(q) \/ CommitLink(q) \/ CommitUnheard(q)

LEMMA HandlerSteps ==
  ASSUME TypeOK, KindsFit, NEW q \in Requests, HandlerNext(q)
  PROVE  \E r \in Replicas, new \in Open : HandlerMoves(q, r, new)
<1>1. req[q].at # "idle" => req[q] \in Open /\ req[q].on \in Replicas /\ req[q].kind \in Kinds
  BY RequestKinds DEF Open
<1> DEFINE Moved(phase) == [req[q] EXCEPT !.at = phase]
           Left(phase)  == NewRequest(phase, req[q].on, req[q].kind)
<1>2. ASSUME req[q] \in Open, NEW phase \in Phases
      PROVE  /\ Moved(phase).at = phase /\ Moved(phase).kind = req[q].kind
             /\ Left(phase).at = phase /\ Left(phase).kind = req[q].kind
  BY <1>2 DEF NewRequest, Open
<1>f. FitsKind(req[q])
  BY DEF KindsFit
<1>3. CASE AnswerAtOnce(q)
  <2>1. PICK phase \in {"replying", "failed"} : MoveTo(q, phase)
    BY <1>3 DEF AnswerAtOnce
  <2>2. req[q].at = "routed" /\ req[q] \in Open /\ phase \in Phases
    BY <1>1, <1>3 DEF AnswerAtOnce, At, Phases
  <2>3. /\ SolverSlot(q, req[q].on, Moved(phase)) /\ AiSlot(q, req[q].on, Moved(phase))
        /\ FitsKind(Moved(phase))
    BY <1>2, <1>3, <2>2 DEF SolverSlot, AiSlot, HoldsSolver, HoldsAi, FitsKind, AnswerAtOnce, slots
  <2>4. QED
    BY <1>3, <2>1, <2>2, <2>3, MovesTo DEF AnswerAtOnce, slots, InHandler
<1>4. CASE Disconnect(q) \/ SolverExitsQuietly(q) \/ Begin(q)
  <2>1. req[q] \in Open /\ InHandler(req[q])
    BY <1>1, <1>4 DEF Disconnect, SolverExitsQuietly, Begin, Begins, HasThread, At, InHandler
  <2>2. PICK new : /\ req' = [req EXCEPT ![q] = new]
                   /\ \/ new = [req[q] EXCEPT !.gone = TRUE]
                      \/ new = [req[q] EXCEPT !.thread = FALSE]
                      \/ new = [req[q] EXCEPT !.at = "waiting", !.day = day] /\ Begins(q)
    <3>1. CASE Disconnect(q)
      BY <3>1 DEF Disconnect, TypeOK
    <3>2. CASE SolverExitsQuietly(q)
      BY <3>2 DEF SolverExitsQuietly, TypeOK
    <3>3. CASE Begin(q)
      BY <3>3 DEF Begin, TypeOK
    <3>4. QED
      BY <1>4, <3>1, <3>2, <3>3
  <2>3. new \in Open /\ new.on = req[q].on
    BY <2>1, <2>2 DEF Open, Phases, TypeOK
  <2>4. (HoldsSolver(new) <=> HoldsSolver(req[q])) /\ (HoldsAi(new) <=> HoldsAi(req[q])) /\ FitsKind(new)
    <3>1. CASE new.at = req[q].at /\ new.kind = req[q].kind
      BY <1>f, <3>1 DEF HoldsSolver, HoldsAi, FitsKind
    <3>2. CASE Begins(q) /\ new = [req[q] EXCEPT !.at = "waiting", !.day = day]
      <4>1. new.at = "waiting" /\ new.kind = req[q].kind
        BY <2>1, <3>2 DEF Open
      <4>2. CASE req[q].at = "preparing"
        BY <1>f, <4>1, <4>2 DEF HoldsSolver, HoldsAi, FitsKind
      <4>3. CASE req[q].at = "routed" /\ req[q].kind = "share"
        BY <4>1, <4>3 DEF HoldsSolver, HoldsAi, FitsKind
      <4>4. QED
        BY <3>2, <4>2, <4>3 DEF Begins, At
    <3>3. QED
      BY <2>1, <2>2, <3>1, <3>2 DEF Open
  <2>5. UNCHANGED slots
    BY <1>4 DEF Disconnect, SolverExitsQuietly, Begin
  <2>6. HandlerMoves(q, req[q].on, new)
    BY <2>1, <2>2, <2>3, <2>4, <2>5 DEF HandlerMoves, SolverSlot, AiSlot, slots
  <2>7. QED
    BY <1>1, <2>1, <2>3, <2>6 DEF Open
<1>5. CASE Solve(q)
  <2>1. /\ req[q].at = "routed" /\ req[q] \in Open /\ InHandler(req[q])
        /\ UNCHANGED <<admitted, busy, asking>>
    BY <1>1, <1>5 DEF Solve, At, InHandler
  <2>2. CASE solving[req[q].on] >= MaxConcurrentSolves
    <3>1. MoveTo(q, "replying") /\ UNCHANGED solving /\ "replying" \in Phases
      BY <1>5, <2>2 DEF Solve, Phases
    <3>2. /\ SolverSlot(q, req[q].on, Moved("replying")) /\ AiSlot(q, req[q].on, Moved("replying"))
          /\ FitsKind(Moved("replying"))
      BY <1>2, <2>1, <3>1 DEF SolverSlot, AiSlot, HoldsSolver, HoldsAi, FitsKind
    <3>3. QED
      BY <2>1, <3>1, <3>2, MovesTo
  <2>3. CASE ~(solving[req[q].on] >= MaxConcurrentSolves)
    <3> DEFINE new == [req[q] EXCEPT !.at = "solving", !.thread = TRUE]
    <3>1. req' = [req EXCEPT ![q] = new] /\ solving' = [solving EXCEPT ![req[q].on] = @ + 1]
      BY <1>5, <2>3 DEF Solve, TypeOK
    <3>2. new \in Open /\ new.on = req[q].on /\ new.at = "solving" /\ new.kind = req[q].kind
      BY <2>1 DEF Open, Phases
    <3>3. solving[req[q].on] < MaxConcurrentSolves
      <4>1. solving[req[q].on] \in Nat
        BY <1>1, <2>1 DEF TypeOK
      <4>2. QED
        BY <2>3, <4>1, LimitsAreNumbers
    <3>4. SolverSlot(q, req[q].on, new) /\ AiSlot(q, req[q].on, new) /\ FitsKind(new)
      BY <2>1, <3>1, <3>2, <3>3 DEF SolverSlot, AiSlot, HoldsSolver, HoldsAi, FitsKind
    <3>5. HandlerMoves(q, req[q].on, new)
      BY <2>1, <3>1, <3>2, <3>4 DEF HandlerMoves
    <3>6. QED
      BY <1>1, <2>1, <3>2, <3>5
  <2>4. QED
    BY <2>2, <2>3
<1>6. CASE SolverPosts(q) \/ SolverCrashes(q) \/ SolverTimesOut(q)
  <2>1. PICK phase \in {"replying", "failed"} : EndSolve(q, phase)
    BY <1>6 DEF SolverPosts, SolverCrashes, SolverTimesOut
  <2>2. /\ req[q].at = "solving" /\ req[q] \in Open /\ InHandler(req[q]) /\ phase \in Phases
        /\ UNCHANGED <<admitted, busy, asking>> /\ Leave(q, phase)
        /\ solving' = [solving EXCEPT ![req[q].on] = Minus(@)]
    BY <1>1, <2>1 DEF EndSolve, At, InHandler, Phases
  <2>3. /\ SolverSlot(q, req[q].on, Left(phase)) /\ AiSlot(q, req[q].on, Left(phase))
        /\ FitsKind(Left(phase))
    BY <1>2, <2>2 DEF SolverSlot, AiSlot, HoldsSolver, HoldsAi, FitsKind
  <2>4. QED
    BY <2>2, <2>3, Leaves
<1>7. CASE ExecuteAiRequest(q)
  <2>1. /\ req[q].at = "routed" /\ req[q].kind = "ai" /\ req[q] \in Open /\ InHandler(req[q])
        /\ UNCHANGED <<admitted, busy, solving>>
    BY <1>1, <1>7 DEF ExecuteAiRequest, At, InHandler
  <2>2. PICK phase \in {"replying", "preparing"} :
          /\ MoveTo(q, phase)
          /\ \/ phase = "replying" /\ UNCHANGED asking
             \/ /\ phase = "preparing" /\ ~(asking[req[q].on] >= 1)
                /\ asking' = [asking EXCEPT ![req[q].on] = @ + 1]
    BY <1>7 DEF ExecuteAiRequest
  <2>3. asking[req[q].on] \in Nat /\ phase \in Phases
    BY <1>1, <2>1, <2>2 DEF TypeOK, Phases
  <2>4. /\ SolverSlot(q, req[q].on, Moved(phase)) /\ FitsKind(Moved(phase))
        /\ ~HoldsAi(req[q]) /\ (HoldsAi(Moved(phase)) <=> phase = "preparing")
    BY <1>2, <2>1, <2>2, <2>3 DEF SolverSlot, HoldsSolver, HoldsAi, FitsKind
  <2>5. ~(asking[req[q].on] >= 1) => asking[req[q].on] < 1
    BY <2>3
  <2>6. AiSlot(q, req[q].on, Moved(phase))
    BY <2>2, <2>4, <2>5 DEF AiSlot
  <2>7. QED
    BY <2>1, <2>2, <2>3, <2>4, <2>6, MovesTo
<1>8. CASE Lock(q)
  <2>1. /\ req[q].at = "waiting" /\ req[q] \in Open /\ InHandler(req[q])
        /\ UNCHANGED <<admitted, busy, solving, asking>> /\ MoveTo(q, "counting") /\ "counting" \in Phases
    BY <1>1, <1>8 DEF Lock, At, InHandler, slots, Phases
  <2>2. /\ SolverSlot(q, req[q].on, Moved("counting")) /\ AiSlot(q, req[q].on, Moved("counting"))
        /\ FitsKind(Moved("counting"))
    BY <1>2, <1>f, <2>1 DEF SolverSlot, AiSlot, HoldsSolver, HoldsAi, FitsKind
  <2>3. QED
    BY <2>1, <2>2, MovesTo
<1>9. CASE \E phase \in {"failed", "replying"} :
             /\ UNCHANGED <<admitted, busy, solving>>
             /\ EndAi(q, phase) /\ HoldsAi(req[q]) /\ req[q].at # "idle"
  <2>1. PICK phase \in {"failed", "replying"} :
          /\ UNCHANGED <<admitted, busy, solving>> /\ Leave(q, phase)
          /\ asking' = [asking EXCEPT ![req[q].on] = Minus(@)]
          /\ HoldsAi(req[q]) /\ req[q].at # "idle"
    BY <1>9 DEF EndAi
  <2>2. req[q] \in Open /\ InHandler(req[q]) /\ phase \in Phases
    BY <1>1, <2>1 DEF HoldsAi, InHandler, Phases
  <2>3. /\ SolverSlot(q, req[q].on, Left(phase)) /\ AiSlot(q, req[q].on, Left(phase))
        /\ FitsKind(Left(phase))
    BY <1>2, <2>1, <2>2 DEF SolverSlot, AiSlot, HoldsSolver, HoldsAi, FitsKind
  <2>4. QED
    BY <2>1, <2>2, <2>3, Leaves
<1>10. CASE \E phase \in {"failed", "replying"} :
              /\ UNCHANGED <<admitted, busy, solving, asking>> /\ Leave(q, phase)
              /\ req[q].at \in {"waiting", "counting", "writing"} /\ req[q].kind # "ai"
  <2>1. PICK phase \in {"failed", "replying"} :
          /\ UNCHANGED <<admitted, busy, solving, asking>> /\ Leave(q, phase)
          /\ req[q].at \in {"waiting", "counting", "writing"} /\ req[q].kind # "ai"
    BY <1>10
  <2>2. req[q] \in Open /\ InHandler(req[q]) /\ phase \in Phases
    BY <1>1, <2>1 DEF InHandler, Phases
  <2>3. /\ SolverSlot(q, req[q].on, Left(phase)) /\ AiSlot(q, req[q].on, Left(phase))
        /\ FitsKind(Left(phase))
    BY <1>2, <2>1, <2>2 DEF SolverSlot, AiSlot, HoldsSolver, HoldsAi, FitsKind
  <2>4. QED
    BY <2>1, <2>2, <2>3, Leaves
<1>11. CASE PreparationFails(q) \/ ProviderAnswers(q) \/ ProviderFails(q)
  BY <1>9, <1>11 DEF PreparationFails, ProviderAnswers, ProviderFails, At, HoldsAi
<1>12. CASE TransactionFails(q)
  BY <1>9, <1>10, <1>12 DEF TransactionFails, At, HoldsAi
<1>13. CASE Count(q)
  <2>1. CASE Admissible(q)
    <3>1. /\ req[q].at = "counting" /\ req[q] \in Open /\ InHandler(req[q])
          /\ UNCHANGED <<admitted, busy, solving, asking>> /\ MoveTo(q, "writing") /\ "writing" \in Phases
      BY <1>1, <1>13, <2>1 DEF Count, At, InHandler, Phases
    <3>2. /\ SolverSlot(q, req[q].on, Moved("writing")) /\ AiSlot(q, req[q].on, Moved("writing"))
          /\ FitsKind(Moved("writing"))
      BY <1>2, <1>f, <3>1 DEF SolverSlot, AiSlot, HoldsSolver, HoldsAi, FitsKind
    <3>3. QED
      BY <3>1, <3>2, MovesTo
  <2>2. CASE ~Admissible(q) /\ req[q].kind = "ai"
    BY <1>9, <1>13, <2>2 DEF Count, At, HoldsAi
  <2>3. CASE ~Admissible(q) /\ req[q].kind # "ai"
    BY <1>10, <1>13, <2>3 DEF Count, At
  <2>4. QED
    BY <2>1, <2>2, <2>3
<1>14. CASE CommitReservation(q)
  <2>1. /\ req[q].at = "writing" /\ req[q].kind = "ai" /\ req[q] \in Open /\ InHandler(req[q])
        /\ UNCHANGED <<admitted, busy, solving>>
    BY <1>1, <1>14 DEF CommitReservation, At, InHandler
  <2>2. CASE req[q].gone
    BY <1>9, <1>14, <2>1, <2>2 DEF CommitReservation, HoldsAi
  <2>3. CASE ~req[q].gone
    <3>1. Leave(q, "calling") /\ UNCHANGED asking /\ "calling" \in Phases
      BY <1>14, <2>3 DEF CommitReservation, Phases
    <3>2. /\ SolverSlot(q, req[q].on, Left("calling")) /\ AiSlot(q, req[q].on, Left("calling"))
          /\ FitsKind(Left("calling"))
      BY <1>2, <2>1, <3>1 DEF SolverSlot, AiSlot, HoldsSolver, HoldsAi, FitsKind
    <3>3. QED
      BY <2>1, <3>1, <3>2, Leaves
  <2>4. QED
    BY <2>2, <2>3
<1>15. CASE CommitLink(q)
  BY <1>10, <1>15 DEF CommitLink, At, slots
<1>16. CASE CommitUnheard(q)
  BY <1>9, <1>10, <1>16 DEF CommitUnheard, At, HoldsAi
<1>17. QED
  BY <1>3, <1>4, <1>5, <1>6, <1>7, <1>8, <1>11, <1>12, <1>13, <1>14, <1>15, <1>16 DEF HandlerNext

-----------------------------------------------------------------------------
(* The gate and the replica.                                               *)

\* A step at the gate of replica r: a request without a slot comes or goes.
GateMoves(q, r, new) ==
  /\ req[q].at = "idle" \/ req[q].on = r
  /\ new.at = "idle" \/ new.on = r
  /\ ~HoldsSolver(new) /\ ~HoldsSolver(req[q]) /\ ~HoldsAi(new) /\ ~HoldsAi(req[q])
  /\ FitsKind(new)
  /\ req' = [req EXCEPT ![q] = new]
  /\ UNCHANGED <<solving, asking>>
  /\ \E S \in SUBSET Requests, m \in Nat :
       /\ admitted' = [admitted EXCEPT ![r] = S]
       /\ busy' = [busy EXCEPT ![r] = m]
       /\ Kept(q, admitted[r], S, busy[r], m, MaxConcurrentRequests[r])
       /\ new.at = "idle" => q \notin S
       /\ InHandler(new) => q \in S

LEMMA GateKeepsCounters ==
  ASSUME CountersInv, NEW q \in Requests, NEW r \in Replicas, NEW new, GateMoves(q, r, new)
  PROVE  CountersMatch' /\ HandlersAreAdmitted' /\ KindsFit'
<1>1. /\ TypeOK /\ CountersMatch /\ HandlersAreAdmitted /\ KindsFit
      /\ req[q].at = "idle" \/ req[q].on = r
      /\ new.at = "idle" \/ new.on = r
      /\ ~HoldsSolver(new) /\ ~HoldsSolver(req[q]) /\ ~HoldsAi(new) /\ ~HoldsAi(req[q])
      /\ req' = [req EXCEPT ![q] = new] /\ UNCHANGED <<solving, asking>>
  BY DEF CountersInv, GateMoves
<1>2. PICK S \in SUBSET Requests, m \in Nat :
        /\ admitted' = [admitted EXCEPT ![r] = S]
        /\ busy' = [busy EXCEPT ![r] = m]
        /\ Kept(q, admitted[r], S, busy[r], m, MaxConcurrentRequests[r])
        /\ new.at = "idle" => q \notin S
        /\ InHandler(new) => q \in S
  BY DEF GateMoves
<1>3. /\ \A p \in Requests : req'[p] = IF p = q THEN new ELSE req[p]
      /\ \A x \in Replicas : /\ admitted'[x] = IF x = r THEN S ELSE admitted[x]
                             /\ busy'[x] = IF x = r THEN m ELSE busy[x]
  BY <1>1, <1>2 DEF TypeOK
<1>4. /\ \A x \in Replicas \ {r} : /\ On(x)' = On(x)
                                   /\ SolvingOn(x)' = SolvingOn(x)
                                   /\ AskingOn(x)' = AskingOn(x)
      /\ On(r)' = IF new.at # "idle" THEN On(r) \union {q} ELSE On(r) \ {q}
      /\ SolvingOn(r)' = SolvingOn(r) \ {q}
      /\ AskingOn(r)' = AskingOn(r) \ {q}
  BY <1>1, HoldersMove
<1>5. q \notin SolvingOn(r) /\ q \notin AskingOn(r)
  BY <1>1 DEF SolvingOn, AskingOn, HoldsSolver, HoldsAi, At
<1>6. SolvingOn(r)' = SolvingOn(r) /\ AskingOn(r)' = AskingOn(r)
  BY <1>4, <1>5
<1>7. /\ S \subseteq admitted[r] \union {q}
      /\ admitted[r] \ {q} \subseteq S
  BY <1>2 DEF Kept
<1>8. \A x \in Replicas : busy'[x] = Cardinality(admitted'[x]) /\ busy'[x] <= MaxConcurrentRequests[x]
  <2>1. busy[r] = Cardinality(admitted[r]) /\ busy[r] <= MaxConcurrentRequests[r] /\ busy[r] \in Nat
    BY <1>1 DEF CountersMatch, TypeOK
  <2>2. IsFiniteSet(admitted[r]) /\ MaxConcurrentRequests[r] \in Nat
    BY <1>1, HoldersAreFinite, LimitsAreNumbers
  <2>3. m = Cardinality(S) /\ m <= MaxConcurrentRequests[r]
    BY <1>2, <2>1, <2>2, KeptCounts
  <2>4. QED
    BY <1>1, <1>3, <2>3 DEF CountersMatch
<1>9. \A x \in Replicas : admitted'[x] \subseteq On(x)'
  BY <1>1, <1>2, <1>3, <1>4, <1>7 DEF CountersMatch
<1>10. \A x \in Replicas : SolvingOn(x)' \union AskingOn(x)' \subseteq admitted'[x]
  <2>1. \A x \in Replicas : SolvingOn(x) \union AskingOn(x) \subseteq admitted[x]
    BY <1>1 DEF CountersMatch
  <2>2. SolvingOn(r) \union AskingOn(r) \subseteq S
    BY <1>5, <1>7, <2>1
  <2>3. QED
    BY <1>3, <1>4, <1>6, <2>1, <2>2
<1>11. HandlersAreAdmitted'
  <2>1. \A p \in Requests \ {q}, x \in Replicas : p \in admitted[x] => p \in admitted'[x]
    BY <1>3, <1>7
  <2>2. InHandler(new) => new.on = r /\ q \in admitted'[r]
    BY <1>1, <1>2, <1>3 DEF InHandler
  <2>3. \A p \in Requests : InHandler(req[p]) => req[p].on \in Replicas
    BY <1>1, RequestKinds DEF InHandler, Open
  <2>4. QED
    BY <1>1, <1>3, <2>1, <2>2, <2>3 DEF HandlersAreAdmitted
<1>12. KindsFit'
  BY <1>1, <1>3 DEF KindsFit, GateMoves
<1>13. \A x \in Replicas : /\ solving'[x] = Cardinality(SolvingOn(x)') /\ solving'[x] <= MaxConcurrentSolves
                           /\ asking'[x] = Cardinality(AskingOn(x)') /\ asking'[x] <= 1
  BY <1>1, <1>4, <1>6 DEF CountersMatch
<1>14. QED
  BY <1>8, <1>9, <1>10, <1>11, <1>12, <1>13 DEF CountersMatch

\* Replies end a request whether or not it was admitted.
LEMMA ReleaseKeeps ==
  ASSUME CountersInv, NEW q \in Requests, NEW r \in Replicas, ReleaseRequest(q, r)
  PROVE  \E S \in SUBSET Requests, m \in Nat :
           /\ admitted' = [admitted EXCEPT ![r] = S]
           /\ busy' = [busy EXCEPT ![r] = m]
           /\ Kept(q, admitted[r], S, busy[r], m, MaxConcurrentRequests[r])
           /\ q \notin S
<1>1. admitted \in [Replicas -> SUBSET Requests] /\ busy \in [Replicas -> Nat]
  BY DEF CountersInv, TypeOK
<1>2. CASE q \in admitted[r]
  <2>1. /\ admitted' = [admitted EXCEPT ![r] = @ \ {q}]
        /\ busy' = [busy EXCEPT ![r] = Minus(@)]
    BY <1>2 DEF ReleaseRequest
  <2>2. admitted[r] \ {q} \in SUBSET Requests /\ Minus(busy[r]) \in Nat
    BY <1>1 DEF Minus
  <2>3. Kept(q, admitted[r], admitted[r] \ {q}, busy[r], Minus(busy[r]), MaxConcurrentRequests[r])
    BY <1>2 DEF Kept
  <2>4. QED
    BY <2>1, <2>2, <2>3
<1>3. CASE q \notin admitted[r]
  <2>1. admitted' = [admitted EXCEPT ![r] = admitted[r]] /\ busy' = [busy EXCEPT ![r] = busy[r]]
    BY <1>1, <1>3 DEF ReleaseRequest
  <2>2. Kept(q, admitted[r], admitted[r], busy[r], busy[r], MaxConcurrentRequests[r])
    BY DEF Kept
  <2>3. QED
    BY <1>1, <1>3, <2>1, <2>2
<1>4. QED
  BY <1>2, <1>3

\* What the gate does to a request.
GateNext(q) ==
  \/ OnError(q) \/ OnResponse(q)
  \/ \E r \in Replicas, k \in Kinds : Arrive(q, r, k) \/ TurnAway(q, r, k)

LEMMA GateSteps ==
  ASSUME CountersInv, NEW q \in Requests, GateNext(q)
  PROVE  \E r \in Replicas, new \in {Idle} \union Open : GateMoves(q, r, new)
<1>1. /\ admitted \in [Replicas -> SUBSET Requests] /\ busy \in [Replicas -> Nat]
      /\ req \in [Requests -> {Idle} \union Open]
      /\ req[q].at # "idle" => req[q] \in Open /\ req[q].on \in Replicas
  BY RequestKinds DEF CountersInv, TypeOK, Open
<1>2. ASSUME NEW r \in Replicas, NEW k \in Kinds, NEW phase \in Phases
      PROVE  /\ NewRequest(phase, r, k) \in Open /\ NewRequest(phase, r, k).on = r
             /\ NewRequest(phase, r, k).at = phase
  BY LimitsAreNumbers DEF NewRequest, Open, Days
<1>3. ASSUME NEW r \in Replicas, NEW k \in Kinds, Arrive(q, r, k)
      PROVE  GateMoves(q, r, NewRequest("routed", r, k)) /\ NewRequest("routed", r, k) \in Open
  <2>1. q \notin admitted[r]
    BY <1>3 DEF Arrive, CountersInv, CountersMatch, On
  <2>2. busy[r] \in Nat /\ busy[r] + 1 \in Nat /\ busy[r] + 1 <= MaxConcurrentRequests[r]
    BY <1>1, <1>3, LimitsAreNumbers DEF Arrive
  <2>3. /\ admitted' = [admitted EXCEPT ![r] = admitted[r] \union {q}]
        /\ busy' = [busy EXCEPT ![r] = busy[r] + 1]
        /\ admitted[r] \union {q} \in SUBSET Requests
    BY <1>1, <1>3 DEF Arrive
  <2>4. Kept(q, admitted[r], admitted[r] \union {q}, busy[r], busy[r] + 1, MaxConcurrentRequests[r])
    BY <2>1, <2>2 DEF Kept
  <2> DEFINE new == NewRequest("routed", r, k)
  <2>5. new \in Open /\ new.on = r /\ new.at = "routed"
    BY <1>2 DEF Phases
  <2>6. /\ req[q].at = "idle" /\ req' = [req EXCEPT ![q] = new] /\ UNCHANGED <<solving, asking>>
    BY <1>3 DEF Arrive, At
  <2> HIDE DEF new
  <2>7. /\ ~HoldsSolver(new) /\ ~HoldsSolver(req[q]) /\ ~HoldsAi(new) /\ ~HoldsAi(req[q])
        /\ FitsKind(new)
    BY <2>5, <2>6 DEF HoldsSolver, HoldsAi, FitsKind
  <2>8. GateMoves(q, r, new)
    BY <2>2, <2>3, <2>4, <2>5, <2>6, <2>7 DEF GateMoves
  <2>9. QED
    BY <2>5, <2>8 DEF new
<1>4. ASSUME NEW r \in Replicas, NEW k \in Kinds, TurnAway(q, r, k)
      PROVE  GateMoves(q, r, NewRequest("replying", r, k)) /\ NewRequest("replying", r, k) \in Open
  <2> DEFINE new == NewRequest("replying", r, k)
  <2>1. new \in Open /\ new.on = r /\ new.at = "replying"
    BY <1>2 DEF Phases
  <2>2. /\ req[q].at = "idle" /\ req' = [req EXCEPT ![q] = new] /\ UNCHANGED <<slots>>
    BY <1>4 DEF TurnAway, At
  <2>3. /\ admitted' = [admitted EXCEPT ![r] = admitted[r]] /\ busy' = [busy EXCEPT ![r] = busy[r]]
        /\ Kept(q, admitted[r], admitted[r], busy[r], busy[r], MaxConcurrentRequests[r])
        /\ admitted[r] \in SUBSET Requests /\ busy[r] \in Nat
    BY <1>1, <2>2 DEF slots, Kept
  <2> HIDE DEF new
  <2>4. /\ ~HoldsSolver(new) /\ ~HoldsSolver(req[q]) /\ ~HoldsAi(new) /\ ~HoldsAi(req[q])
        /\ FitsKind(new) /\ ~InHandler(new)
    BY <2>1, <2>2 DEF HoldsSolver, HoldsAi, FitsKind, InHandler
  <2>5. GateMoves(q, r, new)
    BY <2>1, <2>2, <2>3, <2>4 DEF GateMoves, slots
  <2>6. QED
    BY <2>1, <2>5 DEF new
<1>5. CASE OnError(q)
  <2> DEFINE new == [req[q] EXCEPT !.at = "replying"]
             r == req[q].on
  <2>1. /\ req[q].at = "failed" /\ req[q] \in Open /\ r \in Replicas
        /\ req' = [req EXCEPT ![q] = new] /\ UNCHANGED <<solving, asking>> /\ ReleaseRequest(q, r)
    BY <1>1, <1>5 DEF OnError, At, MoveTo
  <2>2. new \in Open /\ new.on = r /\ new.at = "replying"
    BY <2>1 DEF Open, Phases
  <2>3. \E S \in SUBSET Requests, m \in Nat :
           /\ admitted' = [admitted EXCEPT ![r] = S]
           /\ busy' = [busy EXCEPT ![r] = m]
           /\ Kept(q, admitted[r], S, busy[r], m, MaxConcurrentRequests[r])
           /\ q \notin S
    BY <2>1, ReleaseKeeps
  <2>6. r = req[q].on
    OBVIOUS
  <2> HIDE DEF new, r
  <2>4. /\ ~HoldsSolver(new) /\ ~HoldsSolver(req[q]) /\ ~HoldsAi(new) /\ ~HoldsAi(req[q])
        /\ FitsKind(new) /\ ~InHandler(new)
    BY <2>1, <2>2 DEF HoldsSolver, HoldsAi, FitsKind, InHandler
  <2>5. GateMoves(q, r, new)
    BY <2>1, <2>2, <2>3, <2>4, <2>6 DEF GateMoves
  <2>7. QED
    BY <2>1, <2>2, <2>5
<1>6. CASE OnResponse(q)
  <2> DEFINE r == req[q].on
  <2>1. /\ req[q].at = "replying" /\ r \in Replicas
        /\ req' = [req EXCEPT ![q] = Idle] /\ UNCHANGED <<solving, asking>> /\ ReleaseRequest(q, r)
    BY <1>1, <1>6 DEF OnResponse, At
  <2>2. Idle.at = "idle"
    BY DEF Idle
  <2>3. \E S \in SUBSET Requests, m \in Nat :
           /\ admitted' = [admitted EXCEPT ![r] = S]
           /\ busy' = [busy EXCEPT ![r] = m]
           /\ Kept(q, admitted[r], S, busy[r], m, MaxConcurrentRequests[r])
           /\ q \notin S
    BY <2>1, ReleaseKeeps
  <2>6. r = req[q].on
    OBVIOUS
  <2> HIDE DEF r
  <2>4. /\ ~HoldsSolver(Idle) /\ ~HoldsSolver(req[q]) /\ ~HoldsAi(Idle) /\ ~HoldsAi(req[q])
        /\ FitsKind(Idle) /\ ~InHandler(Idle)
    BY <2>1, <2>2 DEF HoldsSolver, HoldsAi, FitsKind, InHandler
  <2>5. GateMoves(q, r, Idle)
    BY <2>1, <2>2, <2>3, <2>4, <2>6 DEF GateMoves
  <2>7. QED
    BY <2>1, <2>5
<1>7. QED
  BY <1>3, <1>4, <1>5, <1>6 DEF GateNext

\* Restarting a replica empties what it holds and leaves the others alone.
LEMMA RestartKeepsCounters ==
  ASSUME CountersInv, NEW r \in Replicas, Restart(r)
  PROVE  CountersMatch' /\ HandlersAreAdmitted' /\ KindsFit'
<1>1. /\ TypeOK /\ CountersMatch /\ HandlersAreAdmitted /\ KindsFit
      /\ req' = [q \in Requests |-> IF q \in On(r) THEN Idle ELSE req[q]]
      /\ \A x \in Replicas : /\ admitted'[x] = IF x = r THEN {} ELSE admitted[x]
                             /\ busy'[x] = IF x = r THEN 0 ELSE busy[x]
                             /\ solving'[x] = IF x = r THEN 0 ELSE solving[x]
                             /\ asking'[x] = IF x = r THEN 0 ELSE asking[x]
  BY DEF CountersInv, Restart, TypeOK
<1>2. \A p \in Requests : /\ req'[p] = IF p \in On(r) THEN Idle ELSE req[p]
                          /\ p \in On(r) <=> req[p].at # "idle" /\ req[p].on = r
  BY <1>1 DEF On, At
<1>3. Idle.at = "idle"
  BY DEF Idle
<1>4. \A x \in Replicas : On(x)' = IF x = r THEN {} ELSE On(x)
  <2> SUFFICES ASSUME NEW x \in Replicas PROVE On(x)' = IF x = r THEN {} ELSE On(x)
    OBVIOUS
  <2>1. \A p : p \in On(x)' <=> p \in Requests /\ req'[p].at # "idle" /\ req'[p].on = x
    BY DEF On, At
  <2>2. \A p : p \in On(x) <=> p \in Requests /\ req[p].at # "idle" /\ req[p].on = x
    BY DEF On, At
  <2>3. CASE x = r
    <3>1. \A p : p \notin On(x)'
      BY <1>2, <1>3, <2>1, <2>2, <2>3
    <3> QED
      BY <2>3, <3>1
  <2>4. CASE x # r
    <3>1. \A p \in Requests : p \in On(x)' <=> p \in On(x)
      <4> SUFFICES ASSUME NEW p \in Requests PROVE p \in On(x)' <=> p \in On(x)
        OBVIOUS
      <4>1. CASE p \in On(r)
        BY <1>2, <1>3, <2>1, <2>2, <2>4, <4>1
      <4>2. CASE p \notin On(r)
        BY <1>2, <2>1, <2>2, <4>2
      <4> QED
        BY <4>1, <4>2
    <3>2. \A p : p \in On(x)' <=> p \in On(x)
      BY <2>1, <2>2, <3>1
    <3> QED
      BY <2>4, <3>2
  <2> QED
    BY <2>3, <2>4
<1>5. \A x \in Replicas \ {r} : \A p \in On(x) : req'[p] = req[p]
  BY <1>2 DEF On
<1>6. \A x \in Replicas : /\ SolvingOn(x)' = IF x = r THEN {} ELSE SolvingOn(x)
                          /\ AskingOn(x)' = IF x = r THEN {} ELSE AskingOn(x)
  <2>1. SolvingOn(r)' = {} /\ AskingOn(r)' = {}
    BY <1>4 DEF SolvingOn, AskingOn
  <2>2. ASSUME NEW x \in Replicas \ {r}
        PROVE  SolvingOn(x)' = SolvingOn(x) /\ AskingOn(x)' = AskingOn(x)
    <3>1. On(x)' = On(x)
      BY <1>4
    <3>2. SolvingOn(x)' = SolvingOn(x)
      BY <1>5, <3>1 DEF SolvingOn, At
    <3>3. AskingOn(x)' = AskingOn(x)
      BY <1>5, <3>1 DEF AskingOn, At
    <3>4. QED
      BY <3>2, <3>3
  <2>3. QED
    BY <2>1, <2>2
<1>7. CountersMatch'
  <2> SUFFICES ASSUME NEW x \in Replicas
               PROVE  /\ busy'[x] = Cardinality(admitted'[x]) /\ busy'[x] <= MaxConcurrentRequests[x]
                      /\ admitted'[x] \subseteq On(x)'
                      /\ SolvingOn(x)' \union AskingOn(x)' \subseteq admitted'[x]
                      /\ solving'[x] = Cardinality(SolvingOn(x)') /\ solving'[x] <= MaxConcurrentSolves
                      /\ asking'[x] = Cardinality(AskingOn(x)') /\ asking'[x] <= 1
    BY DEF CountersMatch
  <2>1. CASE x = r
    <3>1. Cardinality({}) = 0
      BY FS_EmptySet
    <3>2. /\ 0 <= MaxConcurrentRequests[x] /\ 0 <= MaxConcurrentSolves /\ 0 <= 1
      BY LimitsAreNumbers
    <3>3. QED
      BY <1>1, <1>4, <1>6, <2>1, <3>1, <3>2
  <2>2. CASE x # r
    BY <1>1, <1>4, <1>6, <2>2 DEF CountersMatch
  <2>3. QED
    BY <2>1, <2>2
<1>8. HandlersAreAdmitted'
  <2>1. \A p \in Requests : InHandler(req'[p]) => req'[p] = req[p] /\ p \notin On(r)
    BY <1>2, <1>3 DEF InHandler
  <2>2. \A p \in Requests : InHandler(req[p]) => req[p].on \in Replicas /\ req[p].at # "idle"
    BY <1>1, RequestKinds DEF InHandler, Open
  <2>3. QED
    BY <1>1, <1>2, <2>1, <2>2 DEF HandlersAreAdmitted
<1>9. KindsFit'
  BY <1>1, <1>2, <1>3 DEF KindsFit, FitsKind
<1>10. QED
  BY <1>7, <1>8, <1>9

-----------------------------------------------------------------------------
(* The rows that the transactions write.                                   *)

Locked(x) == x.at \in {"counting", "writing"}

\* What a committed transaction of q has written.
Writes(q) ==
  \/ req[q].kind = "ai" /\ ledger' = Reserved(req[q].day) /\ UNCHANGED links
  \/ req[q].kind = "share" /\ links' = Shared(req[q].day) /\ UNCHANGED ledger

\* What a step of q may do to the locks and the rows.
RowsMove(q) ==
  /\ \A p \in Requests \ {q} : req'[p] = req[p]
  /\ Locked(req'[q]) => /\ req'[q].kind = req[q].kind /\ req'[q].day = req[q].day
                        /\ Locked(req[q]) \/ Holders(q) = {}
                        /\ UNCHANGED data
  /\ req'[q].at = "writing" => req[q].at = "writing" \/ Admissible(q)
  /\ \/ UNCHANGED data
     \/ req[q] \in Open /\ req[q].at = "writing" /\ Writes(q)

LEMMA RowSteps ==
  ASSUME TypeOK, KindsFit, NEW q \in Requests, HandlerNext(q) \/ GateNext(q)
  PROVE  RowsMove(q)
<1>1. req \in [Requests -> {Idle} \union Open] /\ (req[q].at # "idle" => req[q] \in Open)
  BY RequestKinds DEF TypeOK, Open
<1>2. ASSUME NEW phase \in Phases, req[q] \in Open, MoveTo(q, phase)
      PROVE  /\ \A p \in Requests \ {q} : req'[p] = req[p]
             /\ req'[q].at = phase /\ req'[q].kind = req[q].kind /\ req'[q].day = req[q].day
  BY <1>1, <1>2 DEF MoveTo, Open
<1>3. ASSUME NEW phase \in Phases, Leave(q, phase)
      PROVE  /\ \A p \in Requests \ {q} : req'[p] = req[p]
             /\ req'[q].at = phase
  BY <1>1, <1>3 DEF Leave, NewRequest
<1>4. CASE Lock(q)
  <2>1. req[q] \in Open /\ MoveTo(q, "counting") /\ UNCHANGED data /\ Holders(q) = {} /\ "counting" \in Phases
    BY <1>1, <1>4 DEF Lock, At, Phases
  <2>2. QED
    BY <1>2, <2>1 DEF RowsMove
<1>5. CASE Count(q)
  <2>1. req[q] \in Open /\ req[q].at = "counting" /\ UNCHANGED data
    BY <1>1, <1>5 DEF Count, At
  <2>2. CASE Admissible(q)
    <3>1. MoveTo(q, "writing") /\ "writing" \in Phases
      BY <1>5, <2>2 DEF Count, Phases
    <3>2. QED
      BY <1>2, <2>1, <2>2, <3>1 DEF RowsMove, Locked
  <2>3. CASE ~Admissible(q)
    <3>1. \E phase \in {"replying", "failed"} : Leave(q, phase)
      BY <1>5, <2>3 DEF Count, EndAi
    <3>2. QED
      BY <1>3, <2>1, <3>1 DEF RowsMove, Locked, Phases
  <2>4. QED
    BY <2>2, <2>3
<1>6. CASE Disconnect(q)
  <2>1. req[q] \in Open /\ req' = [req EXCEPT ![q].gone = TRUE] /\ UNCHANGED data
    BY <1>1, <1>6 DEF Disconnect, At
  <2>2. /\ \A p \in Requests \ {q} : req'[p] = req[p]
        /\ req'[q].at = req[q].at /\ req'[q].kind = req[q].kind /\ req'[q].day = req[q].day
    BY <1>1, <2>1 DEF Open
  <2>3. QED
    BY <2>1, <2>2 DEF RowsMove, Locked
<1>7. CASE CommitReservation(q) \/ CommitLink(q) \/ CommitUnheard(q)
  <2>1. req[q] \in Open /\ req[q].at = "writing"
    BY <1>1, <1>7 DEF CommitReservation, CommitLink, CommitUnheard, At
  <2>2. \E phase \in {"calling", "replying", "failed"} : Leave(q, phase)
    BY <1>7 DEF CommitReservation, CommitLink, CommitUnheard, EndAi
  <2>3. Writes(q)
    <3>1. req[q].kind \in {"ai", "share"}
      BY <2>1 DEF KindsFit, FitsKind
    <3>2. QED
      BY <1>7, <3>1 DEF CommitReservation, CommitLink, CommitUnheard, Writes
  <2>4. QED
    BY <1>3, <2>1, <2>2, <2>3 DEF RowsMove, Locked, Phases
<1>8. CASE \E phase \in Phases \ {"counting", "writing"} : /\ UNCHANGED data
                                                           /\ \/ req[q] \in Open /\ MoveTo(q, phase)
                                                              \/ Leave(q, phase)
  BY <1>2, <1>3, <1>8 DEF RowsMove, Locked
<1>9. CASE AnswerAtOnce(q) \/ OnError(q)
  <2>1. /\ UNCHANGED data /\ req[q] \in Open
        /\ \E phase \in {"replying", "failed"} : MoveTo(q, phase)
    BY <1>1, <1>9 DEF AnswerAtOnce, OnError, At
  <2>2. QED
    BY <1>8, <2>1 DEF Phases
<1>10. CASE \/ SolverPosts(q) \/ SolverCrashes(q) \/ SolverTimesOut(q)
            \/ PreparationFails(q) \/ ProviderAnswers(q) \/ ProviderFails(q) \/ TransactionFails(q)
  <2>1. UNCHANGED data /\ \E phase \in {"replying", "failed"} : Leave(q, phase)
    BY <1>10 DEF SolverPosts, SolverCrashes, SolverTimesOut, EndSolve, PreparationFails,
                 ProviderAnswers, ProviderFails, TransactionFails, EndAi
  <2>2. QED
    BY <1>8, <2>1 DEF Phases
<1>11. CASE ExecuteAiRequest(q)
  <2>1. /\ UNCHANGED data /\ req[q] \in Open
        /\ \E phase \in {"replying", "preparing"} : MoveTo(q, phase)
    BY <1>1, <1>11 DEF ExecuteAiRequest, At
  <2>2. QED
    BY <1>8, <2>1 DEF Phases
<1>12. ASSUME UNCHANGED data, NEW new, req' = [req EXCEPT ![q] = new], ~Locked(new)
       PROVE  RowsMove(q)
  BY <1>1, <1>12 DEF RowsMove, Locked
<1>13. CASE SolverExitsQuietly(q) \/ Begin(q) \/ Solve(q)
  <2>1. req[q] \in Open /\ UNCHANGED data /\ ~Locked(req[q])
    BY <1>1, <1>13 DEF SolverExitsQuietly, HasThread, Begin, Begins, Solve, At, Locked
  <2>2. \E new : req' = [req EXCEPT ![q] = new] /\ ~Locked(new)
    <3>1. CASE SolverExitsQuietly(q)
      <4>1. req' = [req EXCEPT ![q] = [req[q] EXCEPT !.thread = FALSE]]
        BY <1>1, <3>1 DEF SolverExitsQuietly
      <4>2. ~Locked([req[q] EXCEPT !.thread = FALSE])
        BY <2>1 DEF Locked, Open
      <4>3. QED
        BY <4>1, <4>2
    <3>2. CASE Begin(q)
      <4>1. req' = [req EXCEPT ![q] = [req[q] EXCEPT !.at = "waiting", !.day = day]]
        BY <1>1, <3>2 DEF Begin
      <4>2. ~Locked([req[q] EXCEPT !.at = "waiting", !.day = day])
        BY <2>1 DEF Locked, Open
      <4>3. QED
        BY <4>1, <4>2
    <3>3. CASE Solve(q)
      <4>1. \/ req' = [req EXCEPT ![q] = [req[q] EXCEPT !.at = "replying"]]
            \/ req' = [req EXCEPT ![q] = [req[q] EXCEPT !.at = "solving", !.thread = TRUE]]
        BY <1>1, <3>3 DEF Solve, MoveTo
      <4>2. /\ ~Locked([req[q] EXCEPT !.at = "replying"])
            /\ ~Locked([req[q] EXCEPT !.at = "solving", !.thread = TRUE])
        BY <2>1 DEF Locked, Open
      <4>3. QED
        BY <4>1, <4>2
    <3>4. QED
      BY <1>13, <3>1, <3>2, <3>3
  <2>3. QED
    BY <1>12, <2>1, <2>2
<1>14. CASE OnResponse(q) \/ \E r \in Replicas, k \in Kinds : Arrive(q, r, k) \/ TurnAway(q, r, k)
  <2>1. /\ UNCHANGED data
        /\ \/ req' = [req EXCEPT ![q] = Idle]
           \/ \E r \in Replicas, k \in Kinds, phase \in {"routed", "replying"} :
                req' = [req EXCEPT ![q] = NewRequest(phase, r, k)]
    BY <1>14 DEF OnResponse, Arrive, TurnAway
  <2>2. /\ ~Locked(Idle)
        /\ \A r \in Replicas, k \in Kinds, phase \in {"routed", "replying"} : ~Locked(NewRequest(phase, r, k))
    BY DEF Locked, Idle, NewRequest
  <2>3. QED
    BY <1>12, <2>1, <2>2
<1>15. QED
  BY <1>4, <1>5, <1>6, <1>7, <1>9, <1>10, <1>11, <1>13, <1>14 DEF HandlerNext, GateNext

-----------------------------------------------------------------------------
(* The counters of every replica match, always.                            *)

RowsAreFinite == IsFiniteSet(ledger) /\ IsFiniteSet(links)

\* A row that a transaction adds is of the table's type.
LEMMA RowTypes ==
  ASSUME NEW rows, IsFiniteSet(rows), NEW d \in Nat
  PROVE  /\ NewRow(rows, d).day = d /\ NewRow(rows, d).number = Cardinality(OfDay(rows, d)) + 1
         /\ Cardinality(OfDay(rows, d)) \in Nat /\ IsFiniteSet(OfDay(rows, d))
         /\ NewRow(rows, d) \in [day : {d}, number : Nat]
<1>1. IsFiniteSet(OfDay(rows, d))
  BY FS_Subset DEF OfDay
<1>2. Cardinality(OfDay(rows, d)) \in Nat
  BY <1>1, FS_CardinalityType
<1>3. QED
  BY <1>1, <1>2 DEF NewRow

LEMMA WritesKeepTypes ==
  ASSUME TypeOK, RowsAreFinite, NEW q \in Requests, UNCHANGED data \/ (req[q] \in Open /\ Writes(q))
  PROVE  /\ ledger' \subseteq [day : Days, number : Nat]
         /\ links' \subseteq [day : ExpiryDays, number : Nat]
         /\ RowsAreFinite'
<1>1. CASE UNCHANGED data
  BY <1>1 DEF TypeOK, RowsAreFinite, data
<1>2. CASE req[q] \in Open /\ Writes(q)
  <2> DEFINE d == req[q].day
  <2>1. d \in Days /\ d \in Nat /\ d + LinkDays \in ExpiryDays /\ d + LinkDays \in Nat
    BY <1>2, LimitsAreNumbers DEF Open, Days, ExpiryDays
  <2>2. IsFiniteSet(Live(d)) /\ Live(d) \subseteq links
    BY FS_Subset DEF Live, RowsAreFinite
  <2>3. NewRow(ledger, d) \in [day : Days, number : Nat]
    BY <2>1, RowTypes DEF RowsAreFinite
  <2>4. NewRow(Live(d), d + LinkDays) \in [day : ExpiryDays, number : Nat]
    BY <2>1, <2>2, RowTypes
  <2>5. IsFiniteSet(Reserved(d)) /\ IsFiniteSet(Shared(d))
    BY <2>2, FS_AddElement DEF Reserved, Shared, RowsAreFinite
  <2>6. QED
    BY <1>2, <2>2, <2>3, <2>4, <2>5 DEF Writes, Reserved, Shared, TypeOK, RowsAreFinite
<1>3. QED
  BY <1>1, <1>2

AdmissionInv == CountersInv /\ RowsAreFinite

\* The steps of Next.
LEMMA NextSteps ==
  ASSUME Next
  PROVE  \/ \E q \in Requests : HandlerNext(q) \/ GateNext(q)
         \/ \E r \in Replicas : Restart(r)
         \/ Midnight
BY DEF Next, Proceeds, HandlerNext, GateNext

LEMMA AdmissionInvHolds == Spec => []AdmissionInv
<1>1. Init => AdmissionInv
  <2> SUFFICES ASSUME Init PROVE AdmissionInv
    OBVIOUS
  <2>1. TypeOK
    BY LimitsAreNumbers DEF Init, TypeOK, Days
  <2>2. KindsFit /\ HandlersAreAdmitted
    BY DEF Init, KindsFit, FitsKind, HandlersAreAdmitted, InHandler, Idle
  <2>3. \A r \in Replicas : On(r) = {} /\ SolvingOn(r) = {} /\ AskingOn(r) = {}
    BY DEF Init, On, SolvingOn, AskingOn, At, Idle
  <2>4. CountersMatch
    <3>1. Cardinality({}) = 0
      BY FS_EmptySet
    <3>2. QED
      BY <2>3, <3>1, LimitsAreNumbers DEF Init, CountersMatch
  <2>5. RowsAreFinite
    BY FS_EmptySet DEF Init, RowsAreFinite
  <2>6. QED
    BY <2>1, <2>2, <2>4, <2>5 DEF AdmissionInv, CountersInv
<1>2. AdmissionInv /\ [Next]_vars => AdmissionInv'
  <2> SUFFICES ASSUME AdmissionInv, [Next]_vars PROVE AdmissionInv'
    OBVIOUS
  <2>1. TypeOK /\ CountersInv /\ KindsFit /\ RowsAreFinite /\ CountersMatch /\ HandlersAreAdmitted
    BY DEF AdmissionInv, CountersInv
  <2>2. CASE \E q \in Requests : HandlerNext(q)
    <3>1. PICK q \in Requests : HandlerNext(q)
      BY <2>2
    <3>2. PICK r \in Replicas, new \in Open : HandlerMoves(q, r, new)
      BY <2>1, <3>1, HandlerSteps
    <3>3. CountersMatch' /\ HandlersAreAdmitted' /\ KindsFit'
      BY <2>1, <3>2, HandlerKeepsCounters
    <3>4. day' = day
      BY <3>1 DEF HandlerNext, AnswerAtOnce, Disconnect, SolverExitsQuietly, Solve, SolverPosts, SolverCrashes,
                  SolverTimesOut, EndSolve, ExecuteAiRequest, PreparationFails, ProviderAnswers, ProviderFails,
                  Begin, Lock, Count, TransactionFails, CommitReservation, CommitLink, CommitUnheard
    <3>5. /\ req' = [req EXCEPT ![q] = new] /\ UNCHANGED <<admitted, busy>>
          /\ SolverSlot(q, r, new) /\ AiSlot(q, r, new)
      BY <3>2 DEF HandlerMoves
    <3>6. solving' \in [Replicas -> Nat] /\ asking' \in [Replicas -> Nat]
      <4>1. solving' \in [Replicas -> Nat]
        BY <2>1, <3>5 DEF SolverSlot, TypeOK, Minus
      <4>2. asking' \in [Replicas -> Nat]
        BY <2>1, <3>5 DEF AiSlot, TypeOK, Minus
      <4>3. QED
        BY <4>1, <4>2
    <3>7. UNCHANGED data \/ (req[q] \in Open /\ Writes(q))
      BY <2>1, <3>1, RowSteps DEF RowsMove
    <3>8. TypeOK' /\ RowsAreFinite'
      BY <2>1, <3>4, <3>5, <3>6, <3>7, WritesKeepTypes DEF TypeOK, Open
    <3>9. QED
      BY <3>3, <3>8 DEF AdmissionInv, CountersInv
  <2>3. CASE \E q \in Requests : GateNext(q)
    <3>1. PICK q \in Requests : GateNext(q)
      BY <2>3
    <3>2. PICK r \in Replicas, new \in {Idle} \union Open : GateMoves(q, r, new)
      BY <2>1, <3>1, GateSteps
    <3>3. CountersMatch' /\ HandlersAreAdmitted' /\ KindsFit'
      BY <2>1, <3>2, GateKeepsCounters
    <3>4. UNCHANGED <<day, data>>
      BY <3>1 DEF GateNext, OnError, OnResponse, Arrive, TurnAway
    <3>5. req' = [req EXCEPT ![q] = new] /\ UNCHANGED <<solving, asking>>
      BY <3>2 DEF GateMoves
    <3>6. admitted' \in [Replicas -> SUBSET Requests] /\ busy' \in [Replicas -> Nat]
      BY <2>1, <3>2 DEF GateMoves, TypeOK
    <3>7. TypeOK' /\ RowsAreFinite'
      BY <2>1, <3>4, <3>5, <3>6 DEF TypeOK, Open, data, RowsAreFinite
    <3>8. QED
      BY <3>3, <3>7 DEF AdmissionInv, CountersInv
  <2>4. CASE \E r \in Replicas : Restart(r)
    <3>1. PICK r \in Replicas : Restart(r)
      BY <2>4
    <3>2. CountersMatch' /\ HandlersAreAdmitted' /\ KindsFit'
      BY <2>1, <3>1, RestartKeepsCounters
    <3>3. TypeOK' /\ RowsAreFinite'
      BY <2>1, <3>1 DEF Restart, TypeOK, data, RowsAreFinite
    <3>4. QED
      BY <3>2, <3>3 DEF AdmissionInv, CountersInv
  <2>5. CASE Midnight \/ UNCHANGED vars
    <3>1. UNCHANGED <<req, slots, data>>
      BY <2>5 DEF Midnight, vars
    <3>2. day' \in Days
      BY <2>1, <2>5, LimitsAreNumbers DEF Midnight, vars, Days, TypeOK
    <3>3. TypeOK' /\ RowsAreFinite'
      BY <2>1, <3>1, <3>2 DEF TypeOK, slots, data, RowsAreFinite
    <3>4. HandlersAreAdmitted' /\ KindsFit'
      BY <2>1, <3>1 DEF HandlersAreAdmitted, KindsFit, slots
    <3>5. \A r \in Replicas : On(r)' = On(r) /\ SolvingOn(r)' = SolvingOn(r) /\ AskingOn(r)' = AskingOn(r)
      BY <3>1 DEF On, SolvingOn, AskingOn, At
    <3>6. CountersMatch'
      BY <2>1, <3>1, <3>5 DEF CountersMatch, slots
    <3>7. QED
      BY <3>3, <3>4, <3>6 DEF AdmissionInv, CountersInv
  <2>6. QED
    BY <2>2, <2>3, <2>4, <2>5, NextSteps
<1>3. QED
  BY <1>1, <1>2, PTL DEF Spec

\* Every variable keeps its type, the days of rows included.
THEOREM AdmissionTypes == Spec => []TypeOK
<1>1. AdmissionInv => TypeOK
  BY DEF AdmissionInv, CountersInv
<1>2. QED
  BY <1>1, AdmissionInvHolds, PTL

\* However requests end (reply, exception, timeout, dead thread, disconnect,
\* refusal or restart), the counters of admittedRequests, concurrentSolves and
\* concurrentAiRequests are exactly the requests that hold a place, and within
\* their limits, for any number of clients and replicas.
THEOREM CountersAlwaysMatch == Spec => []CountersMatch
<1>1. AdmissionInv => CountersMatch
  BY DEF AdmissionInv, CountersInv
<1>2. QED
  BY <1>1, AdmissionInvHolds, PTL

-----------------------------------------------------------------------------
(* The budget: what a transaction counted still holds when it writes.      *)

\* One transaction of a kind holds the lock.
LockIsExclusive ==
  \A p, q \in Requests : Locked(req[p]) /\ Locked(req[q]) /\ req[p].kind = req[q].kind => p = q

CountStillHolds == \A q \in Requests : req[q].at = "writing" => Admissible(q)

\* The rows of a day carry the numbers up to their count, so the next is new.
Numbered(rows) == \A row \in rows : row.number <= Cardinality(OfDay(rows, row.day))

BudgetInv ==
  /\ AdmissionInv
  /\ LockIsExclusive /\ CountStillHolds
  /\ Numbered(ledger) /\ Numbered(links)
  /\ BudgetHolds

LEMMA NewRowIsNew ==
  ASSUME NEW rows, IsFiniteSet(rows), Numbered(rows), NEW d \in Nat,
         \A row \in rows : row.number \in Nat /\ row.day \in Nat
  PROVE  /\ NewRow(rows, d) \notin rows
         /\ Numbered(rows \union {NewRow(rows, d)})
<1> DEFINE new == NewRow(rows, d)
           more == rows \union {new}
<1>1. /\ new.day = d /\ new.number = Cardinality(OfDay(rows, d)) + 1
      /\ Cardinality(OfDay(rows, d)) \in Nat /\ IsFiniteSet(OfDay(rows, d))
  BY RowTypes
<1>2. new \notin rows
  <2>1. SUFFICES ASSUME new \in rows PROVE FALSE
    OBVIOUS
  <2>2. new.number <= Cardinality(OfDay(rows, d))
    BY <1>1, <2>1 DEF Numbered
  <2>3. QED
    BY <1>1, <2>2
<1> HIDE DEF new
<1>3. OfDay(more, d) = OfDay(rows, d) \union {new} /\ new \notin OfDay(rows, d)
  BY <1>1, <1>2 DEF OfDay
<1>4. Cardinality(OfDay(more, d)) = Cardinality(OfDay(rows, d)) + 1
  <2> DEFINE old == OfDay(rows, d)
  <2>1. IsFiniteSet(old) /\ new \notin old /\ OfDay(more, d) = old \union {new}
    BY <1>1, <1>3
  <2> HIDE DEF old
  <2>2. Cardinality(old \union {new}) = Cardinality(old) + 1
    BY <2>1, FS_AddElement
  <2> QED
    BY <2>1, <2>2 DEF old
<1>5. \A e : e # d => OfDay(more, e) = OfDay(rows, e)
  BY <1>1 DEF OfDay
<1>6. ASSUME NEW row \in more PROVE row.number <= Cardinality(OfDay(more, row.day))
  <2>1. CASE row = new
    BY <1>1, <1>4, <2>1
  <2>2. CASE row \in rows /\ row.day = d
    <3>1. row.number <= Cardinality(OfDay(rows, d)) /\ row.number \in Nat
      BY <2>2 DEF Numbered
    <3>2. QED
      BY <1>1, <1>4, <2>2, <3>1
  <2>3. CASE row \in rows /\ row.day # d
    BY <1>5, <2>3 DEF Numbered
  <2>4. QED
    BY <1>6, <2>1, <2>2, <2>3
<1>7. QED
  BY <1>2, <1>6 DEF Numbered, new

\* Counting fewer rows never counts more.
LEMMA FewerRows ==
  ASSUME NEW S, IsFiniteSet(S), NEW T \in SUBSET S
  PROVE  IsFiniteSet(T) /\ Cardinality(T) \in Nat /\ Cardinality(S) \in Nat /\ Cardinality(T) <= Cardinality(S)
BY FS_Subset, FS_CardinalityType

\* A month begins no later than its days.
LEMMA MonthsBegin ==
  ASSUME NEW d \in Nat, NEW e \in Nat
  PROVE  Month(e) = Month(d) => e >= FirstOfMonth(d)
BY LimitsAreNumbers DEF Month, FirstOfMonth

\* Prices grow with their numbers.
LEMMA CostGrows ==
  ASSUME NEW n \in Nat, NEW N \in Nat, NEW c \in Nat, n <= N
  PROVE  (n + 1) * c <= N * c + c
BY Z3

\* A reservation that was admitted stays within the limits of its day and month.
LEMMA ReservationFits ==
  ASSUME AdmissionInv, BudgetHolds, Numbered(ledger), NEW d \in Days, Affordable(d),
         ledger' = Reserved(d), UNCHANGED links
  PROVE  BudgetHolds' /\ Numbered(ledger)'
<1>1. /\ IsFiniteSet(ledger) /\ ledger \subseteq [day : Days, number : Nat] /\ d \in Nat /\ Days \subseteq Nat
      /\ \A row \in ledger : row.number \in Nat /\ row.day \in Nat
  BY LimitsAreNumbers DEF AdmissionInv, CountersInv, TypeOK, RowsAreFinite, Days
<1> DEFINE new == NewRow(ledger, d)
<1>2. new \notin ledger /\ new.day = d /\ ledger' = ledger \union {new} /\ Numbered(ledger')
  BY <1>1, NewRowIsNew, RowTypes DEF Reserved
<1> HIDE DEF new
<1> SUFFICES ASSUME NEW e \in Days
             PROVE  LET used == Cardinality({row \in ledger' : Month(row.day) = Month(e)})
                    IN /\ Cardinality(OfDay(ledger', e)) <= MaxDaily
                       /\ used <= MaxMonthly
                       /\ used * Cost <= MaxMonthlyCost
                       /\ Cardinality(links') <= MaxShared
  BY <1>2 DEF BudgetHolds, Numbered
<1>3. /\ Cardinality(OfDay(ledger, e)) <= MaxDaily
      /\ Cardinality({row \in ledger : Month(row.day) = Month(e)}) <= MaxMonthly
      /\ Cardinality({row \in ledger : Month(row.day) = Month(e)}) * Cost <= MaxMonthlyCost
      /\ Cardinality(links) <= MaxShared
  BY DEF BudgetHolds
<1>4. Cardinality(OfDay(ledger', e)) <= MaxDaily
  <2>1. CASE e = d
    <3>1. OfDay(ledger', e) = OfDay(ledger, e) \union {new} /\ new \notin OfDay(ledger, e)
      BY <1>2, <2>1 DEF OfDay
    <3>2. {row \in ledger : row.day >= d} \subseteq ledger /\ OfDay(ledger, e) \subseteq {row \in ledger : row.day >= d}
      BY <1>1, <2>1 DEF OfDay
    <3>3. /\ IsFiniteSet(OfDay(ledger, e)) /\ Cardinality(OfDay(ledger, e)) \in Nat
          /\ RequestsSince(d) \in Nat /\ Cardinality(OfDay(ledger, e)) <= RequestsSince(d)
      BY <1>1, <3>2, FewerRows DEF RequestsSince
    <3>4. Cardinality(OfDay(ledger', e)) = Cardinality(OfDay(ledger, e)) + 1
      BY <3>1, <3>3, FS_AddElement
    <3>5. QED
      BY <3>3, <3>4, LimitsAreNumbers DEF Affordable
  <2>2. CASE e # d
    <3>1. OfDay(ledger', e) = OfDay(ledger, e)
      BY <1>2, <2>2 DEF OfDay
    <3>2. QED
      BY <1>3, <3>1
  <2>3. QED
    BY <2>1, <2>2
<1> DEFINE month == {row \in ledger : Month(row.day) = Month(e)}
           used  == Cardinality({row \in ledger' : Month(row.day) = Month(e)})
<1>5. used <= MaxMonthly /\ used * Cost <= MaxMonthlyCost
  <2>1. CASE Month(e) = Month(d)
    <3>1. {row \in ledger' : Month(row.day) = Month(e)} = month \union {new} /\ new \notin month
      BY <1>2, <2>1
    <3>2. /\ {row \in ledger : row.day >= FirstOfMonth(d)} \subseteq ledger
          /\ month \subseteq {row \in ledger : row.day >= FirstOfMonth(d)}
      BY <1>1, <2>1, MonthsBegin
    <3> DEFINE n == Cardinality(month)
               N == RequestsSince(FirstOfMonth(d))
    <3>3. IsFiniteSet(month) /\ n \in Nat /\ N \in Nat /\ n <= N
      BY <1>1, <3>2, FewerRows DEF RequestsSince
    <3>4. used = n + 1
      BY <3>1, <3>3, FS_AddElement
    <3>5. N < MaxMonthly /\ N * Cost + Cost <= MaxMonthlyCost
      BY DEF Affordable
    <3> HIDE DEF n, N, used
    <3>6. used <= MaxMonthly
      BY <3>3, <3>4, <3>5, LimitsAreNumbers
    <3>7. (n + 1) * Cost <= N * Cost + Cost
      BY <3>3, CostGrows, LimitsAreNumbers
    <3>8. (n + 1) * Cost \in Nat /\ N * Cost + Cost \in Nat
      BY <3>3, LimitsAreNumbers
    <3>9. used * Cost <= MaxMonthlyCost
      BY <3>4, <3>5, <3>7, <3>8, LimitsAreNumbers
    <3>10. QED
      BY <3>6, <3>9
  <2>2. CASE Month(e) # Month(d)
    <3>1. {row \in ledger' : Month(row.day) = Month(e)} = month
      BY <1>2, <2>2
    <3>2. QED
      BY <1>3, <3>1
  <2>3. QED
    BY <2>1, <2>2
<1>6. QED
  BY <1>3, <1>4, <1>5

\* A link that was admitted fits, and expired ones make room for it.
LEMMA LinkFits ==
  ASSUME AdmissionInv, BudgetHolds, Numbered(links), NEW d \in Days, LiveLinks(d) < MaxShared,
         links' = Shared(d), UNCHANGED ledger
  PROVE  BudgetHolds' /\ Numbered(links)'
<1>1. /\ IsFiniteSet(links) /\ d \in Nat /\ d + LinkDays \in Nat
      /\ \A row \in links : row.number \in Nat /\ row.day \in Nat
  BY LimitsAreNumbers DEF AdmissionInv, CountersInv, TypeOK, RowsAreFinite, Days, ExpiryDays
<1>2. IsFiniteSet(Live(d)) /\ Live(d) \subseteq links /\ Cardinality(Live(d)) \in Nat
  BY <1>1, FewerRows DEF Live
<1>3. Numbered(Live(d))
  <2>1. ASSUME NEW row \in Live(d) PROVE row.number <= Cardinality(OfDay(Live(d), row.day))
    <3>1. OfDay(Live(d), row.day) = OfDay(links, row.day)
      BY DEF OfDay, Live
    <3>2. QED
      BY <3>1 DEF Numbered, Live
  <2>2. QED
    BY <2>1 DEF Numbered
<1> DEFINE new == NewRow(Live(d), d + LinkDays)
<1>4. new \notin Live(d) /\ links' = Live(d) \union {new} /\ Numbered(links')
  BY <1>1, <1>2, <1>3, NewRowIsNew DEF Shared
<1> HIDE DEF new
<1>5. Cardinality(links') = Cardinality(Live(d)) + 1
  BY <1>2, <1>4, FS_AddElement
<1>6. Cardinality(links') <= MaxShared
  BY <1>2, <1>5, LimitsAreNumbers DEF LiveLinks
<1>7. BudgetHolds'
  BY <1>6 DEF BudgetHolds
<1>8. QED
  BY <1>4, <1>7 DEF Numbered

\* Whether a request is admissible depends on its own table alone.
LEMMA AdmissibleStays ==
  ASSUME NEW q \in Requests, Admissible(q),
         req'[q].kind = req[q].kind, req'[q].day = req[q].day,
         req[q].kind = "ai" => UNCHANGED ledger,
         req[q].kind # "ai" => UNCHANGED links
  PROVE  Admissible(q)'
<1>1. CASE req[q].kind = "ai"
  <2>1. \A d : RequestsSince(d)' = RequestsSince(d)
    BY <1>1 DEF RequestsSince
  <2>2. QED
    BY <1>1, <2>1 DEF Admissible, Affordable, FirstOfMonth, Month
<1>2. CASE req[q].kind # "ai"
  <2>1. \A d : LiveLinks(d)' = LiveLinks(d)
    BY <1>2 DEF LiveLinks, Live
  <2>2. QED
    BY <1>2, <2>1 DEF Admissible
<1>3. QED
  BY <1>1, <1>2

\* A step of one request keeps the lock exclusive and the counts valid.
LEMMA RequestKeepsBudget ==
  ASSUME BudgetInv, NEW q \in Requests, RowsMove(q)
  PROVE  /\ LockIsExclusive' /\ CountStillHolds'
         /\ Numbered(ledger)' /\ Numbered(links)' /\ BudgetHolds'
<1>1. /\ AdmissionInv /\ TypeOK /\ LockIsExclusive /\ CountStillHolds
      /\ Numbered(ledger) /\ Numbered(links) /\ BudgetHolds
  BY DEF BudgetInv, AdmissionInv, CountersInv
<1>2. /\ \A p \in Requests \ {q} : req'[p] = req[p]
      /\ Locked(req'[q]) => /\ req'[q].kind = req[q].kind /\ req'[q].day = req[q].day
                            /\ Locked(req[q]) \/ Holders(q) = {}
                            /\ UNCHANGED data
      /\ req'[q].at = "writing" => req[q].at = "writing" \/ Admissible(q)
      /\ \/ UNCHANGED data
         \/ req[q] \in Open /\ req[q].at = "writing" /\ Writes(q)
  BY DEF RowsMove
<1>3. Holders(q) = {} => \A p \in Requests \ {q} : Locked(req[p]) => req[p].kind # req[q].kind
  BY DEF Holders, At, Locked
<1>4. LockIsExclusive'
  <2>1. SUFFICES ASSUME NEW x \in Requests, NEW y \in Requests,
                        Locked(req'[x]), Locked(req'[y]), req'[x].kind = req'[y].kind
                 PROVE  x = y
    BY DEF LockIsExclusive
  <2>2. CASE x # q /\ y # q
    BY <1>1, <1>2, <2>1, <2>2 DEF LockIsExclusive
  <2>3. CASE Locked(req[q])
    BY <1>1, <1>2, <2>1, <2>3 DEF LockIsExclusive
  <2>4. CASE Holders(q) = {}
    BY <1>1, <1>2, <1>3, <2>1, <2>4 DEF LockIsExclusive
  <2>5. QED
    BY <1>2, <2>1, <2>2, <2>3, <2>4
<1>5. CountStillHolds'
  <2>1. SUFFICES ASSUME NEW p \in Requests, req'[p].at = "writing"
                 PROVE  Admissible(p)'
    BY DEF CountStillHolds
  <2>2. CASE p = q
    <3>1. Locked(req'[q])
      BY <2>1, <2>2 DEF Locked
    <3>2. Admissible(q)
      BY <1>1, <1>2, <2>1, <2>2 DEF CountStillHolds
    <3>3. QED
      BY <1>2, <2>2, <3>1, <3>2, AdmissibleStays DEF data
  <2>3. CASE p # q
    <3>1. req'[p] = req[p] /\ req[p].at = "writing" /\ Admissible(p)
      BY <1>1, <1>2, <2>1, <2>3 DEF CountStillHolds
    <3>2. CASE UNCHANGED data
      BY <3>1, <3>2, AdmissibleStays DEF data
    <3>3. CASE req[q] \in Open /\ req[q].at = "writing" /\ Writes(q)
      <4>1. req[p].kind # req[q].kind
        BY <1>1, <2>3, <3>1, <3>3 DEF LockIsExclusive, Locked
      <4>2. req[p].kind \in {"ai", "share"}
        BY <1>1, <3>1 DEF AdmissionInv, CountersInv, KindsFit, FitsKind
      <4>3. /\ req[p].kind = "ai" => UNCHANGED ledger
            /\ req[p].kind # "ai" => UNCHANGED links
        BY <3>3, <4>1, <4>2 DEF Writes
      <4>4. QED
        BY <3>1, <4>3, AdmissibleStays
    <3>4. QED
      BY <1>2, <3>2, <3>3
  <2>4. QED
    BY <2>2, <2>3
<1>6. CASE UNCHANGED data
  <2>1. ledger' = ledger /\ links' = links
    BY <1>6 DEF data
  <2>2. Numbered(ledger)' /\ Numbered(links)'
    BY <1>1, <2>1 DEF Numbered, OfDay
  <2>3. BudgetHolds'
    BY <1>1, <2>1 DEF BudgetHolds, OfDay
  <2>4. QED
    BY <1>4, <1>5, <2>2, <2>3
<1>7. CASE req[q] \in Open /\ req[q].at = "writing" /\ Writes(q)
  <2>1. Admissible(q) /\ req[q].day \in Days
    BY <1>1, <1>7 DEF CountStillHolds, Open
  <2>2. CASE req[q].kind = "ai" /\ ledger' = Reserved(req[q].day) /\ UNCHANGED links
    <3>1. Affordable(req[q].day)
      BY <2>1, <2>2 DEF Admissible
    <3>2. BudgetHolds' /\ Numbered(ledger)'
      BY <1>1, <2>1, <2>2, <3>1, ReservationFits
    <3>3. Numbered(links)'
      BY <1>1, <2>2 DEF Numbered, OfDay
    <3>4. QED
      BY <1>4, <1>5, <3>2, <3>3
  <2>3. CASE req[q].kind = "share" /\ links' = Shared(req[q].day) /\ UNCHANGED ledger
    <3>1. LiveLinks(req[q].day) < MaxShared
      BY <2>1, <2>3 DEF Admissible
    <3>2. BudgetHolds' /\ Numbered(links)'
      BY <1>1, <2>1, <2>3, <3>1, LinkFits
    <3>3. Numbered(ledger)'
      BY <1>1, <2>3 DEF Numbered, OfDay
    <3>4. QED
      BY <1>4, <1>5, <3>2, <3>3
  <2>4. QED
    BY <1>7, <2>2, <2>3 DEF Writes
<1>8. QED
  BY <1>2, <1>6, <1>7

LEMMA BudgetInvHolds == Spec => []BudgetInv
<1>1. Init => LockIsExclusive /\ CountStillHolds /\ Numbered(ledger) /\ Numbered(links) /\ BudgetHolds
  <2> SUFFICES ASSUME Init PROVE LockIsExclusive /\ CountStillHolds /\ Numbered(ledger) /\ Numbered(links) /\ BudgetHolds
    OBVIOUS
  <2>1. \A q \in Requests : req[q] = Idle /\ Idle.at = "idle"
    BY DEF Init, Idle
  <2>2. LockIsExclusive /\ CountStillHolds
    BY <2>1 DEF LockIsExclusive, CountStillHolds, Locked
  <2>3. ledger = {} /\ links = {}
    BY DEF Init
  <2>4. Numbered(ledger) /\ Numbered(links)
    BY <2>3 DEF Numbered
  <2>5. BudgetHolds
    <3>1. Cardinality({}) = 0
      BY FS_EmptySet
    <3>2. \A d \in Days : OfDay(ledger, d) = {} /\ {row \in ledger : Month(row.day) = Month(d)} = {}
      BY <2>3 DEF OfDay
    <3>3. 0 <= MaxDaily /\ 0 <= MaxMonthly /\ 0 * Cost <= MaxMonthlyCost /\ 0 <= MaxShared
      BY LimitsAreNumbers
    <3>4. QED
      BY <2>3, <3>1, <3>2, <3>3 DEF BudgetHolds
  <2>6. QED
    BY <2>2, <2>4, <2>5
<1>2. BudgetInv /\ AdmissionInv' /\ [Next]_vars => BudgetInv'
  <2> SUFFICES ASSUME BudgetInv, AdmissionInv', [Next]_vars
               PROVE  LockIsExclusive' /\ CountStillHolds' /\ Numbered(ledger)' /\ Numbered(links)' /\ BudgetHolds'
    BY DEF BudgetInv
  <2>1. /\ AdmissionInv /\ TypeOK /\ KindsFit /\ LockIsExclusive /\ CountStillHolds
        /\ Numbered(ledger) /\ Numbered(links) /\ BudgetHolds
    BY DEF BudgetInv, AdmissionInv, CountersInv
  <2>2. CASE \E q \in Requests : HandlerNext(q) \/ GateNext(q)
    BY <2>1, <2>2, RowSteps, RequestKeepsBudget
  <2>3. CASE (\E r \in Replicas : Restart(r)) \/ Midnight \/ UNCHANGED vars
    <3>1. \A q \in Requests : req'[q] = req[q] \/ req'[q] = Idle
      BY <2>1, <2>3 DEF Restart, Midnight, vars, TypeOK
    <3>2. ~Locked(Idle) /\ Idle.at # "writing"
      BY DEF Locked, Idle
    <3>3. ledger' = ledger /\ links' = links
      BY <2>3 DEF Restart, Midnight, vars, data
    <3>4. LockIsExclusive'
      BY <2>1, <3>1, <3>2 DEF LockIsExclusive
    <3>5. CountStillHolds'
      <4>1. SUFFICES ASSUME NEW q \in Requests, req'[q].at = "writing" PROVE Admissible(q)'
        BY DEF CountStillHolds
      <4>2. req'[q] = req[q] /\ Admissible(q)
        BY <2>1, <3>1, <3>2, <4>1 DEF CountStillHolds
      <4>3. QED
        BY <3>3, <4>2, AdmissibleStays
    <3>6. Numbered(ledger)' /\ Numbered(links)'
      BY <2>1, <3>3 DEF Numbered, OfDay
    <3>7. BudgetHolds'
      BY <2>1, <3>3 DEF BudgetHolds, OfDay
    <3>8. QED
      BY <3>4, <3>5, <3>6, <3>7
  <2>4. QED
    BY <2>2, <2>3, NextSteps
<1>3. QED
  BY <1>1, <1>2, AdmissionInvHolds, PTL DEF Spec, BudgetInv

\* The reservations of each day and month and the stored links stay within
\* their limits although replicas reserve at once: a transaction that counts
\* keeps the advisory lock until it has written, so what it counted still holds.
THEOREM BudgetIsKept == Spec => []BudgetHolds
<1>1. BudgetInv => BudgetHolds
  BY DEF BudgetInv
<1>2. QED
  BY <1>1, BudgetInvHolds, PTL
=============================================================================

-------------------------- MODULE RunHistoryProofs --------------------------
(***************************************************************************)
(* The run library, for any tabs, runs, dates and limits, with and without *)
(* the lock: what fitForStorage keeps is what it was given less the oldest *)
(* unstarred runs, the store stays sound, and under the lock the tabs      *)
(* implement the library of module RunLibrary.  And the evidence of runs,  *)
(* for any designs, builds, files and actions: what is said of a run,      *)
(* wherever its file was taken and whatever was run from it, is so.        *)
(***************************************************************************)
EXTENDS RunHistory, RunEvidence, FiniteSetTheorems, WellFoundedInduction, TLAPS

\* A set of records that may be stored, but for its size.
OneOfEach(S)    == \A x, y \in S : x # y => x.id # y.id /\ ~Repeats(x, y)
Warned(S)       == \A x, y \in S : Conflicts(x, y) => x.warn /\ y.warn
FewStars(S)     == Cardinality({x \in S : x.star}) <= MaxStarred
Sound(S) ==
  /\ S \in SUBSET Records /\ IsFiniteSet(S)
  /\ FewStars(S) /\ OneOfEach(S) /\ Warned(S)

Content(x)    == [id |-> x.id, star |-> x.star, last |-> x.last]
ContentsOf(S) == {Content(x) : x \in S}

USE SizesAssumption

-----------------------------------------------------------------------------
(* What fitForStorage keeps.                                               *)

LEMMA DaysAreNumbers == \A x \in Records : x.last \in Nat
BY DEF Records

LEMMA FewerIsSound == ASSUME NEW S, Sound(S), NEW T \in SUBSET S PROVE Sound(T)
<1>1. IsFiniteSet(T) /\ T \in SUBSET Records
  BY FS_Subset DEF Sound
<1>2. FewStars(T)
  <2> DEFINE A == {x \in T : x.star}
             B == {x \in S : x.star}
  <2>1. IsFiniteSet(B) /\ B \in SUBSET S
    BY FS_Subset DEF Sound
  <2>2. A \in SUBSET B
    OBVIOUS
  <2>3. Cardinality(A) <= Cardinality(B) /\ IsFiniteSet(A)
    BY <2>1, <2>2, FS_Subset
  <2>4. Cardinality(A) \in Nat /\ Cardinality(B) \in Nat
    BY <2>1, <2>3, FS_CardinalityType
  <2>5. Cardinality(B) <= MaxStarred
    BY DEF Sound, FewStars
  <2> HIDE DEF A, B
  <2>6. Cardinality(A) <= MaxStarred
    BY <2>3, <2>4, <2>5
  <2>7. QED
    BY <2>6 DEF FewStars, A
<1>3. QED
  BY <1>1, <1>2 DEF Sound, OneOfEach, Warned

\* The oldest n of a set are not younger than the rest of it.
LEMMA OldestAreOld ==
  ASSUME NEW U \in SUBSET Records, IsFiniteSet(U), NEW n \in Nat,
         NEW x \in Oldest(U, n), NEW y \in U, y \notin Oldest(U, n)
  PROVE  x.last <= y.last
<1> DEFINE X == {z \in U : z.last < x.last}
           Y == {z \in U : z.last < y.last}
<1>1. x \in U /\ Cardinality(X) < n /\ ~(Cardinality(Y) < n)
  BY DEF Oldest
<1>2. x.last \in Nat /\ y.last \in Nat /\ \A z \in U : z.last \in Nat
  BY <1>1, DaysAreNumbers
<1>3. IsFiniteSet(X) /\ IsFiniteSet(Y) /\ Cardinality(X) \in Nat /\ Cardinality(Y) \in Nat
  <2>1. X \in SUBSET U /\ Y \in SUBSET U
    OBVIOUS
  <2>2. IsFiniteSet(X) /\ IsFiniteSet(Y)
    BY <2>1, FS_Subset
  <2>3. QED
    BY <2>2, FS_CardinalityType
<1>4. ASSUME y.last < x.last PROVE FALSE
  <2>1. Y \in SUBSET X
    BY <1>2, <1>4
  <2>2. Cardinality(Y) <= Cardinality(X)
    BY <1>3, <2>1, FS_Subset
  <2> HIDE DEF X, Y
  <2>3. QED
    BY <1>1, <1>3, <2>2
<1>5. QED
  BY <1>2, <1>4

\* Removing some of the oldest unstarred runs.
OldestOut(S, T) ==
  /\ T \in SUBSET S
  /\ \A x \in S \ T : ~x.star /\ \A y \in T : y.star \/ x.last <= y.last

LEMMA OldestLeave ==
  ASSUME NEW S, Sound(S), NEW n \in Nat
  PROVE  OldestOut(S, S \ Oldest(Unstarred(S), n))
<1>1. Unstarred(S) \in SUBSET Records /\ IsFiniteSet(Unstarred(S))
  BY FS_Subset DEF Sound, Unstarred
<1>2. \A x \in Oldest(Unstarred(S), n) : x \in S /\ ~x.star
  BY DEF Oldest, Unstarred
<1>3. ASSUME NEW x \in Oldest(Unstarred(S), n), NEW y \in S \ Oldest(Unstarred(S), n), ~y.star
      PROVE  x.last <= y.last
  BY <1>1, <1>3, OldestAreOld DEF Unstarred
<1>4. QED
  BY <1>2, <1>3 DEF OldestOut

LEMMA FreshStay ==
  ASSUME NEW S, Sound(S), now \in Nat
  PROVE  OldestOut(S, Fresh(S))
<1>1. \A x \in S : x.last \in Nat
  BY DaysAreNumbers DEF Sound
<1>2. QED
  BY <1>1 DEF OldestOut, Fresh

\* In the library this is making room.
LEMMA OldestOutTidies ==
  ASSUME NEW S, Sound(S), NEW T, OldestOut(S, T)
  PROVE  ContentsOf(T) \in Library!Tidied(ContentsOf(S))
<1> DEFINE Gone == ContentsOf(S \ T)
<1>1. \A x, y \in S : Content(x) = Content(y) => x = y
  BY DEF Content, Sound, OneOfEach
<1>2. \A x : Content(x).id = x.id /\ Content(x).star = x.star /\ Content(x).last = x.last
  BY DEF Content
<1>3. ContentsOf(T) = ContentsOf(S) \ Gone
  BY <1>1 DEF OldestOut, ContentsOf
<1>4. Gone \in SUBSET {c \in ContentsOf(S) : ~c.star}
  BY <1>2 DEF OldestOut, ContentsOf
<1>5. ASSUME NEW c \in Gone, NEW d \in ContentsOf(S) \ Gone PROVE d.star \/ c.last <= d.last
  <2>1. PICK x \in S \ T : c = Content(x)
    BY DEF ContentsOf
  <2>2. PICK y \in T : d = Content(y)
    BY <1>3, <1>5 DEF ContentsOf
  <2>3. y.star \/ x.last <= y.last
    BY <2>1, <2>2 DEF OldestOut
  <2>4. QED
    BY <1>2, <2>1, <2>2, <2>3
<1> HIDE DEF Gone
<1>6. QED
  BY <1>3, <1>4, <1>5 DEF Library!Tidied

\* Making room twice is making room.
LEMMA TidiedTwice ==
  ASSUME NEW A, NEW B \in Library!Tidied(A), NEW C \in Library!Tidied(B)
  PROVE  C \in Library!Tidied(A)
<1>1. PICK G \in SUBSET {x \in A : ~x.star} :
         B = A \ G /\ \A x \in G, y \in A \ G : y.star \/ x.last <= y.last
  BY DEF Library!Tidied
<1>2. PICK H \in SUBSET {x \in B : ~x.star} :
         C = B \ H /\ \A x \in H, y \in B \ H : y.star \/ x.last <= y.last
  BY DEF Library!Tidied
<1>3. G \cup H \in SUBSET {x \in A : ~x.star} /\ C = A \ (G \cup H)
  BY <1>1, <1>2
<1>4. \A x \in G \cup H, y \in A \ (G \cup H) : y.star \/ x.last <= y.last
  BY <1>1, <1>2
<1>5. QED
  BY <1>3, <1>4 DEF Library!Tidied

\* Stripping takes bundles only.
LEMMA StripKeeps ==
  ASSUME NEW S, Sound(S), NEW n
  PROVE  Sound(Strip(S, n)) /\ ContentsOf(Strip(S, n)) = ContentsOf(S)
<1> DEFINE O == Oldest(Bundled(S), n)
           f == [x \in S |-> IF x \in O THEN [x EXCEPT !.bundle = FALSE] ELSE x]
           T == Strip(S, n)
<1>1. T = {f[x] : x \in S}
  BY DEF Strip
<1>2. O \in SUBSET S /\ \A x \in O : ~x.star
  BY DEF Oldest, Bundled, Unstarred
<1>3. ASSUME NEW x \in S
      PROVE  /\ f[x] \in Records /\ f[x].id = x.id /\ f[x].run = x.run /\ f[x].star = x.star
             /\ f[x].warn = x.warn /\ f[x].last = x.last /\ (x.star => f[x] = x)
  <2>1. x \in Records
    BY DEF Sound
  <2>2. QED
    BY <1>2, <2>1 DEF Records
<1>4. IsFiniteSet(T)
  <2>1. f \in Surjection(S, T)
    BY <1>1 DEF Surjection
  <2>2. QED
    BY <2>1, FS_Surjection DEF Sound
<1> HIDE DEF f, T
<1>5. T \in SUBSET Records
  BY <1>1, <1>3
<1>6. FewStars(T)
  <2> DEFINE A == {x \in T : x.star}
             B == {x \in S : x.star}
  <2>1. IsFiniteSet(B) /\ B \in SUBSET S
    BY FS_Subset DEF Sound
  <2>2. A \in SUBSET B
    BY <1>1, <1>3
  <2>3. Cardinality(A) <= Cardinality(B) /\ IsFiniteSet(A)
    BY <2>1, <2>2, FS_Subset
  <2>4. Cardinality(A) \in Nat /\ Cardinality(B) \in Nat
    BY <2>1, <2>3, FS_CardinalityType
  <2>5. Cardinality(B) <= MaxStarred
    BY DEF Sound, FewStars
  <2> HIDE DEF A, B
  <2>6. Cardinality(A) <= MaxStarred
    BY <2>3, <2>4, <2>5
  <2>7. QED
    BY <2>6 DEF FewStars, A
<1>7. \A x, y \in S : /\ Repeats(f[x], f[y]) <=> Repeats(x, y)
                      /\ Conflicts(f[x], f[y]) <=> Conflicts(x, y)
  BY <1>3 DEF Repeats, Conflicts, SameInputs, InputsIn, OutputIn
<1>8. OneOfEach(T)
  <2>1. ASSUME NEW x \in S, NEW y \in S, f[x] # f[y] PROVE f[x].id # f[y].id /\ ~Repeats(f[x], f[y])
    BY <1>3, <1>7, <2>1 DEF Sound, OneOfEach
  <2>2. QED
    BY <1>1, <2>1 DEF OneOfEach
<1>9. Warned(T)
  <2>1. ASSUME NEW x \in S, NEW y \in S, Conflicts(f[x], f[y]) PROVE f[x].warn /\ f[y].warn
    BY <1>3, <1>7, <2>1 DEF Sound, Warned
  <2>2. QED
    BY <1>1, <2>1 DEF Warned
<1>10. ContentsOf(T) = ContentsOf(S)
  <2>1. \A x \in S : Content(f[x]) = Content(x)
    BY <1>3 DEF Content
  <2>2. QED
    BY <1>1, <2>1 DEF ContentsOf
<1>11. QED
  BY <1>4, <1>5, <1>6, <1>8, <1>9, <1>10 DEF Sound, T

LEMMA FirstRoundIsOne ==
  ASSUME NEW last \in Nat, NEW ok \in SUBSET Nat
  PROVE  FirstRound(ok, last) \in Nat
<1> DEFINE All == ok \cup {last}
<1>1. IsWellFoundedOn(OpToRel(<, Nat), Nat)
  BY NatLessThanWellFounded
<1>2. All \in SUBSET Nat /\ All # {}
  OBVIOUS
<1>3. PICK n \in All : \A m \in Nat : <<m, n>> \in OpToRel(<, Nat) => m \notin All
  BY <1>1, <1>2, WFMin, Zenon
<1>4. ASSUME NEW k \in All PROVE n <= k
  <2>1. n \in Nat /\ k \in Nat
    BY <1>2, <1>3
  <2>2. ~(<<k, n>> \in OpToRel(<, Nat))
    BY <1>3, <1>4, <2>1
  <2>3. ~(k < n)
    BY <2>1, <2>2 DEF OpToRel
  <2>4. QED
    BY <2>1, <2>3
<1>5. QED
  BY <1>2, <1>3, <1>4 DEF FirstRound

\* What is stored of S: a sound set, and S with room made in it.
LEMMA FitTidies ==
  ASSUME NEW S, Sound(S), now \in Nat
  PROVE  Sound(Fit(S)) /\ ContentsOf(Fit(S)) \in Library!Tidied(ContentsOf(S))
<1> DEFINE A == Fresh(S)
           B == Counted(A)
           C == Stripped(B)
           D == Dropped(C)
<1>1. Sound(A) /\ OldestOut(S, A)
  BY FewerIsSound, FreshStay DEF OldestOut
<1>2. Sound(B) /\ OldestOut(A, B)
  <2> HIDE DEF A
  <2>1. Surplus(A) \in Nat
    <3>1. Cardinality(A) \in Nat
      BY <1>1, FS_CardinalityType DEF Sound
    <3>2. QED
      BY <3>1 DEF Surplus
  <2>2. OldestOut(A, B)
    BY <1>1, <2>1, OldestLeave DEF Counted
  <2>3. QED
    BY <1>1, <2>2, FewerIsSound DEF OldestOut
<1>3. Sound(C) /\ ContentsOf(C) = ContentsOf(B)
  <2> HIDE DEF B
  <2>1. QED
    BY <1>2, StripKeeps DEF Stripped
<1>4. Sound(D) /\ OldestOut(C, D)
  <2> HIDE DEF C
  <2> DEFINE ok == {n \in 0..DropRounds(C) : Bytes(Drop(C, n)) <= MaxBytes}
             rounds == FirstRound(ok, DropRounds(C))
  <2>1. DropRounds(C) \in Nat
    <3>1. IsFiniteSet(Unstarred(C))
      BY <1>3, FS_Subset DEF Sound, Unstarred
    <3>2. QED
      BY <3>1, FS_CardinalityType DEF DropRounds
  <2>2. ok \in SUBSET Nat
    BY <2>1
  <2>3. D = Drop(C, rounds)
    BY DEF Dropped
  <2> HIDE DEF ok, D
  <2>4. rounds \in Nat
    BY <2>1, <2>2, FirstRoundIsOne
  <2> HIDE DEF rounds
  <2>5. OldestOut(C, D)
    BY <1>3, <2>3, <2>4, OldestLeave DEF Drop
  <2>6. QED
    BY <1>3, <2>5, FewerIsSound DEF OldestOut
<1>5. D = Fit(S)
  BY DEF Fit
<1> HIDE DEF A, B, C, D
<1>6. /\ ContentsOf(A) \in Library!Tidied(ContentsOf(S))
      /\ ContentsOf(B) \in Library!Tidied(ContentsOf(A))
      /\ ContentsOf(D) \in Library!Tidied(ContentsOf(C))
  BY <1>1, <1>2, <1>3, <1>4, OldestOutTidies
<1>7. ContentsOf(B) \in Library!Tidied(ContentsOf(S))
  BY <1>6, TidiedTwice
<1>8. ContentsOf(D) \in Library!Tidied(ContentsOf(S))
  BY <1>3, <1>6, <1>7, TidiedTwice
<1>9. QED
  BY <1>4, <1>5, <1>8

-----------------------------------------------------------------------------
(* What each mutation makes of the records it has read.                    *)

LEMMA Symmetric ==
  \A x, y : (Repeats(x, y) <=> Repeats(y, x)) /\ (Conflicts(x, y) <=> Conflicts(y, x))
BY DEF Repeats, Conflicts, SameInputs, InputsIn, OutputIn

\* A run that repeats none is added, and flagged like those it contradicts.
LEMMA NewIsSound ==
  ASSUME NEW S, Sound(S), NEW x \in Records, ~x.star, \A y \in S : y.id # x.id,
         \A y \in S : ~Repeats(y, x)
  PROVE  /\ Sound(Added(S, x))
         /\ ContentsOf(Added(S, x)) = ContentsOf(S) \cup {Content(x)}
<1> DEFINE f == [y \in S |-> [y EXCEPT !.warn = @ \/ Conflicts(y, x)]]
           new == [x EXCEPT !.warn = \E y \in S : Conflicts(y, x)]
           R == {f[y] : y \in S}
           T == R \cup {new}
<1>1. Added(S, x) = T
  BY DEF Added
<1>2. ASSUME NEW y \in S
      PROVE  /\ f[y] \in Records /\ f[y].id = y.id /\ f[y].run = y.run /\ f[y].star = y.star
             /\ f[y].last = y.last /\ f[y].warn = (y.warn \/ Conflicts(y, x))
  <2>1. y \in Records
    BY DEF Sound
  <2>2. f[y] = [y EXCEPT !.warn = @ \/ Conflicts(y, x)] /\ (y.warn \/ Conflicts(y, x)) \in BOOLEAN
    BY DEF Conflicts
  <2>3. QED
    BY <2>1, <2>2 DEF Records
<1>3. /\ new \in Records /\ new.id = x.id /\ new.run = x.run /\ new.star = x.star /\ new.last = x.last
      /\ new.warn = \E y \in S : Conflicts(y, x)
  BY DEF Records
<1>4. IsFiniteSet(R)
  <2>1. f \in Surjection(S, R)
    BY DEF Surjection
  <2>2. QED
    BY <2>1, FS_Surjection DEF Sound
<1> HIDE DEF f, new
<1>5. T \in SUBSET Records /\ IsFiniteSet(T)
  BY <1>2, <1>3, <1>4, FS_AddElement
<1>6. FewStars(T)
  <2> DEFINE B == {y \in S : y.star}
             A == {y \in T : y.star}
             g == [y \in B |-> f[y]]
  <2>1. IsFiniteSet(B) /\ B \in SUBSET S
    BY FS_Subset DEF Sound
  <2>2. g \in Surjection(B, A)
    <3>1. \A y \in B : f[y] \in A
      BY <1>2
    <3>2. ASSUME NEW a \in A PROVE \E y \in B : f[y] = a
      BY <1>2, <1>3
    <3>3. QED
      BY <3>1, <3>2 DEF Surjection
  <2>3. Cardinality(A) <= Cardinality(B) /\ IsFiniteSet(A)
    BY <2>1, <2>2, FS_Surjection
  <2>4. Cardinality(A) \in Nat /\ Cardinality(B) \in Nat
    BY <2>1, <2>3, FS_CardinalityType
  <2>5. Cardinality(B) <= MaxStarred
    BY DEF Sound, FewStars
  <2> HIDE DEF A, B
  <2>6. Cardinality(A) <= MaxStarred
    BY <2>3, <2>4, <2>5
  <2>7. QED
    BY <2>6 DEF FewStars, A
<1>7. \A y, z \in S : /\ Repeats(f[y], f[z]) <=> Repeats(y, z)
                      /\ Conflicts(f[y], f[z]) <=> Conflicts(y, z)
  BY <1>2 DEF Repeats, Conflicts, SameInputs, InputsIn, OutputIn
<1>8. \A y \in S : /\ Repeats(f[y], new) <=> Repeats(y, x)
                   /\ Conflicts(f[y], new) <=> Conflicts(y, x)
  BY <1>2, <1>3 DEF Repeats, Conflicts, SameInputs, InputsIn, OutputIn
<1>9. ~Conflicts(new, new)
  BY DEF Conflicts
<1>10. OneOfEach(T)
  <2>1. ASSUME NEW y \in S, NEW z \in S, f[y] # f[z] PROVE f[y].id # f[z].id /\ ~Repeats(f[y], f[z])
    BY <1>2, <1>7, <2>1 DEF Sound, OneOfEach
  <2>2. \A y \in S : f[y].id # new.id /\ ~Repeats(f[y], new) /\ ~Repeats(new, f[y])
    BY <1>2, <1>3, <1>8, Symmetric
  <2>3. QED
    BY <2>1, <2>2 DEF OneOfEach
<1>11. Warned(T)
  <2>1. ASSUME NEW y \in S, NEW z \in S, Conflicts(f[y], f[z]) PROVE f[y].warn /\ f[z].warn
    BY <1>2, <1>7, <2>1 DEF Sound, Warned
  <2>2. ASSUME NEW y \in S, Conflicts(f[y], new) \/ Conflicts(new, f[y]) PROVE f[y].warn /\ new.warn
    BY <1>2, <1>3, <1>8, <2>2, Symmetric
  <2>3. QED
    BY <1>9, <2>1, <2>2 DEF Warned
<1>12. ContentsOf(T) = ContentsOf(S) \cup {Content(x)}
  <2>1. (\A y \in S : Content(f[y]) = Content(y)) /\ Content(new) = Content(x)
    BY <1>2, <1>3 DEF Content
  <2>2. QED
    BY <2>1 DEF ContentsOf
<1>13. QED
  BY <1>1, <1>5, <1>6, <1>10, <1>11, <1>12 DEF Sound

\* One that repeats another takes its place, its star and its warning.
LEMMA RepeatIsSound ==
  ASSUME NEW S, Sound(S), NEW x \in Records, \E y \in S : Repeats(y, x)
  PROVE  /\ Sound(Added(S, x))
         /\ \E y \in S : ContentsOf(Added(S, x)) =
              {c \in ContentsOf(S) : c.id # y.id} \cup {[Content(y) EXCEPT !.last = x.last]}
<1> DEFINE p == CHOOSE y \in S : Repeats(y, x)
           new == [x EXCEPT !.id = p.id, !.star = p.star, !.warn = p.warn]
           R == S \ {p}
           T == R \cup {new}
<1>1. Added(S, x) = T
  BY DEF Added
<1>2. p \in S /\ Repeats(p, x)
  OBVIOUS
<1> HIDE DEF p
<1>3. p \in Records
  BY <1>2 DEF Sound
<1>4. /\ new \in Records /\ new.id = p.id /\ new.run = x.run /\ new.star = p.star
      /\ new.warn = p.warn /\ new.last = x.last
  BY <1>3 DEF Records
<1> HIDE DEF new
<1>5. Sound(R)
  BY FewerIsSound
<1>6. T \in SUBSET Records /\ IsFiniteSet(T)
  BY <1>4, <1>5, FS_AddElement DEF Sound
<1>7. FewStars(T)
  <2> DEFINE B == {y \in S : y.star}
             C == {y \in R : y.star}
             A == {y \in T : y.star}
  <2>1. IsFiniteSet(B) /\ IsFiniteSet(C) /\ Cardinality(B) \in Nat /\ Cardinality(B) <= MaxStarred
    <3>1. IsFiniteSet(B) /\ IsFiniteSet(C)
      BY FS_Subset DEF Sound
    <3>2. QED
      BY <3>1, FS_CardinalityType DEF Sound, FewStars
  <2>2. CASE p.star
    <3>1. C = B \ {p} /\ p \in B
      BY <1>2, <2>2
    <3>2. Cardinality(C) = Cardinality(B) - 1
      BY <2>1, <3>1, FS_RemoveElement
    <3>3. A = C \cup {new}
      BY <1>4, <2>2
    <3>4. Cardinality(A) = Cardinality(C) \/ Cardinality(A) = Cardinality(C) + 1
      BY <2>1, <3>3, FS_AddElement
    <3> HIDE DEF A, B, C
    <3>5. Cardinality(A) <= MaxStarred
      BY <2>1, <3>2, <3>4
    <3>6. QED
      BY <3>5 DEF FewStars, A
  <2>3. CASE ~p.star
    <3>1. A = C
      BY <1>4, <2>3
    <3>2. QED
      BY <1>5, <3>1 DEF Sound, FewStars
  <2>4. QED
    BY <2>2, <2>3
<1>8. \A y \in R : y.id # p.id /\ ~Repeats(p, y) /\ y \in S
  BY <1>2 DEF Sound, OneOfEach
<1>9. ASSUME NEW y \in R PROVE y.id # new.id /\ ~Repeats(y, new)
  BY <1>2, <1>4, <1>8 DEF Repeats, SameInputs, InputsIn, OutputIn
<1>10. \A y \in R : Conflicts(y, new) => Conflicts(y, p)
  BY <1>2, <1>4 DEF Repeats, Conflicts, SameInputs, InputsIn, OutputIn
<1>11. OneOfEach(T)
  <2>1. \A y \in R : y.id # new.id /\ ~Repeats(y, new) /\ ~Repeats(new, y)
    BY <1>9, Symmetric
  <2>2. QED
    BY <1>5, <2>1 DEF Sound, OneOfEach
<1>12. Warned(T)
  <2>1. ~Conflicts(new, new)
    BY DEF Conflicts
  <2>2. ASSUME NEW y \in R, Conflicts(y, new) \/ Conflicts(new, y) PROVE y.warn /\ new.warn
    <3>1. Conflicts(y, p)
      BY <1>10, <2>2, Symmetric
    <3>2. y.warn /\ p.warn
      BY <1>2, <1>8, <3>1 DEF Sound, Warned
    <3>3. QED
      BY <1>4, <3>2
  <2>3. QED
    BY <1>5, <2>1, <2>2 DEF Sound, Warned
<1>13. ContentsOf(T) = {c \in ContentsOf(S) : c.id # p.id} \cup {[Content(p) EXCEPT !.last = x.last]}
  <2>1. Content(new) = [Content(p) EXCEPT !.last = x.last]
    BY <1>4 DEF Content
  <2>2. ContentsOf(R) = {c \in ContentsOf(S) : c.id # p.id}
    <3>1. \A y : Content(y).id = y.id
      BY DEF Content
    <3>2. R = {y \in S : y.id # p.id}
      BY <1>2, <1>8
    <3>3. QED
      BY <3>1, <3>2 DEF ContentsOf
  <2>3. ContentsOf(T) = ContentsOf(R) \cup {Content(new)}
    BY DEF ContentsOf
  <2>4. QED
    BY <2>1, <2>2, <2>3
<1>14. QED
  BY <1>1, <1>2, <1>6, <1>7, <1>11, <1>12, <1>13 DEF Sound

\* No other id comes in.
LEMMA AddedIds ==
  ASSUME NEW S, Sound(S), NEW x \in Records, NEW y \in Added(S, x)
  PROVE  y.id = x.id \/ \E z \in S : z.id = y.id
<1>1. CASE \E z \in S : Repeats(z, x)
  <2> DEFINE p == CHOOSE z \in S : Repeats(z, x)
             new == [x EXCEPT !.id = p.id, !.star = p.star, !.warn = p.warn]
  <2>1. p \in S
    BY <1>1
  <2>2. y \in S \/ y = new
    BY <1>1 DEF Added
  <2> HIDE DEF p
  <2>3. new.id = p.id
    BY DEF Records
  <2>4. QED
    BY <2>1, <2>2, <2>3
<1>2. CASE ~\E z \in S : Repeats(z, x)
  <2>1. \/ \E z \in S : y = [z EXCEPT !.warn = @ \/ Conflicts(z, x)]
        \/ y = [x EXCEPT !.warn = \E z \in S : Conflicts(z, x)]
    BY <1>2 DEF Added
  <2>2. S \in SUBSET Records
    BY DEF Sound
  <2>3. \A z \in S : [z EXCEPT !.warn = @ \/ Conflicts(z, x)].id = z.id
    BY <2>2 DEF Records
  <2>4. [x EXCEPT !.warn = \E z \in S : Conflicts(z, x)].id = x.id
    BY DEF Records
  <2>5. QED
    BY <2>1, <2>3, <2>4
<1>3. QED
  BY <1>1, <1>2

LEMMA StarredIsSound ==
  ASSUME NEW S, Sound(S), NEW x \in S, NEW star \in BOOLEAN, StarAllowed(S, x.id, star)
  PROVE  /\ Sound(Starred(S, x.id, star))
         /\ \A y \in Starred(S, x.id, star) : \E z \in S : z.id = y.id
         /\ ContentsOf(Starred(S, x.id, star)) =
              {c \in ContentsOf(S) : c.id # x.id} \cup {[Content(x) EXCEPT !.star = star]}
<1> DEFINE new == [x EXCEPT !.star = star]
           R == S \ {x}
           T == R \cup {new}
<1>1. \A y \in S : y.id = x.id => y = x
  BY DEF Sound, OneOfEach
<1>2. Starred(S, x.id, star) = T
  BY <1>1 DEF Starred
<1>3. x \in Records
  BY DEF Sound
<1>4. /\ new \in Records /\ new.id = x.id /\ new.run = x.run /\ new.star = star
      /\ new.warn = x.warn /\ new.last = x.last
  BY <1>3 DEF Records
<1> HIDE DEF new
<1>5. Sound(R)
  BY FewerIsSound
<1>6. T \in SUBSET Records /\ IsFiniteSet(T)
  BY <1>4, <1>5, FS_AddElement DEF Sound
<1>7. FewStars(T)
  <2> DEFINE B == {y \in S : y.star}
             C == {y \in R : y.star}
             A == {y \in T : y.star}
  <2>1. /\ IsFiniteSet(B) /\ IsFiniteSet(C) /\ Cardinality(B) \in Nat /\ Cardinality(B) <= MaxStarred
        /\ Cardinality(C) \in Nat
    <3>1. IsFiniteSet(B) /\ IsFiniteSet(C)
      BY FS_Subset DEF Sound
    <3>2. QED
      BY <3>1, FS_CardinalityType DEF Sound, FewStars
  <2>2. CASE star
    <3>1. C = B \ {x} /\ (x \in B <=> x.star)
      OBVIOUS
    <3>2. Cardinality(C) = IF x.star THEN Cardinality(B) - 1 ELSE Cardinality(B)
      <4> HIDE DEF A, B, C
      <4>1. Cardinality(B \ {x}) = IF x \in B THEN Cardinality(B) - 1 ELSE Cardinality(B)
        BY <2>1, FS_RemoveElement
      <4> QED
        BY <3>1, <4>1
    <3>3. ~x.star => Cardinality(B) < MaxStarred
      BY <2>2 DEF StarAllowed
    <3>4. A = C \cup {new}
      BY <1>4, <2>2
    <3>5. Cardinality(A) = Cardinality(C) \/ Cardinality(A) = Cardinality(C) + 1
      <4> HIDE DEF A, B, C
      <4> QED
        BY <2>1, <3>4, FS_AddElement
    <3> HIDE DEF A, B, C
    <3>6. Cardinality(A) <= MaxStarred
      BY <2>1, <3>2, <3>3, <3>5
    <3>7. QED
      BY <3>6 DEF FewStars, A
  <2>3. CASE ~star
    <3>1. A = C
      BY <1>4, <2>3
    <3>2. QED
      BY <1>5, <3>1 DEF Sound, FewStars
  <2>4. QED
    BY <2>2, <2>3
<1>8. \A y : /\ Repeats(y, new) <=> Repeats(y, x)
             /\ Conflicts(y, new) <=> Conflicts(y, x)
  BY <1>4 DEF Repeats, Conflicts, SameInputs, InputsIn, OutputIn
<1>9. OneOfEach(T)
  <2>1. \A y \in R : y.id # new.id /\ ~Repeats(y, new) /\ ~Repeats(new, y)
    BY <1>4, <1>8, Symmetric DEF Sound, OneOfEach
  <2>2. QED
    BY <1>5, <2>1 DEF Sound, OneOfEach
<1>10. Warned(T)
  <2>1. ~Conflicts(new, new)
    BY DEF Conflicts
  <2>2. ASSUME NEW y \in R, Conflicts(y, new) \/ Conflicts(new, y) PROVE y.warn /\ new.warn
    <3>1. Conflicts(y, x)
      BY <1>8, <2>2, Symmetric
    <3>2. QED
      BY <1>4, <3>1 DEF Sound, Warned
  <2>3. QED
    BY <1>5, <2>1, <2>2 DEF Sound, Warned
<1>11. ContentsOf(T) = {c \in ContentsOf(S) : c.id # x.id} \cup {[Content(x) EXCEPT !.star = star]}
  <2>1. Content(new) = [Content(x) EXCEPT !.star = star]
    BY <1>4 DEF Content
  <2>2. ContentsOf(R) = {c \in ContentsOf(S) : c.id # x.id}
    <3>1. \A y : Content(y).id = y.id
      BY DEF Content
    <3>2. R = {y \in S : y.id # x.id}
      BY <1>1
    <3>3. QED
      BY <3>1, <3>2 DEF ContentsOf
  <2>3. ContentsOf(T) = ContentsOf(R) \cup {Content(new)}
    BY DEF ContentsOf
  <2>4. QED
    BY <2>1, <2>2, <2>3
<1>12. \A y \in T : \E z \in S : z.id = y.id
  BY <1>4
<1>13. QED
  BY <1>2, <1>6, <1>7, <1>9, <1>10, <1>11, <1>12 DEF Sound

LEMMA RemovedIsSound ==
  ASSUME NEW S, Sound(S), NEW id
  PROVE  /\ Sound({x \in S : x.id # id})
         /\ ContentsOf({x \in S : x.id # id}) = {c \in ContentsOf(S) : c.id # id}
<1>1. Sound({x \in S : x.id # id})
  BY FewerIsSound
<1>2. \A y : Content(y).id = y.id
  BY DEF Content
<1>3. QED
  BY <1>1, <1>2 DEF ContentsOf

\* What is stored of S has no id that S has not.
LEMMA FitIds ==
  ASSUME NEW S, Sound(S), now \in Nat, NEW y \in Fit(S)
  PROVE  \E z \in S : z.id = y.id
<1>1. Content(y) \in ContentsOf(S)
  BY FitTidies DEF ContentsOf, Library!Tidied
<1>2. PICK z \in S : Content(y) = Content(z)
  BY <1>1 DEF ContentsOf
<1>3. QED
  BY <1>2 DEF Content

-----------------------------------------------------------------------------
(* The inductive invariant.                                                *)

Tasks ==
  {Idle} \cup [at : {"queued"}, x : Records]
  \cup [at : {"reading"}, op : {"add", "star", "unstar", "remove", "clear", "load"},
        id : RunIds \cup {Idle}, x : Records \cup {Idle}, seen : SUBSET Records]

LibraryTypes ==
  /\ locks \in BOOLEAN /\ now \in 0..MaxTime /\ ran \in SUBSET RunIds
  /\ task \in [Tabs -> Tasks]

Reading(t) == task[t].at = "reading"
Adding(t)  == task[t].at = "queued" \/ (Reading(t) /\ task[t].op = "add")

Within(S)  == Cardinality(S) <= MaxEntries /\ Bytes(S) <= MaxBytes
OfRuns(S)  == Sound(S) /\ \A y \in S : y.id \in ran
HasNot(S, id) == \A y \in S : y.id # id

\* What a tab has read is sound, if perhaps old; under the lock it is the store,
\* and one tab has read it.
SeenIsSound ==
  /\ \A t \in Tabs : Reading(t) => OfRuns(task[t].seen) /\ (locks => task[t].seen = stored)
  /\ locks => \A t, u \in Tabs : Reading(t) /\ Reading(u) => t = u

\* A run that is to be added is in no list yet, and waits in one tab.
AddsAreNew ==
  \A t \in Tabs : Adding(t) =>
     /\ task[t].x \in Records /\ ~task[t].x.star /\ task[t].x.id \in ran
     /\ HasNot(stored, task[t].x.id)
     /\ \A u \in Tabs : Reading(u) => HasNot(task[u].seen, task[t].x.id)
     /\ \A u \in Tabs : u # t /\ Adding(u) => task[u].x.id # task[t].x.id

LibraryInv ==
  /\ LibraryTypes
  /\ OfRuns(stored) /\ Within(stored)
  /\ SeenIsSound /\ AddsAreNew

LEMMA LibraryStart == LibraryInit => LibraryInv
<1> SUFFICES ASSUME LibraryInit PROVE LibraryInv
  OBVIOUS
<1>1. IsFiniteSet({}) /\ Cardinality({}) = 0
  BY FS_EmptySet
<1>2. {x \in stored : x.star} = {} /\ {x \in stored : x.bundle} = {} /\ stored = {}
  BY DEF LibraryInit
<1>3. Sound(stored)
  BY <1>1, <1>2 DEF Sound, FewStars, OneOfEach, Warned
<1>4. Within(stored)
  <2>1. Bytes(stored) = RecordBytes * 0 + BundleBytes * 0
    BY <1>1, <1>2 DEF Bytes
  <2>2. RecordBytes * 0 = 0 /\ BundleBytes * 0 = 0
    OBVIOUS
  <2>3. QED
    BY <1>1, <1>2, <2>1, <2>2 DEF Within
<1>5. \A t \in Tabs : task[t] = Idle /\ ~Reading(t) /\ ~Adding(t)
  BY DEF LibraryInit, Reading, Adding, Idle
<1>6. LibraryTypes
  BY DEF LibraryInit, LibraryTypes, Tasks
<1>7. QED
  BY <1>2, <1>3, <1>4, <1>5, <1>6 DEF LibraryInv, OfRuns, SeenIsSound, AddsAreNew

\* What is known of the task of a tab.
LEMMA TaskShapes ==
  ASSUME LibraryTypes, NEW t \in Tabs
  PROVE  /\ task[t] \in Tasks
         /\ Reading(t) => task[t].seen \in SUBSET Records
         /\ Idle \in Tasks /\ Idle.at = "idle"
BY DEF LibraryTypes, Tasks, Reading, Idle

LEMMA EndRunKeeps == ASSUME LibraryInv, NEW t \in Tabs, NEW ended \in RunIds, EndRun(t, ended) PROVE LibraryInv'
<1> DEFINE x == NewRecord(ended)
           new == [at |-> "queued", x |-> x]
<1>1. now \in 0..MaxTime /\ now < MaxTime /\ ran \in SUBSET RunIds /\ ended \notin ran
  BY DEF EndRun, LibraryInv, LibraryTypes
<1>2. x \in Records /\ x.id = ended /\ ~x.star
  BY <1>1 DEF NewRecord, BaseRecord, Records
<1>3. /\ locks' = locks /\ stored' = stored /\ ran' = ran \cup {ended} /\ now' = now + 1
      /\ task' = [task EXCEPT ![t] = new] /\ task[t] = Idle
  BY DEF EndRun
<1> HIDE DEF x
<1>4. new.at = "queued" /\ new.x = x /\ new \in Tasks
  BY <1>2 DEF Tasks
<1> HIDE DEF new
<1>5. task'[t] = new /\ \A u \in Tabs : u # t => task'[u] = task[u]
  BY <1>3 DEF LibraryInv, LibraryTypes
<1>6. LibraryTypes'
  <2>1. task' \in [Tabs -> Tasks]
    BY <1>3, <1>4 DEF LibraryInv, LibraryTypes
  <2>2. QED
    BY <1>1, <1>3, <2>1 DEF LibraryInv, LibraryTypes
<1>7. \A S : OfRuns(S) => OfRuns(S)' /\ HasNot(S, ended)
  BY <1>1, <1>3 DEF OfRuns, HasNot, Sound
<1>8. /\ ~Reading(t)' /\ Adding(t)' /\ task'[t].x = x
      /\ \A u \in Tabs : u # t => (Reading(u)' <=> Reading(u)) /\ (Adding(u)' <=> Adding(u))
  BY <1>4, <1>5 DEF Reading, Adding
<1>9. OfRuns(stored)' /\ Within(stored)' /\ HasNot(stored, ended)
  BY <1>3, <1>7 DEF LibraryInv, Within, Bytes, OfRuns, Sound, FewStars, OneOfEach, Warned, Repeats,
                    Conflicts, SameInputs, InputsIn, OutputIn
<1>10. \A u \in Tabs : u # t /\ Reading(u) =>
          /\ OfRuns(task[u].seen)' /\ HasNot(task[u].seen, ended) /\ (locks => task[u].seen = stored)
  BY <1>5, <1>7 DEF LibraryInv, SeenIsSound, OfRuns
<1>11. SeenIsSound'
  BY <1>3, <1>5, <1>8, <1>10 DEF LibraryInv, SeenIsSound
<1>12. AddsAreNew'
  <2>1. \A u \in Tabs : u # t /\ Adding(u) =>
           /\ task[u].x \in Records /\ ~task[u].x.star /\ task[u].x.id \in ran /\ HasNot(stored, task[u].x.id)
           /\ \A v \in Tabs : Reading(v) => HasNot(task[v].seen, task[u].x.id)
           /\ \A v \in Tabs : v # u /\ Adding(v) => task[v].x.id # task[u].x.id
    BY DEF LibraryInv, AddsAreNew
  <2>2. ASSUME NEW u \in Tabs, u # t, Adding(u)'
        PROVE  /\ task'[u].x \in Records /\ ~task'[u].x.star /\ task'[u].x.id \in ran'
               /\ HasNot(stored', task'[u].x.id)
               /\ \A v \in Tabs : Reading(v)' => HasNot(task'[v].seen, task'[u].x.id)
               /\ \A v \in Tabs : v # u /\ Adding(v)' => task'[v].x.id # task'[u].x.id
    <3>1. Adding(u) /\ task'[u] = task[u] /\ task[u].x.id # ended
      BY <1>1, <1>5, <1>8, <2>1, <2>2
    <3>2. QED
      BY <1>2, <1>3, <1>5, <1>8, <2>1, <3>1 DEF HasNot
  <2>3. /\ x \in Records /\ ~x.star /\ x.id \in ran' /\ HasNot(stored', x.id)
        /\ \A v \in Tabs : Reading(v)' => HasNot(task'[v].seen, x.id)
        /\ \A v \in Tabs : v # t /\ Adding(v)' => task'[v].x.id # x.id
    BY <1>1, <1>2, <1>3, <1>5, <1>8, <1>9, <1>10, <2>1 DEF HasNot
  <2>4. QED
    BY <1>8, <2>2, <2>3 DEF AddsAreNew, HasNot
<1>13. QED
  BY <1>6, <1>9, <1>11, <1>12 DEF LibraryInv

LEMMA ReadKeeps ==
  ASSUME LibraryInv, NEW t \in Tabs, ~Reading(t), Turn(t),
         NEW op \in {"add", "star", "unstar", "remove", "clear", "load"},
         NEW id \in RunIds \cup {Idle}, NEW x \in Records \cup {Idle},
         op = "add" => Adding(t) /\ x = task[t].x,
         ReadFor(t, op, id, x)
  PROVE  LibraryInv'
<1> DEFINE new == [at |-> "reading", op |-> op, id |-> id, x |-> x, seen |-> stored]
<1>1. UNCHANGED <<locks, stored, now, ran>> /\ task' = [task EXCEPT ![t] = new]
  BY DEF ReadFor
<1>2. new.at = "reading" /\ new.op = op /\ new.x = x /\ new.seen = stored /\ new \in Tasks
  BY DEF Tasks, LibraryInv, OfRuns, Sound
<1> HIDE DEF new
<1>3. task'[t] = new /\ (\A u \in Tabs : u # t => task'[u] = task[u]) /\ LibraryTypes'
  BY <1>1, <1>2 DEF LibraryInv, LibraryTypes
<1>4. /\ Reading(t)' /\ (Adding(t)' <=> op = "add") /\ task'[t].x = x /\ task'[t].seen = stored
      /\ \A u \in Tabs : u # t => (Reading(u)' <=> Reading(u)) /\ (Adding(u)' <=> Adding(u))
  BY <1>2, <1>3 DEF Reading, Adding
<1>5. OfRuns(stored)' /\ Within(stored)'
  BY <1>1 DEF LibraryInv, Within, Bytes, OfRuns, Sound, FewStars, OneOfEach, Warned, Repeats,
              Conflicts, SameInputs, InputsIn, OutputIn
<1>6. \A u \in Tabs : u # t /\ Reading(u) => OfRuns(task[u].seen)' /\ (locks => task'[u].seen = stored)
  BY <1>1, <1>3 DEF LibraryInv, SeenIsSound, OfRuns
<1>7. SeenIsSound'
  <2>1. locks => \A u \in Tabs : u # t => ~Reading(u)
    BY DEF Turn, Reading
  <2>2. OfRuns(task[t].seen)'
    BY <1>4, <1>1, <1>5 DEF OfRuns
  <2>3. QED
    BY <1>1, <1>3, <1>4, <1>6, <2>1, <2>2 DEF SeenIsSound
<1>8. AddsAreNew'
  <2>1. ASSUME NEW u \in Tabs, Adding(u)' PROVE Adding(u) /\ task'[u].x = task[u].x
    BY <1>3, <1>4, <2>1
  <2>2. QED
    BY <1>1, <1>3, <1>4, <2>1 DEF LibraryInv, AddsAreNew, HasNot
<1>9. QED
  BY <1>3, <1>5, <1>7, <1>8 DEF LibraryInv

LEMMA EndOfTaskKeeps ==
  ASSUME LibraryInv, NEW t \in Tabs, task' = [task EXCEPT ![t] = Idle], UNCHANGED <<locks, now, ran>>,
         \/ stored' = stored
         \/ /\ Reading(t) /\ Sound(stored') /\ Within(stored')
            /\ \A y \in stored' : \/ \E z \in task[t].seen : z.id = y.id
                                  \/ Adding(t) /\ y.id = task[t].x.id
  PROVE  LibraryInv'
<1>1. task'[t] = Idle /\ (\A u \in Tabs : u # t => task'[u] = task[u]) /\ LibraryTypes'
  BY TaskShapes DEF LibraryInv, LibraryTypes
<1>2. /\ ~Reading(t)' /\ ~Adding(t)'
      /\ \A u \in Tabs : u # t => (Reading(u)' <=> Reading(u)) /\ (Adding(u)' <=> Adding(u))
  BY <1>1 DEF Reading, Adding, Idle
<1>3. OfRuns(stored)' /\ Within(stored)'
  <2>1. CASE stored' = stored
    BY <2>1 DEF LibraryInv, Within, Bytes, OfRuns, Sound, FewStars, OneOfEach, Warned, Repeats,
                Conflicts, SameInputs, InputsIn, OutputIn
  <2>2. CASE stored' # stored
    <3>1. Sound(stored)' /\ Within(stored)'
      BY <2>2 DEF Sound, FewStars, OneOfEach, Warned, Repeats, Conflicts, SameInputs, InputsIn,
                  OutputIn, Within, Bytes
    <3>2. \A y \in stored' : y.id \in ran
      BY <2>2 DEF LibraryInv, SeenIsSound, OfRuns, AddsAreNew
    <3>3. QED
      BY <3>1, <3>2 DEF OfRuns
  <2>3. QED
    BY <2>1, <2>2
<1>4. SeenIsSound'
  <2>1. \A u \in Tabs : u # t /\ Reading(u) => OfRuns(task[u].seen)'
    BY <1>1 DEF LibraryInv, SeenIsSound, OfRuns
  <2>2. \A u \in Tabs : u # t /\ Reading(u) /\ locks => task[u].seen = stored'
    BY DEF LibraryInv, SeenIsSound
  <2>3. QED
    BY <1>1, <1>2, <2>1, <2>2 DEF LibraryInv, SeenIsSound
<1>5. AddsAreNew'
  <2>1. ASSUME NEW u \in Tabs, u # t, Adding(u) PROVE HasNot(stored', task[u].x.id)
    BY <2>1 DEF LibraryInv, AddsAreNew, HasNot
  <2>2. QED
    BY <1>1, <1>2, <2>1 DEF LibraryInv, AddsAreNew, HasNot
<1>6. QED
  BY <1>1, <1>3, <1>4, <1>5 DEF LibraryInv

\* What a write leaves, if there is room at all.
LEMMA Written ==
  ASSUME LibraryTypes, NEW S, Sound(S), WriteBack(S), stored' # stored
  PROVE  /\ stored' = Fit(S) /\ Sound(stored') /\ Within(stored')
         /\ \A y \in stored' : \E z \in S : z.id = y.id
         /\ ContentsOf(stored') \in Library!Tidied(ContentsOf(S))
<1>1. stored' = Fit(S) /\ Fits(S)
  BY DEF WriteBack
<1>2. now \in Nat
  BY DEF LibraryTypes
<1>3. Within(stored')
  BY <1>1 DEF Fits, Within, Bytes
<1>4. QED
  BY <1>1, <1>2, <1>3, FitTidies, FitIds

\* The steps of a tab's task that write.
Writes(t) ==
  \/ AddRecord(t) \/ RemoveRecord(t) \/ ClearAll(t) \/ LoadLibrary(t)
  \/ \E star \in BOOLEAN : UpdateStar(t, star)

\* What was written, and that it is one operation of the library on what was read.
LEMMA WriteStep ==
  ASSUME LibraryInv, NEW t \in Tabs, Writes(t)
  PROVE  /\ task' = [task EXCEPT ![t] = Idle] /\ UNCHANGED <<locks, now, ran>> /\ Reading(t)
         /\ \/ stored' = stored
            \/ /\ Sound(stored') /\ Within(stored')
               /\ \A y \in stored' : \/ \E z \in task[t].seen : z.id = y.id
                                     \/ Adding(t) /\ y.id = task[t].x.id
               /\ task[t].seen = stored => Library!Next
<1> DEFINE S == task[t].seen
           Good == /\ Sound(stored') /\ Within(stored')
                   /\ \A y \in stored' : (\E z \in S : z.id = y.id) \/ (Adding(t) /\ y.id = task[t].x.id)
                   /\ S = stored => Library!Next
<1>1. task' = [task EXCEPT ![t] = Idle] /\ UNCHANGED <<locks, now, ran>> /\ Reading(t)
  BY DEF Writes, AddRecord, RemoveRecord, ClearAll, LoadLibrary, UpdateStar, Finishes, Reading
<1>2. Sound(S) /\ LibraryTypes
  BY <1>1 DEF LibraryInv, SeenIsSound, OfRuns
<1>3. \A x \in S : x \in Records
  BY <1>2 DEF Sound
<1>4. S = stored => Contents = ContentsOf(S)
  BY DEF Contents, ContentsOf, Content
<1>5. Contents' = ContentsOf(stored')
  BY DEF Contents, ContentsOf, Content
<1>6. \A x \in Records : /\ Content(x) \in [id : RunIds, star : BOOLEAN, last : 0..MaxTime]
                         /\ Content(x).id = x.id /\ Content(x).star = x.star /\ Content(x).last = x.last
  BY DEF Content, Records
<1>7. SUFFICES ASSUME stored' # stored PROVE Good
  BY <1>1
<1> HIDE DEF S
<1>8. CASE AddRecord(t)
  <2> DEFINE x == task[t].x
             T == Added(S, x)
  <2>1. Adding(t) /\ WriteBack(T)
    BY <1>8 DEF AddRecord, Finishes, Adding, Reading, S
  <2>2. x \in Records /\ ~x.star /\ HasNot(S, x.id)
    BY <1>1, <2>1 DEF LibraryInv, AddsAreNew, S
  <2> HIDE DEF x, T
  <2>3. Sound(T)
    BY <1>2, <2>2, NewIsSound, RepeatIsSound DEF T, HasNot
  <2>4. \A y \in T : y.id = x.id \/ \E z \in S : z.id = y.id
    BY <1>2, <2>2, AddedIds DEF T
  <2>5. /\ Sound(stored') /\ Within(stored') /\ ContentsOf(stored') \in Library!Tidied(ContentsOf(T))
        /\ \A y \in stored' : \E z \in T : z.id = y.id
    BY <1>2, <1>7, <2>1, <2>3, Written
  <2>6. ASSUME S = stored PROVE Library!Next
    <3>1. CASE \E y \in S : Repeats(y, x)
      <4>1. PICK y \in S : ContentsOf(T) =
              {c \in ContentsOf(S) : c.id # y.id} \cup {[Content(y) EXCEPT !.last = x.last]}
        BY <1>2, <2>2, <3>1, RepeatIsSound DEF T
      <4> DEFINE e == [Content(y) EXCEPT !.last = x.last]
      <4>2. y \in Records /\ Content(y) \in [id : RunIds, star : BOOLEAN, last : 0..MaxTime]
        BY <1>3, <1>6
      <4>3. x.last \in 0..MaxTime
        BY <2>2 DEF Records
      <4>4. /\ e \in [id : RunIds, star : BOOLEAN, last : 0..MaxTime]
            /\ e.id = Content(y).id /\ e.star = Content(y).star
        BY <4>2, <4>3
      <4> HIDE DEF e
      <4>5. ContentsOf(T) = Library!Saved(e)
        BY <1>4, <1>6, <2>6, <4>1, <4>2, <4>4 DEF Library!Saved, e
      <4>6. e.star <=> \E c \in Contents : c.id = e.id /\ c.star
        <5>1. Content(y) \in Contents
          BY <1>4, <2>6 DEF ContentsOf
        <5>2. \A c \in Contents : c.id = e.id => c = Content(y)
          <6>1. ASSUME NEW z \in S, z.id = y.id PROVE Content(z) = Content(y)
            BY <1>2, <6>1 DEF Sound, OneOfEach
          <6>2. QED
            BY <1>3, <1>4, <1>6, <2>6, <4>2, <4>4, <6>1 DEF ContentsOf
        <5>3. QED
          BY <4>4, <5>1, <5>2
      <4>7. Library!Save
        BY <1>5, <2>5, <4>4, <4>5, <4>6 DEF Library!Save
      <4>8. QED
        BY <4>7 DEF Library!Next
    <3>2. CASE ~\E y \in S : Repeats(y, x)
      <4>1. ContentsOf(T) = ContentsOf(S) \cup {Content(x)}
        BY <1>2, <2>2, <3>2, NewIsSound DEF T, HasNot
      <4>2. \A c \in Contents : c.id # Content(x).id
        BY <1>3, <1>4, <1>6, <2>2, <2>6 DEF ContentsOf, HasNot
      <4>3. ContentsOf(T) = Library!Saved(Content(x))
        BY <1>4, <2>6, <4>1, <4>2 DEF Library!Saved
      <4>4. ~Content(x).star /\ Content(x) \in [id : RunIds, star : BOOLEAN, last : 0..MaxTime]
        BY <1>6, <2>2
      <4>5. Library!Save
        BY <1>5, <2>5, <4>2, <4>3, <4>4 DEF Library!Save
      <4>6. QED
        BY <4>5 DEF Library!Next
    <3>3. QED
      BY <3>1, <3>2
  <2>7. \A y \in stored' : (\E z \in S : z.id = y.id) \/ y.id = x.id
    BY <2>4, <2>5
  <2>8. QED
    BY <2>1, <2>5, <2>6, <2>7 DEF x
<1>9. ASSUME NEW star \in BOOLEAN, UpdateStar(t, star) PROVE Good
  <2> DEFINE id == task[t].id
             T == Starred(S, id, star)
  <2>1. (\E x \in S : x.id = id) /\ StarAllowed(S, id, star) /\ WriteBack(T)
    BY <1>7, <1>9 DEF UpdateStar, S
  <2>2. PICK x \in S : x.id = id
    BY <2>1
  <2> HIDE DEF id, T
  <2>3. /\ Sound(T) /\ (\A y \in T : \E z \in S : z.id = y.id)
        /\ ContentsOf(T) = {c \in ContentsOf(S) : c.id # x.id} \cup {[Content(x) EXCEPT !.star = star]}
    BY <1>2, <2>1, <2>2, StarredIsSound DEF T
  <2>4. /\ Sound(stored') /\ Within(stored') /\ ContentsOf(stored') \in Library!Tidied(ContentsOf(T))
        /\ \A y \in stored' : \E z \in T : z.id = y.id
    BY <1>2, <1>7, <2>1, <2>3, Written
  <2>5. ASSUME S = stored PROVE Library!Next
    <3>1. Content(x) \in Contents
      BY <1>4, <2>5 DEF ContentsOf
    <3>2. [Content(x) EXCEPT !.star = star].id = x.id
      BY <1>3, <1>6
    <3>3. ContentsOf(T) = Library!Saved([Content(x) EXCEPT !.star = star])
      BY <1>4, <2>3, <2>5, <3>2 DEF Library!Saved
    <3>4. Library!SetStar
      BY <1>5, <2>4, <3>1, <3>3 DEF Library!SetStar
    <3>5. QED
      BY <3>4 DEF Library!Next
  <2>6. \A y \in stored' : \E z \in S : z.id = y.id
    BY <2>3, <2>4
  <2>7. QED
    BY <2>4, <2>5, <2>6
<1>10. CASE RemoveRecord(t)
  <2> DEFINE id == task[t].id
             T == {x \in S : x.id # id}
  <2>1. WriteBack(T)
    BY <1>10 DEF RemoveRecord, S
  <2> HIDE DEF id
  <2>2. Sound(T) /\ ContentsOf(T) = {c \in ContentsOf(S) : c.id # id} /\ T \in SUBSET S
    <3>1. T \in SUBSET S
      OBVIOUS
    <3>2. Sound(S)
      BY <1>2
    <3>3. Sound(T) /\ ContentsOf(T) = {c \in ContentsOf(S) : c.id # id}
      BY <3>2, RemovedIsSound, Zenon
    <3> QED
      BY <3>1, <3>3, Zenon
  <2> HIDE DEF T
  <2>3. /\ Sound(stored') /\ Within(stored') /\ ContentsOf(stored') \in Library!Tidied(ContentsOf(T))
        /\ \A y \in stored' : \E z \in T : z.id = y.id
    BY <1>2, <1>7, <2>1, <2>2, Written
  <2>4. ASSUME S = stored PROVE Library!Next
    <3>1. CASE \E x \in S : x.id = id
      <4>1. PICK x \in S : x.id = id
        BY <3>1
      <4>2. \A y \in S : y.id = id => y = x
        BY <1>2, <4>1 DEF Sound, OneOfEach
      <4>3. Content(x) \in Contents /\ Content(x).id = id
        BY <1>3, <1>4, <1>6, <2>4, <4>1 DEF ContentsOf
      <4>4. \A c \in Contents : c.id = id => c = Content(x)
        BY <1>3, <1>4, <1>6, <2>4, <4>2 DEF ContentsOf
      <4>5. ContentsOf(T) = Contents \ {Content(x)}
        BY <1>4, <2>2, <2>4, <4>3, <4>4
      <4>6. Library!Remove
        BY <1>5, <2>3, <4>3, <4>5 DEF Library!Remove
      <4>7. QED
        BY <4>6 DEF Library!Next
    <3>2. CASE ~\E x \in S : x.id = id
      <4>1. T = S
        BY <3>2 DEF T
      <4>2. Library!Tidy
        BY <1>4, <1>5, <2>3, <2>4, <4>1 DEF Library!Tidy
      <4>3. QED
        BY <4>2 DEF Library!Next
    <3>3. QED
      BY <3>1, <3>2
  <2>5. \A y \in stored' : \E z \in S : z.id = y.id
    BY <2>2, <2>3
  <2>6. QED
    BY <2>3, <2>4, <2>5
<1>11. CASE ClearAll(t)
  <2>1. stored' = {}
    BY <1>11 DEF ClearAll
  <2>2. Sound(stored')
    BY <1>2, <2>1, FewerIsSound
  <2>3. Within(stored')
    <3>1. {x \in stored' : x.bundle} = {} /\ Cardinality({}) = 0
      BY <2>1, FS_EmptySet
    <3>2. Bytes(stored') = RecordBytes * 0 + BundleBytes * 0
      BY <2>1, <3>1 DEF Bytes
    <3>3. RecordBytes * 0 = 0 /\ BundleBytes * 0 = 0
      OBVIOUS
    <3>4. QED
      BY <2>1, <3>1, <3>2, <3>3 DEF Within
  <2>4. Library!Next
    BY <1>5, <2>1 DEF Library!Next, Library!Clear, ContentsOf
  <2>5. QED
    BY <2>1, <2>2, <2>3, <2>4
<1>12. CASE LoadLibrary(t)
  <2>1. WriteBack(S)
    BY <1>7, <1>12 DEF LoadLibrary, S
  <2>2. /\ Sound(stored') /\ Within(stored') /\ ContentsOf(stored') \in Library!Tidied(ContentsOf(S))
        /\ \A y \in stored' : \E z \in S : z.id = y.id
    BY <1>2, <1>7, <2>1, Written
  <2>3. S = stored => Library!Tidy
    BY <1>4, <1>5, <2>2 DEF Library!Tidy
  <2>4. QED
    BY <2>2, <2>3 DEF Library!Next
<1>13. QED
  BY <1>8, <1>9, <1>10, <1>11, <1>12 DEF Writes

\* The steps that leave the store as it is.
LEMMA OtherStep ==
  ASSUME LibraryInv, [LibraryNext]_libraryVars, \A t \in Tabs : ~Writes(t)
  PROVE  LibraryInv' /\ stored' = stored
<1>1. ASSUME NEW t \in Tabs, NEW ended \in RunIds, EndRun(t, ended) PROVE LibraryInv' /\ stored' = stored
  BY <1>1, EndRunKeeps DEF EndRun
<1>2. ASSUME NEW t \in Tabs, NEW op \in {"star", "unstar", "remove"}, NEW id \in RunIds,
             ReadToChange(t, op, id)
      PROVE  LibraryInv' /\ stored' = stored
  <2>1. ReadFor(t, op, id, Idle) /\ Turn(t) /\ ~Reading(t)
    BY <1>2 DEF ReadToChange, ReadFor, Reading, Idle
  <2>2. QED
    BY <2>1, ReadKeeps DEF ReadFor
<1>3. ASSUME NEW t \in Tabs, NEW op \in {"clear", "load"}, ReadToTidy(t, op)
      PROVE  LibraryInv' /\ stored' = stored
  <2>1. ReadFor(t, op, Idle, Idle) /\ Turn(t) /\ ~Reading(t)
    BY <1>3 DEF ReadToTidy, ReadFor, Reading, Idle
  <2>2. QED
    BY <2>1, ReadKeeps DEF ReadFor
<1>4. ASSUME NEW t \in Tabs, ReadToAdd(t) PROVE LibraryInv' /\ stored' = stored
  <2>1. ReadFor(t, "add", task[t].x.id, task[t].x) /\ Turn(t) /\ ~Reading(t) /\ Adding(t)
    BY <1>4 DEF ReadToAdd, ReadFor, Reading, Adding
  <2>2. task[t].x \in Records /\ task[t].x.id \in RunIds
    BY <2>1 DEF LibraryInv, AddsAreNew, Records
  <2>3. QED
    BY <2>1, <2>2, ReadKeeps DEF ReadFor
<1>5. ASSUME NEW t \in Tabs, Fails(t) PROVE LibraryInv' /\ stored' = stored
  BY <1>5, EndOfTaskKeeps DEF Fails
<1>6. ASSUME Day \/ UNCHANGED libraryVars PROVE LibraryInv' /\ stored' = stored
  <2>1. UNCHANGED <<locks, stored, task, ran>> /\ now' \in 0..MaxTime
    BY <1>6 DEF Day, libraryVars, LibraryInv, LibraryTypes
  <2>2. LibraryTypes' /\ OfRuns(stored)' /\ Within(stored)' /\ SeenIsSound' /\ AddsAreNew'
    BY <2>1
    DEF LibraryInv, LibraryTypes, OfRuns, Within, SeenIsSound, AddsAreNew, Reading, Adding, HasNot
  <2>3. QED
    BY <2>1, <2>2 DEF LibraryInv
<1>7. QED
  BY <1>1, <1>2, <1>3, <1>4, <1>5, <1>6 DEF LibraryNext, Writes

LEMMA LibraryStep == LibraryInv /\ [LibraryNext]_libraryVars => LibraryInv'
<1> SUFFICES ASSUME LibraryInv, [LibraryNext]_libraryVars PROVE LibraryInv'
  OBVIOUS
<1>1. ASSUME NEW t \in Tabs, Writes(t) PROVE LibraryInv'
  BY <1>1, WriteStep, EndOfTaskKeeps
<1>2. QED
  BY <1>1, OtherStep

\* Whatever tabs interleave, with or without the lock, and whatever fails: the store is
\* within its bounds, has one record of a run and of a replay, and both of two runs that
\* contradict each other are flagged (persistRecords, addLocalRunHistoryRecord,
\* updateLocalRunHistoryRecord).
THEOREM LibraryIsSound == LibrarySpec => []StoreIsSound
<1>1. LibraryInv => StoreIsSound
  BY DEF LibraryInv, OfRuns, Within, Sound, FewStars, OneOfEach, Warned, StoreIsSound
<1>2. QED
  BY <1>1, LibraryStart, LibraryStep, PTL DEF LibrarySpec

\* Under the lock every write is one operation of the library, on its contents at that
\* moment (serializeMutation).
THEOREM LibraryIsRefined == LibrarySpec => RefinesLibrary
<1>1. LibraryInit => Library!Init
  BY DEF LibraryInit, Library!Init, Contents
<1>2. LibraryInv /\ [LibraryNext]_libraryVars => [locks => Library!Next]_Contents
  <2> SUFFICES ASSUME LibraryInv, [LibraryNext]_libraryVars, locks, stored' # stored
               PROVE  Library!Next
    BY DEF Contents
  <2>1. PICK t \in Tabs : Writes(t)
    BY OtherStep
  <2>2. task[t].seen = stored
    BY <2>1, WriteStep DEF LibraryInv, SeenIsSound
  <2>3. QED
    BY <2>1, <2>2, WriteStep
<1>3. QED
  BY <1>1, <1>2, LibraryStart, LibraryStep, PTL DEF LibrarySpec, RefinesLibrary

-----------------------------------------------------------------------------
(* The evidence of runs.                                                   *)

IsInputs(i) == i = [design |-> i.design, private |-> i.private] /\ i.private \in BOOLEAN

ResultOf(e) == [engine |-> e.engine, profiles |-> e.profiles, inputs |-> e.inputs, actions |-> e.actions]
\* There was a run of that number, result and digest.
Evidenced(id, result, digest) ==
  \E r \in made : r.id = id /\ r.result = result /\ digest = DigestOf(result, r.subtle)
\* An artifact or a bundle is of a run that was made.
Faithful(e) ==
  /\ Evidenced(e.id, ResultOf(e), e.digest)
  /\ IsInputs(e.inputs) /\ e.actions \in Seq(Nat)
Shared(e) == Faithful(e) /\ e.inputs.private = FALSE

MadeInv ==
  /\ IsFiniteSet(made)
  /\ \A r \in made : r.id \in 1 .. Cardinality(made) /\ r.subtle \in BOOLEAN
  /\ \A r, s \in made : r.id = s.id => r = s

\* A replay is of a run of the engine and the profiles of this build, and repeats
\* it so far.
RunInv ==
  run # Nil =>
    /\ run = [inputs |-> run.inputs, actions |-> run.actions, source |-> run.source]
    /\ IsInputs(run.inputs) /\ run.actions \in Seq(Nat)
    /\ run.source # Nil =>
         /\ Evidenced(run.source.id, Simulated(run.source.inputs, run.source.actions), run.source.digest)
         /\ run.inputs = run.source.inputs
         /\ run.source.actions \in Seq(Nat) /\ IsPrefix(run.source.actions, run.actions)

FinishedInv ==
  /\ finished # Nil => Faithful(finished) /\ Compatible(finished)
  /\ VerifiedIsReproduced

\* What a file says is what it was written with.
TrueFile(file) ==
  LET p == file.payload
  IN /\ file = File("bundle", p, Integrity(p))
     /\ p = [version |-> 1, id |-> p.id, about |-> p.inputs.design, engine |-> p.engine,
             profiles |-> [registry |-> p.profiles.registry, of |-> p.inputs.design],
             digest |-> p.digest, inputs |-> p.inputs, actions |-> p.actions]
     /\ Shared(Bundle(p)) /\ p.inputs.design \notin TooLarge

FilesInv == \A file \in disk : TrueFile(file)

OpenedInv ==
  /\ opened # Nil => Shared(opened)
  /\ transfer # Nil => /\ transfer = [bundle |-> transfer.bundle, late |-> transfer.late]
                       /\ Shared(transfer.bundle)

ComparedInv ==
  compared # Nil =>
    /\ FALSE \notin compared.verified
    /\ \E r, s \in made :
         /\ r.id = compared.source /\ s.id = compared.comparison
         /\ compared.sameInputs = (r.result.inputs = s.result.inputs /\ r.result.actions = s.result.actions)

EvidenceInv ==
  /\ browser \in Browsers /\ IsInputs(lab)
  /\ MadeInv /\ RunInv /\ FinishedInv /\ FilesInv /\ OpenedInv /\ ComparedInv

-----------------------------------------------------------------------------
\* Another run makes no difference to what is said of earlier ones.
LEMMA EvidenceStays ==
  ASSUME NEW id, NEW result, NEW digest, Evidenced(id, result, digest), made \subseteq made'
  PROVE  Evidenced(id, result, digest)'
BY DEF Evidenced, DigestOf

\* Whatever was done to a copy, if it can be opened it holds what the file holds.
LEMMA CopiesAreRefused ==
  ASSUME NEW file \in disk, TrueFile(file), NEW copy \in Copies(file), Refusal(copy) = "none"
  PROVE  copy.payload = file.payload /\ browser.subtle
<1> DEFINE p == file.payload
<1>1. file = File("bundle", p, Integrity(p)) /\ Integrity(p).payload.of = p
  BY DEF TrueFile, Integrity, Sha256
<1>2. copy.integrity = Integrity(copy.payload)
  BY DEF Refusal
<1>3. browser.subtle
  BY DEF Refusal
<1>4. \/ copy = file
      \/ \E form \in Form : copy = [file EXCEPT !.form = form]
      \/ \E changed : copy = [file EXCEPT !.payload = changed]
  BY DEF Copies
<1>5. copy.integrity = Integrity(p)
  BY <1>1, <1>4 DEF File
<1>6. Integrity(copy.payload).payload.of = copy.payload
  BY DEF Integrity, Sha256
<1> QED
  BY <1>1, <1>2, <1>3, <1>5, <1>6

-----------------------------------------------------------------------------
\* What is left alone stays as it was, however many runs are made meanwhile.
LEMMA FilesStay ==
  ASSUME FilesInv, made \subseteq made', UNCHANGED disk PROVE FilesInv'
<1> SUFFICES ASSUME NEW file \in disk PROVE TrueFile(file)'
  BY DEF FilesInv
<1>1. TrueFile(file)
  BY DEF FilesInv
<1> DEFINE b == Bundle(file.payload)
<1>2. Evidenced(b.id, ResultOf(b), b.digest)
  BY <1>1 DEF TrueFile, Shared, Faithful
<1>3. Evidenced(b.id, ResultOf(b), b.digest)'
  BY <1>2 DEF Evidenced, DigestOf, ResultOf, Bundle
<1> QED
  BY <1>1, <1>3 DEF TrueFile, Shared, Faithful

LEMMA FaithfulStays ==
  ASSUME NEW e, Faithful(e), made \subseteq made' PROVE Faithful(e)'
BY EvidenceStays DEF Faithful

LEMMA OpenedStays ==
  ASSUME OpenedInv, made \subseteq made', UNCHANGED <<opened, transfer>> PROVE OpenedInv'
<1>1. PICK o, t : o = opened /\ t = transfer
  OBVIOUS
<1>2. o # Nil => Shared(o)'
  BY <1>1, FaithfulStays DEF OpenedInv, Shared
<1>3. t # Nil => Shared(t.bundle)'
  BY <1>1, FaithfulStays DEF OpenedInv, Shared
<1> QED
  BY <1>1, <1>2, <1>3 DEF OpenedInv, Nil

LEMMA FinishedStays ==
  ASSUME FinishedInv, made \subseteq made', UNCHANGED <<finished, browser>> PROVE FinishedInv'
<1>1. PICK f : f = finished
  OBVIOUS
<1>2. f # Nil => Faithful(f)'
  BY <1>1, FaithfulStays DEF FinishedInv
<1>3. VerifiedIsReproduced'
  BY DEF FinishedInv, VerifiedIsReproduced, RunsOf, DigestOf, Nil
<1> QED
  BY <1>1, <1>2, <1>3 DEF FinishedInv, Nil, Compatible

LEMMA RunStays ==
  ASSUME RunInv, made \subseteq made', UNCHANGED <<run, browser>> PROVE RunInv'
BY DEF RunInv, Nil, Evidenced, DigestOf, Simulated

LEMMA ComparedStays ==
  ASSUME ComparedInv, made \subseteq made', UNCHANGED compared PROVE ComparedInv'
BY DEF ComparedInv, Nil

-----------------------------------------------------------------------------
(* The steps.                                                              *)

\* A completed run takes a new number; if it is a replay, it is judged against
\* the run it repeats.
LEMMA RunIsCompleted ==
  ASSUME EvidenceInv, NEW subtle \in {browser.subtle, FALSE}, RunCompletes(subtle)
  PROVE  EvidenceInv'
<1> DEFINE id == Cardinality(made) + 1
           result == Simulated(run.inputs, run.actions)
           new == [id |-> id, subtle |-> subtle, result |-> result]
<1>0. /\ MadeInv /\ RunInv /\ FinishedInv /\ FilesInv /\ OpenedInv /\ ComparedInv
      /\ browser \in Browsers /\ IsInputs(lab) /\ browser.subtle \in BOOLEAN
  BY EvidenceAssumption DEF EvidenceInv
<1>1. /\ run # Nil /\ run' = Nil
      /\ finished' = CreateArtifact(id, subtle) /\ made' = made \cup {new}
      /\ UNCHANGED <<browser, lab, disk, opened, transfer, compared, forks, moves>>
  BY DEF RunCompletes
<1>2. MadeInv'
  <2>1. IsFiniteSet(made) /\ Cardinality(made) \in Nat
    BY <1>0, FS_CardinalityType DEF MadeInv
  <2>2. new \notin made
    BY <1>0, <2>1 DEF MadeInv
  <2>3. IsFiniteSet(made') /\ Cardinality(made') = Cardinality(made) + 1
    BY <1>1, <2>1, <2>2, FS_AddElement
  <2>4. \A r \in made' : r.id \in 1 .. Cardinality(made') /\ r.subtle \in BOOLEAN
    <3>1. new.id = Cardinality(made) + 1 /\ new.subtle \in BOOLEAN
      BY <1>0
    <3> QED
      BY <1>0, <1>1, <2>1, <2>3, <3>1 DEF MadeInv
  <2>5. \A r, s \in made' : r.id = s.id => r = s
    <3>1. \A r \in made : r.id # new.id
      BY <1>0, <2>1 DEF MadeInv
    <3> QED
      BY <1>0, <1>1, <3>1 DEF MadeInv
  <2> QED
    BY <2>3, <2>4, <2>5 DEF MadeInv
<1>3. RunInv' /\ FilesInv' /\ OpenedInv' /\ ComparedInv'
  <2>1. made \subseteq made'
    BY <1>1
  <2> QED
    BY <1>0, <1>1, <2>1, FilesStay, OpenedStays, ComparedStays DEF RunInv, Nil
<1>4. PICK f, n, res : f = CreateArtifact(id, subtle) /\ n = id /\ res = result
  OBVIOUS
<1>5. /\ f.id = n /\ f.engine = browser.engine /\ f.profiles = browser.profiles
      /\ f.inputs = run.inputs /\ f.actions = run.actions
      /\ f.digest = DigestOf(res, subtle)
      /\ ResultOf(f) = res
  BY <1>4 DEF CreateArtifact, ResultOf, Simulated
<1>6. FinishedInv'
  <2>1. Faithful(f)'
    <3>1. Evidenced(n, res, DigestOf(res, subtle))'
      <4>1. PICK r : r = new
        OBVIOUS
      <4>2. r.id = n /\ r.result = res /\ r.subtle = subtle /\ r \in made'
        BY <1>1, <1>4, <4>1
      <4>3. DigestOf(res, subtle) = DigestOf(res, r.subtle)
        BY <4>2
      <4> HIDE DEF new, id, result
      <4> QED
        BY <4>2, <4>3 DEF Evidenced, DigestOf
    <3>2. Evidenced(f.id, ResultOf(f), f.digest)'
      BY <3>1, <1>5 DEF Evidenced, DigestOf, ResultOf
    <3>3. IsInputs(f.inputs) /\ f.actions \in Seq(Nat)
      BY <1>0, <1>1, <1>5 DEF RunInv
    <3> QED
      BY <3>2, <3>3 DEF Faithful
  <2>2. Compatible(f)'
    BY <1>1, <1>5 DEF Compatible
  <2>3. ASSUME run.source # Nil
        PROVE  \E r \in made :
                 LET again == [engine |-> f.engine, profiles |-> f.profiles,
                               inputs |-> f.inputs, actions |-> f.actions]
                     alike == f.digest.algorithm = DigestOf(r.result, r.subtle).algorithm
                 IN /\ r.id = f.replay.source
                    /\ f.replay.verified = (again = r.result /\ alike)
                    /\ again.inputs = r.result.inputs /\ again.engine = r.result.engine
                    /\ again.profiles = r.result.profiles
                    /\ IsPrefix(r.result.actions, again.actions)
    <3> DEFINE s == run.source
               again == [engine |-> f.engine, profiles |-> f.profiles,
                         inputs |-> f.inputs, actions |-> f.actions]
    <3>1. /\ Evidenced(s.id, Simulated(s.inputs, s.actions), s.digest)
          /\ run.inputs = s.inputs /\ IsPrefix(s.actions, run.actions)
      BY <1>0, <1>1, <2>3 DEF RunInv
    <3>2. PICK r \in made : /\ r.id = s.id /\ r.result = Simulated(s.inputs, s.actions)
                            /\ s.digest = DigestOf(r.result, r.subtle)
      BY <3>1 DEF Evidenced
    <3>3. /\ f.replay.source = s.id
          /\ f.replay.verified = (/\ run.inputs = s.inputs /\ run.actions = s.actions
                                  /\ f.digest = s.digest)
      BY <1>4, <2>3 DEF CreateArtifact, SameAsSource
    <3>4. again = r.result <=> run.actions = s.actions
      BY <1>5, <3>1, <3>2 DEF Simulated
    <3>5. again = r.result =>
            (f.digest = s.digest <=> f.digest.algorithm = DigestOf(r.result, r.subtle).algorithm)
      BY <1>4, <1>5, <3>1, <3>2 DEF DigestOf, ResultOf
    <3>6. f.replay.verified = (again = r.result /\ f.digest.algorithm = DigestOf(r.result, r.subtle).algorithm)
      BY <3>1, <3>3, <3>4, <3>5
    <3>7. /\ again.inputs = r.result.inputs /\ again.engine = r.result.engine
          /\ again.profiles = r.result.profiles
          /\ IsPrefix(r.result.actions, again.actions)
      BY <1>5, <3>1, <3>2 DEF Simulated
    <3> QED
      BY <3>2, <3>3, <3>6, <3>7
  <2>4. run.source = Nil => f.replay = Nil
    BY <1>4 DEF CreateArtifact
  <2>5. VerifiedIsReproduced'
    BY <1>1, <1>4, <2>3, <2>4 DEF VerifiedIsReproduced, RunsOf, DigestOf, Nil
  <2> QED
    BY <1>1, <1>4, <2>1, <2>2, <2>5 DEF FinishedInv, Faithful, Compatible
<1> QED
  BY <1>0, <1>1, <1>2, <1>3, <1>6 DEF EvidenceInv, IsInputs

\* What is private is never exported, and the rest is exported as it is.
LEMMA ExportIsTrue ==
  ASSUME FinishedInv, finished # Nil, ExportAllowed, finished.inputs.design \notin TooLarge
  PROVE  TrueFile(File("bundle", Payload(finished), Integrity(Payload(finished))))
<1> DEFINE p == Payload(finished)
<1>1. Faithful(finished) /\ IsInputs(finished.inputs) /\ finished.inputs.private = FALSE
  BY DEF FinishedInv, Faithful, ExportAllowed, IsInputs
<1>2. CandidateSafe(finished.inputs) = finished.inputs
  BY <1>1 DEF CandidateSafe, IsInputs
<1>3. p = [version |-> 1, id |-> finished.id, about |-> finished.inputs.design, engine |-> finished.engine,
           profiles |-> [registry |-> finished.profiles, of |-> finished.inputs.design],
           digest |-> finished.digest, inputs |-> finished.inputs, actions |-> finished.actions]
  BY <1>2 DEF Payload
<1>4. PICK q : q = p
  OBVIOUS
<1>5. Shared(Bundle(q)) /\ q.inputs.design \notin TooLarge
  <2>1. /\ Bundle(q).id = finished.id /\ ResultOf(Bundle(q)) = ResultOf(finished)
        /\ Bundle(q).digest = finished.digest /\ Bundle(q).inputs = finished.inputs
        /\ Bundle(q).actions = finished.actions /\ q.inputs = finished.inputs
    BY <1>3, <1>4 DEF Bundle, ResultOf
  <2> QED
    BY <1>1, <2>1 DEF Shared, Faithful
<1>6. q = [version |-> 1, id |-> q.id, about |-> q.inputs.design, engine |-> q.engine,
           profiles |-> [registry |-> q.profiles.registry, of |-> q.inputs.design],
           digest |-> q.digest, inputs |-> q.inputs, actions |-> q.actions]
  BY <1>3, <1>4
<1>7. TrueFile(File("bundle", q, Integrity(q)))
  BY <1>5, <1>6 DEF TrueFile, File
<1> QED
  BY <1>4, <1>7

\* Two bundles that this build can run again come out with the digests they have.
LEMMA ComparisonRepeats ==
  ASSUME NEW b, Faithful(b), Compatible(b), MadeInv, browser.subtle = TRUE
  PROVE  Reproduced(b)
<1>1. PICK r \in made : r.id = b.id /\ r.result = ResultOf(b) /\ b.digest = DigestOf(ResultOf(b), r.subtle)
  BY DEF Faithful, Evidenced
<1>2. Simulated(b.inputs, b.actions) = ResultOf(b)
  BY DEF Compatible, Simulated, ResultOf
<1>3. CASE r.subtle = TRUE
  BY <1>1, <1>2, <1>3 DEF Reproduced, DigestOf
<1>4. CASE r.subtle = FALSE
  BY <1>1, <1>2, <1>4 DEF Reproduced, DigestOf
<1> QED
  BY <1>1, <1>3, <1>4 DEF MadeInv

LEMMA BundlesAreCompared ==
  ASSUME EvidenceInv, NEW file \in disk, NEW copy \in Copies(file), Compare(copy)
  PROVE  EvidenceInv'
<1>0. /\ MadeInv /\ RunInv /\ FinishedInv /\ FilesInv /\ OpenedInv /\ ComparedInv
      /\ browser \in Browsers /\ IsInputs(lab) /\ browser.subtle \in BOOLEAN
  BY EvidenceAssumption DEF EvidenceInv
<1>1. /\ opened # Nil /\ Compatible(opened) /\ Refusal(copy) = "none"
      /\ UNCHANGED <<browser, lab, run, finished, disk, opened, transfer, made, forks, moves>>
  BY DEF Compare
<1>2. copy.payload = file.payload /\ browser.subtle = TRUE /\ TrueFile(file)
  BY <1>0, <1>1, CopiesAreRefused DEF FilesInv
<1>3. PICK b, c : b = opened /\ c = Bundle(copy.payload)
  OBVIOUS
<1>4. Faithful(b) /\ Faithful(c)
  BY <1>0, <1>1, <1>2, <1>3 DEF OpenedInv, Shared, TrueFile
<1>5. compared' = [source |-> b.id, comparison |-> c.id, sameInputs |-> InputsMatch(b, c),
                   verified |-> IF Compatible(c) THEN {Reproduced(b) /\ Reproduced(c)} ELSE {}]
  BY <1>3 DEF Compare
<1>6. Compatible(b) /\ Reproduced(b) /\ (Compatible(c) => Reproduced(c))
  BY <1>0, <1>1, <1>2, <1>3, <1>4, ComparisonRepeats
<1>7. FALSE \notin compared'.verified
  BY <1>5, <1>6
<1>8. PICK r, s \in made : /\ r.id = b.id /\ r.result = ResultOf(b)
                           /\ s.id = c.id /\ s.result = ResultOf(c)
  BY <1>4 DEF Faithful, Evidenced
<1>9. compared'.sameInputs = (r.result.inputs = s.result.inputs /\ r.result.actions = s.result.actions)
  BY <1>5, <1>8 DEF InputsMatch, ResultOf
<1>10. ComparedInv'
  BY <1>1, <1>5, <1>7, <1>8, <1>9 DEF ComparedInv
<1>11. MadeInv' /\ RunInv' /\ FinishedInv' /\ FilesInv' /\ OpenedInv'
  BY <1>0, <1>1, RunStays, FinishedStays, FilesStay, OpenedStays DEF MadeInv
<1> QED
  BY <1>0, <1>1, <1>10, <1>11 DEF EvidenceInv, IsInputs

LEMMA EvidenceStep == EvidenceInv /\ [EvidenceNext]_evidenceVars => EvidenceInv'
<1> SUFFICES ASSUME EvidenceInv, [EvidenceNext]_evidenceVars PROVE EvidenceInv'
  OBVIOUS
<1>0. /\ MadeInv /\ RunInv /\ FinishedInv /\ FilesInv /\ OpenedInv /\ ComparedInv
      /\ browser \in Browsers /\ IsInputs(lab)
  BY DEF EvidenceInv
<1>a. UNCHANGED made => MadeInv' /\ made \subseteq made'
  BY <1>0 DEF MadeInv
<1>1. ASSUME NEW inputs \in Drafts, EditDraft(inputs) PROVE EvidenceInv'
  <2>1. RunInv' /\ IsInputs(lab')
    BY <1>1, EvidenceAssumption DEF EditDraft, RunInv, Nil, IsInputs
  <2> QED
    BY <1>0, <1>1, <1>a, <2>1, FinishedStays, FilesStay, OpenedStays, ComparedStays
    DEF EvidenceInv, EditDraft, IsInputs
<1>2. ASSUME StartRun PROVE EvidenceInv'
  <2>1. run' = [inputs |-> lab, actions |-> <<>>, source |-> Nil]
    BY <1>2 DEF StartRun, RunFrom
  <2>2. RunInv'
    BY <1>0, <1>2, <2>1 DEF StartRun, RunInv, Nil, IsInputs
  <2> QED
    BY <1>0, <1>2, <1>a, <2>2, FinishedStays, FilesStay, OpenedStays, ComparedStays
    DEF EvidenceInv, StartRun, IsInputs
<1>3. ASSUME TakeAction PROVE EvidenceInv'
  <2>1. /\ run # Nil /\ UNCHANGED <<browser, made>>
        /\ run' = [run EXCEPT !.actions = Append(@, Len(@) + 1)]
    BY <1>3 DEF TakeAction
  <2>2. PICK a, next : a = run.actions /\ next = Append(a, Len(a) + 1)
    OBVIOUS
  <2>3. run' = [inputs |-> run.inputs, actions |-> next, source |-> run.source]
    BY <1>0, <2>1, <2>2 DEF RunInv
  <2>4. next \in Seq(Nat)
    BY <1>0, <2>1, <2>2 DEF RunInv
  <2>5. ASSUME NEW given \in Seq(Nat), IsPrefix(given, a) PROVE IsPrefix(given, next)
    BY <1>0, <2>1, <2>2, <2>5 DEF RunInv, IsPrefix
  <2>6. RunInv'
    BY <1>0, <2>1, <2>2, <2>3, <2>4, <2>5 DEF RunInv, Nil, IsInputs, Evidenced, Simulated, DigestOf
  <2> QED
    BY <1>0, <1>3, <1>a, <2>6, FinishedStays, FilesStay, OpenedStays, ComparedStays
    DEF EvidenceInv, TakeAction, IsInputs
<1>4. ASSUME Export PROVE EvidenceInv'
  <2>1. PICK kept \in SUBSET disk :
          disk' = kept \cup {File("bundle", Payload(finished), Integrity(Payload(finished)))}
    BY <1>4 DEF Export
  <2>2. \A file \in disk' : TrueFile(file)
    BY <1>0, <1>4, <2>1, ExportIsTrue DEF Export, FilesInv
  <2>3. FilesInv'
    BY <1>4, <2>2 DEF Export, FilesInv, TrueFile, Shared, Faithful, Evidenced
  <2> QED
    BY <1>0, <1>4, <1>a, <2>3, RunStays, FinishedStays, OpenedStays, ComparedStays
    DEF EvidenceInv, Export, IsInputs
<1>5. ASSUME NEW file \in disk, NEW copy \in Copies(file), OpenFile(copy) PROVE EvidenceInv'
  <2>1. Refusal(copy) = "none" => Shared(Bundle(copy.payload))
    BY <1>0, <1>5, CopiesAreRefused DEF FilesInv, TrueFile
  <2>2. PICK b : b = opened'
    OBVIOUS
  <2>3. b # Nil => Shared(b)
    BY <1>5, <2>1, <2>2 DEF OpenFile
  <2>4. OpenedInv'
    <3>1. b # Nil => Shared(b)'
      BY <1>5, <2>3 DEF OpenFile, Shared, Faithful, Evidenced, DigestOf
    <3>2. PICK t : t = transfer
      OBVIOUS
    <3>3. t # Nil => Shared(t.bundle)'
      BY <1>0, <1>5, <3>2 DEF OpenFile, OpenedInv, Shared, Faithful, Evidenced, DigestOf
    <3> QED
      BY <1>0, <1>5, <2>2, <3>1, <3>2, <3>3 DEF OpenFile, OpenedInv, Nil
  <2> QED
    BY <1>0, <1>5, <1>a, <2>4, RunStays, FinishedStays, FilesStay
    DEF EvidenceInv, OpenFile, IsInputs, ComparedInv, Nil
<1>6. ASSUME ReplayArtifact PROVE EvidenceInv'
  <2>1. /\ finished # Nil /\ lab' = finished.inputs /\ UNCHANGED <<browser, made>>
        /\ run' = [inputs |-> finished.inputs, actions |-> finished.actions,
                   source |-> SourceOf(finished)]
    BY <1>6 DEF ReplayArtifact, RunFrom
  <2>2. /\ Evidenced(finished.id, Simulated(finished.inputs, finished.actions), finished.digest)
        /\ IsInputs(finished.inputs) /\ finished.actions \in Seq(Nat)
    BY <1>0, <2>1 DEF FinishedInv, Faithful, Compatible, Simulated, ResultOf
  <2>3. IsPrefix(finished.actions, finished.actions)
    BY <2>2 DEF IsPrefix
  <2>4. RunInv'
    BY <2>1, <2>2, <2>3 DEF RunInv, Nil, IsInputs, Evidenced, Simulated, DigestOf, SourceOf
  <2> QED
    BY <1>0, <1>6, <1>a, <2>1, <2>2, <2>4, FinishedStays, FilesStay, OpenedStays, ComparedStays
    DEF EvidenceInv, ReplayArtifact, IsInputs
<1>7. ASSUME QueueImportedReplay PROVE EvidenceInv'
  <2>1. PICK b : b = opened
    OBVIOUS
  <2>2. Shared(b)'
    BY <1>0, <1>7, <2>1 DEF QueueImportedReplay, OpenedInv, Shared, Faithful, Evidenced, DigestOf
  <2>3. OpenedInv'
    BY <1>7, <2>1, <2>2 DEF QueueImportedReplay, OpenedInv
  <2> QED
    BY <1>0, <1>7, <1>a, <2>3, RunStays, FinishedStays, FilesStay, ComparedStays
    DEF EvidenceInv, QueueImportedReplay, IsInputs
<1>8. ASSUME TransferIsLate PROVE EvidenceInv'
  <2>1. PICK o, b : o = opened /\ b = transfer.bundle
    OBVIOUS
  <2>2. transfer' = [bundle |-> b, late |-> TRUE]
    BY <1>0, <1>8, <2>1 DEF TransferIsLate, OpenedInv
  <2>3. (o # Nil => Shared(o)') /\ Shared(b)'
    BY <1>0, <1>8, <2>1 DEF TransferIsLate, OpenedInv, Shared, Faithful, Evidenced, DigestOf
  <2>4. OpenedInv'
    BY <1>8, <2>1, <2>2, <2>3 DEF TransferIsLate, OpenedInv, Nil
  <2> QED
    BY <1>0, <1>8, <1>a, <2>4, RunStays, FinishedStays, FilesStay, ComparedStays
    DEF EvidenceInv, TransferIsLate, IsInputs
<1>9. ASSUME ConsumeImportedReplay PROVE EvidenceInv'
  <2>1. PICK b : b = transfer.bundle
    OBVIOUS
  <2>2. Shared(b)
    BY <1>0, <1>9, <2>1 DEF ConsumeImportedReplay, OpenedInv
  <2>3. OpenedInv'
    <3>1. PICK o : o = opened
      OBVIOUS
    <3>2. o # Nil => Shared(o)'
      BY <1>0, <1>9, <3>1 DEF ConsumeImportedReplay, OpenedInv, Shared, Faithful, Evidenced, DigestOf
    <3> QED
      BY <1>9, <3>1, <3>2 DEF ConsumeImportedReplay, OpenedInv, Nil
  <2>4. CASE UNCHANGED <<lab, run, finished>>
    BY <1>0, <1>9, <1>a, <2>3, <2>4, RunStays, FinishedStays, FilesStay, ComparedStays
    DEF EvidenceInv, ConsumeImportedReplay, IsInputs
  <2>5. ASSUME Compatible(b), lab' = CandidateSafe(b.inputs), finished' = Nil,
               RunFrom(lab', b.actions, SourceOf(b))
        PROVE  EvidenceInv'
    <3>1. lab' = b.inputs /\ IsInputs(b.inputs)
      BY <2>2, <2>5 DEF Shared, Faithful, IsInputs, CandidateSafe
    <3>2. run' = [inputs |-> b.inputs, actions |-> b.actions, source |-> SourceOf(b)]
      BY <2>5, <3>1 DEF RunFrom
    <3>3. /\ Evidenced(b.id, Simulated(b.inputs, b.actions), b.digest)
          /\ b.actions \in Seq(Nat) /\ UNCHANGED <<browser, made>>
      BY <1>9, <2>2, <2>5 DEF Shared, Faithful, Compatible, Simulated, ResultOf, ConsumeImportedReplay
    <3>4. IsPrefix(b.actions, b.actions)
      BY <3>3 DEF IsPrefix
    <3>5. RunInv'
      BY <3>1, <3>2, <3>3, <3>4 DEF RunInv, Nil, IsInputs, Evidenced, Simulated, DigestOf, SourceOf
    <3>6. FinishedInv'
      BY <2>5 DEF FinishedInv, VerifiedIsReproduced, Nil
    <3> QED
      BY <1>0, <1>9, <1>a, <2>3, <3>1, <3>5, <3>6, FilesStay, ComparedStays
      DEF EvidenceInv, ConsumeImportedReplay, IsInputs
  <2> QED
    BY <1>9, <2>1, <2>4, <2>5 DEF ConsumeImportedReplay
<1>10. ASSUME ForkRun PROVE EvidenceInv'
  <2>1. IsInputs(finished.inputs)
    BY <1>0, <1>10 DEF ForkRun, FinishedInv, Faithful
  <2>2. IsInputs(lab') /\ RunInv'
    BY <1>10, <2>1 DEF ForkRun, IsInputs, RunInv, Nil
  <2> QED
    BY <1>0, <1>10, <1>a, <2>2, FinishedStays, FilesStay, OpenedStays, ComparedStays
    DEF EvidenceInv, ForkRun, IsInputs
<1>11. ASSUME NEW another \in Browsers, MoveTo(another) PROVE EvidenceInv'
  <2>1. IsInputs(lab')
    BY <1>0, <1>11 DEF MoveTo, CandidateSafe, IsInputs
  <2>2. RunInv' /\ FinishedInv' /\ OpenedInv' /\ ComparedInv'
    BY <1>11 DEF MoveTo, RunInv, FinishedInv, VerifiedIsReproduced, OpenedInv, ComparedInv, Nil
  <2> QED
    BY <1>0, <1>11, <1>a, <2>1, <2>2, FilesStay DEF EvidenceInv, MoveTo, IsInputs
<1>12. ASSUME UNCHANGED evidenceVars PROVE EvidenceInv'
  BY <1>0, <1>12, <1>a, RunStays, FinishedStays, FilesStay, OpenedStays, ComparedStays
  DEF EvidenceInv, evidenceVars, IsInputs
<1> QED
  BY <1>1, <1>2, <1>3, <1>4, <1>5, <1>6, <1>7, <1>8, <1>9, <1>10, <1>11, <1>12,
     RunIsCompleted, BundlesAreCompared DEF EvidenceNext

LEMMA EvidenceStart == EvidenceInit => EvidenceInv
BY EvidenceAssumption, FS_EmptySet
DEF EvidenceInit, EvidenceInv, IsInputs, MadeInv, RunInv, FinishedInv, VerifiedIsReproduced, FilesInv,
    OpenedInv, ComparedInv, Nil

\* What was written can be opened wherever digests can be checked.
LEMMA TrueFileIsAccepted ==
  ASSUME NEW file, TrueFile(file)
  PROVE  Refusal(file) = IF browser.subtle THEN "none" ELSE "digest-unavailable"
<1> DEFINE p == file.payload
<1>1. /\ file.form = "bundle" /\ file.integrity = Integrity(p)
      /\ p.version = 1 /\ p.inputs.private = FALSE
      /\ p.inputs.design \notin TooLarge
      /\ p.about = p.inputs.design /\ p.profiles.of = p.inputs.design
  BY DEF TrueFile, File, Shared, Bundle
<1> QED
  BY <1>1 DEF Refusal, IdentityFits, ProfilesFit

-----------------------------------------------------------------------------
\* What a replay, a file or a comparison says of a run is so, for every set of
\* designs, builds and browsers, any number of runs, files and actions, and
\* whatever becomes of the files (completedRun.ts, replayBundle.ts,
\* replayComparison.ts).
THEOREM EvidenceHolds == EvidenceSpec => []EvidenceIsSound
<1>1. ASSUME EvidenceInv PROVE EvidenceIsSound
  <2>0. /\ MadeInv /\ FinishedInv /\ FilesInv /\ OpenedInv /\ ComparedInv
    BY <1>1 DEF EvidenceInv
  <2>1. FilesAreOfRuns
    <3> SUFFICES ASSUME NEW file \in disk
                 PROVE  /\ Refusal(file) = IF browser.subtle THEN "none" ELSE "digest-unavailable"
                        /\ ~file.payload.inputs.private
                        /\ \E r \in RunsOf(file.payload.id) :
                             /\ r.result = ResultOf(Bundle(file.payload))
                             /\ file.payload.digest = DigestOf(r.result, r.subtle)
      BY DEF FilesAreOfRuns, ResultOf, Bundle
    <3>1. TrueFile(file) /\ Shared(Bundle(file.payload))
      BY <2>0 DEF FilesInv, TrueFile
    <3>2. file.payload.inputs.private = FALSE
      BY <3>1 DEF Shared, Bundle
    <3>3. Evidenced(file.payload.id, ResultOf(Bundle(file.payload)), file.payload.digest)
      BY <3>1 DEF Shared, Faithful, Bundle
    <3> QED
      BY <3>1, <3>2, <3>3, TrueFileIsAccepted DEF Evidenced, RunsOf
  <2>2. ComparisonIsReproduced
    <3>1. opened # Nil => \E r \in RunsOf(opened.id) : r.result = ResultOf(opened)
      BY <2>0 DEF OpenedInv, Shared, Faithful, Evidenced, RunsOf
    <3>2. ASSUME compared # Nil
          PROVE  /\ FALSE \notin compared.verified
                 /\ compared.sameInputs =
                      \E r \in RunsOf(compared.source), s \in RunsOf(compared.comparison) :
                        r.result.inputs = s.result.inputs /\ r.result.actions = s.result.actions
      <4>1. PICK x, y \in made :
              /\ x.id = compared.source /\ y.id = compared.comparison
              /\ compared.sameInputs = (x.result.inputs = y.result.inputs /\ x.result.actions = y.result.actions)
        BY <2>0, <3>2 DEF ComparedInv
      <4>2. RunsOf(compared.source) = {x} /\ RunsOf(compared.comparison) = {y}
        BY <2>0, <4>1 DEF MadeInv, RunsOf
      <4> QED
        BY <2>0, <3>2, <4>1, <4>2 DEF ComparedInv
    <3> QED
      BY <3>1, <3>2 DEF ComparisonIsReproduced, ResultOf
  <2> QED
    BY <2>0, <2>1, <2>2 DEF EvidenceIsSound, FinishedInv
<1> QED
  BY <1>1, EvidenceStart, EvidenceStep, PTL DEF EvidenceSpec
=============================================================================

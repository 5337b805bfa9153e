----------------------------- MODULE RunLibrary -----------------------------
(***************************************************************************)
(* What the run library promises its user: a set of runs, changed one      *)
(* operation at a time.  Old unstarred runs may have to make room, the     *)
(* oldest first; a starred run leaves only by the user's own hand, and     *)
(* nothing the user did to one run is undone by an operation on another.   *)
(***************************************************************************)
EXTENDS Integers

CONSTANT Entries   \* records with the fields id, star and last

VARIABLE lib

\* S, or S without some of its oldest unstarred runs.
Tidied(S) ==
  {S \ gone : gone \in {G \in SUBSET {x \in S : ~x.star} :
                          \A x \in G, y \in S \ G : y.star \/ x.last <= y.last}}

Saved(x) == {y \in lib : y.id # x.id} \union {x}

\* A run is saved: as a new entry, or in the place of the entry it repeats,
\* whose star it keeps.
Save ==
  \E x \in Entries :
    /\ x.star <=> \E y \in lib : y.id = x.id /\ y.star
    /\ lib' \in Tidied(Saved(x))

SetStar ==
  \E x \in lib, star \in BOOLEAN : lib' \in Tidied(Saved([x EXCEPT !.star = star]))

Remove == \E x \in lib : lib' \in Tidied(lib \ {x})
Clear  == lib' = {}
Tidy   == lib' \in Tidied(lib)

Init == lib = {}
Next == Save \/ SetStar \/ Remove \/ Clear \/ Tidy
Spec == Init /\ [][Next]_lib
=============================================================================

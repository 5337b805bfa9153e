------------------------- MODULE ArchitectureEditing -------------------------
(***************************************************************************)
(* The canvas of pages/LabPage.tsx in build mode, with the graph functions *)
(* of lib/architectureEditing.ts and lib/topologySynthesis.ts: components  *)
(* and links are added, copied, removed, laid out and undone while a       *)
(* selection of them is kept beside the design.                            *)
(*                                                                         *)
(* An identifier is the sequence of the parts it is put together from, and *)
(* its length in characters.  Date.now() and crypto.randomUUID() give a    *)
(* fresh part each time.  Positions are left out, except of a layout, and  *)
(* so are the names of components, and of the settings all but replicas.   *)
(***************************************************************************)
EXTENDS Integers, Sequences, FiniteSets, SequencesExt, FiniteSetsExt, Filters

CONSTANTS
  DefaultDesign,  \* the design the editor opens with
  Words,          \* what its identifiers are spelled with
  Palette,        \* kinds that can be added
  MaxNodes,       \* 500 in the code
  MaxEdges,       \* 2,000 in the code
  MaxCommits,     \* bound on the edits
  Undone,         \* bound on the history
  MaxChosen,      \* bound on what is selected at once by clicks
  ReadHeavy,      \* readRatio >= 0.55
  WritesMatter,   \* critical writes make up 12% of the traffic
  NoId

\* The longest identifier the schemas accept.
MaxIdLength == 80

VARIABLES
  canvas,     \* architecture: nodes and edges, in order
  past,       \* designs that undo can bring back
  selected,   \* selectedNodeIds
  primary,    \* selectedNodeId, of the store
  links,      \* edgeSelection
  fresh,      \* parts given out by the clock and the random generator
  edits       \* commits so far

editVars == <<canvas, past, selected, primary, links, fresh, edits>>

-----------------------------------------------------------------------------
(* Identifiers.                                                            *)

Lengths == [users |-> 5, cdn |-> 3, api |-> 3, cache |-> 5, database |-> 8, queue |-> 5,
            stream |-> 6, worker |-> 6]
\* A part is a word, the n-th fresh part or a counted suffix.
Spellings == Words \cup DOMAIN Lengths \cup
  {"part", "suffix", "copy", "edge", "assisted-cache", "assisted-queue", "assisted-worker"}
Parts == Spellings \X Nat
Identifiers == {id \in [name : Seq(Parts), length : Nat] : id.name # <<>>}
Spelled(word, n, length) == [name |-> <<<<word, n>>>>, length |-> length]
Named(name, length) == Spelled(name, 0, length)
Joined(a, b) == [name |-> a.name \o b.name, length |-> a.length + 1 + b.length]
\* 13 digits of a time, 36 characters of a UUID.
Clock(n) == Spelled("part", n, 13)
Uuid(n) == Spelled("part", n, 36)
CopyOf(id, n) == Joined(Joined(id, Named("copy", 4)), Uuid(n))

NewNode(kind, n) ==
  [id |-> Joined(Named(kind, Lengths[kind]), Clock(n)), kind |-> kind,
   replicas |-> IF kind \in {"database", "cache", "queue", "stream"} THEN 2 ELSE 0]

NodeIds(d) == {node.id : node \in Range(d.nodes)}
EdgeIds(d) == {edge.id : edge \in Range(d.edges)}
Edge(id, source, target) == [id |-> id, source |-> source, target |-> target]
CanvasNodes == [id : Identifiers, kind : DOMAIN Lengths, replicas : Nat]
CanvasEdges == [id : Identifiers, source : Identifiers, target : Identifiers]
Canvases == [nodes : Seq(CanvasNodes), edges : Seq(CanvasEdges)]

\* uniqueId: the base, or the base with the least free suffix from 2 on.
Suffixed(base, k) ==
  Joined(base, Spelled("suffix", k, IF k < 10 THEN 1 ELSE IF k < 100 THEN 2 ELSE 3))
UniqueId(d, base) ==
  IF base \notin NodeIds(d) THEN base
  ELSE Suffixed(base, Min({k \in 2..(Len(d.nodes) + 2) : Suffixed(base, k) \notin NodeIds(d)}))

-----------------------------------------------------------------------------
(* The graph functions.                                                    *)

Connected(d, source, target, n) ==
  [nodes |-> d.nodes,
   edges |-> Append(d.edges, Edge(
     Joined(Joined(Joined(Named("edge", 4), source), target), Uuid(n)), source, target))]

\* Mutant: the links of a removed component stay.
WithoutNodes(d, nodeIds, edgeIds) ==
  [nodes |-> Keep(d.nodes, {k \in DOMAIN d.nodes : d.nodes[k].id \notin nodeIds}),
   edges |-> Keep(d.edges, {k \in DOMAIN d.edges : d.edges[k].id \notin edgeIds})]

Without(d, nodeIds, edgeIds) ==
  [nodes |-> Keep(d.nodes, {k \in DOMAIN d.nodes : d.nodes[k].id \notin nodeIds}),
   edges |-> Keep(d.edges, {k \in DOMAIN d.edges :
               /\ d.edges[k].id \notin edgeIds
               /\ {d.edges[k].source, d.edges[k].target} \cap nodeIds = {}})]

\* Copies of the selected components and of the links between two of them; the
\* parts from n on are theirs.
Picked(d, sources) == Keep(d.nodes, {k \in DOMAIN d.nodes : d.nodes[k].id \in sources})
Inner(d, sources) ==
  Keep(d.edges, {k \in DOMAIN d.edges : {d.edges[k].source, d.edges[k].target} \subseteq sources})
Copied(sourceIds, id, n) == CopyOf(id, n + CHOOSE k \in DOMAIN sourceIds : sourceIds[k] = id)
CopiedNodes(nodes, sourceIds, n) ==
  [k \in DOMAIN nodes |-> [nodes[k] EXCEPT !.id = Copied(sourceIds, @, n)]]
CopiedEdges(edges, sourceIds, n) ==
  [k \in DOMAIN edges |->
     Edge(CopyOf(edges[k].id, n + Len(sourceIds) + k),
          Copied(sourceIds, edges[k].source, n), Copied(sourceIds, edges[k].target, n))]
Duplicated(d, sourceIds, n) ==
  [nodes |-> d.nodes \o CopiedNodes(Picked(d, Range(sourceIds)), sourceIds, n),
   edges |-> d.edges \o CopiedEdges(Inner(d, Range(sourceIds)), sourceIds, n)]

-----------------------------------------------------------------------------
(* autoLayoutArchitecture: a column for every distance from the users.     *)

Starts(d) ==
  LET users == {node.id : node \in {x \in Range(d.nodes) : x.kind = "users"}}
  IN IF users # {} THEN users ELSE {d.nodes[1].id}
\* Component -> links from the nearest start, as far as one leads there.
Reached(d, near) == {e.target : e \in {x \in Range(d.edges) : x.source \in DOMAIN near}}
Further(d, near, k) ==
  [id \in DOMAIN near \cup Reached(d, near) |-> IF id \in DOMAIN near THEN near[id] ELSE k]
Within(d) ==
  LET within[k \in 0..Len(d.nodes)] ==
        IF k = 0 THEN [id \in Starts(d) |-> 0] ELSE Further(d, within[k - 1], k)
  IN within
Distances(d) == Within(d)[Len(d.nodes)]
Column(d) ==
  LET distance == Distances(d)
  IN [k \in DOMAIN d.nodes |->
        IF d.nodes[k].id \in DOMAIN distance THEN distance[d.nodes[k].id]
        ELSE Max(Range(distance)) + 1]

Row(d) ==
  LET column == Column(d)
  IN [k \in DOMAIN d.nodes |-> Cardinality({j \in 1..(k - 1) : column[j] = column[k]})]
Layout(d) ==
  LET column == Column(d)
      row == Row(d)
  IN [k \in DOMAIN d.nodes |-> [x |-> 70 + column[k] * 230, y |-> 72 + row[k] * 152]]

Width(kind) ==
  CASE kind = "users" -> 142 [] kind = "database" -> 220 [] kind = "cache" -> 190
    [] kind = "api" -> 176 [] kind = "queue" -> 180 [] kind = "worker" -> 170 [] OTHER -> 158
Height(kind) == IF kind = "database" THEN 118 ELSE IF kind = "cache" THEN 116 ELSE 112
\* The linter's warning.
Overlap(d, at, j, k) ==
  /\ at[j].x < at[k].x + Width(d.nodes[k].kind) /\ at[k].x < at[j].x + Width(d.nodes[j].kind)
  /\ at[j].y < at[k].y + Height(d.nodes[k].kind) /\ at[k].y < at[j].y + Height(d.nodes[j].kind)

-----------------------------------------------------------------------------
(* The schema: architectureDraftSchema without the settings.               *)

UniqueIds(d) ==
  /\ Cardinality(NodeIds(d)) = Len(d.nodes)
  /\ Cardinality(EdgeIds(d)) = Len(d.edges)
EndsExist(d) == \A edge \in Range(d.edges) : {edge.source, edge.target} \subseteq NodeIds(d)
Parses(d) ==
  /\ Len(d.nodes) <= MaxNodes /\ Len(d.edges) <= MaxEdges
  /\ \A id \in NodeIds(d) \cup EdgeIds(d) : id.length <= MaxIdLength
  /\ UniqueIds(d) /\ EndsExist(d)

\* The fresh part an identifier ends in is among the first n given out.
Given(id, n) == LET end == Last(id.name) IN end[1] = "part" => end[2] <= n

\* The editor opens with a valid design whose identifiers were written by hand.
ASSUME EditingAssumption ==
  /\ DefaultDesign \in Canvases /\ UniqueIds(DefaultDesign) /\ EndsExist(DefaultDesign)
  /\ \A id \in NodeIds(DefaultDesign) \cup EdgeIds(DefaultDesign) : Given(id, 0)
  /\ NoId \notin Identifiers /\ Palette \subseteq DOMAIN Lengths /\ Undone \in Nat

-----------------------------------------------------------------------------
(* Rule-based proposals.                                                   *)

FirstOf(d, kind) ==
  LET found == {k \in DOMAIN d.nodes : d.nodes[k].kind = kind}
  IN IF found = {} THEN NoId ELSE d.nodes[Min(found)].id
Kinds(d) == {node.kind : node \in Range(d.nodes)}
Replicas(d) == LET k == SelectInSeq(d.nodes, LAMBDA node : node.kind = "database")
               IN IF k = 0 THEN 0 ELSE d.nodes[k].replicas

Proposals(d) ==
  {p \in {"add-cache", "add-async-lane", "strengthen-replication"} :
     CASE p = "add-cache" -> ReadHeavy /\ {"api", "database"} \subseteq Kinds(d) /\ "cache" \notin Kinds(d)
       [] p = "add-async-lane" -> /\ WritesMatter /\ {"api", "database"} \subseteq Kinds(d)
                                  /\ Kinds(d) \cap {"queue", "stream"} = {}
       [] p = "strengthen-replication" -> "database" \in Kinds(d) /\ Replicas(d) < 2}

Chain(ids) == [k \in 1..(Len(ids) - 1) |-> Edge(Joined(ids[k], ids[k + 1]), ids[k], ids[k + 1])]
Proposed(d, proposal) ==
  LET api == FirstOf(d, "api")
      database == FirstOf(d, "database")
      added(id, kind, replicas) == [id |-> id, kind |-> kind, replicas |-> replicas]
      inserted(nodes) ==
        [nodes |-> d.nodes \o nodes,
         edges |-> d.edges \o Chain(<<api>> \o [k \in DOMAIN nodes |-> nodes[k].id] \o <<database>>)]
      cache == UniqueId(d, Named("assisted-cache", 14))
      queue == UniqueId(d, Named("assisted-queue", 14))
      worker == UniqueId(d, Named("assisted-worker", 15))
  IN CASE proposal = "add-cache" -> inserted(<<added(cache, "cache", 1)>>)
       [] proposal = "add-async-lane" ->
            inserted(<<added(queue, "queue", 2), added(worker, "worker", 0)>>)
       [] proposal = "strengthen-replication" ->
            [nodes |-> [k \in DOMAIN d.nodes |->
               IF d.nodes[k].id = database THEN [d.nodes[k] EXCEPT !.replicas = 2] ELSE d.nodes[k]],
             edges |-> d.edges]

-----------------------------------------------------------------------------
(* The handlers.                                                           *)

EditInit ==
  /\ canvas = DefaultDesign /\ past = <<>> /\ fresh = 0 /\ edits = 0
  /\ selected = <<>> /\ primary = FirstOf(DefaultDesign, "api")
  /\ links = [primary |-> NoId, ids |-> <<>>]

Committed(d) ==
  /\ edits < MaxCommits /\ edits' = edits + 1
  /\ canvas' = d /\ past' = SubSeq(<<canvas>> \o past, 1, Min({Undone, Len(past) + 1}))

\* The effects on architecture.nodes and architecture.edges drop what is gone.
Kept(ids, known) == Keep(ids, {k \in DOMAIN ids : ids[k] \in known})
KeptLinks(selection, known) ==
  LET ids == Kept(selection.ids, known)
  IN [primary |-> IF selection.primary \in known THEN selection.primary
                  ELSE IF ids = <<>> THEN NoId ELSE Last(ids),
      ids |-> ids]
Select(nodeIds, link) ==
  /\ selected' = Kept(nodeIds, NodeIds(canvas'))
  /\ links' = KeptLinks(link, EdgeIds(canvas'))
NoLink == [primary |-> NoId, ids |-> <<>>]

AddComponent(kind) ==
  LET node == NewNode(kind, fresh + 1) IN
  /\ Len(canvas.nodes) < MaxNodes
  /\ Committed([nodes |-> Append(canvas.nodes, node), edges |-> canvas.edges])
  /\ Select(<<node.id>>, NoLink) /\ primary' = node.id
  /\ fresh' = fresh + 1

OnConnect(source, target) ==
  /\ Len(canvas.edges) < MaxEdges
  /\ Committed(Connected(canvas, source, target, fresh + 1))
  /\ Select(selected, links) /\ UNCHANGED primary
  /\ fresh' = fresh + 1

RemoveElements(nodeIds, edgeIds) ==
  /\ nodeIds # {} \/ edgeIds # {}
  /\ Committed(Without(canvas, nodeIds, edgeIds))
  /\ Select(<<>>, NoLink) /\ primary' = NoId
  /\ UNCHANGED fresh

\* The store's selection may name a component that is gone: then nothing is
\* copied, but the design is committed.
DuplicateSelection ==
  LET sourceIds == IF selected # <<>> THEN selected ELSE IF primary = NoId THEN <<>> ELSE <<primary>>
      copies == Duplicated(canvas, sourceIds, fresh)
      ids == [k \in 1..(Len(copies.nodes) - Len(canvas.nodes)) |-> copies.nodes[Len(canvas.nodes) + k].id]
  IN /\ sourceIds # <<>> /\ Len(canvas.nodes) + Len(sourceIds) <= MaxNodes
     /\ Committed(copies)
     /\ Select(ids, links) /\ primary' = IF ids = <<>> THEN NoId ELSE ids[1]
     /\ fresh' = fresh + Len(sourceIds) + Len(Inner(canvas, Range(sourceIds)))

\* AutoLayout, a rename and changed settings leave identifiers as they are.
EditInPlace == Committed(canvas) /\ Select(selected, links) /\ UNCHANGED <<primary, fresh>>

ClearArchitecture ==
  /\ Committed([nodes |-> <<>>, edges |-> <<>>])
  /\ Select(<<>>, NoLink) /\ primary' = NoId
  /\ UNCHANGED fresh

Unchosen(ids, id) == Keep(ids, {k \in DOMAIN ids : ids[k] # id})
\* onNodesChange: a click adds to the selection or takes from it.
ToggleNode(id) ==
  /\ LET chosen == Contains(selected, id)
         ids == IF chosen THEN Unchosen(selected, id) ELSE Append(selected, id)
     IN /\ selected' = ids
        /\ primary' = IF ~chosen THEN id
                      ELSE IF primary # NoId /\ Contains(ids, primary) THEN primary
                      ELSE IF ids = <<>> THEN NoId ELSE Last(ids)
  /\ UNCHANGED <<canvas, past, links, fresh, edits>>

\* onEdgesChange.
ToggleEdge(id) ==
  /\ LET chosen == Contains(links.ids, id)
         ids == IF chosen THEN Unchosen(links.ids, id) ELSE Append(links.ids, id)
     IN links' = [ids |-> ids,
                  primary |-> IF ~chosen THEN id
                              ELSE IF Contains(ids, links.primary) THEN links.primary
                              ELSE IF ids = <<>> THEN NoId ELSE Last(ids)]
  /\ UNCHANGED <<canvas, past, selected, primary, fresh, edits>>

\* Undo leaves the store's selectedNodeId alone.
UndoEdit ==
  /\ past # <<>>
  /\ canvas' = Head(past) /\ past' = Tail(past)
  /\ Select(selected, links) /\ UNCHANGED <<primary, fresh, edits>>

\* Apply proposal: parse throws when any identifier has grown too long, and the
\* design stays as it was.
ApplyTopologyProposal(proposal) ==
  LET d == Proposed(canvas, proposal) IN
  /\ proposal \in Proposals(canvas)
  /\ "api" \in Kinds(canvas)
  /\ IF Parses(d) THEN Committed(d) /\ Select(selected, links)
                  ELSE UNCHANGED <<canvas, past, selected, links, edits>>
  /\ UNCHANGED <<primary, fresh>>

Chosen == Len(selected) + Len(links.ids) <= MaxChosen

EditNext ==
  \/ \E kind \in Palette : AddComponent(kind)
  \/ \E source, target \in NodeIds(canvas) : OnConnect(source, target)
  \/ DuplicateSelection
  \/ RemoveElements(Range(selected), Range(links.ids))
  \/ RemoveElements({primary} \ {NoId}, {})
  \/ EditInPlace \/ ClearArchitecture \/ UndoEdit
  \/ \E id \in NodeIds(canvas) : ToggleNode(id) /\ Chosen'
  \/ \E id \in EdgeIds(canvas) : ToggleEdge(id) /\ Chosen'
  \/ \E proposal \in Proposals(canvas) : ApplyTopologyProposal(proposal)

EditSpec == EditInit /\ [][EditNext]_editVars

-----------------------------------------------------------------------------
(* Properties.                                                             *)

\* However a design was edited, copied, undone and proposed for, its links join
\* components it has, no two share an identifier, and what the canvas shows as
\* selected exists.
GraphIsSound ==
  /\ UniqueIds(canvas) /\ EndsExist(canvas)
  /\ Range(selected) \subseteq NodeIds(canvas)
  /\ Range(links.ids) \subseteq EdgeIds(canvas)
  /\ links.primary \in Range(links.ids) \cup {NoId}
  /\ (links.primary = NoId) <=> (links.ids = <<>>)

\* Layout leaves no two components on top of each other, by the linter's own
\* measure, and a link never skips a column to the right.
LaysOut(d) ==
  LET at == Layout(d)
      column == Column(d)
      distance == Distances(d)
      place(id) == CHOOSE k \in DOMAIN d.nodes : d.nodes[k].id = id
  IN /\ \A j, k \in DOMAIN d.nodes : j # k => ~Overlap(d, at, j, k)
     /\ \A e \in Range(d.edges) :
          e.source \in DOMAIN distance => column[place(e.target)] <= column[place(e.source)] + 1
LayoutIsClear == canvas.nodes # <<>> => LaysOut(canvas)

\* What the canvas shows after any of this can be drawn, linted and run.
CanvasIsSound == GraphIsSound /\ LayoutIsClear

\* parseStoredDraft and parseArchitectureSnapshots read back what the editor
\* wrote: the design is one the schema accepts.
DraftIsReadable == Parses(canvas)
=============================================================================

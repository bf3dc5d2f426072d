------------------------------ MODULE DomProofs ------------------------------
(***************************************************************************)
(* What the builder makes is counted and freed exactly, for every order of *)
(* calls, every allocation that fails on the way, and every limit.         *)
(***************************************************************************)
EXTENDS DomBuilder, FiniteSetTheorems, WellFoundedInduction, TLAPS

-----------------------------------------------------------------------------
(* The inductive invariant, of a heap with the builder's own state.        *)
EntrySet == [key : Keys \cup {NoKey}, node : Nat]
Node  == [kind : Kinds \cup {"document", "struct", "array", "octets"}, kids : Seq(EntrySet),
          dims : Seq(Int), rows : Nat, unit : Int, value : Seq(Chunks), live : BOOLEAN]
Block == [refs : Int, unit : Units, src : Spellings \cup {NoSpelling}]
Builder == [scopes : Seq([kind : {"document", "struct", "array"}, node : Nat, start : Nat]),
            key : Keys \cup {NoKey}, pop : BOOLEAN, continue : BOOLEAN, octets : BOOLEAN,
            chunks : Seq(Chunks), last : Nat, error : Errors]
HeapSet == [nodes : Seq(Node), blocks : Seq(Block), b : Builder]

\* Units held are units made, and the counts are those of their holders.
Held(h) ==
    /\ \A id \in DOMAIN h.nodes : h.nodes[id].unit \in -1..Len(h.blocks)
    /\ h.b.last \in 0..Len(h.blocks)
    /\ Counted(h)

\* The live nodes are trees below `roots`: every other has one place in one
\* node that was made before it, and nothing dead is in any.
KidsOf(n) == {n.kids[i].node : i \in DOMAIN n.kids}
Rooted(h, roots) ==
    /\ roots \subseteq AliveIn(h)
    /\ \A p \in AliveIn(h) : \A i \in DOMAIN h.nodes[p].kids :
          LET kid == h.nodes[p].kids[i].node
          IN /\ kid \in AliveIn(h) \ roots /\ p < kid
             /\ \A q \in AliveIn(h) : \A j \in DOMAIN h.nodes[q].kids :
                   h.nodes[q].kids[j].node = kid => q = p /\ j = i
    /\ \A id \in AliveIn(h) \ roots : \E p \in AliveIn(h) : id \in KidsOf(h.nodes[p])

\* The scopes are live nodes, the document the lowest of them.
Scoped(h) ==
    /\ h.b.scopes # <<>> /\ h.b.scopes[1].kind = "document"
    /\ \A s \in DOMAIN h.b.scopes : h.b.scopes[s].node \in AliveIn(h)

Sound(h) == h \in HeapSet /\ Held(h) /\ Rooted(h, {Document}) /\ Scoped(h)

IInv ==
    /\ outcome \in {"reading", "refused", "read", "destroyed"}
    /\ outcome # "destroyed" => Sound(Heap)
    /\ outcome = "read" => builder.last = Default
    /\ outcome = "destroyed" => BlocksCounted /\ EverythingFreed

-----------------------------------------------------------------------------
(* Heaps, part by part.                                                    *)

\* The fields of a heap.
LEMMA HeapParts ==
    ASSUME NEW h \in HeapSet
    PROVE  /\ h.nodes \in Seq(Node) /\ h.blocks \in Seq(Block) /\ h.b \in Builder
           /\ h = [nodes |-> h.nodes, blocks |-> h.blocks, b |-> h.b]
           /\ Len(h.nodes) \in Nat /\ DOMAIN h.nodes = 1..Len(h.nodes)
           /\ Len(h.blocks) \in Nat /\ DOMAIN h.blocks = 1..Len(h.blocks)
           /\ \A id \in DOMAIN h.nodes : h.nodes[id] \in Node
           /\ \A u \in DOMAIN h.blocks : h.blocks[u] \in Block
BY DEF HeapSet

\* One reference more or less.
LEMMA RefsChanged ==
    ASSUME NEW bs \in Seq(Block), NEW u \in DOMAIN bs, NEW n \in Int
    PROVE  /\ [bs EXCEPT ![u].refs = n] \in Seq(Block)
           /\ Len([bs EXCEPT ![u].refs = n]) = Len(bs)
           /\ \A v \in DOMAIN bs : [bs EXCEPT ![u].refs = n][v].refs = IF v = u THEN n ELSE bs[v].refs
<1>1. bs[u] \in Block
  OBVIOUS
<1>2. [bs[u] EXCEPT !.refs = n] \in Block /\ [bs[u] EXCEPT !.refs = n].refs = n
  BY <1>1 DEF Block
<1>3. [bs EXCEPT ![u].refs = n] = [bs EXCEPT ![u] = [bs[u] EXCEPT !.refs = n]]
  OBVIOUS
<1>4. /\ [bs EXCEPT ![u] = [bs[u] EXCEPT !.refs = n]] \in Seq(Block)
      /\ Len([bs EXCEPT ![u] = [bs[u] EXCEPT !.refs = n]]) = Len(bs)
      /\ [bs EXCEPT ![u] = [bs[u] EXCEPT !.refs = n]][u] = [bs[u] EXCEPT !.refs = n]
      /\ \A v \in DOMAIN bs \ {u} : [bs EXCEPT ![u] = [bs[u] EXCEPT !.refs = n]][v] = bs[v]
  <2> DEFINE r == [bs[u] EXCEPT !.refs = n]
  <2>1. r \in Block
    BY <1>2
  <2> HIDE DEF r
  <2>2. /\ [bs EXCEPT ![u] = r] \in Seq(Block) /\ Len([bs EXCEPT ![u] = r]) = Len(bs)
        /\ [bs EXCEPT ![u] = r][u] = r /\ \A v \in DOMAIN bs \ {u} : [bs EXCEPT ![u] = r][v] = bs[v]
    BY <2>1
  <2> QED BY <2>2 DEF r
<1> QED BY <1>2, <1>3, <1>4

\* bvn_dom_unit_release takes one reference, of the block alone.
LEMMA ReleasedParts ==
    ASSUME NEW h \in HeapSet, NEW u \in -1..Len(h.blocks)
    PROVE  /\ Released(h, u) \in HeapSet /\ Released(h, u).nodes = h.nodes /\ Released(h, u).b = h.b
           /\ Len(Released(h, u).blocks) = Len(h.blocks)
           /\ \A v \in DOMAIN h.blocks :
                Released(h, u).blocks[v].refs = IF v = u THEN h.blocks[v].refs - 1 ELSE h.blocks[v].refs
<1>1. CASE u <= 0
  BY <1>1, HeapParts DEF Released, IsStatic
<1>2. CASE ~(u <= 0)
  <2> DEFINE bs == h.blocks
             n == bs[u].refs - 1
  <2>1. bs \in Seq(Block) /\ u \in DOMAIN bs /\ n \in Int
    <3>1. bs \in Seq(Block) /\ u \in DOMAIN bs
      BY <1>2, HeapParts
    <3>2. bs[u] \in Block
      BY <3>1, HeapParts
    <3> QED BY <3>1, <3>2 DEF Block
  <2>2. Released(h, u) = [h EXCEPT !.blocks = [bs EXCEPT ![u].refs = n]]
    BY <1>2 DEF Released, IsStatic
  <2>3. /\ [bs EXCEPT ![u].refs = n] \in Seq(Block) /\ Len([bs EXCEPT ![u].refs = n]) = Len(bs)
        /\ \A v \in DOMAIN bs : [bs EXCEPT ![u].refs = n][v].refs = IF v = u THEN n ELSE bs[v].refs
    BY <2>1, RefsChanged
  <2>4. /\ Released(h, u) \in HeapSet /\ Released(h, u).nodes = h.nodes /\ Released(h, u).b = h.b
        /\ Released(h, u).blocks = [bs EXCEPT ![u].refs = n]
    <3> DEFINE new == [bs EXCEPT ![u].refs = n]
    <3>1. new \in Seq(Block) /\ Released(h, u) = [h EXCEPT !.blocks = new]
      BY <2>2, <2>3
    <3> HIDE DEF new
    <3>2. /\ Released(h, u) \in HeapSet /\ Released(h, u).nodes = h.nodes /\ Released(h, u).b = h.b
          /\ Released(h, u).blocks = new
      BY <3>1 DEF HeapSet
    <3> QED BY <3>2 DEF new
  <2> QED BY <2>3, <2>4
<1> QED BY <1>1, <1>2

\* The nodes of a heap, one of them replaced.
LEMMA NodeReplaced ==
    ASSUME NEW h \in HeapSet, NEW id \in DOMAIN h.nodes, NEW n \in Node
    PROVE  /\ [h EXCEPT !.nodes[id] = n] \in HeapSet
           /\ [h EXCEPT !.nodes[id] = n].blocks = h.blocks /\ [h EXCEPT !.nodes[id] = n].b = h.b
           /\ Len([h EXCEPT !.nodes[id] = n].nodes) = Len(h.nodes)
           /\ DOMAIN [h EXCEPT !.nodes[id] = n].nodes = DOMAIN h.nodes
           /\ \A m \in DOMAIN h.nodes : [h EXCEPT !.nodes[id] = n].nodes[m] = IF m = id THEN n ELSE h.nodes[m]
<1> DEFINE ns == [h.nodes EXCEPT ![id] = n]
<1>1. /\ ns \in Seq(Node) /\ Len(ns) = Len(h.nodes) /\ DOMAIN ns = DOMAIN h.nodes
      /\ \A m \in DOMAIN h.nodes : ns[m] = IF m = id THEN n ELSE h.nodes[m]
  BY HeapParts
<1>2. [h EXCEPT !.nodes[id] = n] = [h EXCEPT !.nodes = ns]
  OBVIOUS
<1> HIDE DEF ns
<1>3. /\ [h EXCEPT !.nodes = ns] \in HeapSet /\ [h EXCEPT !.nodes = ns].nodes = ns
      /\ [h EXCEPT !.nodes = ns].blocks = h.blocks /\ [h EXCEPT !.nodes = ns].b = h.b
  BY <1>1 DEF HeapSet
<1> QED BY <1>1, <1>2, <1>3

\* bvn_dom_node_take_unit
LEMMA TakeUnitParts ==
    ASSUME NEW h \in HeapSet, NEW id \in DOMAIN h.nodes, NEW u \in Int, IsStatic(h.nodes[id].unit)
    PROVE  LET g == TakeUnit(h, id, u) IN
           /\ g \in HeapSet /\ g.blocks = h.blocks /\ g.b = h.b
           /\ DOMAIN g.nodes = DOMAIN h.nodes /\ Len(g.nodes) = Len(h.nodes)
           /\ \A m \in DOMAIN h.nodes : /\ m # id => g.nodes[m] = h.nodes[m]
                                        /\ g.nodes[m].live = h.nodes[m].live /\ g.nodes[m].kids = h.nodes[m].kids
           /\ g.nodes[id].unit = u
<1> DEFINE n == [h.nodes[id] EXCEPT !.unit = u]
<1>1. h.nodes[id] \in Node
  BY HeapParts
<1>2. n \in Node /\ n.unit = u /\ n.live = h.nodes[id].live /\ n.kids = h.nodes[id].kids
  BY <1>1 DEF Node
<1>3. TakeUnit(h, id, u) = [h EXCEPT !.nodes[id] = n]
  BY DEF TakeUnit, Released
<1> HIDE DEF n
<1> QED BY <1>2, <1>3, NodeReplaced

\* bvn_dom_node_destroy of one node.
LEMMA DiscardedParts ==
    ASSUME NEW h \in HeapSet, NEW id \in DOMAIN h.nodes, h.nodes[id].unit \in -1..Len(h.blocks)
    PROVE  LET g == Discarded(h, id)
               u == h.nodes[id].unit
           IN /\ g \in HeapSet /\ g.b = h.b /\ Len(g.blocks) = Len(h.blocks)
              /\ \A v \in DOMAIN h.blocks : g.blocks[v].refs = IF v = u THEN h.blocks[v].refs - 1 ELSE h.blocks[v].refs
              /\ DOMAIN g.nodes = DOMAIN h.nodes /\ Len(g.nodes) = Len(h.nodes)
              /\ \A m \in DOMAIN h.nodes : /\ g.nodes[m].unit = h.nodes[m].unit /\ g.nodes[m].kids = h.nodes[m].kids
                                           /\ g.nodes[m].live <=> m # id /\ h.nodes[m].live
<1> DEFINE n == [h.nodes[id] EXCEPT !.live = FALSE]
           r == Released(h, h.nodes[id].unit)
<1>1. h.nodes[id] \in Node
  BY HeapParts
<1>2. n \in Node /\ ~n.live /\ n.unit = h.nodes[id].unit /\ n.kids = h.nodes[id].kids
  BY <1>1 DEF Node
<1>3. /\ r \in HeapSet /\ r.nodes = h.nodes /\ r.b = h.b /\ Len(r.blocks) = Len(h.blocks)
      /\ \A v \in DOMAIN h.blocks :
            r.blocks[v].refs = IF v = h.nodes[id].unit THEN h.blocks[v].refs - 1 ELSE h.blocks[v].refs
  BY ReleasedParts
<1> HIDE DEF r
<1>4. Discarded(h, id) = [r EXCEPT !.nodes[id] = n]
  BY <1>3 DEF Discarded, r
<1> HIDE DEF n
<1>5. /\ [r EXCEPT !.nodes[id] = n] \in HeapSet
      /\ [r EXCEPT !.nodes[id] = n].blocks = r.blocks /\ [r EXCEPT !.nodes[id] = n].b = r.b
      /\ Len([r EXCEPT !.nodes[id] = n].nodes) = Len(r.nodes)
      /\ DOMAIN [r EXCEPT !.nodes[id] = n].nodes = DOMAIN r.nodes
      /\ \A m \in DOMAIN r.nodes : [r EXCEPT !.nodes[id] = n].nodes[m] = IF m = id THEN n ELSE r.nodes[m]
  BY <1>2, <1>3, NodeReplaced
<1> HIDE DEF r
<1> QED BY <1>2, <1>3, <1>4, <1>5

-----------------------------------------------------------------------------
(* References are counted.                                                 *)

\* The holders of a block are finitely many.
LEMMA HoldersFinite ==
    ASSUME NEW h \in HeapSet, NEW u
    PROVE  IsFiniteSet(HoldersIn(h, u)) /\ Cardinality(HoldersIn(h, u)) \in Nat
<1>1. HoldersIn(h, u) \subseteq 0..Len(h.nodes)
  BY HeapParts DEF HoldersIn, AliveIn
<1>2. IsFiniteSet(0..Len(h.nodes))
  <2>1. 0 \in Int /\ Len(h.nodes) \in Int
    BY HeapParts
  <2> QED BY <2>1, FS_Interval
<1>3. IsFiniteSet(HoldersIn(h, u))
  BY <1>1, <1>2, FS_Subset
<1> QED BY <1>3, FS_CardinalityType

\* A heap with the same holders and counts.
LEMMA SameHeld ==
    ASSUME NEW h \in HeapSet, NEW g \in HeapSet, Held(h), g.blocks = h.blocks, g.b.last = h.b.last,
           DOMAIN g.nodes = DOMAIN h.nodes,
           \A m \in DOMAIN h.nodes : g.nodes[m].live = h.nodes[m].live /\ g.nodes[m].unit = h.nodes[m].unit
    PROVE  Held(g)
<1>1. \A u : HoldersIn(g, u) = HoldersIn(h, u)
  BY DEF HoldersIn, AliveIn
<1> QED BY <1>1 DEF Held, Counted

\* A node that is destroyed holds nothing any more.
LEMMA DiscardedHeld ==
    ASSUME NEW h \in HeapSet, Held(h), NEW id \in AliveIn(h)
    PROVE  Held(Discarded(h, id))
<1> DEFINE g == Discarded(h, id)
           w == h.nodes[id].unit
<1>1. id \in DOMAIN h.nodes /\ w \in -1..Len(h.blocks)
  BY DEF AliveIn, Held
<1>2. /\ g \in HeapSet /\ g.b = h.b /\ Len(g.blocks) = Len(h.blocks)
      /\ \A v \in DOMAIN h.blocks : g.blocks[v].refs = IF v = w THEN h.blocks[v].refs - 1 ELSE h.blocks[v].refs
      /\ DOMAIN g.nodes = DOMAIN h.nodes /\ Len(g.nodes) = Len(h.nodes)
      /\ \A m \in DOMAIN h.nodes : /\ g.nodes[m].unit = h.nodes[m].unit /\ g.nodes[m].kids = h.nodes[m].kids
                                   /\ g.nodes[m].live <=> m # id /\ h.nodes[m].live
  BY <1>1, DiscardedParts
<1>3. DOMAIN g.blocks = DOMAIN h.blocks /\ id # 0
  BY <1>1, <1>2, HeapParts
<1> HIDE DEF g
<1>4. AliveIn(g) = AliveIn(h) \ {id}
  BY <1>2 DEF AliveIn
<1>5. \A u : HoldersIn(g, u) = IF u = w THEN HoldersIn(h, u) \ {id} ELSE HoldersIn(h, u)
  BY <1>2, <1>3, <1>4 DEF HoldersIn, AliveIn
<1>6. ASSUME NEW u \in DOMAIN g.blocks
      PROVE  g.blocks[u].refs = Cardinality(HoldersIn(g, u)) /\ g.blocks[u].refs <= RefsMax
  <2>1. u \in DOMAIN h.blocks /\ h.blocks[u].refs = Cardinality(HoldersIn(h, u)) /\ h.blocks[u].refs <= RefsMax
    BY <1>3, <1>6 DEF Held, Counted
  <2>2. IsFiniteSet(HoldersIn(h, u)) /\ Cardinality(HoldersIn(h, u)) \in Nat
    BY HoldersFinite
  <2>3. CASE u = w
    <3>a. id \in HoldersIn(h, u)
      BY <2>3 DEF HoldersIn
    <3>b. HoldersIn(g, u) = HoldersIn(h, u) \ {id}
      <4> HIDE DEF w
      <4> QED BY <1>5, <2>3
    <3>1. id \in HoldersIn(h, u) /\ HoldersIn(g, u) = HoldersIn(h, u) \ {id}
      BY <3>a, <3>b
    <3>2. Cardinality(HoldersIn(g, u)) = Cardinality(HoldersIn(h, u)) - 1
      BY <2>2, <3>1, FS_RemoveElement
    <3>3. g.blocks[u].refs = h.blocks[u].refs - 1
      BY <1>2, <2>1, <2>3
    <3> HIDE DEF w
    <3> QED BY <2>1, <2>2, <3>2, <3>3, BuilderAssumption
  <2>4. CASE u # w
    BY <1>2, <1>5, <2>1, <2>4
  <2> QED BY <2>3, <2>4
<1>7. (\A m \in DOMAIN g.nodes : g.nodes[m].unit \in -1..Len(g.blocks)) /\ g.b.last \in 0..Len(g.blocks)
  BY <1>2 DEF Held
<1> QED BY <1>6, <1>7 DEF Held, Counted, g

-----------------------------------------------------------------------------
(* The live nodes are trees.                                               *)

\* A heap with the same tree.
LEMMA SameRooted ==
    ASSUME NEW h, NEW g, NEW R, Rooted(h, R), DOMAIN g.nodes = DOMAIN h.nodes,
           \A m \in DOMAIN h.nodes : g.nodes[m].live = h.nodes[m].live /\ g.nodes[m].kids = h.nodes[m].kids
    PROVE  Rooted(g, R)
<1>1. AliveIn(g) = AliveIn(h) /\ AliveIn(h) \subseteq DOMAIN h.nodes
  BY DEF AliveIn
<1>2. \A m \in AliveIn(h) : g.nodes[m].kids = h.nodes[m].kids
  BY <1>1
<1>3. \A m \in AliveIn(h) : KidsOf(g.nodes[m]) = KidsOf(h.nodes[m])
  BY <1>2 DEF KidsOf
<1> QED BY <1>1, <1>2, <1>3 DEF Rooted

\* Destroying a root makes roots of what is below it.
LEMMA DiscardedRooted ==
    ASSUME NEW h \in HeapSet, NEW R, Rooted(h, R), Held(h), NEW id \in R
    PROVE  /\ id \in AliveIn(h) /\ AliveIn(Discarded(h, id)) = AliveIn(h) \ {id}
           /\ Rooted(Discarded(h, id), (R \ {id}) \cup KidsOf(h.nodes[id]))
<1> DEFINE g == Discarded(h, id)
           below == KidsOf(h.nodes[id])
<1>1. id \in AliveIn(h) /\ R \subseteq AliveIn(h) /\ id \in DOMAIN h.nodes /\ h.nodes[id].unit \in -1..Len(h.blocks)
  BY DEF Rooted, AliveIn, Held
<1>2. /\ DOMAIN g.nodes = DOMAIN h.nodes
      /\ \A m \in DOMAIN h.nodes : g.nodes[m].kids = h.nodes[m].kids /\ (g.nodes[m].live <=> m # id /\ h.nodes[m].live)
  BY <1>1, DiscardedParts
<1> HIDE DEF g
<1>3. AliveIn(g) = AliveIn(h) \ {id} /\ AliveIn(h) \subseteq DOMAIN h.nodes
  BY <1>2 DEF AliveIn
<1>4. \A m \in AliveIn(g) : g.nodes[m].kids = h.nodes[m].kids /\ KidsOf(g.nodes[m]) = KidsOf(h.nodes[m])
  BY <1>2, <1>3 DEF KidsOf
<1>5. \A p \in AliveIn(h) : \A i \in DOMAIN h.nodes[p].kids :
          /\ h.nodes[p].kids[i].node \in AliveIn(h) \ R /\ p < h.nodes[p].kids[i].node
          /\ \A q \in AliveIn(h) : \A j \in DOMAIN h.nodes[q].kids :
                h.nodes[q].kids[j].node = h.nodes[p].kids[i].node => q = p /\ j = i
  BY DEF Rooted
<1>6. below \subseteq AliveIn(g)
  <2> SUFFICES ASSUME NEW i \in DOMAIN h.nodes[id].kids PROVE h.nodes[id].kids[i].node \in AliveIn(g)
    BY DEF KidsOf
  <2> QED BY <1>1, <1>3, <1>5
<1>7. ASSUME NEW p \in AliveIn(g), NEW i \in DOMAIN g.nodes[p].kids
      PROVE  /\ g.nodes[p].kids[i].node \in AliveIn(g) \ ((R \ {id}) \cup below) /\ p < g.nodes[p].kids[i].node
             /\ \A q \in AliveIn(g) : \A j \in DOMAIN g.nodes[q].kids :
                   g.nodes[q].kids[j].node = g.nodes[p].kids[i].node => q = p /\ j = i
  <2> DEFINE kid == h.nodes[p].kids[i].node
  <2>1. p \in AliveIn(h) /\ p # id /\ g.nodes[p].kids = h.nodes[p].kids /\ i \in DOMAIN h.nodes[p].kids
    BY <1>3, <1>4, <1>7
  <2>2. kid \in AliveIn(h) /\ kid \notin R /\ p < kid
    BY <1>5, <2>1
  <2>3. \A q \in AliveIn(h) : \A j \in DOMAIN h.nodes[q].kids : h.nodes[q].kids[j].node = kid => q = p /\ j = i
    BY <1>5, <2>1
  <2>4. kid \notin below
    BY <1>1, <2>1, <2>3 DEF KidsOf
  <2>5. kid \in AliveIn(g) \ ((R \ {id}) \cup below)
    BY <1>3, <2>2, <2>4
  <2>6. \A q \in AliveIn(g) : \A j \in DOMAIN g.nodes[q].kids : g.nodes[q].kids[j].node = kid => q = p /\ j = i
    BY <1>3, <1>4, <2>3
  <2> QED BY <2>1, <2>2, <2>5, <2>6
<1>8. ASSUME NEW m \in AliveIn(g) \ ((R \ {id}) \cup below) PROVE \E p \in AliveIn(g) : m \in KidsOf(g.nodes[p])
  <2>1. m \in AliveIn(h) \ R
    BY <1>3, <1>8
  <2>2. PICK p \in AliveIn(h) : m \in KidsOf(h.nodes[p])
    BY <2>1 DEF Rooted
  <2>3. p # id
    BY <1>8, <2>2
  <2> QED BY <1>3, <1>4, <2>2, <2>3
<1>9. (R \ {id}) \cup below \subseteq AliveIn(g)
  BY <1>1, <1>3, <1>6
<1> QED BY <1>1, <1>3, <1>7, <1>8, <1>9 DEF Rooted, g

-----------------------------------------------------------------------------
(* A node's unit.                                                          *)

\* The heap with one reference changed.
LEMMA RefsSet ==
    ASSUME NEW h \in HeapSet, NEW u \in DOMAIN h.blocks, NEW n \in Int
    PROVE  LET g == [h EXCEPT !.blocks[u].refs = n] IN
           /\ g \in HeapSet /\ g.nodes = h.nodes /\ g.b = h.b /\ Len(g.blocks) = Len(h.blocks)
           /\ \A v \in DOMAIN h.blocks : g.blocks[v].refs = IF v = u THEN n ELSE h.blocks[v].refs
<1> DEFINE bs == [h.blocks EXCEPT ![u].refs = n]
<1>1. /\ bs \in Seq(Block) /\ Len(bs) = Len(h.blocks)
      /\ \A v \in DOMAIN h.blocks : bs[v].refs = IF v = u THEN n ELSE h.blocks[v].refs
  BY HeapParts, RefsChanged
<1>2. [h EXCEPT !.blocks[u].refs = n] = [h EXCEPT !.blocks = bs]
  OBVIOUS
<1> HIDE DEF bs
<1>3. /\ [h EXCEPT !.blocks = bs] \in HeapSet /\ [h EXCEPT !.blocks = bs].nodes = h.nodes
      /\ [h EXCEPT !.blocks = bs].b = h.b /\ [h EXCEPT !.blocks = bs].blocks = bs
  BY <1>1 DEF HeapSet
<1> QED BY <1>1, <1>2, <1>3

\* bvn_dom_unit_get: a static block, or a new one with the caller's reference.
LEMMA UnitGetParts ==
    ASSUME NEW h \in HeapSet, NEW unit \in Units, NEW src \in Spellings \cup {NoSpelling}, NEW fault,
           UnitGet(h, unit, src, fault).ok
    PROVE  LET got == UnitGet(h, unit, src, fault) IN
           \/ got.h = h /\ got.unit \in {Default, Unitless}
           \/ /\ got.h \in HeapSet /\ got.h.nodes = h.nodes /\ got.h.b = h.b
              /\ got.unit = Len(h.blocks) + 1 /\ Len(got.h.blocks) = Len(h.blocks) + 1
              /\ got.h.blocks[Len(h.blocks) + 1].refs = 1
              /\ \A v \in DOMAIN h.blocks : got.h.blocks[v] = h.blocks[v]
<1> DEFINE new == [refs |-> 1, unit |-> unit, src |-> src]
           bs == Append(h.blocks, new)
           got == UnitGet(h, unit, src, fault)
<1>1. \/ got = [h |-> [h EXCEPT !.blocks = bs], unit |-> Len(h.blocks) + 1, ok |-> TRUE]
      \/ got.h = h /\ got.unit \in {Default, Unitless}
  BY DEF UnitGet
<1>2. new \in Block /\ new.refs = 1
  BY DEF Block
<1> HIDE DEF new
<1>3. /\ bs \in Seq(Block) /\ Len(bs) = Len(h.blocks) + 1 /\ bs[Len(h.blocks) + 1] = new
      /\ \A v \in DOMAIN h.blocks : bs[v] = h.blocks[v]
  BY <1>2, HeapParts
<1> HIDE DEF bs
<1>4. /\ [h EXCEPT !.blocks = bs] \in HeapSet /\ [h EXCEPT !.blocks = bs].nodes = h.nodes
      /\ [h EXCEPT !.blocks = bs].b = h.b /\ [h EXCEPT !.blocks = bs].blocks = bs
  BY <1>3 DEF HeapSet
<1> HIDE DEF got
<1>5. CASE got = [h |-> [h EXCEPT !.blocks = bs], unit |-> Len(h.blocks) + 1, ok |-> TRUE]
  <2>1. got.h = [h EXCEPT !.blocks = bs] /\ got.unit = Len(h.blocks) + 1
    BY <1>5
  <2> QED BY <1>2, <1>3, <1>4, <2>1 DEF got
<1> QED BY <1>1, <1>5 DEF got

\* The builder's reference moves to block u.
LEMMA RememberedParts ==
    ASSUME NEW h \in HeapSet, h.b.last \in 0..Len(h.blocks), NEW u \in DOMAIN h.blocks, h.b.last # u
    PROVE  LET g == Remembered(h, u) IN
           /\ g \in HeapSet /\ g.nodes = h.nodes /\ g.b.last = u /\ g.b.scopes = h.b.scopes
           /\ Len(g.blocks) = Len(h.blocks)
           /\ \A v \in DOMAIN h.blocks :
                g.blocks[v].refs = IF v = u THEN h.blocks[v].refs + 1
                                   ELSE IF v = h.b.last THEN h.blocks[v].refs - 1 ELSE h.blocks[v].refs
<1> DEFINE r == Released(h, h.b.last)
           n == r.blocks[u].refs + 1
           s == [r EXCEPT !.blocks[u].refs = n]
<1>1. /\ r \in HeapSet /\ r.nodes = h.nodes /\ r.b = h.b /\ Len(r.blocks) = Len(h.blocks)
      /\ \A v \in DOMAIN h.blocks : r.blocks[v].refs = IF v = h.b.last THEN h.blocks[v].refs - 1 ELSE h.blocks[v].refs
  BY ReleasedParts
<1>2. u \in DOMAIN r.blocks /\ u \in Nat /\ ~IsStatic(u)
  BY <1>1, HeapParts DEF IsStatic
<1> HIDE DEF r
<1>3. n \in Int /\ n = h.blocks[u].refs + 1
  <2>1. r.blocks[u] \in Block
    BY <1>1, <1>2, HeapParts
  <2> QED BY <1>1, <2>1 DEF Block
<1>4. /\ s \in HeapSet /\ s.nodes = r.nodes /\ s.b = r.b /\ Len(s.blocks) = Len(r.blocks)
      /\ \A v \in DOMAIN r.blocks : s.blocks[v].refs = IF v = u THEN n ELSE r.blocks[v].refs
  <2> HIDE DEF n
  <2> QED BY <1>1, <1>2, <1>3, RefsSet
<1>5. Remembered(h, u) = [s EXCEPT !.b.last = u]
  <2>1. Remembered(h, u) = [r EXCEPT !.b.last = u, !.blocks[u].refs = @ + 1]
    BY <1>2 DEF Remembered, r
  <2> QED BY <1>1, <2>1 DEF HeapSet
<1> HIDE DEF s
<1>6. /\ [s EXCEPT !.b.last = u] \in HeapSet /\ [s EXCEPT !.b.last = u].nodes = s.nodes
      /\ [s EXCEPT !.b.last = u].blocks = s.blocks
      /\ [s EXCEPT !.b.last = u].b.last = u /\ [s EXCEPT !.b.last = u].b.scopes = s.b.scopes
  BY <1>2, <1>4 DEF HeapSet, Builder
<1>7. DOMAIN r.blocks = DOMAIN h.blocks
  BY <1>1, HeapParts
<1> HIDE DEF n
<1> QED BY <1>1, <1>3, <1>4, <1>5, <1>6, <1>7

\* Whoever is live, holds and is held changes only for node id and the builder.
Dressed(h, g, id) ==
    /\ g \in HeapSet /\ g.b.scopes = h.b.scopes
    /\ DOMAIN g.nodes = DOMAIN h.nodes /\ Len(g.nodes) = Len(h.nodes)
    /\ \A m \in DOMAIN h.nodes : g.nodes[m].live = h.nodes[m].live /\ g.nodes[m].kids = h.nodes[m].kids

\* bvn_dom_unit_ref: node id takes the builder's block as well.
LEMMA SharedHeld ==
    ASSUME NEW h \in HeapSet, Held(h), NEW id \in AliveIn(h), h.nodes[id].unit = Default,
           NEW unit, NEW src, MayShare(h, unit, src)
    PROVE  LET g == TakeUnit([h EXCEPT !.blocks[h.b.last].refs = @ + 1], id, h.b.last)
           IN Dressed(h, g, id) /\ Held(g)
<1> DEFINE last == h.b.last
           n == h.blocks[last].refs + 1
           r == [h EXCEPT !.blocks[last].refs = n]
           g == TakeUnit(r, id, last)
<1>1. /\ last \in DOMAIN h.blocks /\ last \in Nat /\ last # 0 /\ h.blocks[last].refs < RefsMax
      /\ id \in DOMAIN h.nodes /\ id # 0
  BY HeapParts DEF MayShare, Held, Default, AliveIn
<1>2. h.blocks[last].refs \in Int /\ n \in Int
  <2>1. h.blocks[last] \in Block
    BY <1>1, HeapParts
  <2> QED BY <2>1 DEF Block
<1>3. /\ r \in HeapSet /\ r.nodes = h.nodes /\ r.b = h.b /\ Len(r.blocks) = Len(h.blocks)
      /\ \A v \in DOMAIN h.blocks : r.blocks[v].refs = IF v = last THEN n ELSE h.blocks[v].refs
  <2> HIDE DEF n
  <2> QED BY <1>1, <1>2, RefsSet
<1> HIDE DEF r
<1>4. /\ g \in HeapSet /\ g.blocks = r.blocks /\ g.b = r.b
      /\ DOMAIN g.nodes = DOMAIN r.nodes /\ Len(g.nodes) = Len(r.nodes)
      /\ \A m \in DOMAIN r.nodes : /\ m # id => g.nodes[m] = r.nodes[m]
                                   /\ g.nodes[m].live = r.nodes[m].live /\ g.nodes[m].kids = r.nodes[m].kids
      /\ g.nodes[id].unit = last
  <2>1. id \in DOMAIN r.nodes /\ last \in Int /\ IsStatic(r.nodes[id].unit)
    BY <1>1, <1>3 DEF IsStatic, Default
  <2> HIDE DEF last
  <2> QED BY <1>3, <2>1, TakeUnitParts
<1> HIDE DEF g
<1>5. DOMAIN g.blocks = DOMAIN h.blocks /\ Len(g.blocks) = Len(h.blocks)
  BY <1>3, <1>4, HeapParts
<1>6. Dressed(h, g, id)
  BY <1>3, <1>4 DEF Dressed
<1>7. AliveIn(g) = AliveIn(h)
  BY <1>3, <1>4 DEF AliveIn
<1>8. \A u \in DOMAIN h.blocks : HoldersIn(g, u) = IF u = last THEN HoldersIn(h, u) \cup {id} ELSE HoldersIn(h, u)
  <2> SUFFICES ASSUME NEW u \in DOMAIN h.blocks
               PROVE  HoldersIn(g, u) = IF u = last THEN HoldersIn(h, u) \cup {id} ELSE HoldersIn(h, u)
    OBVIOUS
  <2>1. u # 0
    BY HeapParts
  <2>2. \A m \in AliveIn(h) : g.nodes[m].unit = IF m = id THEN last ELSE h.nodes[m].unit
    BY <1>3, <1>4 DEF AliveIn
  <2>3. {m \in AliveIn(g) : g.nodes[m].unit = u} =
          IF u = last THEN {m \in AliveIn(h) : h.nodes[m].unit = u} \cup {id} ELSE {m \in AliveIn(h) : h.nodes[m].unit = u}
    BY <1>7, <2>1, <2>2 DEF Default
  <2>4. g.b.last = h.b.last
    BY <1>3, <1>4
  <2> QED BY <2>3, <2>4 DEF HoldersIn
<1>9. ASSUME NEW u \in DOMAIN g.blocks
      PROVE  g.blocks[u].refs = Cardinality(HoldersIn(g, u)) /\ g.blocks[u].refs <= RefsMax
  <2>1. u \in DOMAIN h.blocks /\ h.blocks[u].refs = Cardinality(HoldersIn(h, u)) /\ h.blocks[u].refs <= RefsMax
    BY <1>5, <1>9 DEF Held, Counted
  <2>2. IsFiniteSet(HoldersIn(h, u)) /\ Cardinality(HoldersIn(h, u)) \in Nat
    BY HoldersFinite
  <2>3. CASE u = last
    <3>1. id \notin HoldersIn(h, u) /\ HoldersIn(g, u) = HoldersIn(h, u) \cup {id}
      BY <1>1, <1>8, <2>1, <2>3 DEF HoldersIn, Default
    <3>2. Cardinality(HoldersIn(g, u)) = Cardinality(HoldersIn(h, u)) + 1
      BY <2>2, <3>1, FS_AddElement
    <3>3. g.blocks[u].refs = h.blocks[u].refs + 1 /\ h.blocks[u].refs < RefsMax
      BY <1>1, <1>3, <1>4, <2>1, <2>3
    <3> QED BY <2>1, <2>2, <3>2, <3>3, BuilderAssumption
  <2>4. CASE u # last
    BY <1>3, <1>4, <1>8, <2>1, <2>4
  <2> QED BY <2>3, <2>4
<1>10. (\A m \in DOMAIN g.nodes : g.nodes[m].unit \in -1..Len(g.blocks)) /\ g.b.last \in 0..Len(g.blocks)
  <2>1. last \in -1..Len(h.blocks)
    BY <1>1, HeapParts
  <2> QED BY <1>3, <1>4, <1>5, <2>1 DEF Held
<1>11. Held(g)
  BY <1>9, <1>10 DEF Held, Counted
<1> QED BY <1>6, <1>11 DEF g, r

\* A node with one of the two static blocks holds none.
LEMMA StaticHeld ==
    ASSUME NEW h \in HeapSet, Held(h), NEW id \in AliveIn(h), h.nodes[id].unit = Default,
           NEW u \in {Default, Unitless}
    PROVE  Dressed(h, TakeUnit(h, id, u), id) /\ Held(TakeUnit(h, id, u))
<1> DEFINE g == TakeUnit(h, id, u)
<1>1. id \in DOMAIN h.nodes /\ u \in Int /\ u \in -1..0
  BY DEF AliveIn, Default, Unitless
<1>2. /\ g \in HeapSet /\ g.blocks = h.blocks /\ g.b = h.b
      /\ DOMAIN g.nodes = DOMAIN h.nodes /\ Len(g.nodes) = Len(h.nodes)
      /\ \A m \in DOMAIN h.nodes : /\ m # id => g.nodes[m] = h.nodes[m]
                                   /\ g.nodes[m].live = h.nodes[m].live /\ g.nodes[m].kids = h.nodes[m].kids
      /\ g.nodes[id].unit = u
  <2>1. IsStatic(h.nodes[id].unit)
    BY DEF IsStatic, Default
  <2> QED BY <1>1, <2>1, TakeUnitParts
<1> HIDE DEF g
<1>3. AliveIn(g) = AliveIn(h)
  BY <1>2 DEF AliveIn
<1>4. \A v \in DOMAIN h.blocks : HoldersIn(g, v) = HoldersIn(h, v)
  <2> SUFFICES ASSUME NEW v \in DOMAIN h.blocks PROVE HoldersIn(g, v) = HoldersIn(h, v)
    OBVIOUS
  <2>1. v # u /\ v # Default
    BY <1>1, HeapParts DEF Default
  <2>2. \A m \in AliveIn(h) : g.nodes[m].unit = IF m = id THEN u ELSE h.nodes[m].unit
    BY <1>2 DEF AliveIn
  <2>3. {m \in AliveIn(g) : g.nodes[m].unit = v} = {m \in AliveIn(h) : h.nodes[m].unit = v}
    BY <1>3, <2>1, <2>2
  <2> QED BY <1>2, <2>3 DEF HoldersIn
<1>5. Counted(g)
  BY <1>2, <1>4 DEF Held, Counted
<1>6. (\A m \in DOMAIN g.nodes : g.nodes[m].unit \in -1..Len(g.blocks)) /\ g.b.last \in 0..Len(g.blocks)
  <2>1. u \in -1..Len(h.blocks)
    BY <1>1, HeapParts
  <2> QED BY <1>2, <2>1 DEF Held
<1> QED BY <1>2, <1>5, <1>6 DEF Held, Dressed, g

\* A new block is held by the node and, instead of the one before, by the builder.
LEMMA MadeHeld ==
    ASSUME NEW h \in HeapSet, Held(h), NEW id \in AliveIn(h), h.nodes[id].unit = Default,
           NEW f \in HeapSet, f.nodes = h.nodes, f.b = h.b, Len(f.blocks) = Len(h.blocks) + 1,
           f.blocks[Len(h.blocks) + 1].refs = 1, \A v \in DOMAIN h.blocks : f.blocks[v] = h.blocks[v]
    PROVE  LET g == TakeUnit(Remembered(f, Len(h.blocks) + 1), id, Len(h.blocks) + 1)
           IN Dressed(h, g, id) /\ Held(g)
<1> DEFINE u == Len(h.blocks) + 1
           r == Remembered(f, u)
           g == TakeUnit(r, id, u)
<1>1. /\ u \in DOMAIN f.blocks /\ u \notin DOMAIN h.blocks /\ u \in Int /\ u >= 1
      /\ DOMAIN f.blocks = DOMAIN h.blocks \cup {u}
      /\ h.b.last \in 0..Len(h.blocks) /\ f.b.last = h.b.last /\ f.b.last \in 0..Len(f.blocks) /\ f.b.last # u
      /\ id \in DOMAIN h.nodes /\ id # 0
  <2>1. /\ Len(h.blocks) \in Nat /\ DOMAIN h.blocks = 1..Len(h.blocks) /\ DOMAIN f.blocks = 1..Len(f.blocks)
        /\ DOMAIN h.nodes = 1..Len(h.nodes)
    BY HeapParts
  <2>2. h.b.last \in 0..Len(h.blocks) /\ id \in DOMAIN h.nodes
    BY DEF Held, AliveIn
  <2> QED BY <2>1, <2>2
<1> HIDE DEF u
<1>2. /\ r \in HeapSet /\ r.nodes = f.nodes /\ r.b.last = u /\ r.b.scopes = f.b.scopes
      /\ Len(r.blocks) = Len(f.blocks)
      /\ \A v \in DOMAIN f.blocks :
            r.blocks[v].refs = IF v = u THEN f.blocks[v].refs + 1
                               ELSE IF v = f.b.last THEN f.blocks[v].refs - 1 ELSE f.blocks[v].refs
  <2>1. f \in HeapSet /\ f.b.last \in 0..Len(f.blocks) /\ u \in DOMAIN f.blocks /\ f.b.last # u
    BY <1>1
  <2>2. r \in HeapSet /\ r.nodes = f.nodes /\ r.b.last = u
    BY ONLY <2>1, RememberedParts
  <2>3. r.b.scopes = f.b.scopes /\ Len(r.blocks) = Len(f.blocks)
    BY ONLY <2>1, RememberedParts
  <2>4. \A v \in DOMAIN f.blocks :
            r.blocks[v].refs = IF v = u THEN f.blocks[v].refs + 1
                               ELSE IF v = f.b.last THEN f.blocks[v].refs - 1 ELSE f.blocks[v].refs
    BY ONLY <2>1, RememberedParts
  <2> QED BY <2>2, <2>3, <2>4
<1> HIDE DEF r
<1>3. /\ g \in HeapSet /\ g.blocks = r.blocks /\ g.b = r.b
      /\ DOMAIN g.nodes = DOMAIN r.nodes /\ Len(g.nodes) = Len(r.nodes)
      /\ \A m \in DOMAIN r.nodes : /\ m # id => g.nodes[m] = r.nodes[m]
                                   /\ g.nodes[m].live = r.nodes[m].live /\ g.nodes[m].kids = r.nodes[m].kids
      /\ g.nodes[id].unit = u
  <2>1. id \in DOMAIN r.nodes /\ IsStatic(r.nodes[id].unit)
    BY <1>1, <1>2 DEF IsStatic, Default
  <2> QED BY <1>1, <1>2, <2>1, TakeUnitParts
<1> HIDE DEF g
<1>4. AliveIn(g) = AliveIn(h)
  BY <1>2, <1>3 DEF AliveIn
<1>5. \A m \in AliveIn(h) : g.nodes[m].unit = IF m = id THEN u ELSE h.nodes[m].unit
  BY <1>2, <1>3 DEF AliveIn
<1>6. \A m \in AliveIn(h) : h.nodes[m].unit # u
  <2>1. \A m \in DOMAIN h.nodes : h.nodes[m].unit \in -1..Len(h.blocks)
    BY DEF Held
  <2>2. Len(h.blocks) \in Nat
    BY HeapParts
  <2> QED BY <2>1, <2>2 DEF AliveIn, u
<1>7. HoldersIn(g, u) = {id} \cup {0}
  <2>1. {m \in AliveIn(g) : g.nodes[m].unit = u} = {id}
    BY <1>4, <1>5, <1>6
  <2> QED BY <1>2, <1>3, <2>1 DEF HoldersIn
<1>8. \A v \in DOMAIN h.blocks : HoldersIn(g, v) = HoldersIn(h, v) \ {0}
  <2> SUFFICES ASSUME NEW v \in DOMAIN h.blocks PROVE HoldersIn(g, v) = HoldersIn(h, v) \ {0}
    OBVIOUS
  <2>1. v # u /\ v # Default /\ 0 \notin AliveIn(h)
    BY <1>1, HeapParts DEF Default, AliveIn
  <2>2. {m \in AliveIn(g) : g.nodes[m].unit = v} = {m \in AliveIn(h) : h.nodes[m].unit = v}
    BY <1>4, <1>5, <2>1
  <2>3. g.b.last # v
    BY <1>2, <1>3, <2>1
  <2>4. HoldersIn(g, v) = {m \in AliveIn(h) : h.nodes[m].unit = v}
    BY <2>2, <2>3 DEF HoldersIn
  <2> QED BY <2>1, <2>4 DEF HoldersIn
<1>9. ASSUME NEW v \in DOMAIN g.blocks
      PROVE  g.blocks[v].refs = Cardinality(HoldersIn(g, v)) /\ g.blocks[v].refs <= RefsMax
  <2>0. v \in DOMAIN f.blocks
    BY <1>2, <1>3, <1>9, HeapParts
  <2>1. CASE v = u
    <3>1. g.blocks[v].refs = 2
      BY <1>2, <1>3, <2>0, <2>1 DEF u
    <3>2. Cardinality(HoldersIn(g, v)) = 2
      <4>1. IsFiniteSet({id}) /\ Cardinality({id}) = 1 /\ 0 \notin {id}
        BY <1>1, FS_Singleton
      <4>2. Cardinality({id} \cup {0}) = 1 + 1
        <5> DEFINE S == {id}
        <5>1. IsFiniteSet(S) /\ Cardinality(S) = 1 /\ 0 \notin S
          BY <4>1
        <5> HIDE DEF S
        <5>2. Cardinality(S \cup {0}) = Cardinality(S) + 1
          BY <5>1, FS_AddElement
        <5> QED BY <5>1, <5>2 DEF S
      <4>3. HoldersIn(g, v) = {id} \cup {0}
        BY <1>7, <2>1
      <4> HIDE DEF g
      <4> QED BY <4>2, <4>3
    <3> QED BY <3>1, <3>2, BuilderAssumption
  <2>2. CASE v # u
    <3>1. v \in DOMAIN h.blocks
      BY <1>1, <2>0, <2>2
    <3>2. h.blocks[v].refs = Cardinality(HoldersIn(h, v)) /\ h.blocks[v].refs <= RefsMax
      BY <3>1 DEF Held, Counted
    <3>3. IsFiniteSet(HoldersIn(h, v)) /\ Cardinality(HoldersIn(h, v)) \in Nat
      BY HoldersFinite
    <3>4. g.blocks[v].refs = IF v = h.b.last THEN h.blocks[v].refs - 1 ELSE h.blocks[v].refs
      BY <1>1, <1>2, <1>3, <2>0, <2>2, <3>1
    <3>5. Cardinality(HoldersIn(g, v)) = IF 0 \in HoldersIn(h, v) THEN Cardinality(HoldersIn(h, v)) - 1
                                         ELSE Cardinality(HoldersIn(h, v))
      BY <1>8, <3>1, <3>3, FS_RemoveElement
    <3>6. 0 \in HoldersIn(h, v) <=> v = h.b.last
      <4>1. 0 \notin AliveIn(h)
        BY HeapParts DEF AliveIn
      <4> QED BY <4>1 DEF HoldersIn
    <3> QED BY <3>2, <3>3, <3>4, <3>5, <3>6, BuilderAssumption
  <2> QED BY <2>1, <2>2
<1>10. (\A m \in DOMAIN g.nodes : g.nodes[m].unit \in -1..Len(g.blocks)) /\ g.b.last \in 0..Len(g.blocks)
  <2>1. \A m \in DOMAIN h.nodes : h.nodes[m].unit \in -1..Len(h.blocks)
    BY DEF Held
  <2>2. Len(h.blocks) \in Nat /\ Len(g.blocks) = Len(h.blocks) + 1 /\ u = Len(h.blocks) + 1
    BY <1>2, <1>3, HeapParts DEF u
  <2>3. u \in -1..Len(g.blocks) /\ u \in 0..Len(g.blocks)
    BY <2>2
  <2>4. \A x \in -1..Len(h.blocks) : x \in -1..Len(g.blocks)
    BY <2>2
  <2>5. g.b.last = u /\ DOMAIN g.nodes = DOMAIN h.nodes
    BY <1>2, <1>3
  <2>6. \A m \in DOMAIN h.nodes : g.nodes[m].unit = IF m = id THEN u ELSE h.nodes[m].unit
    BY <1>2, <1>3
  <2> QED BY <2>1, <2>3, <2>4, <2>5, <2>6
<1>11. Held(g)
  BY <1>9, <1>10 DEF Held, Counted
<1>12. Dressed(h, g, id)
  BY <1>2, <1>3 DEF Dressed
<1> QED BY <1>11, <1>12 DEF g, r, u

\* builder_node_unit, whichever of these it does.
LEMMA NodeUnitHeld ==
    ASSUME NEW h \in HeapSet, Held(h), NEW id \in AliveIn(h), h.nodes[id].unit = Default,
           NEW unit \in Units, NEW src \in Spellings \cup {NoSpelling}, NEW fault,
           NodeUnit(h, id, unit, src, fault).ok
    PROVE  LET g == NodeUnit(h, id, unit, src, fault).h IN Dressed(h, g, id) /\ Held(g)
<1> DEFINE kept == KeptSpelling(src)
           r == NodeUnit(h, id, unit, src, fault)
<1>1. kept \in Spellings \cup {NoSpelling}
  BY DEF KeptSpelling
<1> HIDE DEF kept
<1>2. CASE MayShare(h, unit, kept)
  <2>1. r = Ok(TakeUnit([h EXCEPT !.blocks[h.b.last].refs = @ + 1], id, h.b.last))
    BY <1>2 DEF NodeUnit, kept
  <2>2. r.h = TakeUnit([h EXCEPT !.blocks[h.b.last].refs = @ + 1], id, h.b.last)
    BY <2>1 DEF Ok
  <2> HIDE DEF r
  <2>3. Dressed(h, r.h, id) /\ Held(r.h)
    BY <1>2, <2>2, SharedHeld
  <2> QED BY <2>3 DEF r
<1>3. CASE ~MayShare(h, unit, kept)
  <2> DEFINE got == UnitGet(h, unit, kept, fault)
  <2>1. r = IF ~got.ok THEN Failed(h) ELSE Ok(TakeUnit(Remembered(got.h, got.unit), id, got.unit))
    BY <1>3 DEF NodeUnit, kept
  <2> HIDE DEF r
  <2>2. got.ok /\ r.h = TakeUnit(Remembered(got.h, got.unit), id, got.unit)
    <3> HIDE DEF got
    <3>1. r.ok
      BY DEF r
    <3> QED BY <2>1, <3>1 DEF Ok, Failed
  <2>3. \/ got.h = h /\ got.unit \in {Default, Unitless}
        \/ /\ got.h \in HeapSet /\ got.h.nodes = h.nodes /\ got.h.b = h.b
           /\ got.unit = Len(h.blocks) + 1 /\ Len(got.h.blocks) = Len(h.blocks) + 1
           /\ got.h.blocks[Len(h.blocks) + 1].refs = 1
           /\ \A v \in DOMAIN h.blocks : got.h.blocks[v] = h.blocks[v]
    BY <1>1, <2>2, UnitGetParts
  <2> HIDE DEF got
  <2>4. CASE got.h = h /\ got.unit \in {Default, Unitless}
    <3>1. Remembered(got.h, got.unit) = h
      BY <2>4 DEF Remembered, IsStatic, Default, Unitless
    <3>2. r.h = TakeUnit(h, id, got.unit)
      BY <2>2, <3>1
    <3>3. Dressed(h, r.h, id) /\ Held(r.h)
      BY <2>4, <3>2, StaticHeld
    <3> QED BY <3>3 DEF r
  <2>5. CASE /\ got.h \in HeapSet /\ got.h.nodes = h.nodes /\ got.h.b = h.b
             /\ got.unit = Len(h.blocks) + 1 /\ Len(got.h.blocks) = Len(h.blocks) + 1
             /\ got.h.blocks[Len(h.blocks) + 1].refs = 1
             /\ \A v \in DOMAIN h.blocks : got.h.blocks[v] = h.blocks[v]
    <3>1. r.h = TakeUnit(Remembered(got.h, Len(h.blocks) + 1), id, Len(h.blocks) + 1)
      BY <2>2, <2>5
    <3>2. Dressed(h, r.h, id) /\ Held(r.h)
      BY <2>5, <3>1, MadeHeld
    <3> QED BY <3>2 DEF r
  <2> QED BY <2>3, <2>4, <2>5
<1> QED BY <1>2, <1>3

-----------------------------------------------------------------------------
(* A value is made, dressed and attached.                                  *)

\* A new node is a tree of its own and holds nothing.
LEMMA MadeParts ==
    ASSUME NEW h \in HeapSet, Held(h), Rooted(h, {Document}),
           NEW kind \in Kinds \cup {"document", "struct", "array", "octets"}, NEW value \in Seq(Chunks)
    PROVE  LET g  == [h EXCEPT !.nodes = Append(@, [NewNode(kind) EXCEPT !.value = value])]
               id == Len(h.nodes) + 1
           IN /\ g \in HeapSet /\ g.b = h.b /\ Held(g) /\ Rooted(g, {Document, id})
              /\ Len(g.nodes) = id /\ AliveIn(g) = AliveIn(h) \cup {id} /\ id \notin AliveIn(h) /\ id # Document
              /\ g.nodes[id].unit = Default /\ g.nodes[id].kids = <<>>
              /\ \A m \in AliveIn(h) : m < id
<1> DEFINE n == [NewNode(kind) EXCEPT !.value = value]
           ns == Append(h.nodes, n)
           g == [h EXCEPT !.nodes = ns]
           id == Len(h.nodes) + 1
<1>1. n \in Node /\ n.unit = Default /\ n.kids = <<>> /\ n.live
  <2>2. <<>> \in Seq(EntrySet) /\ <<>> \in Seq(Int) /\ <<>> \in Seq(Chunks) /\ 1 \in Nat /\ 0 \in Int
    OBVIOUS
  <2> DEFINE new == NewNode(kind)
  <2>3. new \in Node /\ new.unit = Default /\ new.kids = <<>> /\ new.live
    BY <2>2 DEF NewNode, OneRow, Default, Node
  <2> HIDE DEF new
  <2>4. [new EXCEPT !.value = value] \in Node
    BY <2>3 DEF Node
  <2>5. /\ [new EXCEPT !.value = value].unit = new.unit /\ [new EXCEPT !.value = value].kids = new.kids
        /\ [new EXCEPT !.value = value].live = new.live
    BY <2>3 DEF Node
  <2> QED BY <2>3, <2>4, <2>5 DEF new
<1> HIDE DEF n
<1>2. /\ h.nodes \in Seq(Node) /\ Len(h.nodes) \in Nat /\ DOMAIN h.nodes = 1..Len(h.nodes)
      /\ DOMAIN h.blocks = 1..Len(h.blocks) /\ Len(h.blocks) \in Nat
  BY HeapParts
<1>3. /\ ns \in Seq(Node) /\ Len(ns) = id /\ DOMAIN ns = DOMAIN h.nodes \cup {id} /\ ns[id] = n
      /\ \A m \in DOMAIN h.nodes : ns[m] = h.nodes[m]
  BY <1>1, <1>2
<1>4. id \notin DOMAIN h.nodes /\ id \in Nat /\ id # 0 /\ \A m \in DOMAIN h.nodes : m < id /\ m # 0
  BY <1>2
<1> HIDE DEF ns, id
<1>5. g \in HeapSet /\ g.nodes = ns /\ g.blocks = h.blocks /\ g.b = h.b
  BY <1>3 DEF HeapSet
<1> HIDE DEF g
<1>6. AliveIn(g) = AliveIn(h) \cup {id} /\ id \notin AliveIn(h) /\ AliveIn(h) \subseteq DOMAIN h.nodes
  BY <1>1, <1>3, <1>4, <1>5 DEF AliveIn
<1>7. Document \in AliveIn(h) /\ id # Document
  BY <1>6 DEF Rooted
<1>8. \A m \in AliveIn(h) : g.nodes[m] = h.nodes[m]
  BY <1>3, <1>5, <1>6
<1>9. Held(g)
  <2>1. \A u \in DOMAIN h.blocks : HoldersIn(g, u) = HoldersIn(h, u)
    <3> SUFFICES ASSUME NEW u \in DOMAIN h.blocks PROVE HoldersIn(g, u) = HoldersIn(h, u)
      OBVIOUS
    <3>1. g.nodes[id].unit # u
      BY <1>1, <1>2, <1>3, <1>5 DEF Default
    <3>2. {m \in AliveIn(g) : g.nodes[m].unit = u} = {m \in AliveIn(h) : h.nodes[m].unit = u}
      BY <1>6, <1>8, <3>1
    <3> QED BY <1>5, <3>2 DEF HoldersIn
  <2>2. Counted(g)
    BY <1>5, <2>1 DEF Held, Counted
  <2>3. Default \in -1..Len(h.blocks)
    BY <1>2 DEF Default
  <2>4. \A m \in DOMAIN g.nodes : g.nodes[m].unit \in -1..Len(g.blocks)
    BY <1>1, <1>3, <1>5, <2>3 DEF Held
  <2> QED BY <1>5, <2>2, <2>4 DEF Held
<1>10. Rooted(g, {Document, id})
  <2>1. \A p \in AliveIn(h) : \A i \in DOMAIN h.nodes[p].kids :
          /\ h.nodes[p].kids[i].node \in AliveIn(h) \ {Document} /\ p < h.nodes[p].kids[i].node
          /\ \A q \in AliveIn(h) : \A j \in DOMAIN h.nodes[q].kids :
                h.nodes[q].kids[j].node = h.nodes[p].kids[i].node => q = p /\ j = i
    BY DEF Rooted
  <2>2. DOMAIN g.nodes[id].kids = {}
    BY <1>1, <1>3, <1>5
  <2>3. ASSUME NEW p \in AliveIn(g), NEW i \in DOMAIN g.nodes[p].kids
        PROVE  /\ g.nodes[p].kids[i].node \in AliveIn(g) \ {Document, id} /\ p < g.nodes[p].kids[i].node
               /\ \A q \in AliveIn(g) : \A j \in DOMAIN g.nodes[q].kids :
                     g.nodes[q].kids[j].node = g.nodes[p].kids[i].node => q = p /\ j = i
    <3>1. p \in AliveIn(h) /\ g.nodes[p] = h.nodes[p]
      BY <1>6, <1>8, <2>2, <2>3
    <3>2. \A q \in AliveIn(g) : DOMAIN g.nodes[q].kids # {} => q \in AliveIn(h) /\ g.nodes[q] = h.nodes[q]
      BY <1>6, <1>8, <2>2
    <3>3. \A q \in AliveIn(g) : \A j \in DOMAIN g.nodes[q].kids :
             g.nodes[q].kids[j].node = g.nodes[p].kids[i].node => q = p /\ j = i
      BY <2>1, <2>3, <3>1, <3>2
    <3> QED BY <1>6, <2>1, <2>3, <3>1, <3>3
  <2>4. ASSUME NEW m \in AliveIn(g) \ {Document, id} PROVE \E p \in AliveIn(g) : m \in KidsOf(g.nodes[p])
    <3>1. m \in AliveIn(h) \ {Document}
      BY <1>6, <2>4
    <3>2. PICK p \in AliveIn(h) : m \in KidsOf(h.nodes[p])
      BY <3>1 DEF Rooted
    <3> QED BY <1>6, <1>8, <3>2
  <2> QED BY <1>6, <1>7, <2>3, <2>4 DEF Rooted
<1> QED BY <1>1, <1>3, <1>4, <1>5, <1>6, <1>7, <1>9, <1>10 DEF g, ns, id, n

\* What an adder answers: the new node is the tree's, or nobody's.
Adopted(h, r, id) ==
    /\ r.h \in HeapSet /\ r.h.b = h.b /\ Held(r.h) /\ Rooted(r.h, {Document})
    /\ AliveIn(h) \ {id} \subseteq AliveIn(r.h) /\ (r.ok => AliveIn(r.h) = AliveIn(h))
    /\ Len(r.h.nodes) = Len(h.nodes)

\* The *_nocheck adders: a new node becomes the last child of an older one, or
\* is destroyed.
LEMMA AddedParts ==
    ASSUME NEW h \in HeapSet, Held(h), NEW id, id # Document, Rooted(h, {Document, id}),
           h.nodes[id].kids = <<>>, NEW into \in AliveIn(h), into < id,
           NEW key \in Keys \cup {NoKey}, NEW fault
    PROVE  Adopted(h, Added(h, into, key, id, fault), id)
<1> DEFINE r == Added(h, into, key, id, fault)
<1>1. /\ id \in AliveIn(h) /\ id \in DOMAIN h.nodes /\ into \in DOMAIN h.nodes
      /\ h.nodes[id].unit \in -1..Len(h.blocks) /\ into # id
      /\ DOMAIN h.nodes = 1..Len(h.nodes)
  BY HeapParts DEF Rooted, AliveIn, Held
<1>2. CASE fault = "attach"
  <2>1. r = [h |-> Discarded(h, id), ok |-> FALSE]
    BY <1>2 DEF Added, Failed
  <2>2. /\ Discarded(h, id) \in HeapSet /\ Discarded(h, id).b = h.b
        /\ Len(Discarded(h, id).nodes) = Len(h.nodes)
    BY <1>1, DiscardedParts
  <2>3. /\ AliveIn(Discarded(h, id)) = AliveIn(h) \ {id}
        /\ Rooted(Discarded(h, id), ({Document, id} \ {id}) \cup KidsOf(h.nodes[id]))
    <3> DEFINE R == {Document, id}
    <3>1. id \in R /\ Rooted(h, R)
      OBVIOUS
    <3> HIDE DEF R
    <3>2. AliveIn(Discarded(h, id)) = AliveIn(h) \ {id} /\ Rooted(Discarded(h, id), (R \ {id}) \cup KidsOf(h.nodes[id]))
      BY <3>1, DiscardedRooted
    <3> QED BY <3>2 DEF R
  <2>4. ({Document, id} \ {id}) \cup KidsOf(h.nodes[id]) = {Document}
    BY DEF KidsOf
  <2>5. Held(Discarded(h, id))
    BY <1>1, DiscardedHeld
  <2> HIDE DEF r
  <2>6. r.h = Discarded(h, id) /\ ~r.ok
    BY <2>1
  <2>7. Adopted(h, r, id)
    BY <2>2, <2>3, <2>4, <2>5, <2>6 DEF Adopted
  <2> QED BY <2>7 DEF r
<1>3. CASE fault # "attach"
  <2> DEFINE a  == h.nodes[into]
             e  == Entry(key, id)
             ks == Append(a.kids, e)
             n  == [a EXCEPT !.kids = ks]
             g  == [h EXCEPT !.nodes[into] = n]
  <2>1. r = [h |-> [h EXCEPT !.nodes[into].kids = Append(@, e)], ok |-> TRUE]
    BY <1>3 DEF Added, Ok
  <2>2. a \in Node
    BY <1>1, HeapParts
  <2>3. a.kids \in Seq(EntrySet) /\ e \in EntrySet /\ e.node = id
    BY <1>1, <2>2 DEF Node, EntrySet, Entry
  <2> HIDE DEF e
  <2>4. /\ ks \in Seq(EntrySet) /\ DOMAIN ks = DOMAIN a.kids \cup {Len(a.kids) + 1} /\ ks[Len(a.kids) + 1] = e
        /\ Len(a.kids) + 1 \notin DOMAIN a.kids /\ \A i \in DOMAIN a.kids : ks[i] = a.kids[i]
    <3> HIDE DEF a
    <3> QED BY <2>3
  <2>5. r.h = g /\ r.ok
    BY <2>1
  <2> HIDE DEF ks
  <2>6. n \in Node /\ n.kids = ks /\ n.live = a.live /\ n.unit = a.unit
    BY <2>2, <2>4 DEF Node
  <2> HIDE DEF n
  <2>7. /\ g \in HeapSet /\ g.blocks = h.blocks /\ g.b = h.b
        /\ Len(g.nodes) = Len(h.nodes) /\ DOMAIN g.nodes = DOMAIN h.nodes
        /\ \A m \in DOMAIN h.nodes : g.nodes[m] = IF m = into THEN n ELSE h.nodes[m]
    BY <1>1, <2>6, NodeReplaced
  <2> HIDE DEF g
  <2>8. AliveIn(g) = AliveIn(h) /\ AliveIn(h) \subseteq DOMAIN h.nodes
    BY <2>6, <2>7 DEF AliveIn
  <2>9. Held(g)
    <3>1. \A m \in DOMAIN h.nodes : g.nodes[m].live = h.nodes[m].live /\ g.nodes[m].unit = h.nodes[m].unit
      BY <2>6, <2>7
    <3>2. g.b.last = h.b.last
      BY <2>7
    <3> QED BY <2>7, <3>1, <3>2, SameHeld
  <2>10. Rooted(g, {Document})
    <3>1. \A p \in AliveIn(h) : \A i \in DOMAIN h.nodes[p].kids :
            /\ h.nodes[p].kids[i].node \in AliveIn(h) \ {Document, id} /\ p < h.nodes[p].kids[i].node
            /\ \A q \in AliveIn(h) : \A j \in DOMAIN h.nodes[q].kids :
                  h.nodes[q].kids[j].node = h.nodes[p].kids[i].node => q = p /\ j = i
      BY DEF Rooted
    <3> DEFINE last == Len(a.kids) + 1
    <3>2. \A p \in AliveIn(g) : \A i \in DOMAIN g.nodes[p].kids :
            \/ p = into /\ i = last /\ g.nodes[p].kids[i].node = id
            \/ i \in DOMAIN h.nodes[p].kids /\ g.nodes[p].kids[i].node = h.nodes[p].kids[i].node
      <4> SUFFICES ASSUME NEW p \in AliveIn(g), NEW i \in DOMAIN g.nodes[p].kids
                   PROVE  \/ p = into /\ i = last /\ g.nodes[p].kids[i].node = id
                          \/ i \in DOMAIN h.nodes[p].kids /\ g.nodes[p].kids[i].node = h.nodes[p].kids[i].node
        OBVIOUS
      <4>1. CASE p = into
        <5>1. g.nodes[p].kids = ks
          BY <2>6, <2>7, <2>8, <4>1
        <5>2. i \in DOMAIN a.kids \cup {last}
          BY <2>4, <5>1
        <5>3. CASE i = last
          BY <2>3, <2>4, <4>1, <5>1, <5>3
        <5>4. CASE i \in DOMAIN a.kids
          BY <2>4, <4>1, <5>1, <5>4
        <5> QED BY <5>2, <5>3, <5>4
      <4>2. CASE p # into
        BY <2>7, <2>8, <4>2
      <4> QED BY <4>1, <4>2
    <3> HIDE DEF last
    <3>3. ASSUME NEW p \in AliveIn(g), NEW i \in DOMAIN g.nodes[p].kids
          PROVE  /\ g.nodes[p].kids[i].node \in AliveIn(g) \ {Document} /\ p < g.nodes[p].kids[i].node
                 /\ \A q \in AliveIn(g) : \A j \in DOMAIN g.nodes[q].kids :
                       g.nodes[q].kids[j].node = g.nodes[p].kids[i].node => q = p /\ j = i
      <4>1. CASE p = into /\ i = last /\ g.nodes[p].kids[i].node = id
        <5>1. \A q \in AliveIn(g) : \A j \in DOMAIN g.nodes[q].kids :
                       g.nodes[q].kids[j].node = id => q = p /\ j = i
          BY <2>8, <3>1, <3>2, <4>1
        <5> QED BY <1>1, <2>8, <4>1, <5>1
      <4>2. CASE i \in DOMAIN h.nodes[p].kids /\ g.nodes[p].kids[i].node = h.nodes[p].kids[i].node
        <5>1. /\ h.nodes[p].kids[i].node \in AliveIn(h) \ {Document, id} /\ p < h.nodes[p].kids[i].node
              /\ \A q \in AliveIn(h) : \A j \in DOMAIN h.nodes[q].kids :
                    h.nodes[q].kids[j].node = h.nodes[p].kids[i].node => q = p /\ j = i
          BY <2>8, <3>1, <4>2
        <5>2. \A q \in AliveIn(g) : \A j \in DOMAIN g.nodes[q].kids :
                       g.nodes[q].kids[j].node = g.nodes[p].kids[i].node => q = p /\ j = i
          BY <2>8, <3>2, <4>2, <5>1
        <5> QED BY <2>8, <4>2, <5>1, <5>2
      <4> QED BY <3>2, <4>1, <4>2
    <3>4. \A p \in AliveIn(h) : KidsOf(h.nodes[p]) \subseteq KidsOf(g.nodes[p])
      <4>1. \A p \in DOMAIN h.nodes \ {into} : KidsOf(h.nodes[p]) = KidsOf(g.nodes[p])
        BY <2>7 DEF KidsOf
      <4>2. KidsOf(a) \subseteq KidsOf(n)
        BY <2>4, <2>6 DEF KidsOf
      <4>3. KidsOf(h.nodes[into]) \subseteq KidsOf(g.nodes[into])
        BY <1>1, <2>7, <4>2
      <4> QED BY <2>8, <4>1, <4>3
    <3>5. id \in KidsOf(g.nodes[into])
      <4>1. last \in DOMAIN n.kids /\ n.kids[last].node = id
        BY <2>3, <2>4, <2>6 DEF last
      <4>2. id \in KidsOf(n)
        BY <4>1 DEF KidsOf
      <4> QED BY <1>1, <2>7, <4>2
    <3>6. ASSUME NEW m \in AliveIn(g) \ {Document} PROVE \E p \in AliveIn(g) : m \in KidsOf(g.nodes[p])
      <4>1. CASE m = id
        BY <2>8, <3>5, <4>1
      <4>2. CASE m # id
        <5>1. PICK p \in AliveIn(h) : m \in KidsOf(h.nodes[p])
          BY <2>8, <3>6, <4>2 DEF Rooted
        <5> QED BY <2>8, <3>4, <5>1
      <4> QED BY <4>1, <4>2
    <3>7. Document \in AliveIn(g)
      BY <2>8 DEF Rooted
    <3> QED BY <3>3, <3>6, <3>7 DEF Rooted
  <2> HIDE DEF r
  <2>11. Adopted(h, r, id)
    BY <2>5, <2>7, <2>8, <2>9, <2>10 DEF Adopted
  <2> QED BY <2>11 DEF r
<1> QED BY <1>2, <1>3

\* A heap of whose builder only what nothing here depends on has changed.
Untold(h, g) ==
    g \in HeapSet /\ g.nodes = h.nodes /\ g.blocks = h.blocks /\ g.b.last = h.b.last /\ g.b.scopes = h.b.scopes

\* The key is used up.
LEMMA Rekeyed ==
    ASSUME NEW b \in Builder
    PROVE  LET c == [b EXCEPT !.key = NoKey]
           IN c \in Builder /\ c.last = b.last /\ c.scopes = b.scopes
BY DEF Builder

\* What a handler notes of its own, but for scopes and units, is immaterial.
LEMMA UntoldSound == ASSUME NEW h, Sound(h), NEW g, Untold(h, g) PROVE Sound(g)
<1>1. \A u : HoldersIn(g, u) = HoldersIn(h, u)
  BY DEF HoldersIn, AliveIn, Untold
<1>2. AliveIn(g) = AliveIn(h)
  BY DEF AliveIn, Untold
<1>3. Held(g)
  BY <1>1 DEF Sound, Held, Counted, Untold
<1>4. Rooted(g, {Document})
  BY <1>2 DEF Sound, Rooted, Untold
<1>5. Scoped(g)
  BY <1>2 DEF Sound, Scoped, Untold
<1> QED BY <1>3, <1>4, <1>5 DEF Sound, Untold

\* A value made, dressed and attached, or given back at the step that failed.
LEMMA ValuedSound ==
    ASSUME NEW h, Sound(h), NEW kind \in Kinds \cup {"document", "struct", "array", "octets"},
           NEW value \in Seq(Chunks), NEW unit \in Units, NEW src \in Spellings \cup {NoSpelling}, NEW fault
    PROVE  LET r == Valued(h, kind, value, unit, src, fault)
           IN Sound(r.h) /\ (r.ok => Len(h.nodes) + 1 \in AliveIn(r.h)) /\ r.h.b.scopes = h.b.scopes
<1> DEFINE id   == Len(h.nodes) + 1
           made == [h EXCEPT !.nodes = Append(@, [NewNode(kind) EXCEPT !.value = value])]
           dressed == NodeUnit(made, id, unit, src, fault)
           r == Valued(h, kind, value, unit, src, fault)
           g == dressed.h
<1>1. h \in HeapSet /\ Held(h) /\ Rooted(h, {Document}) /\ Scoped(h)
  BY DEF Sound
<1>2. /\ made \in HeapSet /\ made.b = h.b /\ Held(made) /\ Rooted(made, {Document, id})
      /\ Len(made.nodes) = id /\ AliveIn(made) = AliveIn(h) \cup {id} /\ id \notin AliveIn(h) /\ id # Document
      /\ made.nodes[id].unit = Default /\ made.nodes[id].kids = <<>>
      /\ \A m \in AliveIn(h) : m < id
  BY <1>1, MadeParts
<1>3. r = IF fault = "node" THEN Failed(h)
          ELSE IF ~dressed.ok THEN Failed(Discarded(made, id))
          ELSE Attached(dressed.h, id, fault)
  BY DEF Valued
<1> HIDE DEF made, id, r
<1>4. CASE fault = "node"
  <2>1. r = Failed(h)
    BY <1>3, <1>4
  <2>2. r.h = h /\ ~r.ok
    BY <2>1 DEF Failed
  <2> QED BY <2>2 DEF r, id
<1>5. CASE fault # "node" /\ ~dressed.ok
  <2> DEFINE d == Discarded(made, id)
  <2>1. r.h = d /\ ~r.ok
    <3>1. r = Failed(d)
      BY <1>3, <1>5
    <3> HIDE DEF d
    <3> QED BY <3>1 DEF Failed
  <2>2. id \in AliveIn(made) /\ id \in DOMAIN made.nodes /\ made.nodes[id].unit \in -1..Len(made.blocks)
    BY <1>2 DEF AliveIn, Held
  <2>3. d \in HeapSet /\ d.b = made.b
    BY <1>2, <2>2, DiscardedParts
  <2>4. Held(d)
    BY <1>2, <2>2, DiscardedHeld
  <2>5. AliveIn(d) = AliveIn(h) /\ Rooted(d, {Document})
    <3> DEFINE R == {Document, id}
    <3>1. id \in R /\ Rooted(made, R)
      BY <1>2
    <3> HIDE DEF R
    <3>2. AliveIn(d) = AliveIn(made) \ {id} /\ Rooted(d, (R \ {id}) \cup KidsOf(made.nodes[id]))
      BY <1>2, <3>1, DiscardedRooted
    <3>3. KidsOf(made.nodes[id]) = {}
      BY <1>2 DEF KidsOf
    <3>4. (R \ {id}) \cup KidsOf(made.nodes[id]) = {Document}
      BY <1>2, <3>3 DEF R
    <3> HIDE DEF d
    <3>5. Rooted(d, {Document})
      BY <3>2, <3>4
    <3> QED BY <1>2, <3>2, <3>5
  <2> HIDE DEF d
  <2>6. Scoped(d)
    BY <1>1, <1>2, <2>3, <2>5 DEF Scoped
  <2>7. Sound(d)
    BY <2>3, <2>4, <2>5, <2>6 DEF Sound
  <2>8. d.b.scopes = h.b.scopes
    BY <1>2, <2>3
  <2> QED BY <2>1, <2>7, <2>8 DEF r, id
<1>6. CASE fault # "node" /\ dressed.ok
  <2>1. id \in AliveIn(made)
    BY <1>2
  <2>2. Dressed(made, g, id) /\ Held(g)
    BY <1>2, <1>6, <2>1, NodeUnitHeld
  <2>3. r = Attached(g, id, fault)
    BY <1>3, <1>6
  <2> HIDE DEF g
  <2>4. /\ g \in HeapSet /\ g.b.scopes = h.b.scopes /\ AliveIn(g) = AliveIn(h) \cup {id}
        /\ g.nodes[id].kids = <<>> /\ Rooted(g, {Document, id})
    <3>1. /\ g \in HeapSet /\ g.b.scopes = made.b.scopes /\ DOMAIN g.nodes = DOMAIN made.nodes
          /\ \A m \in DOMAIN made.nodes : g.nodes[m].live = made.nodes[m].live /\ g.nodes[m].kids = made.nodes[m].kids
      BY <2>2 DEF Dressed
    <3>2. AliveIn(g) = AliveIn(made)
      BY <3>1 DEF AliveIn
    <3>3. id \in DOMAIN made.nodes
      BY <2>1 DEF AliveIn
    <3>4. Rooted(g, {Document, id})
      BY <1>2, <3>1, SameRooted
    <3> QED BY <1>2, <3>1, <3>2, <3>3, <3>4
  <2> DEFINE top == Last(g.b.scopes)
             scope == h.b.scopes[Len(h.b.scopes)]

             a == IF top.kind = "array" THEN NoKey ELSE g.b.key
             added == Added(g, top.node, a, id, fault)
  <2>5. top = scope /\ scope.node \in AliveIn(h) /\ g.b.scopes # <<>> /\ g.b.key \in Keys \cup {NoKey}
    <3>1. h.b \in Builder /\ g.b \in Builder
      BY <1>1, <2>4, HeapParts
    <3>2. h.b.scopes # <<>> /\ \A s \in DOMAIN h.b.scopes : h.b.scopes[s].node \in AliveIn(h)
      BY <1>1 DEF Scoped
    <3>3. Len(h.b.scopes) \in DOMAIN h.b.scopes
      BY <3>1, <3>2 DEF Builder
    <3> QED BY <2>4, <3>1, <3>2, <3>3 DEF Last, Builder
  <2>6. top.node \in AliveIn(g) /\ top.node < id /\ a \in Keys \cup {NoKey}
    BY <1>2, <2>4, <2>5
  <2>7. /\ added.h \in HeapSet /\ added.h.b = g.b /\ Held(added.h) /\ Rooted(added.h, {Document})
        /\ AliveIn(g) \ {id} \subseteq AliveIn(added.h) /\ (added.ok => AliveIn(added.h) = AliveIn(g))
    <3> DEFINE into == top.node
    <3>1. /\ g \in HeapSet /\ Held(g) /\ id # Document /\ Rooted(g, {Document, id}) /\ g.nodes[id].kids = <<>>
          /\ into \in AliveIn(g) /\ into < id /\ a \in Keys \cup {NoKey}
      BY <1>2, <2>2, <2>4, <2>6
    <3> HIDE DEF into, a
    <3> DEFINE r0 == Added(g, into, a, id, fault)
    <3>2. Adopted(g, r0, id)
      BY ONLY <3>1, AddedParts
    <3>3. added = r0
      BY DEF into
    <3> HIDE DEF added, r0
    <3> QED BY <3>2, <3>3 DEF Adopted
  <2> HIDE DEF added
  <2>8. AliveIn(h) \subseteq AliveIn(added.h) /\ (added.ok => id \in AliveIn(added.h))
    BY <1>2, <2>4, <2>7
  <2>9. Scoped(added.h)
    BY <1>1, <2>4, <2>7, <2>8 DEF Scoped
  <2>10. Sound(added.h) /\ added.h.b.scopes = h.b.scopes
    BY <2>4, <2>7, <2>9 DEF Sound
  <2>11. \/ r = added
         \/ added.ok /\ r = Ok([added.h EXCEPT !.b.key = NoKey])
    BY <2>3, <2>5 DEF Attached, Top, added
  <2>12. CASE r = added
    BY <2>8, <2>10, <2>12 DEF r, id
  <2>13. CASE added.ok /\ r = Ok([added.h EXCEPT !.b.key = NoKey])
    <3>1. r.h = [added.h EXCEPT !.b.key = NoKey]
      BY <2>13 DEF Ok
    <3>2. Untold(added.h, r.h)
      <4>1. added.h \in HeapSet /\ added.h.b \in Builder
        BY <2>7, HeapParts
      <4> QED BY <3>1, <4>1, Rekeyed DEF Untold, HeapSet
    <3>3. Sound(r.h)
      BY <2>10, <3>2, UntoldSound
    <3>4. AliveIn(r.h) = AliveIn(added.h) /\ r.h.b.scopes = h.b.scopes
      BY <2>10, <3>2 DEF AliveIn, Untold
    <3> QED BY <2>8, <2>13, <3>3, <3>4 DEF r, id
  <2> QED BY <2>11, <2>12, <2>13
<1> QED BY <1>4, <1>5, <1>6

-----------------------------------------------------------------------------
(* The scope stack.                                                        *)
ScopeSet == [kind : {"document", "struct", "array"}, node : Nat, start : Nat]

\* The scopes and the rest of a builder.
LEMMA BuilderParts ==
    ASSUME NEW h \in HeapSet
    PROVE  /\ h.b.scopes \in Seq(ScopeSet) /\ h.b.key \in Keys \cup {NoKey} /\ h.b.pop \in BOOLEAN
           /\ h.b.last \in Nat /\ h.b.chunks \in Seq(Chunks) /\ h.b.error \in Errors
           /\ Len(h.b.scopes) \in Nat /\ DOMAIN h.b.scopes = 1..Len(h.b.scopes)
<1>1. h.b \in Builder
  BY HeapParts
<1> QED BY <1>1 DEF Builder, ScopeSet

\* Other scopes, of which the document is again the lowest and all are live.
LEMMA ScopesSound ==
    ASSUME NEW h, Sound(h), NEW s \in Seq(ScopeSet), s # <<>>, s[1].kind = "document",
           \A i \in 1..Len(s) : s[i].node \in AliveIn(h)
    PROVE  Sound([h EXCEPT !.b.scopes = s]) /\ AliveIn([h EXCEPT !.b.scopes = s]) = AliveIn(h)
<1> DEFINE g == [h EXCEPT !.b.scopes = s]
<1>1. h \in HeapSet /\ Held(h) /\ Rooted(h, {Document})
  BY DEF Sound
<1>2. g \in HeapSet /\ g.nodes = h.nodes /\ g.blocks = h.blocks /\ g.b.last = h.b.last /\ g.b.scopes = s
  <2>1. h.b \in Builder
    BY <1>1, HeapParts
  <2>2. [h.b EXCEPT !.scopes = s] \in Builder /\ [h.b EXCEPT !.scopes = s].scopes = s /\ [h.b EXCEPT !.scopes = s].last = h.b.last
    BY <2>1 DEF Builder, ScopeSet
  <2>3. g = [h EXCEPT !.b = [h.b EXCEPT !.scopes = s]]
    OBVIOUS
  <2> QED BY <1>1, <2>2, <2>3 DEF HeapSet
<1> HIDE DEF g
<1>3. AliveIn(g) = AliveIn(h)
  BY <1>2 DEF AliveIn
<1>4. Held(g)
  <2>1. \A m \in DOMAIN h.nodes : g.nodes[m].live = h.nodes[m].live /\ g.nodes[m].unit = h.nodes[m].unit
    BY <1>2
  <2> QED BY <1>1, <1>2, <2>1, SameHeld
<1>5. Rooted(g, {Document})
  BY <1>1, <1>2, SameRooted
<1>6. Scoped(g)
  <2>1. DOMAIN s = 1..Len(s)
    OBVIOUS
  <2> QED BY <1>2, <1>3, <2>1 DEF Scoped
<1> QED BY <1>2, <1>3, <1>4, <1>5, <1>6 DEF Sound, g

\* builder_push
LEMMA PushedSound ==
    ASSUME NEW h, Sound(h), NEW kind \in {"struct", "array"}, NEW id \in AliveIn(h), NEW fault
    PROVE  Sound(Pushed(h, kind, id, fault).h)
<1> DEFINE x == Scope(kind, id)
           s == Append(h.b.scopes, x)
<1>1. /\ h.b.scopes \in Seq(ScopeSet) /\ h.b.scopes # <<>> /\ h.b.scopes[1].kind = "document"
      /\ \A i \in 1..Len(h.b.scopes) : h.b.scopes[i].node \in AliveIn(h)
  BY BuilderParts DEF Sound, Scoped
<1>2. x \in ScopeSet /\ x.node = id
  <2>1. id \in Nat
    BY HeapParts DEF AliveIn, Sound
  <2> QED BY <2>1 DEF Scope, ScopeSet
<1> HIDE DEF x
<1>3. s \in Seq(ScopeSet) /\ s # <<>> /\ s[1] = h.b.scopes[1]
  BY <1>1, <1>2
<1>4. \A i \in 1..Len(s) : s[i].node \in AliveIn(h)
  <2> SUFFICES ASSUME NEW i \in 1..Len(s) PROVE s[i].node \in AliveIn(h)
    OBVIOUS
  <2>1. CASE i \in 1..Len(h.b.scopes)
    BY <1>1, <1>2, <2>1
  <2>2. CASE i = Len(h.b.scopes) + 1
    BY <1>1, <1>2, <2>2
  <2> QED BY <1>1, <1>2, <2>1, <2>2
<1> HIDE DEF s
<1>5. Sound([h EXCEPT !.b.scopes = s])
  BY <1>1, <1>3, <1>4, ScopesSound
<1> QED BY <1>5 DEF Pushed, Failed, Ok, s, x

\* builder_pop, of any scope but the document's.
LEMMA PoppedSound ==
    ASSUME NEW h, Sound(h), Top(h).kind # "document"
    PROVE  Sound(Popped(h)) /\ AliveIn(Popped(h)) = AliveIn(h)
<1> DEFINE all == h.b.scopes
           s == Front(all)
<1>1. /\ all \in Seq(ScopeSet) /\ all # <<>> /\ all[1].kind = "document"
      /\ \A i \in 1..Len(all) : all[i].node \in AliveIn(h)
      /\ all[Len(all)].kind # "document"
  BY BuilderParts DEF Sound, Scoped, Top, Last
<1> HIDE DEF all
<1>2. Len(all) \in Nat /\ Len(all) >= 2
  BY <1>1
<1>3. s = SubSeq(all, 1, Len(all) - 1)
  BY DEF Front
<1>4. s \in Seq(ScopeSet) /\ s # <<>> /\ Len(s) = Len(all) - 1 /\ \A i \in 1..(Len(all) - 1) : s[i] = all[i]
  <2> HIDE DEF s
  <2>1. all \in Seq(ScopeSet)
    BY <1>1
  <2>2. s \in Seq(ScopeSet) /\ Len(s) = Len(all) - 1
    BY <1>2, <1>3, <2>1
  <2>3. \A i \in 1..(Len(all) - 1) : s[i] = all[i]
    BY <1>2, <1>3, <2>1
  <2>4. s # <<>>
    BY <1>2, <2>2
  <2> QED BY <2>2, <2>3, <2>4
<1> HIDE DEF s
<1>5. s[1].kind = "document" /\ \A i \in 1..Len(s) : s[i].node \in AliveIn(h)
  BY <1>1, <1>2, <1>4
<1>6. Popped(h) = [h EXCEPT !.b.scopes = s]
  BY <1>1 DEF Popped, all, s
<1> QED BY <1>4, <1>5, <1>6, ScopesSound

\* builder_do_deferred_pop
LEMMA DeferredPopSound ==
    ASSUME NEW h, Sound(h)
    PROVE  Sound(DeferredPop(h))
<1> DEFINE g == [h EXCEPT !.b.pop = FALSE]
<1>1. h \in HeapSet
  BY DEF Sound
<1>2. Untold(h, g)
  BY <1>1 DEF Untold, HeapSet, Builder
<1>3. Sound(g)
  BY <1>2, UntoldSound
<1> HIDE DEF g
<1>4. CASE ~h.b.pop
  BY <1>4 DEF DeferredPop
<1>5. CASE h.b.pop
  <2>1. DeferredPop(h) = IF g.b.scopes # <<>> /\ Top(g).kind = "array" THEN Popped(g) ELSE g
    BY <1>5 DEF DeferredPop, g
  <2>2. CASE g.b.scopes # <<>> /\ Top(g).kind = "array"
    BY <1>3, <2>1, <2>2, PoppedSound
  <2>3. CASE ~(g.b.scopes # <<>> /\ Top(g).kind = "array")
    BY <1>3, <2>1, <2>3
  <2> QED BY <2>2, <2>3
<1> QED BY <1>4, <1>5

\* A container that begins.
LEMMA OpenedSound ==
    ASSUME NEW h, Sound(h), NEW kind \in {"struct", "array"}, NEW unit \in Units, NEW fault
    PROVE  Sound(Opened(h, kind, unit, fault).h)
<1> DEFINE id == Len(h.nodes) + 1
           attached == Valued(h, kind, <<>>, unit, NoSpelling, fault)
           pushed == Pushed(attached.h, kind, id, fault)
           r == Opened(h, kind, unit, fault)
<1>1. Sound(attached.h) /\ (attached.ok => id \in AliveIn(attached.h))
  <2>1. <<>> \in Seq(Chunks) /\ NoSpelling \in Spellings \cup {NoSpelling}
        /\ kind \in Kinds \cup {"document", "struct", "array", "octets"}
    OBVIOUS
  <2> QED BY <2>1, ValuedSound
<1>2. r = IF ~attached.ok THEN attached
          ELSE IF ~pushed.ok THEN pushed
          ELSE Ok([pushed.h EXCEPT !.b.key = NoKey])
  BY DEF Opened
<1> HIDE DEF attached, id, r
<1>3. CASE ~attached.ok
  BY <1>1, <1>2, <1>3 DEF r
<1>4. CASE attached.ok
  <2>1. Sound(pushed.h)
    BY <1>1, <1>4, PushedSound
  <2> HIDE DEF pushed
  <2>2. CASE ~pushed.ok
    BY <1>2, <1>4, <2>1, <2>2 DEF r
  <2>3. CASE pushed.ok
    <3>1. r.h = [pushed.h EXCEPT !.b.key = NoKey]
      BY <1>2, <1>4, <2>3 DEF Ok
    <3>2. pushed.h \in HeapSet /\ pushed.h.b \in Builder
      BY <2>1, HeapParts DEF Sound
    <3>3. Untold(pushed.h, r.h)
      BY <3>1, <3>2, Rekeyed DEF Untold, HeapSet
    <3> QED BY <2>1, <3>3, UntoldSound DEF r
  <2> QED BY <2>2, <2>3
<1> QED BY <1>3, <1>4

-----------------------------------------------------------------------------
(* The handlers, one by one.                                               *)

\* A node changed in nothing that is counted or walked.
LEMMA NodeKept ==
    ASSUME NEW h, Sound(h), NEW id \in DOMAIN h.nodes, NEW n \in Node,
           n.kids = h.nodes[id].kids, n.live = h.nodes[id].live, n.unit = h.nodes[id].unit
    PROVE  Sound([h EXCEPT !.nodes[id] = n])
<1> DEFINE g == [h EXCEPT !.nodes[id] = n]
<1>1. h \in HeapSet /\ Held(h) /\ Rooted(h, {Document}) /\ Scoped(h)
  BY DEF Sound
<1>2. /\ g \in HeapSet /\ g.blocks = h.blocks /\ g.b = h.b /\ DOMAIN g.nodes = DOMAIN h.nodes
      /\ \A m \in DOMAIN h.nodes : g.nodes[m] = IF m = id THEN n ELSE h.nodes[m]
  BY <1>1, NodeReplaced
<1> HIDE DEF g
<1>3. \A m \in DOMAIN h.nodes : /\ g.nodes[m].live = h.nodes[m].live /\ g.nodes[m].unit = h.nodes[m].unit
                                /\ g.nodes[m].kids = h.nodes[m].kids
  BY <1>2
<1>4. AliveIn(g) = AliveIn(h)
  BY <1>2, <1>3 DEF AliveIn
<1>5. g.b.last = h.b.last
  BY <1>2
<1>6. Held(g)
  BY <1>1, <1>2, <1>3, <1>5, SameHeld
<1>7. Rooted(g, {Document})
  BY <1>1, <1>2, <1>3, SameRooted
<1>8. Scoped(g)
  BY <1>1, <1>2, <1>4 DEF Scoped
<1> QED BY <1>2, <1>6, <1>7, <1>8 DEF Sound, g

\* The node of the innermost scope.
LEMMA TopThere ==
    ASSUME NEW h, Sound(h)
    PROVE  /\ Top(h).node \in DOMAIN h.nodes /\ h.nodes[Top(h).node] \in Node /\ Top(h) \in ScopeSet
           /\ Top(h) = h.b.scopes[Len(h.b.scopes)] /\ Len(h.b.scopes) \in 1..Len(h.b.scopes)
<1>1. h.b.scopes \in Seq(ScopeSet) /\ h.b.scopes # <<>> /\ \A i \in DOMAIN h.b.scopes : h.b.scopes[i].node \in AliveIn(h)
  BY BuilderParts DEF Sound, Scoped
<1>2. Len(h.b.scopes) \in DOMAIN h.b.scopes /\ DOMAIN h.b.scopes = 1..Len(h.b.scopes)
  BY <1>1
<1>3. Top(h) = h.b.scopes[Len(h.b.scopes)]
  BY DEF Top, Last
<1>4. Top(h).node \in DOMAIN h.nodes
  BY <1>1, <1>2, <1>3 DEF AliveIn
<1> QED BY <1>1, <1>2, <1>3, <1>4, HeapParts DEF Sound

\* A number of a sequence replaced, or none.
LEMMA OneChanged ==
    ASSUME NEW s \in Seq(Int), NEW i, NEW x \in Int PROVE [s EXCEPT ![i] = x] \in Seq(Int)
<1>1. CASE i \in DOMAIN s
  BY <1>1
<1>2. CASE i \notin DOMAIN s
  <2>1. [s EXCEPT ![i] = x] = s
    BY <1>2
  <2> QED BY <2>1
<1> QED BY <1>1, <1>2

\* A row of a matrix closes.

LEMMA RowRecordedSound == ASSUME NEW h, Sound(h) PROVE Sound(RowRecorded(h))
<1> DEFINE id == Top(h).node
           a == h.nodes[id]
           width == Len(a.kids) - Top(h).start
           n == [a EXCEPT !.dims[a.rows] = width]
           dims == a.dims
           rows == a.rows
           ds == [dims EXCEPT ![rows] = width]
<1>1. id \in DOMAIN h.nodes /\ a \in Node /\ Top(h).start \in Nat
  BY TopThere DEF ScopeSet
<1>2. \/ RowRecorded(h) = h
      \/ RowRecorded(h) = [h EXCEPT !.nodes[id].dims[a.rows] = width]
  BY DEF RowRecorded
<1>3. [h EXCEPT !.nodes[id].dims[a.rows] = width] = [h EXCEPT !.nodes[id] = n]
  OBVIOUS
<1>4. n \in Node /\ n.kids = a.kids /\ n.live = a.live /\ n.unit = a.unit
  <2>1. width \in Int
    <3>1. a.kids \in Seq(EntrySet)
      BY <1>1 DEF Node
    <3>2. Len(a.kids) \in Nat
      BY <3>1
    <3> HIDE DEF a
    <3> QED BY <1>1, <3>2
  <2> HIDE DEF width
  <2>2. dims \in Seq(Int)
    BY <1>1 DEF Node
  <2>3. ds \in Seq(Int)
    <3> HIDE DEF dims, rows
    <3> QED BY <2>1, <2>2, OneChanged
  <2>4. n = [a EXCEPT !.dims = ds]
    OBVIOUS
  <2> HIDE DEF ds, n, a, dims, rows
  <2> QED BY <1>1, <2>3, <2>4 DEF Node
<1> HIDE DEF n, width, a, id, dims, rows
<1>5. Sound([h EXCEPT !.nodes[id] = n])
  BY <1>1, <1>4, NodeKept DEF a
<1> QED BY <1>2, <1>3, <1>5

\* The handlers of events (on_verified).
LEMMA OnAssignmentStartSound ==
    ASSUME Sound(Heap), NEW key \in Keys, NEW fault PROVE Sound(OnAssignmentStart(key, fault).h)
<1> DEFINE h == DeferredPop(Heap)
           g == [h EXCEPT !.b.key = key]
<1>1. Sound(h)
  BY DeferredPopSound
<1>2. OnAssignmentStart(key, fault).h = h \/ OnAssignmentStart(key, fault).h = g
  BY DEF OnAssignmentStart, Ok, Failed
<1> HIDE DEF h
<1>3. h \in HeapSet
  BY <1>1 DEF Sound
<1>4. Untold(h, g)
  BY <1>3 DEF Untold, HeapSet, Builder
<1>5. Sound(g)
  BY <1>1, <1>4, UntoldSound
<1> QED BY <1>1, <1>2, <1>5 DEF h

LEMMA OnStructStartSound ==
    ASSUME Sound(Heap), NEW unit \in Units, NEW fault PROVE Sound(OnStructStart(unit, fault).h)
BY DeferredPopSound, OpenedSound DEF OnStructStart

\* The guard is what keeps the document's own scope.
LEMMA OnStructEndSound ==
    ASSUME Sound(Heap), Top(DeferredPop(Heap)).kind = "struct" PROVE Sound(OnStructEnd.h)
<1>1. Sound(DeferredPop(Heap)) /\ Top(DeferredPop(Heap)).kind # "document"
  BY DeferredPopSound
<1> QED BY <1>1, PoppedSound DEF OnStructEnd, Ok

\* A further row of a matrix only moves the start of the row.
LEMMA OnArrayRowStartSound ==
    ASSUME Sound(Heap), NEW unit \in Units, NEW fault PROVE Sound(OnArrayRowStart(unit, fault).h)
<1> DEFINE h == [Heap EXCEPT !.b.continue = FALSE]
           all == h.b.scopes
           top == Len(all)
           n == Len(h.nodes[Top(h).node].kids)
           x == [all[top] EXCEPT !.start = n]
           s == [all EXCEPT ![top] = x]
           r == OnArrayRowStart(unit, fault)
<1>1. CASE ~builder.continue
  BY <1>1, DeferredPopSound, OpenedSound DEF OnArrayRowStart
<1>2. CASE builder.continue
  <2>1. Heap \in HeapSet
    BY DEF Sound
  <2>2. Untold(Heap, h)
    BY <2>1 DEF Untold, HeapSet, Builder
  <2>3. Sound(h)
    BY <2>2, UntoldSound
  <2>4. r.h = h \/ r.h = [h EXCEPT !.b.scopes[top].start = n]
    BY <1>2 DEF OnArrayRowStart, Ok
  <2>5. [h EXCEPT !.b.scopes[top].start = n] = [h EXCEPT !.b.scopes = s]
    OBVIOUS
  <2>6. /\ all \in Seq(ScopeSet) /\ all # <<>> /\ all[1].kind = "document"
        /\ \A i \in 1..Len(all) : all[i].node \in AliveIn(h)
    BY <2>3, BuilderParts DEF Sound, Scoped
  <2>7. n \in Nat
    <3> DEFINE a == h.nodes[Top(h).node]
    <3>1. a \in Node
      BY <2>3, TopThere
    <3>2. a.kids \in Seq(EntrySet)
      BY <3>1 DEF Node
    <3> HIDE DEF a
    <3>3. Len(a.kids) \in Nat
      BY <3>2
    <3> QED BY <3>3 DEF a
  <2> HIDE DEF h, n, all, r
  <2>8. top \in 1..Len(all)
    BY <2>6
  <2>9. x \in ScopeSet /\ x.node = all[top].node /\ x.kind = all[top].kind
    <3>1. all[top] \in ScopeSet
      BY <2>6, <2>8
    <3> QED BY <3>1, <2>7 DEF ScopeSet
  <2> HIDE DEF x
  <2>10. s \in Seq(ScopeSet) /\ s # <<>> /\ Len(s) = Len(all) /\ \A i \in 1..Len(all) : s[i] = IF i = top THEN x ELSE all[i]
    BY <2>6, <2>8, <2>9
  <2> HIDE DEF s, top
  <2>11. s[1].kind = "document" /\ \A i \in 1..Len(s) : s[i].node \in AliveIn(h)
    <3>1. 1 \in 1..Len(all)
      BY <2>6
    <3> QED BY <2>6, <2>9, <2>10, <3>1
  <2>12. Sound([h EXCEPT !.b.scopes = s])
    BY <2>3, <2>10, <2>11, ScopesSound
  <2> QED BY <2>3, <2>4, <2>5, <2>12 DEF r
<1> QED BY <1>1, <1>2

LEMMA OnArrayRowEndSound ==
    ASSUME Sound(Heap) PROVE Sound(OnArrayRowEnd.h)
<1> DEFINE h == RowRecorded(DeferredPop(Heap))
           g == [h EXCEPT !.b.pop = TRUE]
<1>1. Sound(h)
  BY DeferredPopSound, RowRecordedSound
<1>2. OnArrayRowEnd.h = g
  BY DEF OnArrayRowEnd, Ok
<1> HIDE DEF h
<1>3. h \in HeapSet
  BY <1>1 DEF Sound
<1>4. Untold(h, g)
  BY <1>3 DEF Untold, HeapSet, Builder
<1> QED BY <1>1, <1>2, <1>4, UntoldSound

\* The second row makes dims, and counts the row.
LEMMA OnArrayDimStartSound ==
    ASSUME Sound(Heap), NEW fault PROVE Sound(OnArrayDimStart(fault).h)
<1> DEFINE h == [Heap EXCEPT !.b.pop = FALSE, !.b.continue = TRUE]
           id == Top(h).node
           a == h.nodes[id]
           held == Len(a.kids)
           unrecorded == [k \in 1..RecordedRows |-> IF k = 1 THEN held ELSE 0]
           matrix == IF a.dims = OneRow THEN unrecorded ELSE a.dims
           n == [a EXCEPT !.dims = matrix, !.rows = @ + 1]
           r == OnArrayDimStart(fault)
<1>1. Heap \in HeapSet
  BY DEF Sound
<1>2. Untold(Heap, h)
  BY <1>1 DEF Untold, HeapSet, Builder
<1>3. Sound(h)
  BY <1>2, UntoldSound
<1>4. r.h = h \/ r.h = [h EXCEPT !.nodes[id].dims = matrix, !.nodes[id].rows = @ + 1]
  BY DEF OnArrayDimStart, Ok, Failed
<1>5. id \in DOMAIN h.nodes /\ a \in Node
  BY <1>3, TopThere
<1>6. [h EXCEPT !.nodes[id].dims = matrix, !.nodes[id].rows = @ + 1] = [h EXCEPT !.nodes[id] = n]
  <2> HIDE DEF h, id, matrix
  <2> DEFINE g == [h EXCEPT !.nodes[id].dims = matrix]
             m == [a EXCEPT !.dims = matrix]
  <2>1. g.nodes = [h.nodes EXCEPT ![id] = m] /\ g = [h EXCEPT !.nodes = [h.nodes EXCEPT ![id] = m]]
    <3>1. h \in HeapSet
      BY <1>3 DEF Sound
    <3> QED BY <3>1 DEF HeapSet
  <2>2. g.nodes[id] = m
    BY <1>5, <2>1
  <2>3. m.rows = a.rows /\ n = [m EXCEPT !.rows = a.rows + 1]
    BY <1>5 DEF Node
  <2> HIDE DEF m
  <2>4. [g EXCEPT !.nodes[id].rows = a.rows + 1] = [g EXCEPT !.nodes[id] = n]
    BY <2>2, <2>3
  <2>5. [g EXCEPT !.nodes[id] = n] = [h EXCEPT !.nodes[id] = n]
    BY <2>1
  <2> QED BY <2>4, <2>5
<1>7. n \in Node /\ n.kids = a.kids /\ n.live = a.live /\ n.unit = a.unit
  <2>1. a.kids \in Seq(EntrySet) /\ a.dims \in Seq(Int) /\ a.rows \in Nat
    BY <1>5 DEF Node
  <2>2. held \in Int
    <3> HIDE DEF a
    <3> QED BY <2>1
  <2> HIDE DEF held
  <2>3. unrecorded \in Seq(Int)
    <3>1. RecordedRows \in Nat
      BY BuilderAssumption
    <3> QED BY <2>2, <3>1
  <2> HIDE DEF unrecorded
  <2>4. matrix \in Seq(Int)
    BY <2>1, <2>3
  <2>5. a.rows + 1 \in Nat
    BY <2>1
  <2> HIDE DEF matrix, a
  <2> QED BY <1>5, <2>4, <2>5 DEF Node
<1> HIDE DEF n, h, r, matrix, held, unrecorded, id
<1>8. Sound([h EXCEPT !.nodes[id] = n])
  BY <1>3, <1>5, <1>7, NodeKept
<1> QED BY <1>3, <1>4, <1>6, <1>8 DEF r

\* The chunks gathered are dropped.
LEMMA Rechunked ==
    ASSUME NEW b \in Builder, NEW octets \in BOOLEAN
    PROVE  LET c == [b EXCEPT !.octets = octets, !.chunks = <<>>]
           IN c \in Builder /\ c.last = b.last /\ c.scopes = b.scopes
<1>1. <<>> \in Seq(Chunks)
  OBVIOUS
<1>2. PICK e : e = <<>> /\ e \in Seq(Chunks)
  BY <1>1
<1>3. LET c == [b EXCEPT !.octets = octets, !.chunks = e]
      IN c \in Builder /\ c.last = b.last /\ c.scopes = b.scopes
  BY ONLY <1>2, b \in Builder, octets \in BOOLEAN DEF Builder
<1> QED BY <1>2, <1>3

LEMMA OnOctetStreamStartSound ==
    ASSUME Sound(Heap) PROVE Sound(OnOctetStreamStart.h)
<1> DEFINE h == DeferredPop(Heap)
           g == [h EXCEPT !.b.octets = TRUE, !.b.chunks = <<>>]
<1>1. Sound(h)
  BY DeferredPopSound
<1>2. OnOctetStreamStart.h = g
  BY DEF OnOctetStreamStart, Ok
<1> HIDE DEF h
<1>3. h \in HeapSet /\ h.b \in Builder
  BY <1>1, HeapParts DEF Sound
<1>4. Untold(h, g)
  BY <1>3, Rechunked DEF Untold, HeapSet
<1> QED BY <1>1, <1>2, <1>4, UntoldSound

LEMMA OnOctetChunkSound ==
    ASSUME Sound(Heap), NEW chunk \in Chunks, NEW fault PROVE Sound(OnOctetChunk(chunk, fault).h)
<1> DEFINE h == Heap
           cs == Append(h.b.chunks, chunk)
           g == [h EXCEPT !.b.chunks = cs]
<1>1. OnOctetChunk(chunk, fault).h = h \/ OnOctetChunk(chunk, fault).h = g
  BY DEF OnOctetChunk, Ok, Failed
<1>2. h \in HeapSet /\ Sound(h)
  BY DEF Sound
<1> HIDE DEF h
<1>3. cs \in Seq(Chunks)
  BY <1>2, BuilderParts
<1> HIDE DEF cs
<1>4. Untold(h, g)
  BY <1>2, <1>3 DEF Untold, HeapSet, Builder
<1> QED BY <1>1, <1>2, <1>4, UntoldSound

LEMMA OnOctetStreamEndSound ==
    ASSUME Sound(Heap), NEW unit \in Units, NEW fault PROVE Sound(OnOctetStreamEnd(unit, fault).h)
<1> DEFINE r == Valued(Heap, "octets", builder.chunks, unit, NoSpelling, fault)
           h == r.h
           g == [h EXCEPT !.b.octets = FALSE, !.b.chunks = <<>>]
<1>1. builder.chunks \in Seq(Chunks)
  BY BuilderParts DEF Sound, Heap
<1>2. Sound(h)
  BY <1>1, BuilderAssumption, ValuedSound
<1>3. OnOctetStreamEnd(unit, fault).h = h \/ OnOctetStreamEnd(unit, fault).h = g
  BY DEF OnOctetStreamEnd, Ok
<1> HIDE DEF h
<1>4. h \in HeapSet /\ h.b \in Builder
  BY <1>2, HeapParts DEF Sound
<1>5. Untold(h, g)
  BY <1>4, Rechunked DEF Untold, HeapSet
<1> QED BY <1>2, <1>3, <1>5, UntoldSound

LEMMA OnDataSound ==
    ASSUME Sound(Heap), NEW kind \in Kinds, NEW unit \in Units, NEW src \in Spellings \cup {NoSpelling}, NEW fault
    PROVE  Sound(OnData(kind, unit, src, fault).h)
<1> DEFINE r == Valued(DeferredPop(Heap), kind, <<>>, unit, src, fault)
           h == r.h
           g == [h EXCEPT !.b.error = "value_out_of_range"]
<1>1. Sound(DeferredPop(Heap)) /\ <<>> \in Seq(Chunks)
  BY DeferredPopSound
<1>2. Sound(h)
  BY <1>1, ValuedSound
<1>3. OnData(kind, unit, src, fault).h = h \/ OnData(kind, unit, src, fault).h = g
  BY DEF OnData, Failed
<1> HIDE DEF h
<1>4. h \in HeapSet
  BY <1>2 DEF Sound
<1>5. Untold(h, g)
  BY <1>4 DEF Untold, HeapSet, Builder, Errors
<1> QED BY <1>2, <1>3, <1>5, UntoldSound

-----------------------------------------------------------------------------
(* The read, step by step.                                                 *)

LEMMA InitSound == ASSUME Init PROVE Sound(Heap)
<1> DEFINE doc == NewNode("document")
           s == Scope("document", Document)
<1>1. doc \in Node /\ doc.kids = <<>> /\ doc.live = TRUE /\ doc.unit = 0
  BY DEF Node, NewNode, OneRow, Default
<1>2. s \in ScopeSet /\ s.kind = "document" /\ s.node = 1
  BY DEF ScopeSet, Scope, Document
<1> HIDE DEF doc, s
<1>3. nodes = <<doc>> /\ blocks = <<>> /\ builder.scopes = <<s>> /\ builder.last = 0
  BY DEF Init, doc, s, Default
<1>4. builder \in Builder
  <2>1. <<s>> \in Seq(ScopeSet) /\ "none" \in Errors
    BY <1>2 DEF Errors, Reports
  <2> QED BY <2>1 DEF Init, Builder, ScopeSet, s, Default
<1>5. /\ Heap.nodes = <<doc>> /\ Heap.blocks = <<>> /\ Heap.b = builder /\ Heap \in HeapSet
      /\ DOMAIN Heap.nodes = {1} /\ Heap.nodes[1] = doc /\ DOMAIN Heap.blocks = {}
  BY <1>1, <1>3, <1>4 DEF Heap, HeapSet
<1>6. AliveIn(Heap) = {Document}
  BY <1>1, <1>5 DEF AliveIn, Document
<1>7. Held(Heap)
  BY <1>1, <1>3, <1>5 DEF Held, Counted
<1>8. Rooted(Heap, {Document})
  BY <1>1, <1>5, <1>6 DEF Rooted, Document
<1>9. Scoped(Heap)
  <2>1. Heap.b.scopes = <<s>>
    BY <1>3, <1>5
  <2>2. Heap.b.scopes # <<>> /\ Heap.b.scopes[1] = s /\ DOMAIN Heap.b.scopes = {1}
    BY <2>1
  <2>3. s.node \in AliveIn(Heap)
    BY <1>2, <1>6 DEF Document
  <2> QED BY ONLY <1>2, <2>2, <2>3 DEF Scoped
<1> QED BY <1>5, <1>7, <1>8, <1>9 DEF Sound

\* The heap after a handler is the one it answers with.
LEMMA AnswerSound ==
    ASSUME NEW r, Sound(r.h), Answer(r)
    PROVE  Sound(Heap') /\ outcome' \in {"reading", "refused"}
<1>1. r.h \in HeapSet
  BY DEF Sound
<1>2. r.h = [nodes |-> r.h.nodes, blocks |-> r.h.blocks, b |-> r.h.b]
  BY <1>1, HeapParts
<1>3. Heap' = r.h
  BY <1>2 DEF Answer, Heap
<1> QED BY <1>3 DEF Answer

\* What the builder remembers, and what went wrong.
LEMMA LetGo ==
    ASSUME NEW b \in Builder, NEW error \in Errors
    PROVE  LET c == [b EXCEPT !.last = 0, !.error = error]
           IN c \in Builder /\ c.last = 0 /\ c.scopes = b.scopes
BY DEF Builder

\* The builder's own reference is given back.
LEMMA ReadEndsSound ==
    ASSUME Sound(Heap), NEW read \in Reports, ReadEnds(read)
    PROVE  Sound(Heap') /\ builder'.last = Default
<1> DEFINE h == DeferredPop(Heap)
           u == h.b.last
           g == Released(h, u)
           error == ParseError(read)
           new == Heap'
<1>1. Sound(h)
  BY DeferredPopSound
<1>2. h \in HeapSet /\ Held(h) /\ Rooted(h, {Document}) /\ Scoped(h)
  BY <1>1 DEF Sound
<1>3. nodes' = h.nodes /\ blocks' = g.blocks /\ builder' = [h.b EXCEPT !.last = Default, !.error = error]
  BY DEF ReadEnds
<1>4. error \in Errors
  <2>1. builder.error \in Errors
    BY BuilderParts DEF Sound, Heap
  <2> QED BY <2>1 DEF ParseError, Errors
<1>5. new.nodes = nodes' /\ new.blocks = blocks' /\ new.b = builder' /\ new = [nodes |-> nodes', blocks |-> blocks', b |-> builder']
  BY DEF Heap
<1> HIDE DEF h, error, new
<1>6. u \in 0..Len(h.blocks) /\ u \in -1..Len(h.blocks)
  BY <1>2, HeapParts DEF Held
<1>7. /\ g \in HeapSet /\ Len(g.blocks) = Len(h.blocks)
      /\ \A v \in DOMAIN h.blocks : g.blocks[v].refs = IF v = u THEN h.blocks[v].refs - 1 ELSE h.blocks[v].refs
  BY <1>2, <1>6, ReleasedParts
<1> HIDE DEF g
<1>8. new.b \in Builder /\ new.b.last = 0 /\ new.b.scopes = h.b.scopes
  <2>1. h.b \in Builder
    BY <1>2, HeapParts
  <2>2. LET c == [h.b EXCEPT !.last = 0, !.error = error]
        IN c \in Builder /\ c.last = 0 /\ c.scopes = h.b.scopes
    BY <1>4, <2>1, LetGo
  <2> QED BY <1>3, <1>5, <2>2 DEF Default
<1>9. new \in HeapSet
  <2>1. h.nodes \in Seq(Node) /\ g.blocks \in Seq(Block)
    BY <1>2, <1>7 DEF HeapSet
  <2> QED BY <1>3, <1>5, <1>8, <2>1 DEF HeapSet
<1>10. new.nodes = h.nodes /\ new.blocks = g.blocks /\ AliveIn(new) = AliveIn(h)
  BY <1>3, <1>5 DEF AliveIn
<1>11. Counted(new)
  <2> SUFFICES ASSUME NEW v \in DOMAIN new.blocks
               PROVE  new.blocks[v].refs = Cardinality(HoldersIn(new, v)) /\ new.blocks[v].refs <= RefsMax
    BY DEF Counted
  <2>1. v \in DOMAIN h.blocks /\ v # 0
    BY <1>2, <1>7, <1>10, HeapParts
  <2>2. h.blocks[v].refs = Cardinality(HoldersIn(h, v)) /\ h.blocks[v].refs <= RefsMax
    BY <1>2, <2>1 DEF Held, Counted
  <2>3. IsFiniteSet(HoldersIn(h, v)) /\ Cardinality(HoldersIn(h, v)) \in Nat
    BY <1>2, HoldersFinite
  <2>4. CASE v = u
    <3>1. 0 \notin AliveIn(h)
      BY <1>2, HeapParts DEF AliveIn
    <3>2. 0 \in HoldersIn(h, v) /\ HoldersIn(new, v) = HoldersIn(h, v) \ {0}
      BY <1>8, <1>10, <2>1, <2>4, <3>1 DEF HoldersIn
    <3>3. Cardinality(HoldersIn(new, v)) = Cardinality(HoldersIn(h, v)) - 1
      BY <2>3, <3>2, FS_RemoveElement
    <3>4. new.blocks[v].refs = h.blocks[v].refs - 1
      BY <1>7, <1>10, <2>1, <2>4
    <3> HIDE DEF u
    <3> QED BY <2>2, <2>3, <3>3, <3>4, BuilderAssumption
  <2>5. CASE v # u
    <3>1. HoldersIn(new, v) = HoldersIn(h, v)
      BY <1>8, <1>10, <2>1, <2>5 DEF HoldersIn
    <3>2. new.blocks[v].refs = h.blocks[v].refs
      BY <1>7, <1>10, <2>1, <2>5
    <3> QED BY <2>2, <3>1, <3>2
  <2> QED BY <2>4, <2>5
<1>12. Held(new)
  BY <1>2, <1>7, <1>8, <1>10, <1>11, HeapParts DEF Held
<1>13. Rooted(new, {Document})
  BY <1>2, <1>10, SameRooted
<1>14. Scoped(new)
  BY <1>2, <1>8, <1>10 DEF Scoped
<1>15. builder'.last = Default
  BY <1>5, <1>8 DEF Default
<1> QED BY <1>9, <1>12, <1>13, <1>14, <1>15 DEF Sound, new

-----------------------------------------------------------------------------
(* Destroying the document.                                                *)

\* Sets of naturals have a least element.
LEMMA LeastNatural ==
    ASSUME NEW T, T \subseteq Nat, NEW x \in T
    PROVE  \E m \in T : \A k \in T : m <= k
<1> DEFINE R == {p \in Nat \X Nat : p[1] < p[2]}
<1>1. IsWellFoundedOn(R, Nat)
  BY NatLessThanWellFounded DEF OpToRel
<1> HIDE DEF R
<1>2. PICK m \in T : \A k \in T : ~(<<k, m>> \in R)
  BY <1>1, WFMin
<1>3. \A j, k \in Nat : ~(<<k, j>> \in R) => j <= k
  BY DEF R
<1> QED BY <1>2, <1>3

\* The work stack and the heap, after each of the first m nodes.
Works(f, h, m) ==
    f = [n \in 0..m |-> IF n = 0 THEN [h |-> h, stack |-> <<Document>>] ELSE Destroyed(f[n - 1])]

\* They exist, and AllDestroyed is the last.
LEMMA WorksDefined ==
    ASSUME NEW h \in HeapSet
    PROVE  \E f : Works(f, h, Len(h.nodes)) /\ AllDestroyed(h) = f[Len(h.nodes)].h
<1> DEFINE None == {n \in Nat : ~\E f : Works(f, h, n)}
           first == [h |-> h, stack |-> <<Document>>]
<1>1. ASSUME NEW x \in None PROVE FALSE
  <2>1. PICK m \in None : \A k \in None : m <= k
    BY LeastNatural
  <2>2. m \in Nat /\ ~\E f : Works(f, h, m)
    OBVIOUS
  <2>3. CASE m = 0
    <3>1. Works([k \in 0..0 |-> first], h, 0)
      BY DEF Works
    <3> QED BY <2>2, <2>3, <3>1
  <2>4. CASE m # 0
    <3>1. m - 1 \in Nat /\ ~(m <= m - 1)
      BY <2>2, <2>4
    <3>2. PICK f : Works(f, h, m - 1)
      BY <2>1, <3>1
    <3> DEFINE g == [k \in 0..m |-> IF k = 0 THEN first ELSE Destroyed(f[k - 1])]
    <3> HIDE DEF first
    <3>3. ASSUME NEW k \in 0..m, k # 0 PROVE g[k - 1] = f[k - 1]
      <4>1. k - 1 \in 0..(m - 1) /\ k - 1 \in 0..m
        BY <2>2, <3>3
      <4>2. f[k - 1] = IF k - 1 = 0 THEN first ELSE Destroyed(f[k - 1 - 1])
        BY <3>2, <4>1 DEF Works, first
      <4>3. g[k - 1] = IF k - 1 = 0 THEN first ELSE Destroyed(f[k - 1 - 1])
        BY <4>1
      <4> QED BY <4>2, <4>3
    <3>4. [k \in 0..m |-> IF k = 0 THEN first ELSE Destroyed(g[k - 1])]
            = [k \in 0..m |-> IF k = 0 THEN first ELSE Destroyed(f[k - 1])]
      <4> HIDE DEF g
      <4> QED BY <3>3
    <3>5. Works(g, h, m)
      BY <3>4 DEF Works, first
    <3> QED BY <2>2, <3>5
  <2> QED BY <2>3, <2>4
<1>2. Len(h.nodes) \in Nat
  BY HeapParts
<1>3. \E f : Works(f, h, Len(h.nodes))
  BY <1>1, <1>2
<1>4. AllDestroyed(h) = (CHOOSE f : Works(f, h, Len(h.nodes)))[Len(h.nodes)].h
  BY DEF AllDestroyed, Works
<1>5. Works(CHOOSE f : Works(f, h, Len(h.nodes)), h, Len(h.nodes))
  BY <1>3
<1> QED BY <1>4, <1>5

(* Nodes that are alike but for their units and their lives.               *)
SameNode(n, m) == m.kind = n.kind /\ m.kids = n.kids /\ m.dims = n.dims /\ m.rows = n.rows /\ m.value = n.value
Alike(h, g) == Len(g.nodes) = Len(h.nodes) /\ \A m \in 1..Len(h.nodes) : SameNode(h.nodes[m], g.nodes[m])

\* A node's death is not its place.
LEMMA DiscardedAlike ==
    ASSUME NEW h \in HeapSet, NEW id \in DOMAIN h.nodes, h.nodes[id].unit \in -1..Len(h.blocks)
    PROVE  Alike(h, Discarded(h, id)) /\ Discarded(h, id).b = h.b
<1> DEFINE n == [h.nodes[id] EXCEPT !.live = FALSE]
           r == Released(h, h.nodes[id].unit)
<1>1. h.nodes[id] \in Node
  BY HeapParts
<1>2. n \in Node /\ SameNode(h.nodes[id], n)
  BY <1>1 DEF Node, SameNode
<1>3. r \in HeapSet /\ r.nodes = h.nodes /\ r.b = h.b
  BY ReleasedParts
<1> HIDE DEF r
<1>4. Discarded(h, id) = [r EXCEPT !.nodes[id] = n]
  BY <1>3 DEF Discarded, r
<1> HIDE DEF n
<1>5. /\ [r EXCEPT !.nodes[id] = n].b = r.b
      /\ Len([r EXCEPT !.nodes[id] = n].nodes) = Len(r.nodes)
      /\ \A m \in DOMAIN r.nodes : [r EXCEPT !.nodes[id] = n].nodes[m] = IF m = id THEN n ELSE r.nodes[m]
  BY <1>2, <1>3, NodeReplaced
<1>6. \A m \in 1..Len(h.nodes) : m \in DOMAIN h.nodes /\ SameNode(h.nodes[m], h.nodes[m])
  BY HeapParts DEF SameNode
<1> QED BY <1>2, <1>3, <1>4, <1>5, <1>6 DEF Alike

(* Nodes on the stack are the roots of what is left, each there once; as   *)
(* long as there are any, every step has destroyed one.                    *)
Stacked(w) == {w.stack[i] : i \in DOMAIN w.stack}
Dead(h) == DOMAIN h.nodes \ AliveIn(h)
Working(w, h, n) ==
    /\ w.h \in HeapSet /\ DOMAIN w.h.nodes = DOMAIN h.nodes /\ w.h.b = h.b /\ Len(w.h.blocks) = Len(h.blocks)
    /\ Held(w.h) /\ Rooted(w.h, Stacked(w)) /\ Alike(h, w.h)
    /\ w.stack \in Seq(Nat)
    /\ \A i, j \in 1..Len(w.stack) : w.stack[i] = w.stack[j] => i = j
    /\ w.stack = <<>> \/ Cardinality(Dead(w.h)) >= n

\* Two sequences, one after the other.
LEMMA JoinOf ==
    ASSUME NEW S, NEW s \in Seq(S), NEW t \in Seq(S)
    PROVE  /\ s \o t \in Seq(S) /\ Len(s \o t) = Len(s) + Len(t)
           /\ \A i \in 1..Len(s) : (s \o t)[i] = s[i]
           /\ \A i \in 1..Len(t) : (s \o t)[Len(s) + i] = t[i]
OBVIOUS

\* The last of a stack comes off, others go on.
LEMMA StackParts ==
    ASSUME NEW s \in Seq(Nat), s # <<>>, NEW t \in Seq(Nat)
    PROVE  /\ Len(s) \in Nat \ {0} /\ Last(s) = s[Len(s)] /\ Len(t) \in Nat
           /\ Front(s) \o t \in Seq(Nat) /\ Len(Front(s) \o t) = Len(s) - 1 + Len(t)
           /\ \A i \in 1..(Len(s) - 1) : (Front(s) \o t)[i] = s[i]
           /\ \A i \in 1..Len(t) : (Front(s) \o t)[Len(s) - 1 + i] = t[i]
<1> DEFINE f == SubSeq(s, 1, Len(s) - 1)
<1>0. Len(s) \in Nat /\ Len(s) >= 1
  OBVIOUS
<1>1. f \in Seq(Nat) /\ Len(f) = Len(s) - 1 /\ \A i \in 1..(Len(s) - 1) : f[i] = s[i]
  <2>1. f = SubSeq(s, 1, Len(s) - 1)
    OBVIOUS
  <2> HIDE DEF f
  <2>2. f \in Seq(Nat)
    BY <1>0, <2>1
  <2>3. Len(f) = Len(s) - 1
    <3> DEFINE m == Len(s) - 1
    <3>1. m \in Nat /\ f = SubSeq(s, 1, m) /\ m = Len(s) - 1
      BY <1>0, <2>1
    <3> HIDE DEF m
    <3> QED BY <1>0, <3>1
  <2>4. \A i \in 1..(Len(s) - 1) : f[i] = s[i]
    BY <1>0, <2>1
  <2> QED BY <2>2, <2>3, <2>4
<1>2. Front(s) = f /\ Last(s) = s[Len(s)] /\ Len(s) \in Nat \ {0} /\ Len(t) \in Nat
  BY DEF Front, Last
<1> HIDE DEF f
<1>6. f \in Seq(Nat) /\ t \in Seq(Nat)
  BY <1>1
<1>3. f \o t \in Seq(Nat) /\ Len(f \o t) = Len(f) + Len(t)
  BY <1>6, JoinOf
<1>4. \A i \in 1..Len(f) : (f \o t)[i] = f[i]
  BY <1>6, JoinOf
<1>5. \A i \in 1..Len(t) : (f \o t)[Len(f) + i] = t[i]
  BY <1>6, JoinOf
<1> QED BY <1>1, <1>2, <1>3, <1>4, <1>5

\* The dead are finitely many.
LEMMA DeadFinite ==
    ASSUME NEW h \in HeapSet
    PROVE  IsFiniteSet(DOMAIN h.nodes) /\ Cardinality(DOMAIN h.nodes) = Len(h.nodes) /\ IsFiniteSet(Dead(h))
<1>1. DOMAIN h.nodes = 1..Len(h.nodes) /\ Len(h.nodes) \in Nat
  BY HeapParts
<1>2. IsFiniteSet(1..Len(h.nodes)) /\ Cardinality(1..Len(h.nodes)) = Len(h.nodes)
  <2>1. 1 \in Int /\ Len(h.nodes) \in Int
    BY <1>1
  <2>2. Cardinality(1..Len(h.nodes)) = IF 1 > Len(h.nodes) THEN 0 ELSE Len(h.nodes) - 1 + 1
    BY <2>1, FS_Interval
  <2>3. IsFiniteSet(1..Len(h.nodes))
    BY <2>1, FS_Interval
  <2> QED BY <1>1, <2>2, <2>3
<1> QED BY <1>1, <1>2, FS_Subset DEF Dead

\* One more node destroyed.
LEMMA DestroyedWorking ==
    ASSUME NEW h \in HeapSet, NEW w, NEW n \in Nat, Working(w, h, n)
    PROVE  Working(Destroyed(w), h, n + 1)
<1>1. CASE w.stack = <<>>
  BY <1>1 DEF Destroyed, Working
<1>2. CASE w.stack # <<>>
  <2> DEFINE all == w.stack
             top == Len(all)
             id == Last(all)
             entries == w.h.nodes[id].kids
             kids == [i \in DOMAIN entries |-> entries[i].node]
             s == Front(all) \o kids
             g == Discarded(w.h, id)
             d == Destroyed(w)
             R == Stacked(w)
  <2>1. /\ w.h \in HeapSet /\ DOMAIN w.h.nodes = DOMAIN h.nodes /\ w.h.b = h.b /\ Len(w.h.blocks) = Len(h.blocks)
        /\ Held(w.h) /\ Rooted(w.h, R)
    BY DEF Working
  <2>2. /\ all \in Seq(Nat) /\ all # <<>> /\ Cardinality(Dead(w.h)) >= n
        /\ \A i, j \in 1..Len(all) : all[i] = all[j] => i = j
    BY <1>2 DEF Working
  <2>3. d = [stack |-> s, h |-> g]
    BY <1>2 DEF Destroyed
  <2>4. d.stack = s /\ d.h = g
    <3> HIDE DEF d, s, g
    <3> QED BY <2>3
  <2>5. top \in Nat \ {0} /\ id = all[top] /\ top \in 1..top /\ DOMAIN all = 1..top
    BY <2>2 DEF Last
  <2>6. id \in R
    BY <2>5 DEF Stacked
  <2>7. id \in AliveIn(w.h) /\ AliveIn(g) = AliveIn(w.h) \ {id} /\ Rooted(g, (R \ {id}) \cup KidsOf(w.h.nodes[id]))
    BY <2>1, <2>6, DiscardedRooted
  <2>8. Held(g)
    BY <2>1, <2>7, DiscardedHeld
  <2>9. id \in DOMAIN w.h.nodes /\ w.h.nodes[id] \in Node /\ w.h.nodes[id].unit \in -1..Len(w.h.blocks)
    BY <2>1, <2>7, HeapParts DEF AliveIn, Held
  <2>10. g \in HeapSet /\ g.b = w.h.b /\ Len(g.blocks) = Len(w.h.blocks) /\ DOMAIN g.nodes = DOMAIN w.h.nodes
    BY <2>1, <2>9, DiscardedParts
  <2>11. /\ entries \in Seq(EntrySet) /\ Len(entries) \in Nat /\ DOMAIN entries = 1..Len(entries)
         /\ kids \in Seq(Nat) /\ Len(kids) = Len(entries) /\ \A i \in 1..Len(kids) : kids[i] = entries[i].node
    <3>1. entries \in Seq(EntrySet)
      BY <2>9 DEF Node
    <3> HIDE DEF entries
    <3>2. Len(entries) \in Nat /\ DOMAIN entries = 1..Len(entries) /\ \A i \in 1..Len(entries) : entries[i] \in EntrySet
      BY <3>1
    <3>3. \A i \in 1..Len(entries) : entries[i].node \in Nat
      BY <3>2 DEF EntrySet
    <3>4. kids = [i \in 1..Len(entries) |-> entries[i].node]
      BY <3>2
    <3> HIDE DEF kids
    <3>5. kids \in Seq(Nat) /\ Len(kids) = Len(entries)
      BY <3>2, <3>3, <3>4
    <3> QED BY <3>1, <3>2, <3>4, <3>5
  <2>12. \A i \in 1..Len(kids) : /\ kids[i] \notin R
                                 /\ \A j \in 1..Len(kids) : kids[j] = kids[i] => j = i
    <3> HIDE DEF kids, id, R
    <3> SUFFICES ASSUME NEW i \in 1..Len(kids)
                 PROVE  kids[i] \notin R /\ \A j \in 1..Len(kids) : kids[j] = kids[i] => j = i
      OBVIOUS
    <3>1. i \in DOMAIN w.h.nodes[id].kids /\ kids[i] = w.h.nodes[id].kids[i].node
      BY <2>11
    <3>2. \A j \in 1..Len(kids) : j \in DOMAIN w.h.nodes[id].kids /\ kids[j] = w.h.nodes[id].kids[j].node
      BY <2>11
    <3>3. \A p \in AliveIn(w.h) : \A k \in DOMAIN w.h.nodes[p].kids :
             /\ w.h.nodes[p].kids[k].node \notin R
             /\ \A q \in AliveIn(w.h) : \A j \in DOMAIN w.h.nodes[q].kids :
                   w.h.nodes[q].kids[j].node = w.h.nodes[p].kids[k].node => q = p /\ j = k
      BY <2>1 DEF Rooted
    <3> QED BY <2>7, <3>1, <3>2, <3>3
  <2>13. KidsOf(w.h.nodes[id]) = {kids[i] : i \in 1..Len(kids)}
    <3> HIDE DEF kids, id
    <3> QED BY <2>11 DEF KidsOf
  <2> HIDE DEF kids, entries
  <2>14. /\ s \in Seq(Nat) /\ Len(s) = top - 1 + Len(kids) /\ Len(kids) \in Nat
         /\ \A i \in 1..(top - 1) : s[i] = all[i]
         /\ \A i \in 1..Len(kids) : s[top - 1 + i] = kids[i]
    <3>1. all \in Seq(Nat) /\ all # <<>> /\ kids \in Seq(Nat)
      BY <2>2, <2>11
    <3> HIDE DEF all
    <3> QED BY <3>1, StackParts
  <2> HIDE DEF all, s, top, id, R, g, d
  <2>15. \A i \in 1..Len(s) : \/ i \in 1..(top - 1)
                              \/ i - (top - 1) \in 1..Len(kids) /\ i = top - 1 + (i - (top - 1))
    BY <2>5, <2>14
  <2>16. R = {all[i] : i \in 1..top}
    BY <2>5 DEF Stacked, R, all
  <2>17. \A i \in 1..(top - 1) : i \in 1..top /\ i # top
    BY <2>5
  <2>18. \A i \in 1..top : i # top => i \in 1..(top - 1)
    BY <2>5
  <2>19. DOMAIN s = 1..Len(s)
    BY <2>14
  <2>20. Stacked(d) = {s[i] : i \in 1..Len(s)}
    BY <2>4, <2>19 DEF Stacked
  <2>21. Stacked(d) = (R \ {id}) \cup {kids[i] : i \in 1..Len(kids)}
    <3>1. \A i \in 1..Len(s) : s[i] \in (R \ {id}) \cup {kids[j] : j \in 1..Len(kids)}
      <4> SUFFICES ASSUME NEW i \in 1..Len(s) PROVE s[i] \in (R \ {id}) \cup {kids[j] : j \in 1..Len(kids)}
        OBVIOUS
      <4>1. CASE i \in 1..(top - 1)
        <5>1. s[i] = all[i] /\ i \in 1..top /\ i # top
          BY <2>14, <2>17, <4>1
        <5>2. all[i] # all[top]
          BY <2>2, <2>5, <5>1 DEF top
        <5> QED BY <2>5, <2>16, <5>1, <5>2
      <4>2. CASE i - (top - 1) \in 1..Len(kids) /\ i = top - 1 + (i - (top - 1))
        <5>1. s[i] = kids[i - (top - 1)]
          BY <2>14, <4>2
        <5> QED BY <4>2, <5>1
      <4> QED BY <2>15, <4>1, <4>2
    <3>2. \A x \in R \ {id} : \E i \in 1..Len(s) : x = s[i]
      <4> SUFFICES ASSUME NEW x \in R \ {id} PROVE \E i \in 1..Len(s) : x = s[i]
        OBVIOUS
      <4>1. PICK i \in 1..top : x = all[i]
        BY <2>16
      <4>2. i # top
        BY <2>5, <4>1
      <4>3. i \in 1..(top - 1)
        BY <2>18, <4>2
      <4>4. i \in 1..Len(s)
        BY <2>5, <2>14, <4>3
      <4> QED BY <2>14, <4>1, <4>3, <4>4
    <3>3. \A i \in 1..Len(kids) : top - 1 + i \in 1..Len(s) /\ kids[i] = s[top - 1 + i]
      BY <2>5, <2>14
    <3> QED BY <2>20, <3>1, <3>2, <3>3
  <2>22. Rooted(g, Stacked(d))
    BY <2>7, <2>13, <2>21
  <2>23. \A i, j \in 1..Len(s) : s[i] = s[j] => i = j
    <3> SUFFICES ASSUME NEW i \in 1..Len(s), NEW j \in 1..Len(s), s[i] = s[j] PROVE i = j
      OBVIOUS
    <3> DEFINE a == i - (top - 1)
               b == j - (top - 1)
    <3>1. ASSUME NEW k \in 1..(top - 1) PROVE s[k] \in R /\ s[k] = all[k] /\ k \in 1..top
      BY <2>14, <2>16, <2>17
    <3>2. CASE i \in 1..(top - 1) /\ j \in 1..(top - 1)
      <4>1. all[i] = all[j] /\ i \in 1..Len(all) /\ j \in 1..Len(all)
        BY <3>1, <3>2 DEF top
      <4> QED BY <2>2, <4>1
    <3>3. ASSUME i \in 1..(top - 1), b \in 1..Len(kids), j = top - 1 + b PROVE FALSE
      <4>1. s[j] = kids[b]
        BY <2>14, <3>3
      <4> HIDE DEF b
      <4> QED BY <2>12, <3>1, <3>3, <4>1
    <3>4. ASSUME j \in 1..(top - 1), a \in 1..Len(kids), i = top - 1 + a PROVE FALSE
      <4>1. s[i] = kids[a]
        BY <2>14, <3>4
      <4> HIDE DEF a
      <4> QED BY <2>12, <3>1, <3>4, <4>1
    <3>5. CASE a \in 1..Len(kids) /\ i = top - 1 + a /\ b \in 1..Len(kids) /\ j = top - 1 + b
      <4>1. s[i] = kids[a] /\ s[j] = kids[b]
        BY <2>14, <3>5
      <4> HIDE DEF a, b
      <4>2. a = b
        BY <2>12, <3>5, <4>1
      <4> QED BY <3>5, <4>2
    <3> QED BY <2>15, <3>2, <3>3, <3>4, <3>5
  <2>24. Cardinality(Dead(g)) >= n + 1
    <3>1. Dead(g) = Dead(w.h) \cup {id} /\ id \notin Dead(w.h)
      BY <2>7, <2>9, <2>10 DEF Dead
    <3>2. IsFiniteSet(Dead(w.h))
      BY <2>1, DeadFinite
    <3>3. Cardinality(Dead(g)) = Cardinality(Dead(w.h)) + 1 /\ Cardinality(Dead(w.h)) \in Nat
      BY <3>1, <3>2, FS_AddElement, FS_CardinalityType
    <3> QED BY <2>2, <3>3
  <2>25. d.h \in HeapSet /\ DOMAIN d.h.nodes = DOMAIN h.nodes /\ d.h.b = h.b /\ Len(d.h.blocks) = Len(h.blocks)
    BY <2>1, <2>4, <2>10
  <2>26. Alike(h, d.h)
    <3>1. Alike(h, w.h) /\ Alike(w.h, g)
      BY <2>1, <2>9, DiscardedAlike DEF Working, g
    <3> QED BY <2>4, <3>1 DEF Alike, SameNode
  <2> QED BY <2>4, <2>8, <2>14, <2>22, <2>23, <2>24, <2>25, <2>26 DEF Working, d
<1> QED BY <1>1, <1>2

\* Nothing is left alive, and no block is held.
LEMMA AllDestroyedParts ==
    ASSUME NEW h, Sound(h), h.b.last = Default
    PROVE  LET g == AllDestroyed(h)
           IN /\ g = [nodes |-> g.nodes, blocks |-> g.blocks, b |-> h.b]
              /\ Counted(g) /\ AliveIn(g) = {} /\ \A u \in DOMAIN g.blocks : g.blocks[u].refs = 0
              /\ Alike(h, g) /\ DOMAIN g.nodes = DOMAIN h.nodes
<1>1. h \in HeapSet /\ Held(h) /\ Rooted(h, {Document})
  BY DEF Sound
<1> DEFINE all == Len(h.nodes)
           g == AllDestroyed(h)
<1>2. all \in Nat /\ DOMAIN h.nodes = 1..all
  BY <1>1, HeapParts
<1>3. PICK f : Works(f, h, all) /\ g = f[all].h
  BY <1>1, WorksDefined
<1>4. f[0] = [h |-> h, stack |-> <<Document>>] /\ \A n \in 1..all : f[n] = Destroyed(f[n - 1])
  <2>1. \A n \in 0..all : f[n] = IF n = 0 THEN [h |-> h, stack |-> <<Document>>] ELSE Destroyed(f[n - 1])
    BY <1>3 DEF Works
  <2>2. 0 \in 0..all /\ \A n \in 1..all : n \in 0..all /\ n # 0
    BY <1>2
  <2> QED BY <2>1, <2>2
<1>5. Working(f[0], h, 0)
  <2> DEFINE w == f[0]
  <2>1. w.h = h /\ w.stack = <<1>>
    BY <1>4 DEF Document
  <2> HIDE DEF w
  <2>2. w.stack \in Seq(Nat) /\ (\A i, j \in 1..Len(w.stack) : w.stack[i] = w.stack[j] => i = j) /\ Stacked(w) = {Document}
    BY <2>1 DEF Stacked, Document
  <2>3. Cardinality(Dead(w.h)) >= 0
    <3>1. IsFiniteSet(Dead(h))
      BY <1>1, DeadFinite
    <3>2. Cardinality(Dead(h)) \in Nat
      BY <3>1, FS_CardinalityType
    <3> QED BY <2>1, <3>2
  <2>4. Alike(h, h)
    BY DEF Alike, SameNode
  <2>5. Working(w, h, 0)
    BY <1>1, <2>1, <2>2, <2>3, <2>4 DEF Working
  <2> QED BY <2>5 DEF w
<1>6. \A n \in 0..all : Working(f[n], h, n)
  <2> DEFINE None == {n \in 0..all : ~Working(f[n], h, n)}
  <2>1. ASSUME NEW x \in None PROVE FALSE
    <3>1. None \subseteq Nat
      BY <1>2
    <3>2. PICK m \in None : \A k \in None : m <= k
      BY <3>1, LeastNatural
    <3>3. m \in 0..all /\ ~Working(f[m], h, m)
      OBVIOUS
    <3>4. m # 0
      BY <1>5, <3>3
    <3>5. m - 1 \in Nat /\ m - 1 \in 0..all /\ ~(m <= m - 1) /\ m \in 1..all /\ m - 1 + 1 = m
      BY <1>2, <3>3, <3>4
    <3>6. Working(f[m - 1], h, m - 1)
      BY <3>2, <3>5
    <3>7. Working(Destroyed(f[m - 1]), h, m - 1 + 1)
      BY <1>1, <3>5, <3>6, DestroyedWorking
    <3> QED BY <1>4, <3>3, <3>5, <3>7
  <2> QED BY <2>1
<1> DEFINE w == f[all]
<1>7. Working(w, h, all)
  BY <1>2, <1>6
<1>8. g = w.h
  BY <1>3
<1> HIDE DEF w, g
<1>9. /\ g \in HeapSet /\ DOMAIN g.nodes = DOMAIN h.nodes /\ g.b = h.b /\ Held(g) /\ Rooted(g, Stacked(w))
      /\ Alike(h, g)
  BY <1>7, <1>8 DEF Working
<1>10. Stacked(w) = {}
  <2>1. CASE w.stack = <<>>
    BY <2>1 DEF Stacked
  <2>2. CASE Cardinality(Dead(g)) >= all
    <3> SUFFICES ASSUME NEW x \in Stacked(w) PROVE FALSE
      OBVIOUS
    <3>1. x \in AliveIn(g)
      BY <1>9 DEF Rooted
    <3>2. x \in DOMAIN g.nodes /\ x \notin Dead(g) /\ Dead(g) \subseteq DOMAIN g.nodes
      BY <3>1 DEF AliveIn, Dead
    <3>3. IsFiniteSet(DOMAIN g.nodes) /\ Cardinality(DOMAIN g.nodes) = all
      BY <1>1, <1>9, DeadFinite
    <3> DEFINE ns == DOMAIN g.nodes
               dead == Dead(g)
    <3>4. IsFiniteSet(ns) /\ dead \in SUBSET ns /\ dead # ns /\ Cardinality(ns) = all
      BY <3>2, <3>3
    <3>5. Cardinality(dead) >= all /\ Cardinality(dead) \in Nat
      BY <1>9, <2>2, DeadFinite, FS_CardinalityType
    <3> HIDE DEF ns, dead
    <3>6. Cardinality(dead) <= Cardinality(ns) /\ (Cardinality(ns) = Cardinality(dead) => ns = dead)
      BY <3>4, FS_Subset
    <3> QED BY <1>2, <3>4, <3>5, <3>6
  <2> QED BY <1>7, <1>8, <2>1, <2>2 DEF Working
<1>11. AliveIn(g) = {}
  <2> SUFFICES ASSUME NEW x \in AliveIn(g) PROVE FALSE
    OBVIOUS
  <2>1. AliveIn(g) \subseteq Nat
    BY <1>2, <1>9 DEF AliveIn
  <2>2. PICK m \in AliveIn(g) : \A k \in AliveIn(g) : m <= k
    BY <2>1, LeastNatural
  <2>3. PICK p \in AliveIn(g) : m \in KidsOf(g.nodes[p])
    BY <1>9, <1>10 DEF Rooted
  <2>4. p < m
    BY <1>9, <2>3 DEF Rooted, KidsOf
  <2> QED BY <2>1, <2>2, <2>3, <2>4
<1>12. Counted(g)
  BY <1>9 DEF Held
<1>13. \A u \in DOMAIN g.blocks : g.blocks[u].refs = 0
  <2> SUFFICES ASSUME NEW u \in DOMAIN g.blocks PROVE g.blocks[u].refs = 0
    OBVIOUS
  <2>1. u # 0
    BY <1>9, HeapParts
  <2>2. HoldersIn(g, u) = {}
    BY <1>9, <1>11, <2>1 DEF HoldersIn, Default
  <2> QED BY <1>12, <2>2, FS_EmptySet DEF Counted
<1>14. g = [nodes |-> g.nodes, blocks |-> g.blocks, b |-> h.b]
  BY <1>9, HeapParts
<1> QED BY <1>9, <1>11, <1>12, <1>13, <1>14 DEF g

\* bvn_dom_doc_destroy
LEMMA DocumentDestroyFrees ==
    ASSUME IInv, DocumentDestroy
    PROVE  BlocksCounted' /\ EverythingFreed' /\ outcome' = "destroyed"
<1> DEFINE g == AllDestroyed(Heap)
<1>1. Sound(Heap) /\ builder.last = Default
  BY DEF IInv, DocumentDestroy
<1>2. Heap.b = builder
  BY DEF Heap
<1>3. /\ g = [nodes |-> g.nodes, blocks |-> g.blocks, b |-> Heap.b]
      /\ Counted(g) /\ AliveIn(g) = {} /\ \A u \in DOMAIN g.blocks : g.blocks[u].refs = 0
  BY <1>1, <1>2, AllDestroyedParts
<1>4. nodes' = g.nodes /\ blocks' = g.blocks /\ builder' = builder /\ outcome' = "destroyed"
  BY DEF DocumentDestroy
<1> HIDE DEF g
<1>5. Heap' = g
  BY <1>2, <1>3, <1>4 DEF Heap
<1> QED BY <1>3, <1>4, <1>5 DEF BlocksCounted, EverythingFreed

-----------------------------------------------------------------------------
(* The theorems.                                                           *)

\* It holds of the document alone, where bvn_dom_parse_policy begins.
LEMMA InitInvariant == Init => IInv
<1> SUFFICES ASSUME Init PROVE IInv
  OBVIOUS
<1>1. Sound(Heap) /\ outcome = "reading"
  BY InitSound DEF Init
<1> QED BY <1>1 DEF IInv

\* Every answer of a handler leaves the invariant.
LEMMA AnswerInvariant ==
    ASSUME NEW r, Sound(r.h), Answer(r) PROVE IInv'
<1>1. Sound(Heap') /\ outcome' \in {"reading", "refused"}
  BY AnswerSound
<1> QED BY <1>1 DEF IInv

\* Every step keeps the invariant.
LEMMA NextInvariant == IInv /\ [BuilderNext]_domVars => IInv'
<1> SUFFICES ASSUME IInv, [BuilderNext]_domVars PROVE IInv'
  OBVIOUS
<1>1. ASSUME NEW r, Answer(r), Sound(Heap) => Sound(r.h) PROVE IInv'
  <2>1. Sound(Heap)
    BY <1>1 DEF IInv, Answer
  <2> QED BY <1>1, <2>1, AnswerInvariant
<1>2. ASSUME NEW fault \in FailPoints, NEW k \in Keys, AssignmentStart(k, fault) PROVE IInv'
  BY <1>1, <1>2, OnAssignmentStartSound DEF AssignmentStart
<1>3. ASSUME NEW fault \in FailPoints, NEW chunk \in Chunks, OctetChunk(chunk, fault) PROVE IInv'
  BY <1>1, <1>3, OnOctetChunkSound DEF OctetChunk
<1>4. ASSUME NEW fault \in FailPoints, NEW kind \in Kinds, NEW unit \in Units,
             NEW src \in Spellings \cup {NoSpelling}, Data(kind, unit, src, fault)
      PROVE  IInv'
  BY <1>1, <1>4, OnDataSound DEF Data
<1>5. ASSUME NEW fault \in FailPoints, NEW unit \in Units, StructStart(unit, fault) PROVE IInv'
  BY <1>1, <1>5, OnStructStartSound DEF StructStart
<1>6. ASSUME NEW fault \in FailPoints, NEW unit \in Units, ArrayRowStart(unit, fault) PROVE IInv'
  BY <1>1, <1>6, OnArrayRowStartSound DEF ArrayRowStart
<1>7. ASSUME NEW fault \in FailPoints, ArrayDimStart(fault) PROVE IInv'
  BY <1>1, <1>7, OnArrayDimStartSound DEF ArrayDimStart
<1>8. ASSUME NEW fault \in FailPoints, NEW unit \in Units, OctetStreamEnd(unit, fault) PROVE IInv'
  BY <1>1, <1>8, OnOctetStreamEndSound DEF OctetStreamEnd
<1>9. ASSUME Top(DeferredPop(Heap)).kind = "struct", StructEnd PROVE IInv'
  BY <1>1, <1>9, OnStructEndSound DEF StructEnd
<1>10. ASSUME ArrayRowEnd PROVE IInv'
  BY <1>1, <1>10, OnArrayRowEndSound DEF ArrayRowEnd
<1>11. ASSUME OctetStreamStart PROVE IInv'
  BY <1>1, <1>11, OnOctetStreamStartSound DEF OctetStreamStart
<1>12. ASSUME NEW read \in Reports, ReadEnds(read) PROVE IInv'
  <2>1. Sound(Heap) /\ outcome' = "read"
    BY <1>12 DEF IInv, ReadEnds
  <2>2. Sound(Heap') /\ builder'.last = Default
    BY <1>12, <2>1, ReadEndsSound
  <2> QED BY <2>1, <2>2 DEF IInv
<1>13. ASSUME DocumentDestroy PROVE IInv'
  BY <1>13, DocumentDestroyFrees DEF IInv
<1>14. CASE UNCHANGED domVars
  BY <1>14 DEF IInv, domVars, Heap, BlocksCounted, EverythingFreed
<1> QED BY <1>2, <1>3, <1>4, <1>5, <1>6, <1>7, <1>8, <1>9, <1>10, <1>11, <1>12, <1>13, <1>14 DEF BuilderNext

(* Between events, whatever went wrong: what is held is counted, what is   *)
(* alive hangs below the document, and open scopes are alive -- until the  *)
(* document is destroyed, and then nothing is left.                        *)
THEOREM BuilderInvariance == BuilderSpec => []IInv
<1>1. IInv /\ [BuilderNext]_domVars => IInv'
  BY NextInvariant
<1> QED BY <1>1, InitInvariant, PTL DEF BuilderSpec

(* Whatever calls the reader makes, and whatever fails, a unit block's     *)
(* count is the number of live nodes that use it and the builder's own     *)
(* reference, and never passes UINT32_MAX (bvn_dom_unit_ref, _release).    *)
THEOREM BlocksNeverLost == BuilderSpec => []BlocksCounted
<1>1. IInv => BlocksCounted
  BY DEF IInv, Sound, Held, BlocksCounted
<1> QED BY <1>1, BuilderInvariance, PTL

(* However the read ended, bvn_dom_doc_destroy frees every node that was   *)
(* made, and with the last of its holders every block: each of its steps   *)
(* frees a node, and the nodes that are left are trees below those on its  *)
(* work stack.                                                             *)
THEOREM EverythingGivenBack == BuilderSpec => []EverythingFreed
<1>1. IInv => EverythingFreed
  BY DEF IInv, EverythingFreed
<1> QED BY <1>1, BuilderInvariance, PTL
=============================================================================

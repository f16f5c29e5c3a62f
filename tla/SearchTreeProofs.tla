-------------------------- MODULE SearchTreeProofs --------------------------
(***************************************************************************)
(* Theorems about SearchTree: the threads never spoil the tree they grow   *)
(* together, the table never holds two nodes of a position, what the sweep *)
(* leaves points to nothing it deleted, and no visit or virtual loss is    *)
(* left over when a search ends.                                           *)
(***************************************************************************)
EXTENDS SearchTree, FiniteSetTheorems, WellFoundedInduction, SequenceTheorems, TLAPS

(* Where a search thread is. *)
OffTree == {"idle", "begin", "top", "done"}
OnTree(t) == thread[t].at \notin OffTree
Choosing == {"full", "grow", "allocate", "insert"}
Updating == {"recompute", "write", "undirty"}
Children(n) == heap[n].children

(* What runs in which phase. *)
PhaseInv ==
  /\ phase # "search" => thread = [t \in Threads |-> NoPlayout]
  /\ phase = "search" => \A t \in Threads : thread[t].at \in Places \ {"idle"}
  /\ phase # "mark" => oldRoot = NoNode /\ marked = {} /\ walk = [t \in Threads |-> <<>>]
  /\ phase # "idle" => root # NoNode

(* The roots are the nodes that are not in the table, and a node in the    *)
(* table has the hash of its position, or a random one.                    *)
RootInv ==
  /\ \A r \in {root, oldRoot} \ {NoNode} : heap[r].live /\ heap[r].key = RootKey
  /\ root # NoNode => root # oldRoot /\ heap[root].pos = rootPos
TableInv ==
  \A n \in Live :
    /\ heap[n].key = RootKey => n \in {root, oldRoot}
    /\ heap[n].key \notin {RootKey, FreshKey} => heap[n].key = GraphHash[heap[n].pos]

(* Children are in the table, by legal moves. *)
ChildrenInTable ==
  \A n \in Live : \A i \in DOMAIN Children(n) :
    Children(n)[i].move \in DOMAIN Play[heap[n].pos] /\ heap[Children(n)[i].node].key # RootKey

(* The frames of a thread lead from the root to its node. *)
NodeAfter(t, i) == IF i = Len(thread[t].path) THEN thread[t].node ELSE thread[t].path[i + 1].node
PathInv(t) ==
  /\ thread[t].node \in Live
  /\ thread[t].path = <<>> => thread[t].node = root
  /\ \A i \in DOMAIN thread[t].path :
       LET frame == thread[t].path[i] IN
       /\ frame.node \in Live /\ frame.idx \in Slots(frame.node)
       /\ Children(frame.node)[frame.idx].node = NodeAfter(t, i)
       /\ i = 1 => frame.node = root

(* The slot that a thread has chosen to fill: no slot before it has its    *)
(* move, and there is room for it once the thread is to fill it.           *)
MovesOf(n) == IF n = root THEN RootMoves[rootPos] ELSE DOMAIN Play[heap[n].pos]
ChoiceInv(t) ==
  /\ thread[t].move \in MovesOf(thread[t].node)
  /\ thread[t].idx \in 1..Len(Here(t).children) + 1
  /\ \A i \in 1..thread[t].idx - 1 : Here(t).children[i].move # thread[t].move
  /\ IF thread[t].at \in {"full", "grow"}
     THEN thread[t].idx = getChildrenCapacity(thread[t].state) + 1
     ELSE thread[t].idx <= getChildrenCapacity(Here(t).state)
StateInv(t) ==
  /\ thread[t].at \in Choosing \cup {"select"} => EXPANDED0 <= thread[t].state /\ thread[t].state <= Here(t).state
  /\ thread[t].at = "grow" => thread[t].state \in {GROWING1, GROWING2} /\ Here(t).state = thread[t].state
  /\ thread[t].at = "initialize" => Here(t).state = EVALUATING
  /\ thread[t].at \in Choosing => ChoiceInv(t)

InTable(n) == n \in Live /\ heap[n].key # RootKey
ChildInv(t) ==
  /\ thread[t].at = "insert" =>
       InTable(thread[t].child) /\ heap[thread[t].child].pos = Play[Here(t).pos][thread[t].move]
  /\ thread[t].at = "edge" =>
       thread[t].idx \in Slots(thread[t].node) /\ Here(t).children[thread[t].idx].node = thread[t].child
  /\ thread[t].at \in Updating \cup {"update"} => InTable(thread[t].child)

(* One thread at a time evaluates a node or grows its children. *)
Owners == {t \in Threads : thread[t].at \in {"initialize", "grow"}}
OwnersInv == \A t, u \in Owners : thread[t].node = thread[u].node => t = u

ThreadInv ==
  \A t \in Threads : IF OnTree(t) THEN PathInv(t) /\ StateInv(t) /\ ChildInv(t) ELSE thread[t].path = <<>>

(* Mark: what a marked node, or a node being walked, still leads to.       *)
OnStacks == UNION {NodesOnStack(t) : t \in Threads}
Covered == marked \cup OnStacks
WalkInv ==
  /\ marked \subseteq Live
  /\ \A n \in marked : ChildrenOf(n) \subseteq Covered
  /\ \A t \in Threads : \A i \in DOMAIN walk[t] :
       LET frame == walk[t][i] IN
       /\ frame.node = NoNode => root \in frame.todo \cup Covered
       /\ frame.node # NoNode => frame.node \in Live /\ ChildrenOf(frame.node) \subseteq frame.todo \cup Covered
       /\ frame.todo \subseteq Live /\ (i = 1 => frame.node = NoNode)
  /\ phase = "mark" => root \in Covered \/ \A t \in Threads : walk[t] # <<>>

TreeInv ==
  /\ PhaseInv /\ RootInv /\ TableInv /\ OneNodePerPosition
  /\ ChildrenFollowMoves /\ ChildrenInTable /\ ThreadInv /\ OwnersInv /\ WalkInv

-----------------------------------------------------------------------------
(* Sums over finite sets.  The sum is defined by recursion on the set; the *)
(* inductions are on the least set for which a claim fails.                *)

LEMMA Smallest ==
  ASSUME NEW S, NEW D \in SUBSET FiniteSubsetsOf(S), D # {}
  PROVE  \E T \in D : \A U \in D : U \subseteq T => U = T
  <1>1. PICK T \in D : \A U \in D : <<U, T>> \notin StrictSubsetOrdering(S)
    BY FS_StrictSubsetOrderingWellFounded, WFMin
  <1>2. ASSUME NEW U \in D, U \subseteq T, U # T PROVE FALSE
    <2>1. <<U, T>> \in (SUBSET S) \X (SUBSET S)
      BY DEF FiniteSubsetsOf
    <2>2. <<U, T>> \in StrictSubsetOrdering(S)
      BY <1>2, <2>1 DEF StrictSubsetOrdering
    <2> QED
      BY <1>1, <2>2
  <1> QED
    BY <1>2

AnyOf(s) == CHOOSE x \in s : TRUE
IsSum(g, f, S) == g = [s \in SUBSET S |-> IF s = {} THEN 0 ELSE f[AnyOf(s)] + g[s \ {AnyOf(s)}]]
Total(f, S) == MapThenSumSet(LAMBDA i : f[i], S)

LEMMA TotalChosen ==
  ASSUME NEW f, NEW S
  PROVE  Total(f, S) = (CHOOSE g : IsSum(g, f, S))[S]
  BY DEF Total, MapThenSumSet, MapThenFoldSet, IsSum, AnyOf

LEMMA AnyOfIn ==
  ASSUME NEW S, NEW s \in SUBSET S, s # {}
  PROVE  /\ AnyOf(s) \in s /\ s \ {AnyOf(s)} \in SUBSET S
         /\ s \ {AnyOf(s)} \subseteq s /\ s \ {AnyOf(s)} # s
  BY DEF AnyOf

LEMMA SumAt ==
  ASSUME NEW g, NEW f, NEW S, IsSum(g, f, S), NEW s \in SUBSET S
  PROVE  g[s] = IF s = {} THEN 0 ELSE f[AnyOf(s)] + g[s \ {AnyOf(s)}]
  BY Zenon DEF IsSum

LEMMA SumUnique ==
  ASSUME NEW f, NEW S, NEW R, NEW g, NEW h, IsSum(g, f, S), IsSum(h, f, R),
         NEW T, IsFiniteSet(T), T \subseteq S, T \subseteq R
  PROVE  g[T] = h[T]
  <1> DEFINE D == {U \in FiniteSubsetsOf(T) : g[U] # h[U]}
  <1>1. ASSUME D # {} PROVE FALSE
    <2>1. PICK U \in D : \A V \in D : V \subseteq U => V = U
      <3>1. D \in SUBSET FiniteSubsetsOf(T)
        OBVIOUS
      <3> HIDE DEF D
      <3> QED
        BY <1>1, <3>1, Smallest
    <2>2. U \in SUBSET T /\ IsFiniteSet(U) /\ U \in SUBSET S /\ U \in SUBSET R /\ g[U] # h[U]
      BY DEF FiniteSubsetsOf
    <2>3. U # {}
      BY <2>2, SumAt
    <2> DEFINE V == U \ {AnyOf(U)}
    <2>4. V \in SUBSET T /\ V \subseteq U /\ V # U
      BY <2>2, <2>3, AnyOfIn
    <2>5. IsFiniteSet(V)
      BY <2>2, <2>4, FS_Subset
    <2>6. g[V] = h[V]
      BY <2>1, <2>4, <2>5 DEF FiniteSubsetsOf
    <2>7. g[U] = f[AnyOf(U)] + g[V]
      BY <2>2, <2>3, SumAt
    <2>8. h[U] = f[AnyOf(U)] + h[V]
      BY <2>2, <2>3, SumAt
    <2> HIDE DEF V
    <2> QED
      BY <2>2, <2>6, <2>7, <2>8
  <1>2. T \in FiniteSubsetsOf(T)
    BY DEF FiniteSubsetsOf
  <1> QED
    BY <1>1, <1>2

LEMMA SumExists ==
  ASSUME NEW f, NEW S, IsFiniteSet(S)
  PROVE  \E g : IsSum(g, f, S)
  <1> DEFINE D == {U \in FiniteSubsetsOf(S) : ~ \E g : IsSum(g, f, U)}
  <1>1. ASSUME D # {} PROVE FALSE
    <2>1. PICK T \in D : \A V \in D : V \subseteq T => V = T
      <3>1. D \in SUBSET FiniteSubsetsOf(S)
        OBVIOUS
      <3> HIDE DEF D
      <3> QED
        BY <1>1, <3>1, Smallest
    <2>2. T \in SUBSET S /\ IsFiniteSet(T) /\ ~ \E g : IsSum(g, f, T)
      BY DEF FiniteSubsetsOf
    <2>3. ASSUME NEW U \in SUBSET T, U # T
          PROVE  IsFiniteSet(U) /\ \E g : IsSum(g, f, U)
      <3>1. IsFiniteSet(U)
        BY <2>2, FS_Subset
      <3> QED
        BY <2>1, <2>2, <2>3, <3>1 DEF FiniteSubsetsOf
    <2> DEFINE Fn(U) == CHOOSE g : IsSum(g, f, U)
               G == [U \in SUBSET T |-> IF U = T THEN (IF T = {} THEN 0 ELSE f[AnyOf(T)] + Fn(T \ {AnyOf(T)})[T \ {AnyOf(T)}])
                                                 ELSE Fn(U)[U]]
    <2>4. ASSUME NEW U \in SUBSET T, U # T PROVE IsSum(Fn(U), f, U)
      BY <2>3, <2>4
    <2>5. ASSUME NEW U \in SUBSET T, U # T, U # {}
          PROVE  Fn(U)[U] = f[AnyOf(U)] + Fn(U \ {AnyOf(U)})[U \ {AnyOf(U)}]
      <3> DEFINE V == U \ {AnyOf(U)}
      <3>1. V \in SUBSET T /\ V \subseteq U /\ V # U
        BY <2>5, AnyOfIn
      <3>2. V # T
        BY <2>5, <3>1
      <3>3. IsFiniteSet(V)
        BY <2>3, <3>1, <3>2
      <3>4. IsSum(Fn(U), f, U) /\ IsSum(Fn(V), f, V)
        BY <2>4, <2>5, <3>1, <3>2
      <3> HIDE DEF Fn
      <3>5. Fn(U)[V] = Fn(V)[V]
        BY <3>1, <3>3, <3>4, SumUnique
      <3>6. Fn(U)[U] = f[AnyOf(U)] + Fn(U)[V]
        BY <2>5, <3>4, SumAt
      <3> QED
        BY <3>5, <3>6
    <2>6. T = {} \/ Fn({})[{}] = 0
      <3>1. ASSUME T # {} PROVE Fn({})[{}] = 0
        <4>1. IsSum(Fn({}), f, {})
          BY <2>4, <3>1
        <4> HIDE DEF Fn
        <4> QED
          BY <4>1, SumAt
      <3> QED
        BY <3>1
    <2>7. ASSUME NEW U \in SUBSET T
          PROVE  G[U] = IF U = {} THEN 0 ELSE f[AnyOf(U)] + G[U \ {AnyOf(U)}]
      <3> HIDE DEF Fn
      <3>1. CASE U = {}
        BY <2>6, <3>1
      <3>2. CASE U # {}
        <4>1. U \ {AnyOf(U)} \in SUBSET T /\ U \ {AnyOf(U)} # T
          BY <3>2, AnyOfIn
        <4> QED
          BY <2>5, <3>2, <4>1
      <3> QED
        BY <3>1, <3>2
    <2>8. IsSum(G, f, T)
      <3>1. G = [U \in SUBSET T |-> G[U]]
        OBVIOUS
      <3> HIDE DEF G
      <3> QED
        BY <2>7, <3>1 DEF IsSum
    <2> QED
      BY <2>2, <2>8
  <1>2. S \in FiniteSubsetsOf(S)
    BY DEF FiniteSubsetsOf
  <1> QED
    BY <1>1, <1>2

LEMMA TotalStep ==
  ASSUME NEW f, NEW S, IsFiniteSet(S)
  PROVE  Total(f, S) = IF S = {} THEN 0 ELSE f[AnyOf(S)] + Total(f, S \ {AnyOf(S)})
  <1> DEFINE Fn(U) == CHOOSE g : IsSum(g, f, U)
             R == S \ {AnyOf(S)}
  <1>1. IsFiniteSet(R) /\ R \subseteq S
    BY FS_Subset
  <1>2. IsSum(Fn(S), f, S) /\ IsSum(Fn(R), f, R)
    BY <1>1, SumExists
  <1>3. Total(f, S) = Fn(S)[S] /\ Total(f, R) = Fn(R)[R]
    BY TotalChosen
  <1> HIDE DEF Fn
  <1>4. Fn(S)[R] = Fn(R)[R]
    BY <1>1, <1>2, SumUnique
  <1>5. Fn(S)[S] = IF S = {} THEN 0 ELSE f[AnyOf(S)] + Fn(S)[R]
    BY <1>2, SumAt
  <1> QED
    BY <1>3, <1>4, <1>5

LEMMA TotalNat ==
  ASSUME NEW f, NEW S, IsFiniteSet(S), \A x \in S : f[x] \in Nat
  PROVE  Total(f, S) \in Nat
  <1> DEFINE D == {U \in FiniteSubsetsOf(S) : Total(f, U) \notin Nat}
  <1>1. ASSUME D # {} PROVE FALSE
    <2>1. PICK U \in D : \A V \in D : V \subseteq U => V = U
      <3>1. D \in SUBSET FiniteSubsetsOf(S)
        OBVIOUS
      <3> HIDE DEF D
      <3> QED
        BY <1>1, <3>1, Smallest
    <2>2. U \in SUBSET S /\ IsFiniteSet(U) /\ Total(f, U) \notin Nat
      BY DEF FiniteSubsetsOf
    <2>3. U # {}
      <3>1. Total(f, U) = IF U = {} THEN 0 ELSE f[AnyOf(U)] + Total(f, U \ {AnyOf(U)})
        BY <2>2, TotalStep
      <3> QED
        BY <2>2, <3>1
    <2>4. AnyOf(U) \in S /\ U \ {AnyOf(U)} \in SUBSET S /\ U \ {AnyOf(U)} \subseteq U /\ U \ {AnyOf(U)} # U
      BY <2>2, <2>3, AnyOfIn
    <2>5. Total(f, U \ {AnyOf(U)}) \in Nat
      BY <2>1, <2>2, <2>4, FS_Subset DEF FiniteSubsetsOf
    <2>6. Total(f, U) = f[AnyOf(U)] + Total(f, U \ {AnyOf(U)})
      BY <2>2, <2>3, TotalStep
    <2> QED
      BY <2>2, <2>4, <2>5, <2>6
  <1>2. S \in FiniteSubsetsOf(S)
    BY DEF FiniteSubsetsOf
  <1> QED
    BY <1>1, <1>2

LEMMA TotalSame ==
  ASSUME NEW f, NEW g, NEW S, IsFiniteSet(S), \A x \in S : f[x] = g[x]
  PROVE  Total(f, S) = Total(g, S)
  <1> DEFINE D == {U \in FiniteSubsetsOf(S) : Total(f, U) # Total(g, U)}
  <1>1. ASSUME D # {} PROVE FALSE
    <2>1. PICK U \in D : \A V \in D : V \subseteq U => V = U
      <3>1. D \in SUBSET FiniteSubsetsOf(S)
        OBVIOUS
      <3> HIDE DEF D
      <3> QED
        BY <1>1, <3>1, Smallest
    <2>2. U \in SUBSET S /\ IsFiniteSet(U) /\ Total(f, U) # Total(g, U)
      BY DEF FiniteSubsetsOf
    <2>3. U # {}
      BY <2>2, TotalStep
    <2>4. AnyOf(U) \in S /\ U \ {AnyOf(U)} \in SUBSET S /\ U \ {AnyOf(U)} \subseteq U /\ U \ {AnyOf(U)} # U
      BY <2>2, <2>3, AnyOfIn
    <2>5. Total(f, U \ {AnyOf(U)}) = Total(g, U \ {AnyOf(U)})
      BY <2>1, <2>2, <2>4, FS_Subset DEF FiniteSubsetsOf
    <2>6. Total(f, U) = f[AnyOf(U)] + Total(f, U \ {AnyOf(U)})
      BY <2>2, <2>3, TotalStep
    <2>7. Total(g, U) = g[AnyOf(U)] + Total(g, U \ {AnyOf(U)})
      BY <2>2, <2>3, TotalStep
    <2> QED
      BY <2>2, <2>4, <2>5, <2>6, <2>7
  <1>2. S \in FiniteSubsetsOf(S)
    BY DEF FiniteSubsetsOf
  <1> QED
    BY <1>1, <1>2

(* Whichever element the recursion takes first, any may be taken. *)
LEMMA TotalWithout ==
  ASSUME NEW f, NEW S, IsFiniteSet(S), \A x \in S : f[x] \in Nat, NEW e \in S
  PROVE  Total(f, S) = f[e] + Total(f, S \ {e})
  <1> DEFINE D == {U \in FiniteSubsetsOf(S) : \E x \in U : Total(f, U) # f[x] + Total(f, U \ {x})}
  <1>1. ASSUME D # {} PROVE FALSE
    <2>1. PICK U \in D : \A V \in D : V \subseteq U => V = U
      <3>1. D \in SUBSET FiniteSubsetsOf(S)
        OBVIOUS
      <3> HIDE DEF D
      <3> QED
        BY <1>1, <3>1, Smallest
    <2>2. PICK x \in U : Total(f, U) # f[x] + Total(f, U \ {x})
      OBVIOUS
    <2>3. U \in SUBSET S /\ IsFiniteSet(U) /\ U # {}
      BY <2>2 DEF FiniteSubsetsOf
    <2>4. PICK a \in U : a = AnyOf(U)
      BY <2>3, AnyOfIn
    <2>5. ASSUME NEW y \in U PROVE IsFiniteSet(U \ {y}) /\ (U \ {y}) \in SUBSET S /\ U \ {y} # U
      BY <2>3, FS_Subset
    <2>6. ASSUME NEW y \in U, NEW z \in U \ {y}
          PROVE  Total(f, U \ {y}) = f[z] + Total(f, (U \ {y}) \ {z})
      <3>1. U \ {y} \in FiniteSubsetsOf(S) /\ U \ {y} \subseteq U /\ U \ {y} # U
        BY <2>5 DEF FiniteSubsetsOf
      <3>2. U \ {y} \notin D
        BY <2>1, <3>1
      <3> QED
        BY <3>1, <3>2
    <2>7. Total(f, U) = f[a] + Total(f, U \ {a})
      BY <2>3, <2>4, TotalStep
    <2>8. x # a
      BY <2>2, <2>7
    <2>9. /\ Total(f, U \ {a}) = f[x] + Total(f, (U \ {a}) \ {x})
          /\ Total(f, U \ {x}) = f[a] + Total(f, (U \ {x}) \ {a})
      BY <2>6, <2>8
    <2>10. (U \ {a}) \ {x} = (U \ {x}) \ {a}
      OBVIOUS
    <2>11. Total(f, (U \ {x}) \ {a}) \in Nat
      <3>1. IsFiniteSet((U \ {x}) \ {a}) /\ \A y \in (U \ {x}) \ {a} : f[y] \in Nat
        BY <2>3, <2>5, FS_Subset
      <3> QED
        BY <3>1, TotalNat
    <2>12. f[a] \in Nat /\ f[x] \in Nat
      BY <2>3
    <2> QED
      BY <2>2, <2>7, <2>9, <2>10, <2>11, <2>12
  <1>2. S \in FiniteSubsetsOf(S)
    BY DEF FiniteSubsetsOf
  <1> QED
    BY <1>1, <1>2

LEMMA TotalBump ==
  ASSUME NEW f, NEW g, NEW S, IsFiniteSet(S), \A x \in S : f[x] \in Nat, NEW e \in S,
         g[e] = f[e] + 1, \A x \in S \ {e} : g[x] = f[x]
  PROVE  Total(g, S) = Total(f, S) + 1
  <1>1. IsFiniteSet(S \ {e}) /\ \A x \in S : g[x] \in Nat
    BY FS_Subset
  <1>2. Total(f, S) = f[e] + Total(f, S \ {e})
    BY TotalWithout
  <1>3. Total(g, S) = g[e] + Total(g, S \ {e})
    BY <1>1, TotalWithout
  <1>4. Total(f, S \ {e}) = Total(g, S \ {e})
    BY <1>1, TotalSame
  <1>5. Total(f, S \ {e}) \in Nat /\ f[e] \in Nat
    BY <1>1, TotalNat
  <1> QED
    BY <1>2, <1>3, <1>4, <1>5

LEMMA TotalWithZeros ==
  ASSUME NEW f, NEW S, IsFiniteSet(S), \A x \in S : f[x] \in Nat,
         NEW good \in SUBSET S, \A x \in S \ good : f[x] = 0
  PROVE  Total(f, good) = Total(f, S)
  <1> DEFINE D == {U \in FiniteSubsetsOf(S) : good \subseteq U /\ Total(f, U) # Total(f, good)}
  <1>1. ASSUME D # {} PROVE FALSE
    <2>1. PICK U \in D : \A V \in D : V \subseteq U => V = U
      <3>1. D \in SUBSET FiniteSubsetsOf(S)
        OBVIOUS
      <3> HIDE DEF D
      <3> QED
        BY <1>1, <3>1, Smallest
    <2>2. U \in SUBSET S /\ IsFiniteSet(U) /\ good \subseteq U /\ Total(f, U) # Total(f, good)
      BY DEF FiniteSubsetsOf
    <2>3. PICK x \in U : x \notin good
      BY <2>2
    <2>4. /\ U \ {x} \in FiniteSubsetsOf(S) /\ U \ {x} \subseteq U /\ U \ {x} # U /\ good \subseteq U \ {x}
          /\ IsFiniteSet(U \ {x})
      BY <2>2, <2>3, FS_Subset DEF FiniteSubsetsOf
    <2>5. Total(f, U \ {x}) = Total(f, good)
      BY <2>1, <2>4
    <2>6. Total(f, U) = f[x] + Total(f, U \ {x})
      BY <2>2, TotalWithout
    <2>7. Total(f, U \ {x}) \in Nat
      BY <2>2, <2>4, TotalNat
    <2>8. f[x] = 0
      BY <2>2, <2>3
    <2> QED
      BY <2>2, <2>5, <2>6, <2>7, <2>8
  <1>2. S \in FiniteSubsetsOf(S)
    BY DEF FiniteSubsetsOf
  <1> QED
    BY <1>1, <1>2

LEMMA EdgesTotal ==
  ASSUME NEW n, NEW slots
  PROVE  EdgeVisits(n, slots) = Total([i \in slots |-> heap[n].children[i].edgeVisits], slots)
  BY DEF EdgeVisits, Total, MapThenSumSet, MapThenFoldSet

-----------------------------------------------------------------------------
(* Nodes and heaps *)

Heaps == [Nodes -> {Free} \cup SearchNodes]

(* What never changes of a node, and what only grows. *)
SameNode(x, y) ==
  /\ y.live = x.live
  /\ x.live => /\ y.key = x.key /\ y.pos = x.pos /\ y.state = x.state
               /\ Len(y.children) = Len(x.children)
               /\ \A i \in DOMAIN x.children : /\ y.children[i].move = x.children[i].move
                                               /\ y.children[i].node = x.children[i].node
SameTree(h, g) == \A n \in Nodes : SameNode(h[n], g[n])

LEMMA LiveNode ==
  ASSUME NEW h \in Heaps, NEW n \in Nodes, h[n].live
  PROVE  h[n] \in SearchNodes
  BY DEF Heaps, Free

LEMMA ElementIn ==
  ASSUME NEW S, NEW c \in Seq(S), NEW i \in DOMAIN c
  PROVE  c[i] \in S
  OBVIOUS

LEMMA NodeFields ==
  ASSUME NEW x \in SearchNodes
  PROVE  /\ x.live = TRUE /\ x.key \in Keys /\ x.pos \in Positions /\ x.nnOutput \in BOOLEAN
         /\ x.state \in UNEVALUATED .. EXPANDED2 /\ x.state \in Int
         /\ x.children \in Seq([move : AllMoves, node : Nodes, edgeVisits : Nat])
         /\ Len(x.children) \in Nat /\ DOMAIN x.children = 1 .. Len(x.children)
         /\ x.visits \in Nat /\ x.weight \in Nat /\ x.virtualLosses \in Int /\ x.dirtyCounter \in Int
  <1>1. /\ x.live = TRUE /\ x.key \in Keys /\ x.pos \in Positions /\ x.nnOutput \in BOOLEAN
        /\ x.state \in UNEVALUATED .. EXPANDED2
        /\ x.children \in Seq([move : AllMoves, node : Nodes, edgeVisits : Nat])
        /\ x.visits \in Nat /\ x.weight \in Nat /\ x.virtualLosses \in Int /\ x.dirtyCounter \in Int
    BY DEF SearchNodes
  <1>2. x.state \in Int
    BY <1>1 DEF UNEVALUATED, EXPANDED2
  <1> QED
    BY <1>1, <1>2

LEMMA ReplaceNode ==
  ASSUME NEW h \in Heaps, NEW n \in Nodes, NEW r \in SearchNodes, SameNode(h[n], r)
  PROVE  [h EXCEPT ![n] = r] \in Heaps /\ SameTree(h, [h EXCEPT ![n] = r])
  <1>1. [h EXCEPT ![n] = r] \in Heaps
    BY DEF Heaps
  <1>2. ASSUME NEW m \in Nodes PROVE SameNode(h[m], [h EXCEPT ![n] = r][m])
    BY DEF Heaps, SameNode
  <1> QED
    BY <1>1, <1>2 DEF SameTree

Slot == [move : AllMoves, node : Nodes, edgeVisits : Nat]

LEMMA CountOnEdge ==
  ASSUME NEW x \in SearchNodes, NEW i \in DOMAIN x.children
  PROVE  LET y == [x EXCEPT !.children[i].edgeVisits = @ + 1]
         IN  y \in SearchNodes /\ SameNode(x, y)
  <1> DEFINE c == x.children
             s == [c[i] EXCEPT !.edgeVisits = @ + 1]
             d == [c EXCEPT ![i] = s]
             y == [x EXCEPT !.children = d]
  <1>1. c \in Seq(Slot) /\ i \in 1 .. Len(c) /\ Len(c) \in Nat
    BY DEF SearchNodes, Slot
  <1>2. c[i] \in Slot
    BY <1>1
  <1>3. s \in Slot /\ s.move = c[i].move /\ s.node = c[i].node
    BY <1>2 DEF Slot
  <1>4. d \in Seq(Slot) /\ Len(d) = Len(c)
    BY <1>1, <1>3
  <1>5. \A k \in 1 .. Len(c) : d[k].move = c[k].move /\ d[k].node = c[k].node
    BY <1>1, <1>3
  <1>6. y \in SearchNodes /\ y.children = d
    <2> HIDE DEF d
    <2> QED
      BY <1>4 DEF SearchNodes, Slot
  <1>7. SameNode(x, y)
    <2>1. y.live = x.live /\ y.key = x.key /\ y.pos = x.pos /\ y.state = x.state
      BY DEF SearchNodes
    <2> HIDE DEF d, y
    <2> QED
      BY <1>1, <1>4, <1>5, <1>6, <2>1 DEF SameNode
  <1> QED
    BY <1>6, <1>7

(* A set of numbers that is not empty has a least one: of its initial      *)
(* segments, which are finite, one has no other inside it.                 *)
LEMMA MinIn ==
  ASSUME NEW S, S \subseteq Nat, S # {}
  PROVE  Min(S) \in S
  <1> DEFINE segments == {S \cap 0 .. n : n \in S}
  <1>1. segments \subseteq FiniteSubsetsOf(Nat) /\ segments # {}
    <2>1. ASSUME NEW n \in S PROVE S \cap 0 .. n \in FiniteSubsetsOf(Nat)
      <3>1. IsFiniteSet(0 .. n) /\ S \cap 0 .. n \in SUBSET (0 .. n)
        BY FS_Interval
      <3>2. IsFiniteSet(S \cap 0 .. n)
        BY <3>1, FS_Subset
      <3> QED
        BY <3>2 DEF FiniteSubsetsOf
    <2> QED
      BY <2>1
  <1>2. PICK segment \in segments :
          \A other \in segments : <<other, segment>> \notin StrictSubsetOrdering(Nat)
    <2> HIDE DEF segments
    <2> QED
      BY <1>1, FS_StrictSubsetOrderingWellFounded, WFMin
  <1>3. PICK x \in S : segment = S \cap 0 .. x
    OBVIOUS
  <1>4. ASSUME NEW y \in S, y < x PROVE FALSE
    <2>1. /\ S \cap 0 .. y \in segments /\ S \cap 0 .. y \subseteq segment
          /\ x \in segment /\ x \notin S \cap 0 .. y
      BY <1>3, <1>4
    <2>2. <<S \cap 0 .. y, segment>> \in (SUBSET Nat) \X (SUBSET Nat)
      BY <1>3
    <2>3. <<S \cap 0 .. y, segment>> \in StrictSubsetOrdering(Nat)
      BY <2>1, <2>2 DEF StrictSubsetOrdering
    <2> QED
      BY <1>2, <2>1, <2>3
  <1>5. \A y \in S : x <= y
    BY <1>4
  <1> QED
    BY <1>5 DEF Min

LEMMA RoomForNode ==
  ASSUME HeapHasRoom
  PROVE  Address \in Nodes /\ Address \notin Live
  <1>1. Nodes \ Live \subseteq Nat /\ Nodes \ Live # {}
    BY BoundAssumption DEF HeapHasRoom, Live, Nodes
  <1>2. Address \in Nodes \ Live
    BY <1>1, MinIn DEF Address
  <1> QED
    BY <1>2

LEMMA VisitsStep ==
  ASSUME NEW h \in Heaps, NEW n \in Nodes, h[n].live, NEW v \in Nat
  PROVE  [h EXCEPT ![n].visits = v] \in Heaps /\ SameTree(h, [h EXCEPT ![n].visits = v])
  <1>1. h[n] \in SearchNodes
    BY LiveNode
  <1>2. [h[n] EXCEPT !.visits = v] \in SearchNodes /\ SameNode(h[n], [h[n] EXCEPT !.visits = v])
    BY <1>1 DEF SearchNodes, SameNode
  <1> QED
    BY <1>2, ReplaceNode

LEMMA WeightStep ==
  ASSUME NEW h \in Heaps, NEW n \in Nodes, h[n].live, NEW v \in Nat
  PROVE  [h EXCEPT ![n].weight = v] \in Heaps /\ SameTree(h, [h EXCEPT ![n].weight = v])
  <1>1. h[n] \in SearchNodes
    BY LiveNode
  <1>2. [h[n] EXCEPT !.weight = v] \in SearchNodes /\ SameNode(h[n], [h[n] EXCEPT !.weight = v])
    BY <1>1 DEF SearchNodes, SameNode
  <1> QED
    BY <1>2, ReplaceNode

LEMMA LossStep ==
  ASSUME NEW h \in Heaps, NEW n \in Nodes, h[n].live, NEW v \in Int
  PROVE  [h EXCEPT ![n].virtualLosses = v] \in Heaps /\ SameTree(h, [h EXCEPT ![n].virtualLosses = v])
  <1>1. h[n] \in SearchNodes
    BY LiveNode
  <1>2. [h[n] EXCEPT !.virtualLosses = v] \in SearchNodes /\ SameNode(h[n], [h[n] EXCEPT !.virtualLosses = v])
    BY <1>1 DEF SearchNodes, SameNode
  <1> QED
    BY <1>2, ReplaceNode

LEMMA DirtyStep ==
  ASSUME NEW h \in Heaps, NEW n \in Nodes, h[n].live, NEW v \in Int
  PROVE  [h EXCEPT ![n].dirtyCounter = v] \in Heaps /\ SameTree(h, [h EXCEPT ![n].dirtyCounter = v])
  <1>1. h[n] \in SearchNodes
    BY LiveNode
  <1>2. [h[n] EXCEPT !.dirtyCounter = v] \in SearchNodes /\ SameNode(h[n], [h[n] EXCEPT !.dirtyCounter = v])
    BY <1>1 DEF SearchNodes, SameNode
  <1> QED
    BY <1>2, ReplaceNode

LEMMA OutputStep ==
  ASSUME NEW h \in Heaps, NEW n \in Nodes, h[n].live
  PROVE  [h EXCEPT ![n].nnOutput = TRUE] \in Heaps /\ SameTree(h, [h EXCEPT ![n].nnOutput = TRUE])
  <1>1. h[n] \in SearchNodes
    BY LiveNode
  <1>2. [h[n] EXCEPT !.nnOutput = TRUE] \in SearchNodes /\ SameNode(h[n], [h[n] EXCEPT !.nnOutput = TRUE])
    BY <1>1 DEF SearchNodes, SameNode
  <1> QED
    BY <1>2, ReplaceNode

LEMMA EdgeStep ==
  ASSUME NEW h \in Heaps, NEW n \in Nodes, h[n].live, NEW i \in DOMAIN h[n].children
  PROVE  LET g == [h EXCEPT ![n].children[i].edgeVisits = @ + 1] IN g \in Heaps /\ SameTree(h, g)
  <1>1. h[n] \in SearchNodes
    BY LiveNode
  <1> QED
    BY <1>1, CountOnEdge, ReplaceNode

LEMMA SameTreeAgain ==
  ASSUME NEW h, NEW g, NEW f, SameTree(h, g), SameTree(g, f)
  PROVE  SameTree(h, f)
  BY DEF SameTree, SameNode

(* The tree as other threads see it while one thread takes a step. *)
GrownNode(x, y) ==
  x.live => /\ y.live /\ y.key = x.key /\ y.pos = x.pos /\ x.state <= y.state
            /\ Len(x.children) <= Len(y.children)
            /\ \A i \in DOMAIN x.children : /\ y.children[i].move = x.children[i].move
                                            /\ y.children[i].node = x.children[i].node
GrownTree(h, g) == \A n \in Nodes : GrownNode(h[n], g[n])

LEMMA SameIsGrown ==
  ASSUME NEW h \in Heaps, NEW g \in Heaps, SameTree(h, g)
  PROVE  GrownTree(h, g)
  <1> SUFFICES ASSUME NEW n \in Nodes, h[n].live PROVE GrownNode(h[n], g[n])
    BY DEF GrownTree, GrownNode
  <1>1. h[n] \in SearchNodes
    BY LiveNode
  <1>2. h[n].state \in Int /\ Len(h[n].children) \in Nat
    BY <1>1, NodeFields
  <1> QED
    BY <1>2 DEF SameTree, SameNode, GrownNode

LEMMA CapacityGrows ==
  ASSUME NEW s \in UNEVALUATED .. EXPANDED2, NEW r \in UNEVALUATED .. EXPANDED2, s <= r
  PROVE  /\ getChildrenCapacity(s) \in Nat
         /\ getChildrenCapacity(s) <= getChildrenCapacity(r)
         /\ s >= EXPANDED0 => getChildrenCapacity(s) >= 1
  BY SizeAssumption DEF getChildrenCapacity, UNEVALUATED, EXPANDED0, EXPANDED1, EXPANDED2


-----------------------------------------------------------------------------
(* What a thread relies on holds while others grow the tree *)

NodeTypes(h) ==
  \A n \in Nodes : h[n].live =>
    /\ h[n].state \in UNEVALUATED .. EXPANDED2 /\ h[n].pos \in Positions
    /\ Len(h[n].children) \in Nat /\ DOMAIN h[n].children = 1 .. Len(h[n].children)

LEMMA HeapTypes ==
  ASSUME NEW h \in Heaps
  PROVE  NodeTypes(h)
  BY LiveNode, NodeFields DEF NodeTypes

LEMMA ThreadFields ==
  ASSUME TypeOK, NEW t \in Threads
  PROVE  /\ thread[t].numPlayouts \in Nat /\ thread[t].node \in Nodes \cup {NoNode}
         /\ thread[t].path \in Seq([node : Nodes, idx : Nat, count : BOOLEAN])
         /\ thread[t].state \in UNEVALUATED .. EXPANDED2 /\ thread[t].state \in Int
         /\ thread[t].idx \in Nat /\ thread[t].move \in AllMoves \cup {"none"}
         /\ thread[t].child \in Nodes \cup {NoNode} /\ thread[t].countEdgeVisit \in BOOLEAN
         /\ thread[t].shouldCount \in BOOLEAN /\ thread[t].completed \in Nat /\ thread[t].edges \in Nat
  <1>1. thread[t] \in Playouts
    BY DEF TypeOK
  <1>2. thread[t].state \in UNEVALUATED .. EXPANDED2
    BY <1>1 DEF Playouts
  <1>3. thread[t].state \in Int
    BY <1>2 DEF UNEVALUATED, EXPANDED2
  <1> QED
    BY <1>1, <1>2, <1>3, SMTT(30) DEF Playouts

LEMMA PathKeeps ==
  ASSUME TypeOK, heap' \in Heaps, GrownTree(heap, heap'), root' = root,
         NEW t \in Threads, thread'[t].node = thread[t].node,
         thread'[t].path = thread[t].path, PathInv(t)
  PROVE  PathInv(t)'
  <1> USE DEF Live
  <1>1. NodeTypes(heap) /\ NodeTypes(heap')
    BY HeapTypes DEF TypeOK, Heaps
  <1>2. thread[t].node \in Live'
    BY SMTT(30) DEF PathInv, GrownTree, GrownNode
  <1>3. ASSUME NEW i \in DOMAIN thread[t].path
        PROVE  LET frame == thread[t].path[i] IN
               /\ frame.node \in Live' /\ frame.idx \in Slots(frame.node)'
               /\ heap'[frame.node].children[frame.idx].node = NodeAfter(t, i)
               /\ i = 1 => frame.node = root
    <2> DEFINE frame == thread[t].path[i]
    <2>1. /\ frame.node \in Nodes /\ heap[frame.node].live
          /\ frame.idx \in DOMAIN heap[frame.node].children
          /\ heap[frame.node].children[frame.idx].node = NodeAfter(t, i)
          /\ i = 1 => frame.node = root
      BY DEF PathInv, Slots, Children
    <2> HIDE DEF frame
    <2>2. GrownNode(heap[frame.node], heap'[frame.node])
      BY <2>1 DEF GrownTree
    <2>3. frame.idx \in DOMAIN heap'[frame.node].children
      BY <1>1, <2>1, <2>2 DEF GrownNode, NodeTypes
    <2>4. heap'[frame.node].live /\ heap'[frame.node].children[frame.idx].node = NodeAfter(t, i)
      BY <2>1, <2>2, SMTT(30) DEF GrownNode
    <2> QED
      BY <2>1, <2>3, <2>4, Zenon DEF Slots, frame
  <1>4. thread[t].path = <<>> => thread[t].node = root
    BY DEF PathInv
  <1>5. \A i \in DOMAIN thread[t].path : NodeAfter(t, i)' = NodeAfter(t, i)
    BY DEF NodeAfter
  <1>6. thread'[t].path = <<>> => thread'[t].node = root'
    BY <1>4
  <1>7. ASSUME NEW i \in DOMAIN thread'[t].path
        PROVE  /\ thread'[t].path[i].node \in Live'
               /\ thread'[t].path[i].idx \in DOMAIN heap'[thread'[t].path[i].node].children
               /\ heap'[thread'[t].path[i].node].children[thread'[t].path[i].idx].node = NodeAfter(t, i)'
               /\ i = 1 => thread'[t].path[i].node = root'
    BY <1>3, <1>5, <1>7 DEF Slots
  <1>8. thread'[t].node \in Live'
    BY <1>2
  <1> QED
    BY <1>6, <1>7, <1>8 DEF PathInv, Children, Slots

LEMMA StateKeeps ==
  ASSUME TypeOK, heap' \in Heaps, GrownTree(heap, heap'), root' = root, rootPos' = rootPos,
         NEW t \in Threads, thread'[t] = thread[t], thread[t].node \in Live, StateInv(t),
         t \in Owners => heap'[thread[t].node].state = heap[thread[t].node].state
  PROVE  StateInv(t)'
  <1>0. PICK n \in Nodes : n = thread[t].node
    BY DEF Live
  <1>1. heap[n].live /\ NodeTypes(heap) /\ NodeTypes(heap') /\ GrownNode(heap[n], heap'[n])
    BY <1>0, HeapTypes DEF TypeOK, Heaps, Live, GrownTree
  <1>2. /\ heap[n].state \in UNEVALUATED .. EXPANDED2 /\ heap'[n].state \in UNEVALUATED .. EXPANDED2
        /\ heap[n].state <= heap'[n].state /\ heap'[n].pos = heap[n].pos
        /\ Len(heap[n].children) \in Nat /\ Len(heap'[n].children) \in Nat
        /\ Len(heap[n].children) <= Len(heap'[n].children)
        /\ \A i \in 1 .. Len(heap[n].children) : heap'[n].children[i].move = heap[n].children[i].move
    BY <1>1 DEF NodeTypes, GrownNode
  <1>3. thread[t].state \in Int /\ thread[t].idx \in Nat
    BY ThreadFields
  <1>4. getChildrenCapacity(heap[n].state) <= getChildrenCapacity(heap'[n].state)
        /\ getChildrenCapacity(heap[n].state) \in Nat /\ getChildrenCapacity(heap'[n].state) \in Nat
    BY <1>2, CapacityGrows
  <1>5. ASSUME thread[t].at \in Choosing PROVE ChoiceInv(t)'
    <2>1. ChoiceInv(t)
      BY <1>5 DEF StateInv
    <2>2. MovesOf(n)' = MovesOf(n)
      BY <1>2 DEF MovesOf
    <2>3. thread[t].idx \in 1 .. Len(heap'[n].children) + 1
      <3>1. thread[t].idx \in 1 .. Len(heap[n].children) + 1
        BY <1>0, <2>1 DEF ChoiceInv, Here
      <3> QED
        BY <1>2, <1>3, <3>1, SMTT(30)
    <2>4. \A i \in 1 .. thread[t].idx - 1 : heap'[n].children[i].move # thread[t].move
      BY <1>0, <1>2, <1>3, <2>1 DEF ChoiceInv, Here
    <2>5. IF thread[t].at \in {"full", "grow"}
          THEN thread[t].idx = getChildrenCapacity(thread[t].state) + 1
          ELSE thread[t].idx <= getChildrenCapacity(heap'[n].state)
      BY <1>0, <1>3, <1>4, <2>1 DEF ChoiceInv, Here
    <2> QED
      BY <1>0, <2>1, <2>2, <2>3, <2>4, <2>5 DEF ChoiceInv, Here
  <1>6. thread[t].at \in Choosing \cup {"select"} => EXPANDED0 <= thread[t].state /\ thread[t].state <= heap'[n].state
    BY <1>0, <1>2, <1>3, SMTT(30) DEF StateInv, Here, EXPANDED0, UNEVALUATED, EXPANDED2
  <1>7. /\ thread[t].at = "grow" => thread[t].state \in {GROWING1, GROWING2} /\ heap'[n].state = thread[t].state
        /\ thread[t].at = "initialize" => heap'[n].state = EVALUATING
    BY <1>0 DEF StateInv, Here, Owners
  <1> QED
    BY <1>0, <1>5, <1>6, <1>7 DEF StateInv, Here

LEMMA ChildKeeps ==
  ASSUME TypeOK, heap' \in Heaps, GrownTree(heap, heap'),
         NEW t \in Threads, thread'[t] = thread[t], thread[t].node \in Live, ChildInv(t)
  PROVE  ChildInv(t)'
  <1> DEFINE n == thread[t].node
             c == thread[t].child
  <1>1. n \in Nodes /\ heap[n].live /\ NodeTypes(heap) /\ NodeTypes(heap') /\ GrownNode(heap[n], heap'[n])
    BY HeapTypes DEF TypeOK, Heaps, Live, GrownTree
  <1>2. ASSUME InTable(c) PROVE InTable(c)' /\ heap'[c].pos = heap[c].pos
    BY <1>2, SMTT(30) DEF InTable, Live, GrownTree, GrownNode
  <1>3. heap'[n].pos = heap[n].pos
    BY <1>1, SMTT(30) DEF GrownNode
  <1>4. ASSUME thread[t].idx \in Slots(n)
        PROVE  thread[t].idx \in Slots(n)' /\ heap'[n].children[thread[t].idx].node = heap[n].children[thread[t].idx].node
    BY <1>1, <1>4, SMTT(30) DEF Slots, NodeTypes, GrownNode
  <1> QED
    BY <1>2, <1>3, <1>4 DEF ChildInv, Here


-----------------------------------------------------------------------------
(* What holds of the tree, wherever the threads are *)

StaticInv == RootInv /\ TableInv /\ OneNodePerPosition /\ ChildrenFollowMoves /\ ChildrenInTable

(* Steps that add no node and no child. *)
QuietTree(h, g) ==
  /\ GrownTree(h, g)
  /\ \A n \in Nodes : g[n].live = h[n].live /\ (h[n].live => Len(g[n].children) = Len(h[n].children))

LEMMA SameIsQuiet ==
  ASSUME NEW h \in Heaps, NEW g \in Heaps, SameTree(h, g)
  PROVE  QuietTree(h, g)
  BY SameIsGrown DEF QuietTree, SameTree, SameNode

LEMMA ChildrenQuiet ==
  ASSUME TypeOK, heap' \in Heaps, QuietTree(heap, heap'), ChildrenFollowMoves, ChildrenInTable
  PROVE  ChildrenFollowMoves' /\ ChildrenInTable'
  <1>1. NodeTypes(heap) /\ NodeTypes(heap')
    BY HeapTypes DEF TypeOK, Heaps
  <1>2. ASSUME NEW n \in Nodes, heap[n].live
        PROVE  /\ heap'[n].pos = heap[n].pos
               /\ Len(heap'[n].children) = Len(heap[n].children)
               /\ DOMAIN heap'[n].children = DOMAIN heap[n].children
               /\ getChildrenCapacity(heap[n].state) <= getChildrenCapacity(heap'[n].state)
               /\ getChildrenCapacity(heap[n].state) \in Nat /\ getChildrenCapacity(heap'[n].state) \in Nat
               /\ Len(heap[n].children) \in Nat
    <2>1. heap'[n].live
      BY <1>2 DEF QuietTree
    <2>2. /\ heap[n].state \in UNEVALUATED .. EXPANDED2 /\ heap'[n].state \in UNEVALUATED .. EXPANDED2
          /\ heap[n].state <= heap'[n].state
      BY <1>1, <1>2, <2>1 DEF NodeTypes, QuietTree, GrownTree, GrownNode
    <2> QED
      BY <1>1, <1>2, <2>1, <2>2, CapacityGrows DEF NodeTypes, QuietTree, GrownTree, GrownNode
  <1>3. ASSUME NEW n \in Live', NEW i \in DOMAIN heap'[n].children
        PROVE  /\ n \in Live /\ i \in DOMAIN heap[n].children /\ heap[n].children[i].node \in Live
               /\ heap'[n].children[i].move = heap[n].children[i].move
               /\ heap'[n].children[i].node = heap[n].children[i].node
    <2>1. n \in Live
      BY DEF QuietTree, Live
    <2>2. i \in DOMAIN heap[n].children
      BY <1>2, <2>1 DEF Live
    <2>3. heap[n].children[i].node \in Nodes
      <3>1. heap[n].children \in Seq([move : AllMoves, node : Nodes, edgeVisits : Nat])
        BY <2>1, LiveNode, NodeFields DEF TypeOK, Heaps, Live
      <3>2. heap[n].children[i] \in [move : AllMoves, node : Nodes, edgeVisits : Nat]
        BY <2>2, <3>1, ElementIn
      <3> QED
        BY <3>2
    <2> QED
      BY <2>1, <2>2, <2>3 DEF ChildrenFollowMoves, QuietTree, GrownTree, GrownNode, Live
  <1>4. \A n \in Live : heap'[n].pos = heap[n].pos /\ heap'[n].key = heap[n].key /\ heap'[n].live
    BY DEF QuietTree, GrownTree, GrownNode, Live
  <1>5. ChildrenInTable'
    BY <1>3, <1>4 DEF ChildrenInTable, Children
  <1>6. ASSUME NEW n \in Live'
        PROVE  Len(heap'[n].children) <= getChildrenCapacity(heap'[n].state)
    <2>1. n \in Nodes /\ heap[n].live
      BY DEF QuietTree, Live
    <2>2. Len(heap[n].children) <= getChildrenCapacity(heap[n].state)
      BY <2>1 DEF ChildrenFollowMoves, Live
    <2> QED
      BY <1>2, <2>1, <2>2
  <1>7. ASSUME NEW n \in Live', NEW i \in DOMAIN heap'[n].children
        PROVE  /\ heap'[heap'[n].children[i].node].live
               /\ heap'[heap'[n].children[i].node].pos = Play[heap'[n].pos][heap'[n].children[i].move]
               /\ \A j \in DOMAIN heap'[n].children \ {i} : heap'[n].children[i].move # heap'[n].children[j].move
    <2>1. n \in Live /\ i \in DOMAIN heap[n].children /\ heap[n].children[i].node \in Live
      BY <1>3
    <2>2. /\ heap[heap[n].children[i].node].pos = Play[heap[n].pos][heap[n].children[i].move]
          /\ \A j \in DOMAIN heap[n].children \ {i} : heap[n].children[i].move # heap[n].children[j].move
      BY <2>1 DEF ChildrenFollowMoves
    <2> QED
      BY <1>3, <1>4, <2>1, <2>2, SMTT(30)
  <1> QED
    BY <1>5, <1>6, <1>7 DEF ChildrenFollowMoves

LEMMA StaticQuiet ==
  ASSUME TypeOK, heap' \in Heaps, QuietTree(heap, heap'), UNCHANGED <<root, oldRoot, rootPos>>, StaticInv
  PROVE  StaticInv'
  <1>1. \A n \in Live : heap'[n].pos = heap[n].pos /\ heap'[n].key = heap[n].key
    BY DEF QuietTree, GrownTree, GrownNode, Live
  <1>2. Live' = Live
    BY DEF QuietTree, Live
  <1>3. RootInv'
    <2>1. {root, oldRoot} \ {NoNode} \subseteq Nodes
      BY DEF TypeOK
    <2> QED
      BY <1>1, <1>2, <2>1 DEF StaticInv, RootInv, Live
  <1>4. TableInv' /\ OneNodePerPosition'
    BY <1>1, <1>2 DEF StaticInv, TableInv, OneNodePerPosition
  <1> QED
    BY <1>3, <1>4, ChildrenQuiet DEF StaticInv

(* One thread's step, as far as the others are concerned. *)
LEMMA SearchKeeps ==
  ASSUME TypeOK, TreeInv, phase = "search", NEW t \in Threads,
         NEW s \in Playouts, s.at \in Places \ {"idle"}, thread' = [thread EXCEPT ![t] = s],
         UNCHANGED <<userVars, markVars>>, playouts' \in Nat, shouldStopNow' \in BOOLEAN,
         heap' \in Heaps, GrownTree(heap, heap'), StaticInv',
         \A u \in Owners \ {t} : heap'[thread[u].node].state = heap[thread[u].node].state,
         IF OnTree(t)' THEN PathInv(t)' /\ StateInv(t)' /\ ChildInv(t)' ELSE s.path = <<>>,
         t \in Owners' => \A u \in Owners \ {t} : thread[u].node # s.node
  PROVE  TypeOK' /\ TreeInv'
  <1>1. thread' \in [Threads -> Playouts] /\ thread'[t] = s /\ \A u \in Threads \ {t} : thread'[u] = thread[u]
    BY DEF TypeOK
  <1>2. TypeOK'
    BY <1>1 DEF TypeOK, userVars, markVars, Heaps
  <1>3. PhaseInv'
    BY <1>1 DEF TreeInv, PhaseInv, userVars, markVars
  <1>4. WalkInv'
    <2>1. phase' = "search"
      BY DEF userVars
    <2> QED
      BY <1>3, <2>1 DEF PhaseInv, WalkInv
  <1>5. ASSUME NEW u \in Threads
        PROVE  IF OnTree(u)' THEN PathInv(u)' /\ StateInv(u)' /\ ChildInv(u)' ELSE thread'[u].path = <<>>
    <2>1. CASE u = t
      BY <1>1, <2>1
    <2>2. CASE u # t /\ OnTree(u)
      <3>1. thread'[u] = thread[u]
        BY <1>1, <2>2
      <3>2. OnTree(u)'
        BY <2>2, <3>1 DEF OnTree
      <3>3. PathInv(u) /\ StateInv(u) /\ ChildInv(u)
        BY <2>2 DEF TreeInv, ThreadInv
      <3>4. thread[u].node \in Live
        BY <3>3 DEF PathInv
      <3>5. u \in Owners => heap'[thread[u].node].state = heap[thread[u].node].state
        BY <2>2
      <3> QED
        BY <3>1, <3>2, <3>3, <3>4, <3>5, PathKeeps, StateKeeps, ChildKeeps DEF userVars
    <2>3. CASE u # t /\ ~OnTree(u)
      <3>1. thread'[u] = thread[u]
        BY <1>1, <2>3
      <3>2. thread[u].path = <<>>
        BY <2>3 DEF TreeInv, ThreadInv
      <3> QED
        BY <2>3, <3>1, <3>2 DEF OnTree
    <2> QED
      BY <2>1, <2>2, <2>3
  <1>6. OwnersInv'
    <2>1. Owners' \ {t} = Owners \ {t}
      BY <1>1 DEF Owners
    <2>2. \A u, v \in Owners : thread[u].node = thread[v].node => u = v
      BY DEF TreeInv, OwnersInv
    <2> QED
      BY <1>1, <2>1, <2>2 DEF OwnersInv, Owners
  <1> QED
    BY <1>2, <1>3, <1>4, <1>5, <1>6 DEF TreeInv, ThreadInv, StaticInv


(* Steps that leave the shape of the tree. *)
LEMMA SameKeeps ==
  ASSUME TypeOK, TreeInv, phase = "search", NEW t \in Threads,
         NEW s \in Playouts, s.at \in Places \ {"idle", "initialize", "grow"}, thread' = [thread EXCEPT ![t] = s],
         UNCHANGED <<userVars, markVars>>, playouts' \in Nat, shouldStopNow' \in BOOLEAN,
         heap' \in Heaps, SameTree(heap, heap'),
         IF OnTree(t)' THEN PathInv(t)' /\ StateInv(t)' /\ ChildInv(t)' ELSE s.path = <<>>
  PROVE  TypeOK' /\ TreeInv'
  <1>1. heap \in Heaps /\ thread'[t] = s
    BY DEF TypeOK, Heaps
  <1>2. QuietTree(heap, heap') /\ GrownTree(heap, heap')
    BY <1>1, SameIsQuiet, SameIsGrown
  <1>3. StaticInv'
    BY <1>2, StaticQuiet DEF TreeInv, StaticInv, userVars
  <1>4. t \notin Owners'
    BY <1>1 DEF Owners
  <1>5. ASSUME NEW u \in Owners \ {t} PROVE heap'[thread[u].node].state = heap[thread[u].node].state
    <2>1. thread[u].node \in Live
      BY DEF Owners, OnTree, OffTree, TreeInv, ThreadInv, PathInv
    <2> QED
      BY <2>1 DEF SameTree, SameNode, Live
  <1> QED
    BY <1>2, <1>3, <1>4, <1>5, SearchKeeps

LEMMA SameHeap ==
  ASSUME TypeOK
  PROVE  heap \in Heaps /\ SameTree(heap, heap)
  BY DEF TypeOK, Heaps, SameTree, SameNode

(* At these places a thread relies on its path only. *)
LEMMA EasyPlace ==
  ASSUME NEW t \in Threads, thread'[t].at \in {"visit", "evaluate", "addValue", "claim", "true", "false"}
  PROVE  OnTree(t)' /\ StateInv(t)' /\ ChildInv(t)'
  BY DEF OnTree, OffTree, StateInv, ChildInv, Choosing, Updating

LEMMA MovesTo ==
  ASSUME NEW x \in Playouts, NEW a \in Places
  PROVE  /\ [x EXCEPT !.at = a] \in Playouts /\ [x EXCEPT !.at = a].at = a
         /\ [x EXCEPT !.at = a].node = x.node /\ [x EXCEPT !.at = a].path = x.path
         /\ [x EXCEPT !.at = a].child = x.child
  BY DEF Playouts

LEMMA ThreadRecord ==
  ASSUME TypeOK, NEW t \in Threads
  PROVE  thread[t] \in Playouts
  BY DEF TypeOK

LEMMA AtNodeType ==
  ASSUME TypeOK, NEW t \in Threads, NEW a \in Places
  PROVE  /\ AtNode(t, a) \in Playouts /\ AtNode(t, a).at = a
         /\ AtNode(t, a).node = thread[t].node /\ AtNode(t, a).path = thread[t].path
  <1>1. 0 \in UNEVALUATED .. EXPANDED2
    BY DEF UNEVALUATED, EXPANDED2
  <1> DEFINE x == thread[t]
  <1>2. x \in Playouts
    BY ThreadRecord
  <1>3. /\ x.numPlayouts \in Nat /\ x.node \in Nodes \cup {NoNode}
        /\ x.path \in Seq([node : Nodes, idx : Nat, count : BOOLEAN])
    BY <1>2 DEF Playouts
  <1> HIDE DEF x
  <1>4. NoPlayout \in Playouts
    <2>1. <<>> \in Seq([node : Nodes, idx : Nat, count : BOOLEAN])
      OBVIOUS
    <2> QED
      BY <1>1, <2>1 DEF NoPlayout, Playouts, Places
  <1> DEFINE y == [NoPlayout EXCEPT !.at = a, !.numPlayouts = x.numPlayouts, !.node = x.node, !.path = x.path]
  <1>5. y \in Playouts /\ y.at = a /\ y.node = x.node /\ y.path = x.path
    <2> HIDE DEF NoPlayout
    <2> QED
      BY <1>3, <1>4 DEF Playouts
  <1> QED
    BY <1>5 DEF x, AtNode

LEMMA GivesUpType ==
  ASSUME TypeOK, NEW t \in Threads
  PROVE  /\ Returns(t) \in Playouts /\ GivesUp(t) \in Playouts
         /\ Returns(t).at = "true" /\ Returns(t).node = thread[t].node /\ Returns(t).path = thread[t].path
         /\ GivesUp(t).at = "false" /\ GivesUp(t).node = thread[t].node /\ GivesUp(t).path = thread[t].path
  <1>1. "true" \in Places /\ "false" \in Places
    BY DEF Places
  <1>2. PICK x \in Playouts : x = AtNode(t, "false")
    BY <1>1, AtNodeType
  <1>3. /\ [x EXCEPT !.shouldCount = FALSE] \in Playouts /\ [x EXCEPT !.shouldCount = FALSE].at = x.at
        /\ [x EXCEPT !.shouldCount = FALSE].node = x.node /\ [x EXCEPT !.shouldCount = FALSE].path = x.path
    BY DEF Playouts
  <1> QED
    BY <1>1, <1>2, <1>3, AtNodeType DEF Returns, GivesUp

(* A thread that stays at its node, at an easy place. *)
LEMMA StaysEasy ==
  ASSUME TypeOK, TreeInv, phase = "search", NEW t \in Threads, OnTree(t), NEW s \in Playouts,
         s.at \in {"visit", "evaluate", "addValue", "claim", "true", "false"},
         s.node = thread[t].node, s.path = thread[t].path, thread' = [thread EXCEPT ![t] = s],
         OnlyTree, heap' \in Heaps, SameTree(heap, heap')
  PROVE  TypeOK' /\ TreeInv'
  <1>1. thread'[t] = s
    BY DEF TypeOK
  <1>2. PathInv(t)
    BY DEF TreeInv, ThreadInv
  <1>3. PathInv(t)'
    BY <1>1, <1>2, PathKeeps, SameIsGrown, SameHeap DEF OnlyTree, userVars
  <1>4. OnTree(t)' /\ StateInv(t)' /\ ChildInv(t)'
    BY <1>1, EasyPlace
  <1>5. playouts' \in Nat /\ shouldStopNow' \in BOOLEAN /\ UNCHANGED <<userVars, markVars>>
    BY DEF OnlyTree, TypeOK
  <1>6. s.at \in Places \ {"idle", "initialize", "grow"}
    BY DEF Places
  <1> QED
    BY <1>3, <1>4, <1>5, <1>6, SameKeeps

LEMMA NodeOf ==
  ASSUME TypeOK, TreeInv, NEW t \in Threads, OnTree(t)
  PROVE  /\ thread[t].node \in Nodes /\ heap[thread[t].node].live /\ Here(t) \in SearchNodes
         /\ Here(t).visits \in Nat /\ Here(t).dirtyCounter \in Int /\ Here(t).state \in Int
         /\ Here(t).state \in UNEVALUATED .. EXPANDED2 /\ heap \in Heaps
         /\ PathInv(t) /\ StateInv(t) /\ ChildInv(t)
  <1>1. PathInv(t) /\ StateInv(t) /\ ChildInv(t)
    BY DEF TreeInv, ThreadInv
  <1>2. thread[t].node \in Nodes /\ heap[thread[t].node].live /\ heap \in Heaps
    BY <1>1 DEF PathInv, Live, TypeOK, Heaps
  <1>3. Here(t) \in SearchNodes
    BY <1>2, LiveNode DEF Here
  <1> QED
    BY <1>1, <1>2, <1>3, NodeFields

LEMMA EvaluateTree ==
  ASSUME TypeOK, TreeInv, NEW t \in Threads,
         AddLeaf(t) \/ storeNNOutputIfNull(t) \/ addCurrentNNOutputAsLeafValue(t) \/ SelectNothing(t)
  PROVE  TypeOK' /\ TreeInv'
  <1>1. phase = "search" /\ OnTree(t) /\ OnlyTree
    BY DEF AddLeaf, storeNNOutputIfNull, addCurrentNNOutputAsLeafValue, SelectNothing, At, OnTree, OffTree
  <1>2. /\ thread[t].node \in Nodes /\ heap[thread[t].node].live /\ Here(t).visits \in Nat /\ heap \in Heaps
        /\ Here(t).visits + 1 \in Nat
    BY <1>1, NodeOf
  <1>3. CASE AddLeaf(t) \/ SelectNothing(t)
    <2>1. heap' = [heap EXCEPT ![thread[t].node].visits = Here(t).visits + 1] /\ thread' = [thread EXCEPT ![t] = Returns(t)]
      BY <1>3 DEF AddLeaf, SelectNothing, Become, Here
    <2>2. heap' \in Heaps /\ SameTree(heap, heap')
      BY <1>2, <2>1, VisitsStep
    <2> QED
      BY <1>1, <2>1, <2>2, GivesUpType, StaysEasy
  <1>4. CASE addCurrentNNOutputAsLeafValue(t)
    <2> DEFINE s == [thread[t] EXCEPT !.at = "claim"]
    <2>1. heap' = [heap EXCEPT ![thread[t].node].visits = Here(t).visits + 1] /\ thread' = [thread EXCEPT ![t] = s]
      BY <1>4 DEF addCurrentNNOutputAsLeafValue, Become, Here
    <2>2. heap' \in Heaps /\ SameTree(heap, heap')
      BY <1>2, <2>1, VisitsStep
    <2>3. s \in Playouts /\ s.at = "claim" /\ s.node = thread[t].node /\ s.path = thread[t].path
      <3>1. thread[t] \in Playouts /\ "claim" \in Places
        BY ThreadRecord DEF Places
      <3> QED
        BY <3>1, MovesTo
    <2> HIDE DEF s
    <2> QED
      BY <1>1, <2>1, <2>2, <2>3, StaysEasy
  <1>5. CASE storeNNOutputIfNull(t) /\ Here(t).nnOutput
    <2>1. heap' = heap /\ thread' = [thread EXCEPT ![t] = GivesUp(t)]
      BY <1>5 DEF storeNNOutputIfNull, Become
    <2> QED
      BY <1>1, <2>1, GivesUpType, SameHeap, StaysEasy
  <1>6. CASE storeNNOutputIfNull(t) /\ ~Here(t).nnOutput
    <2> DEFINE s == [thread[t] EXCEPT !.at = "addValue"]
    <2>1. heap' = [heap EXCEPT ![thread[t].node].nnOutput = TRUE] /\ thread' = [thread EXCEPT ![t] = s]
      BY <1>6 DEF storeNNOutputIfNull, Become
    <2>2. heap' \in Heaps /\ SameTree(heap, heap')
      BY <1>2, <2>1, OutputStep
    <2>3. s \in Playouts /\ s.at = "addValue" /\ s.node = thread[t].node /\ s.path = thread[t].path
      <3>1. thread[t] \in Playouts /\ "addValue" \in Places
        BY ThreadRecord DEF Places
      <3> QED
        BY <3>1, MovesTo
    <2> HIDE DEF s
    <2> QED
      BY <1>1, <2>1, <2>2, <2>3, StaysEasy
  <1> QED
    BY <1>3, <1>4, <1>5, <1>6


LEMMA EdgesNat ==
  ASSUME TypeOK, NEW n \in Live, NEW slots \in SUBSET Slots(n)
  PROVE  EdgeVisits(n, slots) \in Nat /\ IsFiniteSet(slots)
  <1>1. heap[n] \in SearchNodes
    BY LiveNode DEF TypeOK, Heaps, Live
  <1>2. /\ heap[n].children \in Seq([move : AllMoves, node : Nodes, edgeVisits : Nat])
        /\ Slots(n) = 1 .. Len(heap[n].children) /\ Len(heap[n].children) \in Nat
    BY <1>1, NodeFields DEF Slots
  <1>3. IsFiniteSet(slots)
    <2>1. IsFiniteSet(1 .. Len(heap[n].children))
      BY <1>2, FS_Interval
    <2> QED
      BY <1>2, <2>1, FS_Subset
  <1>4. ASSUME NEW i \in slots PROVE heap[n].children[i].edgeVisits \in Nat
    <2>1. heap[n].children[i] \in [move : AllMoves, node : Nodes, edgeVisits : Nat]
      BY <1>2, ElementIn DEF Slots
    <2> QED
      BY <2>1
  <1> DEFINE f == [i \in slots |-> heap[n].children[i].edgeVisits]
  <1>5. \A i \in slots : f[i] \in Nat
    BY <1>4
  <1>6. Total(f, slots) \in Nat
    <2> HIDE DEF f
    <2> QED
      BY <1>3, <1>5, TotalNat
  <1> QED
    BY <1>3, <1>6, EdgesTotal

(* A child of a node is in the table. *)
LEMMA ChildSlot ==
  ASSUME TypeOK, TreeInv, NEW n \in Live, NEW i \in Slots(n)
  PROVE  /\ heap[n].children[i].node \in Nodes /\ InTable(heap[n].children[i].node)
         /\ heap[n].children[i].move \in DOMAIN Play[heap[n].pos] /\ heap[n].pos \in Positions
         /\ heap[heap[n].children[i].node].pos = Play[heap[n].pos][heap[n].children[i].move]
  <1>1. heap[n] \in SearchNodes
    BY LiveNode DEF TypeOK, Heaps, Live
  <1>2. heap[n].children \in Seq([move : AllMoves, node : Nodes, edgeVisits : Nat]) /\ heap[n].pos \in Positions
    BY <1>1, NodeFields
  <1>3. heap[n].children[i] \in [move : AllMoves, node : Nodes, edgeVisits : Nat]
    BY <1>2, ElementIn DEF Slots
  <1>4. heap[n].children[i].node \in Nodes
    BY <1>3
  <1>5. /\ heap[heap[n].children[i].node].live
        /\ heap[heap[n].children[i].node].pos = Play[heap[n].pos][heap[n].children[i].move]
    BY DEF TreeInv, ChildrenFollowMoves, Slots
  <1>6. heap[n].children[i].move \in DOMAIN Play[heap[n].pos] /\ heap[heap[n].children[i].node].key # RootKey
    BY DEF TreeInv, ChildrenInTable, Slots, Children
  <1> QED
    BY <1>2, <1>4, <1>5, <1>6 DEF InTable, Live

LEMMA TableNode ==
  ASSUME TypeOK, NEW c, InTable(c)
  PROVE  /\ c \in Nodes /\ heap[c].live /\ heap[c] \in SearchNodes /\ heap[c].virtualLosses \in Int
         /\ heap[c].virtualLosses + 1 \in Int /\ heap[c].virtualLosses - 1 \in Int
  <1>1. c \in Nodes /\ heap[c].live /\ heap \in Heaps
    BY DEF InTable, Live, TypeOK, Heaps
  <1>2. heap[c] \in SearchNodes
    BY <1>1, LiveNode
  <1>3. heap[c].virtualLosses \in Int
    BY <1>2, NodeFields
  <1> QED
    BY <1>1, <1>2, <1>3

LEMMA InTableKeeps ==
  ASSUME GrownTree(heap, heap'), NEW c \in Nodes, InTable(c)
  PROVE  c \in Live' /\ heap'[c].key # RootKey /\ heap'[c].pos = heap[c].pos
  BY DEF InTable, Live, GrownTree, GrownNode

(* A thread that stays at its node to update it for a child. *)
LEMMA ToUpdate ==
  ASSUME TypeOK, TreeInv, phase = "search", NEW t \in Threads, NEW s \in Playouts,
         s.at \in Updating \cup {"update"}, InTable(s.child),
         thread' = [thread EXCEPT ![t] = s], OnlyTree, heap' \in Heaps, SameTree(heap, heap'), PathInv(t)'
  PROVE  TypeOK' /\ TreeInv'
  <1>1. thread'[t] = s /\ s.child \in Nodes
    BY DEF TypeOK, InTable, Live
  <1>2. InTable(s.child)'
    BY <1>1, InTableKeeps, SameIsGrown, SameHeap DEF InTable
  <1>3. OnTree(t)' /\ StateInv(t)' /\ ChildInv(t)'
    BY <1>1, <1>2 DEF OnTree, OffTree, StateInv, ChildInv, Choosing, Updating
  <1>4. playouts' \in Nat /\ shouldStopNow' \in BOOLEAN /\ UNCHANGED <<userVars, markVars>>
    BY DEF OnlyTree, TypeOK
  <1>5. s.at \in Places \ {"idle", "initialize", "grow"}
    BY DEF Places, Updating
  <1> QED
    BY <1>3, <1>4, <1>5, SameKeeps

LEMMA StaysOnPath ==
  ASSUME TypeOK, TreeInv, UNCHANGED <<root>>, NEW t \in Threads, OnTree(t), NEW s \in Playouts,
         thread' = [thread EXCEPT ![t] = s], s.node = thread[t].node, s.path = thread[t].path,
         heap' \in Heaps, GrownTree(heap, heap')
  PROVE  PathInv(t)'
  <1>1. thread'[t] = s
    BY DEF TypeOK
  <1>2. PathInv(t)
    BY DEF TreeInv, ThreadInv
  <1> QED
    BY <1>1, <1>2, PathKeeps

WithC(x, c) == [x EXCEPT !.child = c]
LEMMA WithChildType ==
  ASSUME NEW x \in Playouts, NEW c \in Nodes
  PROVE  /\ WithC(x, c) \in Playouts /\ WithC(x, c).at = x.at /\ WithC(x, c).node = x.node
         /\ WithC(x, c).path = x.path /\ WithC(x, c).child = c
  BY DEF WithC, Playouts

(* The child that an update is for. *)
LEMMA EdgeChild ==
  ASSUME TypeOK, TreeInv, NEW t \in Threads, thread[t].at = "edge"
  PROVE  /\ thread[t].child \in Nodes /\ InTable(thread[t].child)
         /\ thread[t].idx \in DOMAIN heap[thread[t].node].children
         /\ heap[thread[t].node].children[thread[t].idx].node = thread[t].child
  <1>1. OnTree(t)
    BY DEF OnTree, OffTree
  <1>2. thread[t].node \in Live
    BY <1>1, NodeOf DEF Live
  <1>3. /\ thread[t].idx \in Slots(thread[t].node)
        /\ heap[thread[t].node].children[thread[t].idx].node = thread[t].child
    BY <1>1, NodeOf DEF ChildInv, Here
  <1> QED
    BY <1>2, <1>3, ChildSlot DEF Slots

LEMMA CatchUpTree ==
  ASSUME TypeOK, TreeInv, NEW t \in Threads, maybeCatchUpEdgeVisits(t) \/ EndCycle(t)
  PROVE  TypeOK' /\ TreeInv'
  <1>1. phase = "search" /\ thread[t].at = "edge" /\ OnTree(t) /\ OnlyTree
    BY DEF maybeCatchUpEdgeVisits, EndCycle, At, OnTree, OffTree
  <1>2. thread[t].node \in Nodes /\ heap[thread[t].node].live /\ heap \in Heaps
    BY <1>1, NodeOf
  <1>3. /\ thread[t].child \in Nodes /\ InTable(thread[t].child)
        /\ thread[t].idx \in DOMAIN heap[thread[t].node].children
    BY <1>1, EdgeChild
  <1>4. CASE maybeCatchUpEdgeVisits(t) \/ (EndCycle(t) /\ thread[t].countEdgeVisit)
    <2>1. /\ heap' = [heap EXCEPT ![thread[t].node].children[thread[t].idx].edgeVisits = @ + 1]
          /\ thread' = [thread EXCEPT ![t] = WithC(AtNode(t, "update"), thread[t].child)]
      <3>1. CASE maybeCatchUpEdgeVisits(t)
        BY <3>1, ZenonT(30) DEF maybeCatchUpEdgeVisits, AddEdgeVisit, Become, WithC
      <3>2. CASE EndCycle(t) /\ thread[t].countEdgeVisit
        BY <3>2, ZenonT(30) DEF EndCycle, AddEdgeVisit, Become, WithC
      <3> QED
        BY <1>4, <3>1, <3>2
    <2>2. heap' \in Heaps /\ SameTree(heap, heap')
      BY <1>2, <1>3, <2>1, EdgeStep
    <2>3. PICK x \in Playouts : /\ x = AtNode(t, "update") /\ x.at = "update"
                                /\ x.node = thread[t].node /\ x.path = thread[t].path
      <3>1. "update" \in Places
        BY DEF Places
      <3> QED
        BY <3>1, AtNodeType
    <2>4. PICK s \in Playouts : /\ s = WithC(x, thread[t].child) /\ s.at = "update" /\ s.child = thread[t].child
                                /\ s.node = thread[t].node /\ s.path = thread[t].path
      BY <1>3, <2>3, WithChildType
    <2>5. thread' = [thread EXCEPT ![t] = s]
      BY <2>1, <2>3, <2>4
    <2>6. PathInv(t)'
      BY <1>1, <1>2, <2>2, <2>4, <2>5, StaysOnPath, SameIsGrown DEF OnlyTree, userVars
    <2> QED
      BY <1>1, <1>3, <2>2, <2>4, <2>5, <2>6, ToUpdate
  <1>5. CASE EndCycle(t) /\ ~thread[t].countEdgeVisit
    <2>1. /\ heap' = [heap EXCEPT ![thread[t].child].virtualLosses = heap[thread[t].child].virtualLosses - 1]
          /\ thread' = [thread EXCEPT ![t] = AtNode(t, "false")]
      BY <1>5 DEF EndCycle, Become
    <2>2. heap[thread[t].child].live /\ heap[thread[t].child].virtualLosses - 1 \in Int
      BY <1>3, TableNode
    <2>3. heap' \in Heaps /\ SameTree(heap, heap')
      BY <1>2, <1>3, <2>1, <2>2, LossStep
    <2>4. PICK s \in Playouts : /\ s = AtNode(t, "false") /\ s.at = "false"
                                /\ s.node = thread[t].node /\ s.path = thread[t].path
      <3>1. "false" \in Places
        BY DEF Places
      <3> QED
        BY <3>1, AtNodeType
    <2> QED
      BY <1>1, <2>1, <2>3, <2>4, StaysEasy
  <1> QED
    BY <1>4, <1>5 DEF maybeCatchUpEdgeVisits, EndCycle


LEMMA SelectChildTree ==
  ASSUME TypeOK, TreeInv, NEW t \in Threads, SelectChild(t)
  PROVE  TypeOK' /\ TreeInv'
  <1>1. phase = "search" /\ OnTree(t) /\ OnlyTree
    BY DEF SelectChild, At, OnTree, OffTree
  <1>2. thread[t].node \in Nodes /\ heap[thread[t].node].live /\ heap \in Heaps
    BY <1>1, NodeOf
  <1>3. PICK i \in Found(t), count \in CountKinds(t) :
          LET child == Here(t).children[i].node IN
          /\ heap' = [heap EXCEPT ![child].virtualLosses = @ + 1]
          /\ thread' = [thread EXCEPT ![t] = [AtNode(t, "edge") EXCEPT !.idx = i, !.child = child, !.countEdgeVisit = count]]
    BY Zenon DEF SelectChild, Become
  <1>4. PICK child : child = Here(t).children[i].node
    OBVIOUS
  <1>5. i \in Slots(thread[t].node) /\ i \in DOMAIN heap[thread[t].node].children /\ i \in Nat /\ count \in BOOLEAN
    <2>1. Len(heap[thread[t].node].children) \in Nat
          /\ DOMAIN heap[thread[t].node].children = 1 .. Len(heap[thread[t].node].children)
      BY <1>2, LiveNode, NodeFields
    <2>2. i \in DOMAIN heap[thread[t].node].children
      BY <1>3 DEF Found, Slots
    <2>3. i \in Nat
      BY <2>1, <2>2
    <2>4. CountKinds(t) \subseteq BOOLEAN
      BY DEF CountKinds
    <2> QED
      BY <1>3, <2>2, <2>3, <2>4 DEF Slots
  <1>6. child \in Nodes /\ InTable(child)
    BY <1>2, <1>4, <1>5, ChildSlot DEF Here, Live
  <1>7. heap' = [heap EXCEPT ![child].virtualLosses = heap[child].virtualLosses + 1]
    BY <1>3, <1>4
  <1>8. heap' \in Heaps /\ SameTree(heap, heap')
    BY <1>2, <1>6, <1>7, TableNode, LossStep
  <1>9. PICK x \in Playouts : /\ x = AtNode(t, "edge") /\ x.at = "edge"
                              /\ x.node = thread[t].node /\ x.path = thread[t].path
    <2>1. "edge" \in Places
      BY DEF Places
    <2> QED
      BY <2>1, AtNodeType
  <1>10. PICK s \in Playouts : /\ s = [x EXCEPT !.idx = i, !.child = child, !.countEdgeVisit = count]
                               /\ s.at = "edge" /\ s.child = child /\ s.idx = i
                               /\ s.node = thread[t].node /\ s.path = thread[t].path
    <2> DEFINE s == [x EXCEPT !.idx = i, !.child = child, !.countEdgeVisit = count]
    <2>1. /\ s \in Playouts /\ s.at = x.at /\ s.child = child /\ s.idx = i
          /\ s.node = x.node /\ s.path = x.path
      BY <1>5, <1>6 DEF Playouts
    <2> HIDE DEF s
    <2> QED
      BY <1>9, <2>1 DEF s
  <1>11. thread' = [thread EXCEPT ![t] = s] /\ thread'[t] = s
    <2>1. thread' = [thread EXCEPT ![t] = s]
      BY <1>3, <1>4, <1>9, <1>10
    <2> QED
      BY <2>1 DEF TypeOK
  <1>12. PathInv(t)'
    BY <1>1, <1>2, <1>8, <1>10, <1>11, StaysOnPath, SameIsGrown DEF OnlyTree, userVars
  <1>13. OnTree(t)' /\ StateInv(t)' /\ ChildInv(t)'
    <2>1. SameNode(heap[thread[t].node], heap'[thread[t].node])
      BY <1>2, <1>8 DEF SameTree
    <2>2. /\ Len(heap'[thread[t].node].children) = Len(heap[thread[t].node].children)
          /\ heap'[thread[t].node].children[i].node = child /\ heap'[thread[t].node].live
      BY <1>2, <1>4, <1>5, <2>1 DEF SameNode, Here
    <2>3. NodeTypes(heap) /\ NodeTypes(heap')
      BY <1>2, <1>8, HeapTypes
    <2>4. i \in DOMAIN heap'[thread[t].node].children
      BY <1>2, <1>5, <2>2, <2>3 DEF NodeTypes
    <2> QED
      BY <1>10, <1>11, <2>2, <2>4, ZenonT(60) DEF OnTree, OffTree, StateInv, ChildInv, Here, Choosing, Updating, Slots
  <1>14. playouts' \in Nat /\ shouldStopNow' \in BOOLEAN /\ UNCHANGED <<userVars, markVars>>
    BY <1>1 DEF OnlyTree, TypeOK
  <1>15. s.at \in Places \ {"idle", "initialize", "grow"}
    BY <1>10 DEF Places
  <1> QED
    BY <1>1, <1>8, <1>11, <1>12, <1>13, <1>14, <1>15, SameKeeps

LEMMA FrontIn ==
  ASSUME NEW S, NEW p \in Seq(S), p # <<>>
  PROVE  Front(p) \in Seq(S)
  <1>1. Len(p) \in Nat \ {0} /\ \A i \in 1 .. Len(p) - 1 : p[i] \in S
    OBVIOUS
  <1>2. Front(p) = [i \in 1 .. Len(p) - 1 |-> p[i]]
    BY <1>1 DEF Front
  <1>3. Front(p) \in [1 .. Len(p) - 1 -> S]
    BY <1>1, <1>2
  <1> QED
    BY <1>1, <1>3

(* The frame that a call returns to. *)
LEMMA CallerOf ==
  ASSUME TypeOK, TreeInv, NEW t \in Threads, OnTree(t), thread[t].path # <<>>
  PROVE  /\ Caller(t).node \in Nodes /\ Caller(t).node \in Live
         /\ Caller(t).idx \in DOMAIN heap[Caller(t).node].children
         /\ heap[Caller(t).node].children[Caller(t).idx].node = thread[t].node
         /\ InTable(thread[t].node)
         /\ Front(thread[t].path) \in Seq([node : Nodes, idx : Nat, count : BOOLEAN])
  <1> DEFINE p == thread[t].path
  <1>1. p \in Seq([node : Nodes, idx : Nat, count : BOOLEAN]) /\ PathInv(t)
    BY ThreadFields, NodeOf
  <1>2. Len(p) \in DOMAIN p /\ Caller(t) = p[Len(p)] /\ Len(p) \in Nat
    BY <1>1 DEF Caller, Last
  <1>3. /\ Caller(t).node \in Live /\ Caller(t).idx \in Slots(Caller(t).node)
        /\ heap[Caller(t).node].children[Caller(t).idx].node = thread[t].node
    BY <1>1, <1>2 DEF PathInv, NodeAfter, Children
  <1>4. InTable(thread[t].node)
    BY <1>3, ChildSlot
  <1>5. Front(p) \in Seq([node : Nodes, idx : Nat, count : BOOLEAN])
    BY <1>1, FrontIn
  <1> QED
    BY <1>3, <1>4, <1>5 DEF Live, Slots

LEMMA PathUp ==
  ASSUME TypeOK, TreeInv, UNCHANGED root, NEW t \in Threads, OnTree(t), thread[t].path # <<>>,
         thread'[t].node = Caller(t).node, thread'[t].path = Front(thread[t].path),
         heap' \in Heaps, GrownTree(heap, heap')
  PROVE  PathInv(t)'
  <1> DEFINE p == thread[t].path
             q == thread'[t].path
  <1>1. p \in Seq([node : Nodes, idx : Nat, count : BOOLEAN]) /\ PathInv(t)
    BY ThreadFields, NodeOf
  <1>2. Len(p) \in Nat /\ Len(p) > 0 /\ Len(p) \in DOMAIN p /\ Caller(t) = p[Len(p)] /\ DOMAIN p = 1 .. Len(p)
    BY <1>1 DEF Caller, Last
  <1>3. q = SubSeq(p, 1, Len(p) - 1) /\ Len(q) = Len(p) - 1 /\ DOMAIN q = 1 .. Len(p) - 1
    BY <1>1, <1>2 DEF Front
  <1>4. \A i \in DOMAIN q : q[i] = p[i] /\ i \in DOMAIN p /\ i # Len(p)
    BY <1>1, <1>2, <1>3, SMTT(30)
  <1>5. NodeTypes(heap) /\ NodeTypes(heap')
    BY HeapTypes DEF TypeOK, Heaps
  <1>6. Caller(t).node \in Live'
    BY CallerOf DEF Live, GrownTree, GrownNode
  <1>7. q = <<>> => Caller(t).node = root
    BY <1>1, <1>2, <1>3 DEF PathInv
  <1>8. ASSUME NEW i \in DOMAIN q
        PROVE  /\ p[i].node \in Live' /\ p[i].idx \in DOMAIN heap'[p[i].node].children
               /\ heap'[p[i].node].children[p[i].idx].node = NodeAfter(t, i)'
               /\ i = 1 => p[i].node = root
    <2>1. /\ p[i].node \in Nodes /\ heap[p[i].node].live /\ p[i].idx \in DOMAIN heap[p[i].node].children
          /\ heap[p[i].node].children[p[i].idx].node = NodeAfter(t, i)
          /\ i = 1 => p[i].node = root
      BY <1>1, <1>4, Zenon DEF PathInv, Children, Slots, Live
    <2>2. NodeAfter(t, i) = p[i + 1].node
      BY <1>4 DEF NodeAfter
    <2>3. NodeAfter(t, i)' = p[i + 1].node
      <3>1. CASE i = Len(q)
        BY <1>2, <1>3, <3>1 DEF NodeAfter
      <3>2. CASE i # Len(q)
        <4>1. i + 1 \in DOMAIN q
          BY <1>2, <1>3, <3>2
        <4> QED
          BY <1>4, <3>2, <4>1 DEF NodeAfter
      <3> QED
        BY <3>1, <3>2
    <2>4. GrownNode(heap[p[i].node], heap'[p[i].node])
      BY <2>1 DEF GrownTree
    <2>5. heap'[p[i].node].live /\ p[i].idx \in DOMAIN heap'[p[i].node].children
      <3>1. PICK n, k : n = p[i].node /\ k = p[i].idx
        BY Zenon
      <3>2. n \in Nodes /\ heap[n].live /\ heap'[n].live /\ k \in DOMAIN heap[n].children
            /\ Len(heap[n].children) <= Len(heap'[n].children)
        BY <2>1, <2>4, <3>1, Zenon DEF GrownNode
      <3>3. k \in DOMAIN heap'[n].children
        BY <1>5, <3>2, SMTT(30) DEF NodeTypes
      <3> QED
        BY <3>1, <3>2, <3>3
    <2> QED
      BY <2>1, <2>2, <2>3, <2>4, <2>5, Zenon DEF GrownNode, Live
  <1>9. ASSUME NEW i \in DOMAIN q
        PROVE  /\ q[i].node \in Live' /\ q[i].idx \in DOMAIN heap'[q[i].node].children
               /\ heap'[q[i].node].children[q[i].idx].node = NodeAfter(t, i)'
               /\ i = 1 => q[i].node = root'
    BY <1>4, <1>8
  <1> HIDE DEF p
  <1> QED
    BY <1>6, <1>7, <1>9 DEF PathInv, Children, Slots

LEMMA InCallerType ==
  ASSUME TypeOK, TreeInv, NEW t \in Threads, OnTree(t), thread[t].path # <<>>, NEW a \in Places
  PROVE  /\ InCaller(t, a) \in Playouts /\ InCaller(t, a).at = a
         /\ InCaller(t, a).node = Caller(t).node /\ InCaller(t, a).path = Front(thread[t].path)
  <1>1. PICK x \in Playouts : x = thread[t]
    BY ThreadRecord
  <1>2. PICK n \in Nodes, p \in Seq([node : Nodes, idx : Nat, count : BOOLEAN]) :
          n = Caller(t).node /\ p = Front(thread[t].path)
    BY CallerOf
  <1> DEFINE y == [x EXCEPT !.at = a, !.node = n, !.path = p]
  <1>3. y \in Playouts /\ y.at = a /\ y.node = n /\ y.path = p
    BY DEF Playouts
  <1>4. InCaller(t, a) = y
    BY <1>1, <1>2 DEF InCaller
  <1> HIDE DEF y
  <1> QED
    BY <1>2, <1>3, <1>4

LEMMA ReturnTree ==
  ASSUME TypeOK, TreeInv, NEW t \in Threads, ReturnTrue(t) \/ ReturnFalse(t)
  PROVE  TypeOK' /\ TreeInv'
  <1>1. phase = "search" /\ OnTree(t) /\ OnlyTree /\ thread[t].path # <<>>
    BY DEF ReturnTrue, ReturnFalse, At, OnTree, OffTree
  <1>2. /\ Caller(t).node \in Nodes /\ heap[Caller(t).node].live /\ InTable(thread[t].node) /\ heap \in Heaps
        /\ Caller(t).idx \in DOMAIN heap[Caller(t).node].children /\ thread[t].node \in Nodes
    BY <1>1, CallerOf, NodeOf DEF Live
  <1>3. CASE ReturnTrue(t)
    <2>1. PICK x \in Playouts : /\ x = InCaller(t, "update") /\ x.at = "update"
                                /\ x.node = Caller(t).node /\ x.path = Front(thread[t].path)
      <3>1. "update" \in Places
        BY DEF Places
      <3> QED
        BY <1>1, <3>1, InCallerType
    <2>2. PICK s \in Playouts : /\ s = WithC(x, thread[t].node) /\ s.at = "update" /\ s.child = thread[t].node
                                /\ s.node = Caller(t).node /\ s.path = Front(thread[t].path)
      BY <1>2, <2>1, WithChildType
    <2>3. thread' = [thread EXCEPT ![t] = s] /\ thread'[t] = s
      BY <1>3, <2>1, <2>2 DEF ReturnTrue, Become, WithC, TypeOK
    <2>4. heap' = [heap EXCEPT ![Caller(t).node].children[Caller(t).idx].edgeVisits = @ + 1]
      BY <1>3 DEF ReturnTrue, AddEdgeVisit
    <2>5. heap' \in Heaps /\ SameTree(heap, heap')
      BY <1>2, <2>4, EdgeStep
    <2>6. PathInv(t)'
      BY <1>1, <1>2, <2>2, <2>3, <2>5, PathUp, SameIsGrown DEF OnlyTree, userVars
    <2> QED
      BY <1>1, <1>2, <2>2, <2>3, <2>5, <2>6, ToUpdate
  <1>4. CASE ReturnFalse(t)
    <2>1. PICK s \in Playouts : /\ s = InCaller(t, "false") /\ s.at = "false"
                                /\ s.node = Caller(t).node /\ s.path = Front(thread[t].path)
      <3>1. "false" \in Places
        BY DEF Places
      <3> QED
        BY <1>1, <3>1, InCallerType
    <2>2. thread' = [thread EXCEPT ![t] = s] /\ thread'[t] = s
      BY <1>4, <2>1 DEF ReturnFalse, Become, TypeOK
    <2>3. heap' = [heap EXCEPT ![thread[t].node].virtualLosses = heap[thread[t].node].virtualLosses - 1]
      BY <1>4 DEF ReturnFalse
    <2>4. heap' \in Heaps /\ SameTree(heap, heap')
      BY <1>2, <2>3, TableNode, LossStep
    <2>5. PathInv(t)'
      BY <1>1, <1>2, <2>1, <2>2, <2>4, PathUp, SameIsGrown DEF OnlyTree, userVars
    <2>6. OnTree(t)' /\ StateInv(t)' /\ ChildInv(t)'
      BY <2>1, <2>2, EasyPlace
    <2>7. playouts' \in Nat /\ shouldStopNow' \in BOOLEAN /\ UNCHANGED <<userVars, markVars>>
      BY <1>1 DEF OnlyTree, TypeOK
    <2>8. s.at \in Places \ {"idle", "initialize", "grow"}
      BY <2>1 DEF Places
    <2> QED
      BY <1>1, <2>2, <2>4, <2>5, <2>6, <2>7, <2>8, SameKeeps
  <1> QED
    BY <1>3, <1>4

LEMMA DirtyAndDone ==
  ASSUME TypeOK, NEW n \in Live, NEW c, InTable(c), NEW v \in Int,
         NEW g, g = [heap EXCEPT ![n].dirtyCounter = v]
  PROVE  /\ g \in Heaps /\ SameTree(heap, g)
         /\ [g EXCEPT ![c].virtualLosses = @ - 1] \in Heaps
         /\ SameTree(heap, [g EXCEPT ![c].virtualLosses = @ - 1])
  <1>1. heap \in Heaps /\ n \in Nodes /\ heap[n].live
    BY SameHeap DEF Live
  <1>2. g \in Heaps /\ SameTree(heap, g)
    BY <1>1, DirtyStep
  <1>3. c \in Nodes /\ heap[c].live
    BY TableNode
  <1>4. g[c].live
    BY <1>2, <1>3 DEF SameTree, SameNode
  <1>5. g[c] \in SearchNodes
    BY <1>2, <1>3, <1>4, LiveNode
  <1>6. g[c].virtualLosses - 1 \in Int
    <2>1. g[c].virtualLosses \in Int
      BY <1>5, NodeFields
    <2> QED
      BY <2>1
  <1> DEFINE f == [g EXCEPT ![c].virtualLosses = g[c].virtualLosses - 1]
  <1>7. f \in Heaps /\ SameTree(g, f)
    BY <1>2, <1>3, <1>4, <1>6, LossStep
  <1> HIDE DEF f
  <1>8. SameTree(heap, f)
    BY <1>2, <1>7, SameTreeAgain
  <1> QED
    BY <1>2, <1>7, <1>8 DEF f

LEMMA UpdateTree ==
  ASSUME TypeOK, TreeInv, NEW t \in Threads,
         updateStatsAfterPlayout(t) \/ undirty(t) \/ writeStats(t) \/ readChildren(t)
  PROVE  TypeOK' /\ TreeInv'
  <1>1. /\ phase = "search" /\ OnTree(t) /\ OnlyTree /\ UNCHANGED root
        /\ thread[t].at \in Updating \cup {"update"} /\ thread[t] \in Playouts
    BY ThreadRecord
    DEF updateStatsAfterPlayout, undirty, writeStats, readChildren, At, OnTree, OffTree, Updating, OnlyTree, OnlyThread, userVars
  <1>2. /\ thread[t].node \in Nodes /\ heap[thread[t].node].live /\ Here(t).visits \in Nat /\ heap \in Heaps
        /\ Here(t).dirtyCounter \in Int /\ thread[t].node \in Live
    BY <1>1, NodeOf DEF Live
  <1>3. InTable(thread[t].child)
    BY <1>1, NodeOf DEF ChildInv
  <1>4. thread[t].completed \in Nat /\ thread[t].edges \in Nat
    BY ThreadFields
  <1>5. ASSUME NEW g, NEW v \in Int, g = [heap EXCEPT ![thread[t].node].dirtyCounter = v],
               heap' = DoneWithChild(g, t), Become(t, Returns(t))
        PROVE  TypeOK' /\ TreeInv'
    <2>1. heap' \in Heaps /\ SameTree(heap, heap')
      BY <1>2, <1>3, <1>5, DirtyAndDone DEF DoneWithChild
    <2> QED
      BY <1>1, <1>5, <2>1, GivesUpType, StaysEasy DEF Become
  <1>6. ASSUME NEW s \in Playouts, s.at \in Updating, s.child = thread[t].child, s.node = thread[t].node,
               s.path = thread[t].path, Become(t, s), heap' \in Heaps, SameTree(heap, heap')
        PROVE  TypeOK' /\ TreeInv'
    <2>1. GrownTree(heap, heap') /\ thread' = [thread EXCEPT ![t] = s]
      BY <1>2, <1>6, SameIsGrown DEF Become
    <2>2. PathInv(t)'
      BY <1>1, <1>6, <2>1, StaysOnPath
    <2> QED
      BY <1>1, <1>3, <1>6, <2>1, <2>2, ToUpdate
  <1>7. CASE updateStatsAfterPlayout(t)
    <2> DEFINE g == [heap EXCEPT ![thread[t].node].dirtyCounter = Here(t).dirtyCounter + 1]
    <2>1. Here(t).dirtyCounter + 1 \in Int
      BY <1>2
    <2>2. g = [heap EXCEPT ![thread[t].node].dirtyCounter = @ + 1]
      BY DEF Here
    <2>3. CASE Here(t).dirtyCounter > 0
      <3>1. heap' = DoneWithChild(g, t) /\ Become(t, Returns(t))
        BY <1>7, <2>2, <2>3 DEF updateStatsAfterPlayout
      <3> QED
        BY <1>5, <2>1, <3>1
    <2>4. CASE ~(Here(t).dirtyCounter > 0)
      <3>1. heap' = g /\ Become(t, [thread[t] EXCEPT !.at = "recompute", !.completed = 1])
        BY <1>7, <2>2, <2>4 DEF updateStatsAfterPlayout
      <3>2. g \in Heaps /\ SameTree(heap, g)
        BY <1>2, <1>3, <2>1, DirtyAndDone
      <3>3. PICK x \in Playouts : x = thread[t]
        BY <1>1
      <3> DEFINE s == [x EXCEPT !.at = "recompute", !.completed = 1]
      <3>4. s \in Playouts /\ s.at = "recompute" /\ s.child = x.child /\ s.node = x.node /\ s.path = x.path
        BY DEF Playouts, Places
      <3>5. Become(t, s)
        BY <3>1, <3>3
      <3> HIDE DEF s, g
      <3> QED
        BY <1>6, <3>1, <3>2, <3>3, <3>4, <3>5 DEF Updating
    <2> QED
      BY <2>3, <2>4
  <1>8. CASE undirty(t)
    <2>1. PICK left : left = Here(t).dirtyCounter - thread[t].completed
      OBVIOUS
    <2>2. left \in Int
      BY <1>2, <1>4, <2>1
    <2> DEFINE g == [heap EXCEPT ![thread[t].node].dirtyCounter = left]
    <2>3. CASE left <= 0
      <3>1. heap' = DoneWithChild(g, t) /\ Become(t, Returns(t))
        BY <1>8, <2>1, <2>3 DEF undirty
      <3> QED
        BY <1>5, <2>2, <3>1
    <2>4. CASE ~(left <= 0)
      <3>1. heap' = g /\ Become(t, [thread[t] EXCEPT !.at = "recompute", !.completed = left])
        BY <1>8, <2>1, <2>4 DEF undirty
      <3>2. g \in Heaps /\ SameTree(heap, g)
        BY <1>2, <1>3, <2>2, DirtyAndDone
      <3>3. PICK x \in Playouts : x = thread[t]
        BY <1>1
      <3>4. left \in Nat
        BY <2>2, <2>4
      <3> DEFINE s == [x EXCEPT !.at = "recompute", !.completed = left]
      <3>5. s \in Playouts /\ s.at = "recompute" /\ s.child = x.child /\ s.node = x.node /\ s.path = x.path
        BY <3>4 DEF Playouts, Places
      <3>6. Become(t, s)
        BY <3>1, <3>3
      <3> HIDE DEF s, g
      <3> QED
        BY <1>6, <3>1, <3>2, <3>3, <3>5, <3>6 DEF Updating
    <2> QED
      BY <2>3, <2>4
  <1>9. CASE writeStats(t)
    <2> DEFINE g == [heap EXCEPT ![thread[t].node].weight = thread[t].edges]
    <2>1. g \in Heaps /\ SameTree(heap, g)
      BY <1>2, <1>4, WeightStep
    <2>2. g[thread[t].node].live
      BY <1>2, <2>1 DEF SameTree, SameNode
    <2>3. g[thread[t].node].visits + thread[t].completed \in Nat
      <3>1. g[thread[t].node] \in SearchNodes
        BY <1>2, <2>1, <2>2, LiveNode
      <3> HIDE DEF g
      <3>2. g[thread[t].node].visits \in Nat
        BY <3>1, NodeFields
      <3> QED
        BY <1>4, <3>2
    <2>4. heap' = [g EXCEPT ![thread[t].node].visits = g[thread[t].node].visits + thread[t].completed]
      BY <1>9 DEF writeStats
    <2> HIDE DEF g
    <2>5. heap' \in Heaps /\ SameTree(g, heap')
      BY <1>2, <2>1, <2>2, <2>3, <2>4, VisitsStep
    <2>6. SameTree(heap, heap')
      BY <2>1, <2>5, SameTreeAgain
    <2>7. PICK s \in Playouts : s = [thread[t] EXCEPT !.at = "undirty"] /\ s.at = "undirty" /\ s.child = thread[t].child
                                /\ s.node = thread[t].node /\ s.path = thread[t].path
      <3>1. "undirty" \in Places
        BY DEF Places
      <3> QED
        BY <1>1, <3>1, MovesTo
    <2>8. Become(t, s) /\ s.at \in Updating
      BY <1>9, <2>7 DEF writeStats, Updating
    <2> QED
      BY <1>6, <2>5, <2>6, <2>7, <2>8
  <1>10. CASE readChildren(t)
    <2>1. PICK e \in Nat : Become(t, [thread[t] EXCEPT !.at = "write", !.edges = e])
      <3> DEFINE good == {i \in Slots(thread[t].node) : heap[Here(t).children[i].node].visits > 0}
      <3>1. good \in SUBSET Slots(thread[t].node)
        OBVIOUS
      <3>2. Become(t, [thread[t] EXCEPT !.at = "write", !.edges = EdgeVisits(thread[t].node, good)])
        BY <1>10 DEF readChildren
      <3> HIDE DEF good
      <3> QED
        BY <1>2, <3>1, <3>2, EdgesNat, Zenon
    <2>2. PICK x \in Playouts : x = thread[t]
      BY <1>1
    <2> DEFINE s == [x EXCEPT !.at = "write", !.edges = e]
    <2>3. s \in Playouts /\ s.at = "write" /\ s.child = x.child /\ s.node = x.node /\ s.path = x.path
      BY DEF Playouts, Places
    <2>4. Become(t, s)
      BY <2>1, <2>2
    <2>5. heap' \in Heaps /\ SameTree(heap, heap')
      BY <1>10, SameHeap DEF readChildren, OnlyThread
    <2> HIDE DEF s
    <2> QED
      BY <1>6, <2>2, <2>3, <2>4, <2>5 DEF Updating
  <1> QED
    BY <1>7, <1>8, <1>9, <1>10


(* A thread that leaves the tree, or is not in it. *)
LEMMA LoopTree ==
  ASSUME TypeOK, TreeInv, NEW t \in Threads, Begin(t) \/ StopSearching(t) \/ FinishPlayout(t)
  PROVE  TypeOK' /\ TreeInv'
  <1>1. /\ phase = "search" /\ UNCHANGED <<heap, userVars, markVars>> /\ thread[t].path = <<>>
        /\ thread[t] \in Playouts
    BY ThreadRecord
    DEF Begin, StopSearching, FinishPlayout, At, OnlyThread, TreeInv, ThreadInv, OnTree, OffTree
  <1>2. playouts' \in Nat /\ shouldStopNow' \in BOOLEAN
    <2>1. playouts \in Nat /\ shouldStopNow \in BOOLEAN /\ playouts + 1 \in Nat /\ playouts + 0 \in Nat
      BY DEF TypeOK
    <2>2. CASE Begin(t)
      BY <2>1, <2>2 DEF Begin, OnlyThread
    <2>3. CASE StopSearching(t)
      BY <2>1, <2>3 DEF StopSearching
    <2>4. CASE FinishPlayout(t)
      BY <2>1, <2>4 DEF FinishPlayout
    <2> QED
      BY <2>2, <2>3, <2>4
  <1>3. PICK x \in Playouts : x = thread[t]
    BY <1>1
  <1>4. NoPlayout \in Playouts /\ playouts \in Nat
    BY DEF TypeOK, NoPlayout, Playouts, Places, UNEVALUATED, EXPANDED2
  <1>5. PICK s \in Playouts : Become(t, s) /\ s.at \in {"top", "done"} /\ s.path = <<>>
    <2>1. CASE Begin(t)
      <3> DEFINE s == [x EXCEPT !.at = "top", !.numPlayouts = playouts]
      <3>1. s \in Playouts /\ s.at = "top" /\ s.path = x.path
        BY <1>4 DEF Playouts, Places
      <3>2. Become(t, s)
        BY <1>3, <2>1 DEF Begin
      <3> QED
        BY <1>1, <1>3, <3>1, <3>2
    <2>2. CASE StopSearching(t)
      <3> DEFINE s == [x EXCEPT !.at = "done"]
      <3>1. s \in Playouts /\ s.at = "done" /\ s.path = x.path
        BY DEF Playouts, Places
      <3>2. Become(t, s)
        BY <1>3, <2>2 DEF StopSearching
      <3> QED
        BY <1>1, <1>3, <3>1, <3>2
    <2>3. CASE FinishPlayout(t)
      <3>1. PICK k \in Nat : Become(t, [NoPlayout EXCEPT !.at = "top", !.numPlayouts = k])
        <4>1. (IF thread[t].shouldCount THEN playouts + 1 ELSE thread[t].numPlayouts) \in Nat
          BY <1>4, ThreadFields
        <4> QED
          BY <2>3, <4>1, Zenon DEF FinishPlayout
      <3> DEFINE s == [NoPlayout EXCEPT !.at = "top", !.numPlayouts = k]
      <3>2. NoPlayout.path = <<>>
        BY DEF NoPlayout
      <3>3. s \in Playouts /\ s.at = "top" /\ s.path = <<>>
        <4> HIDE DEF NoPlayout
        <4> QED
          BY <1>4, <3>2 DEF Playouts, Places
      <3> QED
        BY <3>1, <3>3
    <2> QED
      BY <2>1, <2>2, <2>3
  <1>6. thread' = [thread EXCEPT ![t] = s] /\ thread'[t] = s
    BY <1>5 DEF Become, TypeOK
  <1>7. ~OnTree(t)'
    BY <1>5, <1>6 DEF OnTree, OffTree
  <1>8. s.at \in Places \ {"idle", "initialize", "grow"}
    BY <1>5 DEF Places
  <1>9. heap' \in Heaps /\ SameTree(heap, heap')
    BY <1>1, SameHeap
  <1> QED
    BY <1>1, <1>2, <1>5, <1>6, <1>7, <1>8, <1>9, SameKeeps

LEMMA RootThere ==
  ASSUME TypeOK, TreeInv, phase # "idle"
  PROVE  root \in Nodes /\ root \in Live /\ heap[root].key = RootKey /\ heap[root].pos = rootPos
  BY DEF TreeInv, PhaseInv, RootInv, TypeOK, Live

LEMMA RunTree ==
  ASSUME TypeOK, TreeInv, NEW t \in Threads, runSinglePlayout(t)
  PROVE  TypeOK' /\ TreeInv'
  <1>1. phase = "search" /\ OnlyThread /\ thread[t].path = <<>>
    BY DEF runSinglePlayout, At, TreeInv, ThreadInv, OnTree, OffTree
  <1>2. root \in Nodes /\ root \in Live
    BY <1>1, RootThere
  <1>3. PICK x \in Playouts : x = thread[t]
    BY ThreadRecord
  <1>4. PICK s \in Playouts : /\ s = [x EXCEPT !.at = "visit", !.node = root]
                              /\ s.at = "visit" /\ s.node = root /\ s.path = <<>>
    <2> DEFINE s == [x EXCEPT !.at = "visit", !.node = root]
    <2>1. s \in Playouts /\ s.at = "visit" /\ s.node = root /\ s.path = x.path
      BY <1>2 DEF Playouts, Places
    <2> QED
      BY <1>1, <1>3, <2>1
  <1>5. thread' = [thread EXCEPT ![t] = s] /\ thread'[t] = s
    BY <1>3, <1>4 DEF runSinglePlayout, Become, TypeOK
  <1>6. PathInv(t)'
    <2>1. root' = root /\ Live' = Live
      BY <1>1 DEF OnlyThread, userVars, Live
    <2>2. thread'[t].path = <<>> /\ thread'[t].node = root
      BY <1>4, <1>5
    <2>3. DOMAIN <<>> = {}
      OBVIOUS
    <2> QED
      BY <1>2, <2>1, <2>2, <2>3 DEF PathInv
  <1>7. OnTree(t)' /\ StateInv(t)' /\ ChildInv(t)'
    BY <1>4, <1>5, EasyPlace
  <1>8. heap' \in Heaps /\ SameTree(heap, heap') /\ playouts' \in Nat /\ shouldStopNow' \in BOOLEAN
    BY <1>1, SameHeap DEF OnlyThread, TypeOK
  <1>9. s.at \in Places \ {"idle", "initialize", "grow"} /\ UNCHANGED <<userVars, markVars>>
    BY <1>1, <1>4 DEF Places, OnlyThread
  <1> QED
    BY <1>1, <1>5, <1>6, <1>7, <1>8, <1>9, SameKeeps

(* A thread that has read the state of its node, to select. *)
LEMMA ToSelect ==
  ASSUME TypeOK, TreeInv, phase = "search", NEW t \in Threads, OnTree(t), NEW r, r = Here(t).state,
         EXPANDED0 <= r, OnlyTree, UNCHANGED heap, Become(t, [AtNode(t, "select") EXCEPT !.state = r])
  PROVE  TypeOK' /\ TreeInv'
  <1>1. r \in UNEVALUATED .. EXPANDED2 /\ r \in Int
    BY NodeOf
  <1>2. PICK x \in Playouts : /\ x = AtNode(t, "select") /\ x.at = "select"
                              /\ x.node = thread[t].node /\ x.path = thread[t].path
    <2>1. "select" \in Places
      BY DEF Places
    <2> QED
      BY <2>1, AtNodeType
  <1>3. PICK s \in Playouts : /\ s = [x EXCEPT !.state = r] /\ s.at = "select" /\ s.state = r
                              /\ s.node = thread[t].node /\ s.path = thread[t].path
    <2> DEFINE s == [x EXCEPT !.state = r]
    <2>1. s \in Playouts /\ s.at = x.at /\ s.state = r /\ s.node = x.node /\ s.path = x.path
      BY <1>1 DEF Playouts
    <2> HIDE DEF s
    <2> QED
      BY <1>2, <2>1 DEF s
  <1>4. thread' = [thread EXCEPT ![t] = s] /\ thread'[t] = s
    BY <1>2, <1>3 DEF Become, TypeOK
  <1>5. heap' \in Heaps /\ SameTree(heap, heap') /\ playouts' \in Nat /\ shouldStopNow' \in BOOLEAN
        /\ UNCHANGED <<userVars, markVars>>
    BY SameHeap DEF OnlyTree, TypeOK
  <1>6. PathInv(t)'
    BY <1>3, <1>4, <1>5, StaysOnPath, SameIsGrown, SameHeap DEF userVars
  <1>7. OnTree(t)' /\ StateInv(t)' /\ ChildInv(t)'
    <2>1. thread'[t].node = thread[t].node /\ thread'[t].state = r /\ thread'[t].at = "select"
      BY <1>3, <1>4
    <2>2. heap'[thread'[t].node].state = r
      BY <2>1 DEF Here
    <2>3. r <= r
      BY <1>1
    <2> QED
      BY <2>1, <2>2, <2>3 DEF OnTree, OffTree, StateInv, ChildInv, Choosing, Updating, Here
  <1>8. s.at \in Places \ {"idle", "initialize", "grow"}
    BY <1>3 DEF Places
  <1> QED
    BY <1>4, <1>5, <1>6, <1>7, <1>8, SameKeeps

LEMMA DescendTree ==
  ASSUME TypeOK, TreeInv, NEW t \in Threads, playoutDescend(t)
  PROVE  TypeOK' /\ TreeInv'
  <1>1. phase = "search" /\ OnTree(t) /\ OnlyTree /\ UNCHANGED heap /\ heap' \in Heaps /\ SameTree(heap, heap')
    BY SameHeap DEF playoutDescend, At, OnTree, OffTree, OnlyThread, OnlyTree
  <1>2. CASE Here(t).state = UNEVALUATED
    <2>1. PICK s \in Playouts : /\ s = [thread[t] EXCEPT !.at = "evaluate"] /\ s.at = "evaluate"
                                /\ s.node = thread[t].node /\ s.path = thread[t].path
      <3>1. thread[t] \in Playouts /\ "evaluate" \in Places
        BY ThreadRecord DEF Places
      <3> QED
        BY <3>1, MovesTo
    <2>2. thread' = [thread EXCEPT ![t] = s]
      BY <1>2, <2>1 DEF playoutDescend, Become, UNEVALUATED, EVALUATING
    <2> QED
      BY <1>1, <2>1, <2>2, StaysEasy
  <1>3. CASE Here(t).state = EVALUATING
    <2>1. thread' = [thread EXCEPT ![t] = GivesUp(t)]
      BY <1>3 DEF playoutDescend, Become, EVALUATING, UNEVALUATED
    <2> QED
      BY <1>1, <2>1, GivesUpType, StaysEasy
  <1>4. CASE Here(t).state # UNEVALUATED /\ Here(t).state # EVALUATING
    <2>1. EXPANDED0 <= Here(t).state
      <3>1. Here(t).state \in UNEVALUATED .. EXPANDED2
        BY <1>1, NodeOf
      <3> QED
        BY <1>4, <3>1 DEF UNEVALUATED, EVALUATING, EXPANDED0, EXPANDED2
    <2>2. Become(t, [AtNode(t, "select") EXCEPT !.state = Here(t).state])
      BY <1>4 DEF playoutDescend
    <2> QED
      BY <1>1, <2>1, <2>2, ToSelect
  <1> QED
    BY <1>2, <1>3, <1>4


Frame == [node : Nodes, idx : Nat, count : BOOLEAN]

LEMMA AppendIn ==
  ASSUME NEW S, NEW p \in Seq(S), NEW e \in S
  PROVE  /\ Append(p, e) \in Seq(S) /\ Append(p, e) # <<>> /\ Len(Append(p, e)) = Len(p) + 1 /\ Len(p) \in Nat
         /\ DOMAIN Append(p, e) = 1 .. Len(p) + 1 /\ DOMAIN p = 1 .. Len(p)
         /\ \A i \in 1 .. Len(p) : Append(p, e)[i] = p[i]
         /\ Append(p, e)[Len(p) + 1] = e
  BY SMTT(30)

(* A call on a child: the frame of the caller is pushed. *)
LEMMA PathDown ==
  ASSUME TypeOK, TreeInv, UNCHANGED <<root, heap>>, NEW t \in Threads, thread[t].at = "edge", NEW frame \in Frame,
         frame.node = thread[t].node, frame.idx = thread[t].idx, thread'[t].node = thread[t].child,
         thread'[t].path = Append(thread[t].path, frame)
  PROVE  PathInv(t)'
  <1> DEFINE p == thread[t].path
             q == thread'[t].path
  <1>1. OnTree(t)
    BY DEF OnTree, OffTree
  <1>2. PathInv(t) /\ p \in Seq(Frame) /\ thread[t].node \in Live
    BY <1>1, NodeOf, ThreadFields DEF Frame, PathInv
  <1>3. /\ q # <<>> /\ Len(q) = Len(p) + 1 /\ Len(p) \in Nat
        /\ DOMAIN q = 1 .. Len(p) + 1 /\ DOMAIN p = 1 .. Len(p)
        /\ \A i \in 1 .. Len(p) : q[i] = p[i]
        /\ q[Len(p) + 1] = frame
    BY <1>2, AppendIn
  <1>4. /\ thread[t].child \in Live /\ thread[t].idx \in Slots(thread[t].node)
        /\ Children(thread[t].node)[thread[t].idx].node = thread[t].child
    BY EdgeChild DEF InTable, Slots, Children
  <1>5. Live' = Live /\ \A n : Slots(n)' = Slots(n) /\ Children(n)' = Children(n)
    BY DEF Live, Slots, Children
  <1>6. ASSUME NEW i \in DOMAIN q
        PROVE  /\ q[i].node \in Live /\ q[i].idx \in Slots(q[i].node)
               /\ Children(q[i].node)[q[i].idx].node = NodeAfter(t, i)'
               /\ i = 1 => q[i].node = root
    <2>1. CASE i = Len(p) + 1
      <3>1. q[i] = frame /\ NodeAfter(t, i)' = thread[t].child
        BY <1>3, <2>1 DEF NodeAfter
      <3>2. i = 1 => thread[t].node = root
        <4>1. i = 1 => p = <<>>
          BY <1>2, <1>3, <2>1
        <4> QED
          BY <1>2, <4>1 DEF PathInv
      <3> QED
        BY <1>2, <1>4, <3>1, <3>2
    <2>2. CASE i # Len(p) + 1
      <3>1. i \in DOMAIN p /\ q[i] = p[i] /\ i # Len(q)
        BY <1>3, <2>2
      <3>2. NodeAfter(t, i)' = q[i + 1].node
        BY <3>1 DEF NodeAfter
      <3>3. q[i + 1].node = NodeAfter(t, i)
        <4>1. CASE i = Len(p)
          BY <1>3, <4>1 DEF NodeAfter
        <4>2. CASE i # Len(p)
          <5>1. i + 1 \in 1 .. Len(p)
            BY <1>3, <3>1, <4>2
          <5> QED
            BY <1>3, <4>2, <5>1 DEF NodeAfter
        <4> QED
          BY <4>1, <4>2
      <3>4. /\ p[i].node \in Live /\ p[i].idx \in Slots(p[i].node)
            /\ Children(p[i].node)[p[i].idx].node = NodeAfter(t, i)
            /\ i = 1 => p[i].node = root
        BY <1>2, <3>1, SMTT(30) DEF PathInv
      <3> QED
        BY <3>1, <3>2, <3>3, <3>4
    <2> QED
      BY <2>1, <2>2
  <1>7. thread'[t].node \in Live'
    BY <1>4, <1>5
  <1>8. ASSUME NEW i \in DOMAIN q
        PROVE  /\ q[i].node \in Live' /\ q[i].idx \in DOMAIN heap'[q[i].node].children
               /\ heap'[q[i].node].children[q[i].idx].node = NodeAfter(t, i)'
               /\ i = 1 => q[i].node = root'
    BY <1>5, <1>6, Zenon DEF Slots, Children
  <1> HIDE DEF p
  <1> QED
    BY <1>3, <1>7, <1>8, Zenon DEF PathInv, Slots, Children

LEMMA PushTree ==
  ASSUME TypeOK, TreeInv, NEW t \in Threads, Descend(t)
  PROVE  TypeOK' /\ TreeInv'
  <1>1. phase = "search" /\ thread[t].at = "edge" /\ OnlyThread /\ OnTree(t)
    BY DEF Descend, At, OnTree, OffTree
  <1>2. /\ thread[t].node \in Nodes /\ thread[t].idx \in Nat /\ thread[t].countEdgeVisit \in BOOLEAN
        /\ thread[t].path \in Seq(Frame) /\ thread[t].numPlayouts \in Nat /\ thread[t].child \in Nodes
    BY <1>1, NodeOf, ThreadFields, EdgeChild DEF Frame
  <1>3. PICK frame \in Frame :
          /\ frame = [node |-> thread[t].node, idx |-> thread[t].idx, count |-> thread[t].countEdgeVisit]
          /\ frame.node = thread[t].node /\ frame.idx = thread[t].idx
    <2>1. PICK n \in Nodes, i \in Nat, b \in BOOLEAN :
            n = thread[t].node /\ i = thread[t].idx /\ b = thread[t].countEdgeVisit
      BY <1>2
    <2>2. [node |-> n, idx |-> i, count |-> b] \in Frame
      BY DEF Frame
    <2> QED
      BY <2>1, <2>2
  <1>4. PICK q \in Seq(Frame) : q = Append(thread[t].path, frame)
    BY <1>2, AppendIn
  <1>5. PICK k \in Nat, c \in Nodes : k = thread[t].numPlayouts /\ c = thread[t].child
    BY <1>2
  <1>6. PICK s \in Playouts : /\ s = [NoPlayout EXCEPT !.at = "visit", !.numPlayouts = k, !.node = c, !.path = q]
                              /\ s.at = "visit" /\ s.node = c /\ s.path = q
    <2> DEFINE s == [NoPlayout EXCEPT !.at = "visit", !.numPlayouts = k, !.node = c, !.path = q]
    <2>1. NoPlayout \in Playouts
      BY DEF NoPlayout, Playouts, Places, UNEVALUATED, EXPANDED2
    <2>2. s \in Playouts /\ s.at = "visit" /\ s.node = c /\ s.path = q
      <3> HIDE DEF NoPlayout
      <3> QED
        BY <2>1 DEF Playouts, Places, Frame
    <2> HIDE DEF s
    <2> QED
      BY <2>2 DEF s
  <1>7. thread' = [thread EXCEPT ![t] = s]
    BY <1>3, <1>4, <1>5, <1>6 DEF Descend, Become
  <1>8. thread'[t] = s
    BY <1>7 DEF TypeOK
  <1>9. PathInv(t)'
    BY <1>1, <1>3, <1>4, <1>5, <1>6, <1>8, PathDown DEF OnlyThread, userVars
  <1>10. OnTree(t)' /\ StateInv(t)' /\ ChildInv(t)'
    BY <1>6, <1>8, EasyPlace
  <1>11. heap' \in Heaps /\ SameTree(heap, heap') /\ playouts' \in Nat /\ shouldStopNow' \in BOOLEAN
    BY <1>1, SameHeap DEF OnlyThread, TypeOK
  <1>12. s.at \in Places \ {"idle", "initialize", "grow"} /\ UNCHANGED <<userVars, markVars>>
    BY <1>1, <1>6 DEF Places, OnlyThread
  <1> QED
    BY <1>1, <1>7, <1>9, <1>10, <1>11, <1>12, SameKeeps

LEMMA StateAt ==
  ASSUME TypeOK, NEW n \in Nodes, heap[n].live, NEW r \in UNEVALUATED .. EXPANDED2, heap[n].state <= r,
         heap' = [heap EXCEPT ![n].state = r]
  PROVE  /\ heap' \in Heaps /\ QuietTree(heap, heap') /\ heap'[n].state = r
         /\ heap'[n].children = heap[n].children /\ heap'[n].pos = heap[n].pos
         /\ \A m \in Nodes \ {n} : heap'[m] = heap[m]
  <1>1. heap[n] \in SearchNodes
    BY SameHeap, LiveNode
  <1>2. PICK x \in SearchNodes : x = heap[n]
    BY <1>1
  <1>3. PICK y \in SearchNodes : /\ y = [x EXCEPT !.state = r] /\ y.live /\ x.live /\ y.key = x.key /\ y.pos = x.pos
                                 /\ y.state = r /\ y.children = x.children
    <2> DEFINE y == [x EXCEPT !.state = r]
    <2>1. y \in SearchNodes
      BY DEF SearchNodes
    <2>2. /\ y.live = x.live /\ x.live /\ y.key = x.key /\ y.pos = x.pos
          /\ y.state = r /\ y.children = x.children
      BY <1>2 DEF SearchNodes
    <2> HIDE DEF y
    <2> QED
      BY <2>1, <2>2 DEF y
  <1>4. heap' = [heap EXCEPT ![n] = y]
    BY <1>2, <1>3
  <1>5. heap' \in Heaps /\ heap'[n] = y /\ \A m \in Nodes \ {n} : heap'[m] = heap[m]
    BY <1>4, SameHeap DEF Heaps
  <1>6. GrownNode(x, y)
    <2>1. Len(x.children) \in Nat
      BY NodeFields
    <2> QED
      BY <1>2, <1>3, <2>1 DEF GrownNode
  <1>7. ASSUME NEW m \in Nodes \ {n} PROVE GrownNode(heap[m], heap'[m])
    <2>1. heap'[m] = heap[m]
      BY <1>5
    <2>2. ASSUME heap[m].live PROVE heap[m].state \in Int /\ Len(heap[m].children) \in Nat
      BY <2>2, SameHeap, LiveNode, NodeFields
    <2> QED
      BY <2>1, <2>2 DEF GrownNode
  <1>8. GrownTree(heap, heap')
    BY <1>2, <1>5, <1>6, <1>7 DEF GrownTree
  <1>9. \A m \in Nodes : heap'[m].live = heap[m].live /\ (heap[m].live => Len(heap'[m].children) = Len(heap[m].children))
    <2>1. heap'[n].live = heap[n].live /\ Len(heap'[n].children) = Len(heap[n].children)
      BY <1>2, <1>3, <1>5 DEF SearchNodes
    <2> QED
      BY <1>5, <2>1
  <1> QED
    BY <1>2, <1>3, <1>5, <1>8, <1>9 DEF QuietTree

(* A step on the state of a node that no other thread owns. *)
LEMMA OwnStep ==
  ASSUME TypeOK, TreeInv, phase = "search", NEW t \in Threads, OnTree(t), NEW s \in Playouts,
         s.at \in Places \ OffTree, s.node = thread[t].node, s.path = thread[t].path,
         thread' = [thread EXCEPT ![t] = s], OnlyTree,
         NEW r \in UNEVALUATED .. EXPANDED2, Here(t).state <= r,
         heap' = [heap EXCEPT ![thread[t].node].state = r],
         \A u \in Owners \ {t} : thread[u].node # thread[t].node,
         StateInv(t)', ChildInv(t)'
  PROVE  TypeOK' /\ TreeInv'
  <1>1. thread[t].node \in Nodes /\ heap[thread[t].node].live /\ heap \in Heaps
    BY NodeOf
  <1>2. /\ heap' \in Heaps /\ QuietTree(heap, heap')
        /\ \A m \in Nodes \ {thread[t].node} : heap'[m] = heap[m]
    BY <1>1, StateAt DEF Here
  <1>3. GrownTree(heap, heap')
    BY <1>2 DEF QuietTree
  <1>4. UNCHANGED <<userVars, markVars>> /\ playouts' \in Nat /\ shouldStopNow' \in BOOLEAN
        /\ UNCHANGED <<root, oldRoot, rootPos>>
    BY DEF OnlyTree, TypeOK, userVars
  <1>5. StaticInv'
    BY <1>2, <1>4, StaticQuiet DEF TreeInv, StaticInv
  <1>6. PathInv(t)'
    BY <1>2, <1>3, <1>4, StaysOnPath
  <1>7. OnTree(t)' /\ s.at \in Places \ {"idle"}
    BY DEF TypeOK, OnTree, OffTree
  <1>8. ASSUME NEW u \in Owners \ {t} PROVE heap'[thread[u].node].state = heap[thread[u].node].state
    <2>1. thread[u].node \in Nodes
      <3>1. u \in Threads /\ OnTree(u)
        BY DEF Owners, OnTree, OffTree
      <3> QED
        BY <3>1, NodeOf
    <2> QED
      BY <1>2, <2>1
  <1> QED
    <2>1. t \in Owners' => \A u \in Owners \ {t} : thread[u].node # s.node
      OBVIOUS
    <2>2. IF OnTree(t)' THEN PathInv(t)' /\ StateInv(t)' /\ ChildInv(t)' ELSE s.path = <<>>
      BY <1>6, <1>7
    <2> QED
      BY <1>2, <1>3, <1>4, <1>5, <1>7, <1>8, <2>1, <2>2, SearchKeeps

(* The state of a node that is being evaluated or grown. *)
LEMMA OwnedState ==
  ASSUME TypeOK, TreeInv, NEW u \in Owners
  PROVE  Here(u).state \in {EVALUATING, GROWING1, GROWING2}
  <1>1. u \in Threads /\ OnTree(u) /\ thread[u].at \in {"initialize", "grow"}
    BY DEF Owners, OnTree, OffTree
  <1> QED
    BY <1>1, NodeOf DEF StateInv

LEMMA ClaimTree ==
  ASSUME TypeOK, TreeInv, NEW t \in Threads, claimEvaluating(t)
  PROVE  TypeOK' /\ TreeInv'
  <1>1. phase = "search" /\ OnTree(t) /\ OnlyTree /\ heap \in Heaps /\ thread[t].node \in Nodes
    BY NodeOf DEF claimEvaluating, At, OnTree, OffTree
  <1>2. CASE Here(t).state # UNEVALUATED
    <2>1. UNCHANGED heap /\ thread' = [thread EXCEPT ![t] = GivesUp(t)]
      BY <1>2 DEF claimEvaluating, Become
    <2> QED
      BY <1>1, <2>1, GivesUpType, StaysEasy, SameHeap
  <1>3. CASE Here(t).state = UNEVALUATED
    <2>1. PICK s \in Playouts : /\ s = [thread[t] EXCEPT !.at = "initialize"] /\ s.at = "initialize"
                                /\ s.node = thread[t].node /\ s.path = thread[t].path
      <3>1. thread[t] \in Playouts /\ "initialize" \in Places
        BY ThreadRecord DEF Places
      <3> QED
        BY <3>1, MovesTo
    <2>2. thread' = [thread EXCEPT ![t] = s] /\ heap' = [heap EXCEPT ![thread[t].node].state = EVALUATING]
      BY <1>3, <2>1 DEF claimEvaluating, Become
    <2>3. thread'[t] = s
      BY <2>2 DEF TypeOK
    <2>4. ASSUME NEW u \in Owners \ {t} PROVE thread[u].node # thread[t].node
      <3>1. Here(u).state \in {EVALUATING, GROWING1, GROWING2}
        BY OwnedState
      <3> QED
        BY <1>3, <3>1 DEF Here, UNEVALUATED, EVALUATING, GROWING1, GROWING2
    <2>5. EVALUATING \in UNEVALUATED .. EXPANDED2 /\ Here(t).state <= EVALUATING
      BY <1>3 DEF UNEVALUATED, EVALUATING, EXPANDED2
    <2>6. heap'[thread'[t].node].state = EVALUATING /\ thread'[t].at = "initialize"
      <3>1. heap[thread[t].node].live
        BY <1>1, NodeOf
      <3>2. heap'[thread[t].node].state = EVALUATING
        BY <1>1, <2>2, <2>5, <3>1, StateAt DEF Here
      <3> QED
        BY <2>1, <2>3, <3>2
    <2>7. StateInv(t)' /\ ChildInv(t)'
      BY <2>6 DEF StateInv, ChildInv, Choosing, Updating, Here
    <2>8. s.at \in Places \ OffTree
      BY <2>1 DEF Places, OffTree
    <2> QED
      BY <1>1, <2>1, <2>2, <2>4, <2>5, <2>7, <2>8, OwnStep
  <1> QED
    BY <1>2, <1>3

LEMMA InitializeTree ==
  ASSUME TypeOK, TreeInv, NEW t \in Threads, initializeChildren(t)
  PROVE  TypeOK' /\ TreeInv'
  <1>1. phase = "search" /\ OnTree(t) /\ OnlyTree /\ t \in Owners /\ thread[t].at = "initialize"
    BY DEF initializeChildren, At, OnTree, OffTree, Owners
  <1>2. Here(t).state = EVALUATING
    BY <1>1, NodeOf DEF StateInv
  <1>3. PICK s \in Playouts : /\ s = Returns(t) /\ s.at = "true"
                              /\ s.node = thread[t].node /\ s.path = thread[t].path
    BY GivesUpType
  <1>4. thread' = [thread EXCEPT ![t] = s] /\ heap' = [heap EXCEPT ![thread[t].node].state = EXPANDED0]
    BY <1>3 DEF initializeChildren, Become
  <1>5. thread'[t] = s
    BY <1>4 DEF TypeOK
  <1>6. EXPANDED0 \in UNEVALUATED .. EXPANDED2 /\ Here(t).state <= EXPANDED0
    BY <1>2 DEF UNEVALUATED, EVALUATING, EXPANDED0, EXPANDED2
  <1>7. StateInv(t)' /\ ChildInv(t)'
    BY <1>3, <1>5, EasyPlace
  <1>8. \A u \in Owners \ {t} : thread[u].node # thread[t].node
    BY <1>1 DEF TreeInv, OwnersInv
  <1>9. s.at \in Places \ OffTree
    BY <1>3 DEF Places, OffTree
  <1> QED
    BY <1>1, <1>3, <1>4, <1>6, <1>7, <1>8, <1>9, OwnStep

(* What a choice says of the slot does not depend on the state of the node. *)
LEMMA ChoiceStays ==
  ASSUME TypeOK, TreeInv, UNCHANGED <<root, rootPos>>, NEW t \in Threads, ChoiceInv(t),
         thread'[t].node = thread[t].node, thread'[t].idx = thread[t].idx, thread'[t].move = thread[t].move,
         heap'[thread[t].node].children = Here(t).children, heap'[thread[t].node].pos = Here(t).pos,
         IF thread'[t].at \in {"full", "grow"}
         THEN thread'[t].idx = getChildrenCapacity(thread'[t].state) + 1
         ELSE thread'[t].idx <= getChildrenCapacity(heap'[thread[t].node].state)
  PROVE  ChoiceInv(t)'
  <1>1. PICK n : n = thread[t].node
    OBVIOUS
  <1>2. MovesOf(n)' = MovesOf(n)
    BY <1>1 DEF MovesOf, Here
  <1>3. heap'[n].children = heap[n].children /\ thread'[t].node = n
    BY <1>1 DEF Here
  <1>4. /\ thread[t].move \in MovesOf(n)
        /\ thread[t].idx \in 1..Len(heap[n].children) + 1
        /\ \A i \in 1..thread[t].idx - 1 : heap[n].children[i].move # thread[t].move
    BY <1>1 DEF ChoiceInv, Here
  <1> QED
    BY <1>1, <1>2, <1>3, <1>4 DEF ChoiceInv, Here

LEMMA ExpandTree ==
  ASSUME TypeOK, TreeInv, NEW t \in Threads, maybeExpandChildrenCapacity(t)
  PROVE  TypeOK' /\ TreeInv'
  <1>1. phase = "search" /\ OnTree(t) /\ OnlyTree /\ thread[t].at = "full" /\ UNCHANGED <<root, rootPos>>
    BY DEF maybeExpandChildrenCapacity, At, OnTree, OffTree, OnlyTree, userVars
  <1>2. /\ EXPANDED0 <= thread[t].state /\ thread[t].state <= Here(t).state /\ ChoiceInv(t)
        /\ thread[t].idx = getChildrenCapacity(thread[t].state) + 1
    BY <1>1, NodeOf DEF StateInv, ChoiceInv, Choosing
  <1>3. thread[t].state \in Int /\ Here(t).state \in Int
    BY <1>1, ThreadFields, NodeOf
  <1>4. CASE ~(thread[t].state \in {EXPANDED0, EXPANDED1} /\ Here(t).state = thread[t].state)
    <2>1. UNCHANGED heap /\ Become(t, [AtNode(t, "select") EXCEPT !.state = Here(t).state])
      BY <1>4 DEF maybeExpandChildrenCapacity
    <2>2. EXPANDED0 <= Here(t).state
      BY <1>2, <1>3 DEF EXPANDED0
    <2> QED
      BY <1>1, <2>1, <2>2, ToSelect
  <1>5. CASE thread[t].state \in {EXPANDED0, EXPANDED1} /\ Here(t).state = thread[t].state
    <2>1. PICK x \in Playouts : x = thread[t]
      BY ThreadRecord
    <2>2. PICK r : r = thread[t].state + 1
      OBVIOUS
    <2>3. r \in {GROWING1, GROWING2} /\ r \in UNEVALUATED .. EXPANDED2 /\ Here(t).state <= r /\ EXPANDED0 <= r /\ r <= r
      BY <1>5, <2>2 DEF GROWING1, GROWING2, EXPANDED0, EXPANDED1, EXPANDED2, UNEVALUATED
    <2>4. PICK s \in Playouts : /\ s = [x EXCEPT !.at = "grow", !.state = r] /\ s.at = "grow" /\ s.state = r
                                /\ s.node = x.node /\ s.path = x.path /\ s.idx = x.idx /\ s.move = x.move
      <3> DEFINE s == [x EXCEPT !.at = "grow", !.state = r]
      <3>1. /\ s \in Playouts /\ s.at = "grow" /\ s.state = r
            /\ s.node = x.node /\ s.path = x.path /\ s.idx = x.idx /\ s.move = x.move
        BY <2>3 DEF Playouts, Places
      <3> HIDE DEF s
      <3> QED
        BY <3>1 DEF s
    <2>5. thread' = [thread EXCEPT ![t] = s] /\ heap' = [heap EXCEPT ![thread[t].node].state = r]
      BY <1>5, <2>1, <2>2, <2>4 DEF maybeExpandChildrenCapacity, Become
    <2>6. thread'[t] = s
      BY <2>5 DEF TypeOK
    <2>7. /\ heap'[thread[t].node].state = r /\ heap'[thread[t].node].children = Here(t).children
          /\ heap'[thread[t].node].pos = Here(t).pos
      <3>1. thread[t].node \in Nodes /\ heap[thread[t].node].live /\ heap \in Heaps
        BY <1>1, NodeOf
      <3> QED
        BY <2>3, <2>5, <3>1, StateAt DEF Here
    <2>8. getChildrenCapacity(r) = getChildrenCapacity(thread[t].state)
      BY <1>5, <2>2 DEF getChildrenCapacity, EXPANDED0, EXPANDED1, EXPANDED2
    <2>9. ChoiceInv(t)'
      <3>1. thread'[t].at = "grow" /\ thread'[t].idx = getChildrenCapacity(thread'[t].state) + 1
        BY <1>2, <2>1, <2>4, <2>6, <2>8
      <3> QED
        BY <1>1, <1>2, <2>1, <2>4, <2>6, <2>7, <3>1, ChoiceStays
    <2>10. StateInv(t)' /\ ChildInv(t)'
      BY <2>1, <2>3, <2>4, <2>6, <2>7, <2>9 DEF StateInv, ChildInv, Updating, Here
    <2>11. ASSUME NEW u \in Owners \ {t} PROVE thread[u].node # thread[t].node
      <3>1. Here(u).state \in {EVALUATING, GROWING1, GROWING2}
        BY OwnedState
      <3> QED
        BY <1>5, <3>1 DEF Here, EXPANDED0, EXPANDED1, EVALUATING, GROWING1, GROWING2
    <2>12. s.at \in Places \ OffTree
      BY <2>4 DEF Places, OffTree
    <2> QED
      BY <1>1, <2>1, <2>3, <2>4, <2>5, <2>10, <2>11, <2>12, OwnStep
  <1> QED
    BY <1>4, <1>5

LEMMA GrowTree ==
  ASSUME TypeOK, TreeInv, NEW t \in Threads, growChildren(t)
  PROVE  TypeOK' /\ TreeInv'
  <1>1. /\ phase = "search" /\ OnTree(t) /\ OnlyTree /\ thread[t].at = "grow" /\ UNCHANGED <<root, rootPos>>
        /\ t \in Owners
    BY DEF growChildren, At, OnTree, OffTree, OnlyTree, userVars, Owners
  <1>2. /\ thread[t].state \in {GROWING1, GROWING2} /\ Here(t).state = thread[t].state /\ ChoiceInv(t)
        /\ thread[t].idx = getChildrenCapacity(thread[t].state) + 1
    BY <1>1, NodeOf DEF StateInv, ChoiceInv, Choosing
  <1>3. PICK x \in Playouts : x = thread[t]
    BY ThreadRecord
  <1>4. PICK r : r = thread[t].state + 1
    OBVIOUS
  <1>5. r \in UNEVALUATED .. EXPANDED2 /\ Here(t).state <= r /\ EXPANDED0 <= r /\ r <= r
    BY <1>2, <1>4 DEF GROWING1, GROWING2, EXPANDED0, EXPANDED2, UNEVALUATED
  <1>6. PICK s \in Playouts : /\ s = [x EXCEPT !.at = "allocate", !.state = r] /\ s.at = "allocate" /\ s.state = r
                              /\ s.node = x.node /\ s.path = x.path /\ s.idx = x.idx /\ s.move = x.move
    <2> DEFINE s == [x EXCEPT !.at = "allocate", !.state = r]
    <2>1. /\ s \in Playouts /\ s.at = "allocate" /\ s.state = r
          /\ s.node = x.node /\ s.path = x.path /\ s.idx = x.idx /\ s.move = x.move
      BY <1>5 DEF Playouts, Places
    <2> HIDE DEF s
    <2> QED
      BY <2>1 DEF s
  <1>7. thread' = [thread EXCEPT ![t] = s] /\ heap' = [heap EXCEPT ![thread[t].node].state = r]
    BY <1>2, <1>3, <1>4, <1>6 DEF growChildren, Become, Here
  <1>8. thread'[t] = s
    BY <1>7 DEF TypeOK
  <1>9. /\ heap'[thread[t].node].state = r /\ heap'[thread[t].node].children = Here(t).children
        /\ heap'[thread[t].node].pos = Here(t).pos
    <2>1. thread[t].node \in Nodes /\ heap[thread[t].node].live /\ heap \in Heaps
      BY <1>1, NodeOf
    <2> QED
      BY <1>5, <1>7, <2>1, StateAt DEF Here
  <1>10. thread[t].idx <= getChildrenCapacity(r)
    BY <1>2, <1>4, SizeAssumption DEF getChildrenCapacity, GROWING1, GROWING2, EXPANDED0, EXPANDED1, EXPANDED2
  <1>11. ChoiceInv(t)'
    BY <1>1, <1>2, <1>3, <1>6, <1>8, <1>9, <1>10, ChoiceStays
  <1>12. StateInv(t)' /\ ChildInv(t)'
    BY <1>3, <1>5, <1>6, <1>8, <1>9, <1>11 DEF StateInv, ChildInv, Updating, Here
  <1>13. \A u \in Owners \ {t} : thread[u].node # thread[t].node
    BY <1>1 DEF TreeInv, OwnersInv
  <1>14. s.at \in Places \ OffTree
    BY <1>6 DEF Places, OffTree
  <1> QED
    BY <1>1, <1>3, <1>5, <1>6, <1>7, <1>12, <1>13, <1>14, OwnStep


(* The moves that are searched at a node are moves of its position. *)
LEMMA MovesLegal ==
  ASSUME TypeOK, TreeInv, phase = "search", NEW n \in Live, NEW m \in MovesOf(n)
  PROVE  m \in DOMAIN Play[heap[n].pos] /\ m \in AllMoves /\ Play[heap[n].pos][m] \in Positions
         /\ heap[n].pos \in Positions
  <1>1. heap[n].pos \in Positions
    BY HeapTypes, SameHeap DEF NodeTypes, Live
  <1>2. m \in DOMAIN Play[heap[n].pos]
    <2>1. CASE n = root
      <3>1. heap[n].pos = rootPos /\ RootMoves[rootPos] \subseteq DOMAIN Play[rootPos]
        BY <1>1, <2>1, RootThere, GameAssumption
      <3> QED
        BY <2>1, <3>1 DEF MovesOf
    <2>2. CASE n # root
      BY <2>2 DEF MovesOf
    <2> QED
      BY <2>1, <2>2
  <1> QED
    BY <1>1, <1>2, GameAssumption DEF AllMoves

(* The slots that a thread looks at are the first ones. *)
LEMMA FoundSlots ==
  ASSUME TypeOK, TreeInv, NEW t \in Threads, OnTree(t), NEW cap, cap = getChildrenCapacity(thread[t].state)
  PROVE  /\ cap \in Nat /\ Len(Here(t).children) \in Nat
         /\ Cardinality(Found(t)) \in Nat /\ Cardinality(Found(t)) <= Len(Here(t).children)
         /\ Cardinality(Found(t)) <= cap /\ Found(t) = 1 .. Cardinality(Found(t))
  <1>1. Len(Here(t).children) \in Nat /\ DOMAIN Here(t).children = 1 .. Len(Here(t).children)
    BY NodeOf, NodeFields
  <1>2. thread[t].state \in UNEVALUATED .. EXPANDED2
    BY ThreadFields
  <1>3. thread[t].state \in Int /\ thread[t].state <= thread[t].state
    BY ThreadFields
  <1>4. cap \in Nat
    BY <1>2, <1>3, CapacityGrows
  <1>5. PICK k \in Nat : k = IF Len(Here(t).children) <= cap THEN Len(Here(t).children) ELSE cap
    BY <1>1, <1>4
  <1>6. Found(t) = (1 .. Len(Here(t).children)) \cap (1 .. cap)
    BY <1>1 DEF Found, Slots, Here
  <1>7. Found(t) = 1 .. k
    BY <1>1, <1>4, <1>5, <1>6
  <1>8. Cardinality(1 .. k) = k
    <2>1. Cardinality(1 .. k) = IF 1 > k THEN 0 ELSE k - 1 + 1
      BY FS_Interval
    <2> QED
      BY <2>1
  <1>9. k <= Len(Here(t).children) /\ k <= cap
    BY <1>1, <1>4, <1>5
  <1> QED
    BY <1>1, <1>4, <1>7, <1>8, <1>9

LEMMA SelectNewMoveTree ==
  ASSUME TypeOK, TreeInv, NEW t \in Threads, SelectNewMove(t)
  PROVE  TypeOK' /\ TreeInv'
  <1>1. /\ phase = "search" /\ OnTree(t) /\ thread[t].at = "select" /\ UNCHANGED <<heap, root, rootPos>>
        /\ OnlyThread
    BY DEF SelectNewMove, At, OnTree, OffTree, OnlyThread, userVars
  <1>2. thread[t].node \in Live
    BY <1>1, NodeOf DEF Live
  <1>3. PICK cap : cap = getChildrenCapacity(thread[t].state)
    OBVIOUS
  <1>4. PICK idx : idx = Cardinality(Found(t)) + 1
    OBVIOUS
  <1>5. PICK m \in NewMoves(t), count \in CountKinds(t) :
          Become(t, [thread[t] EXCEPT !.at = IF idx <= cap THEN "allocate" ELSE "full",
                                      !.idx = idx, !.move = m, !.countEdgeVisit = count])
    BY <1>3, <1>4, Zenon DEF SelectNewMove
  <1>6. m \in MovesOf(thread[t].node) /\ \A i \in Found(t) : Here(t).children[i].move # m
    BY DEF NewMoves, MovesOf, Here
  <1>7. m \in AllMoves /\ count \in BOOLEAN
    <2>1. CountKinds(t) \subseteq BOOLEAN
      BY DEF CountKinds
    <2> QED
      BY <1>1, <1>2, <1>6, <2>1, MovesLegal
  <1>8. /\ cap \in Nat /\ idx \in Nat /\ Len(Here(t).children) \in Nat
        /\ idx \in 1 .. Len(Here(t).children) + 1 /\ Found(t) = 1 .. idx - 1 /\ idx <= cap + 1
    <2>1. PICK k : k = Cardinality(Found(t))
      OBVIOUS
    <2>2. /\ cap \in Nat /\ Len(Here(t).children) \in Nat /\ k \in Nat /\ k <= Len(Here(t).children)
          /\ k <= cap /\ Found(t) = 1 .. k
      BY <1>1, <1>3, <2>1, FoundSlots
    <2>3. idx = k + 1 /\ idx - 1 = k
      BY <1>4, <2>1, <2>2
    <2> QED
      BY <2>2, <2>3
  <1>9. PICK x \in Playouts : x = thread[t]
    BY ThreadRecord
  <1>10. PICK a \in {"allocate", "full"} : a = IF idx <= cap THEN "allocate" ELSE "full"
    OBVIOUS
  <1>11. PICK s \in Playouts : /\ s = [x EXCEPT !.at = a, !.idx = idx, !.move = m, !.countEdgeVisit = count]
                               /\ s.at = a /\ s.idx = idx /\ s.move = m
                               /\ s.node = x.node /\ s.path = x.path /\ s.state = x.state
    <2> DEFINE s == [x EXCEPT !.at = a, !.idx = idx, !.move = m, !.countEdgeVisit = count]
    <2>1. a \in Places
      BY DEF Places
    <2>2. s \in Playouts
      BY <1>7, <1>8, <2>1 DEF Playouts
    <2>3. /\ s.at = a /\ s.idx = idx /\ s.move = m
          /\ s.node = x.node /\ s.path = x.path /\ s.state = x.state
      BY DEF Playouts
    <2> HIDE DEF s
    <2> QED
      BY <2>2, <2>3 DEF s
  <1>12. thread' = [thread EXCEPT ![t] = s]
    BY <1>5, <1>9, <1>10, <1>11 DEF Become
  <1>13. thread'[t] = s
    BY <1>12 DEF TypeOK
  <1>14. /\ EXPANDED0 <= thread[t].state /\ thread[t].state <= Here(t).state
         /\ cap <= getChildrenCapacity(Here(t).state) /\ getChildrenCapacity(Here(t).state) \in Nat
    <2>1. EXPANDED0 <= thread[t].state /\ thread[t].state <= Here(t).state
      BY <1>1, NodeOf DEF StateInv
    <2>2. thread[t].state \in UNEVALUATED .. EXPANDED2 /\ Here(t).state \in UNEVALUATED .. EXPANDED2
      BY <1>1, NodeOf, ThreadFields
    <2>3. Here(t).state \in Int /\ Here(t).state <= Here(t).state
      BY <1>1, NodeOf
    <2> QED
      BY <1>3, <2>1, <2>2, <2>3, CapacityGrows
  <1>15. ChoiceInv(t)'
    <2>1. PICK n : n = thread[t].node
      OBVIOUS
    <2>2. m \in MovesOf(n)' /\ thread'[t].node = n /\ heap'[n] = Here(t) /\ thread'[t].move = m /\ thread'[t].idx = idx
      BY <1>1, <1>6, <1>9, <1>11, <1>13, <2>1 DEF MovesOf, Here
    <2>3. /\ idx \in 1 .. Len(heap'[n].children) + 1
          /\ \A i \in 1 .. idx - 1 : heap'[n].children[i].move # m
      BY <1>6, <1>8, <2>2
    <2>4. IF thread'[t].at \in {"full", "grow"}
          THEN idx = getChildrenCapacity(thread'[t].state) + 1
          ELSE idx <= getChildrenCapacity(heap'[n].state)
      <3>1. CASE idx <= cap
        <4>1. thread'[t].at = "allocate"
          BY <1>10, <1>11, <1>13, <3>1
        <4>2. idx <= getChildrenCapacity(Here(t).state)
          BY <1>8, <1>14, <3>1
        <4> QED
          BY <2>2, <4>1, <4>2
      <3>2. CASE ~(idx <= cap)
        <4>1. thread'[t].at = "full" /\ thread'[t].state = thread[t].state
          BY <1>9, <1>10, <1>11, <1>13, <3>2
        <4>2. idx = cap + 1
          BY <1>8, <3>2
        <4> QED
          BY <1>3, <4>1, <4>2
      <3> QED
        BY <3>1, <3>2
    <2> QED
      BY <2>2, <2>3, <2>4 DEF ChoiceInv, Here
  <1>16. OnTree(t)' /\ StateInv(t)' /\ ChildInv(t)'
    <2>1. thread'[t].at \in {"allocate", "full"} /\ thread'[t].node = thread[t].node /\ thread'[t].state = thread[t].state
      BY <1>9, <1>11, <1>13
    <2>2. EXPANDED0 <= thread'[t].state /\ thread'[t].state <= heap'[thread'[t].node].state
      BY <1>1, <1>14, <2>1 DEF Here
    <2> QED
      BY <1>15, <2>1, <2>2 DEF OnTree, OffTree, StateInv, ChildInv, Updating, Here
  <1>17. heap' \in Heaps /\ SameTree(heap, heap') /\ playouts' \in Nat /\ shouldStopNow' \in BOOLEAN
    BY <1>1, SameHeap DEF OnlyThread, TypeOK
  <1>18. PathInv(t)'
    BY <1>1, <1>9, <1>11, <1>12, <1>17, StaysOnPath, SameIsGrown, SameHeap
  <1>19. s.at \in Places \ {"idle", "initialize", "grow"} /\ UNCHANGED <<userVars, markVars>>
    BY <1>1, <1>11 DEF Places, OnlyThread
  <1> QED
    BY <1>1, <1>12, <1>16, <1>17, <1>18, <1>19, SameKeeps


LEMMA AppendChild ==
  ASSUME NEW x \in SearchNodes, NEW slot \in Slot
  PROVE  \E y \in SearchNodes :
           /\ y = [x EXCEPT !.children = Append(x.children, slot)]
           /\ GrownNode(x, y) /\ y.key = x.key /\ y.pos = x.pos /\ y.state = x.state /\ y.live
           /\ y.children = Append(x.children, slot)
  <1>1. x.children \in Seq(Slot) /\ Len(x.children) \in Nat /\ x.state \in Int /\ x.live
    BY NodeFields DEF Slot
  <1>2. PICK c \in Seq(Slot) : c = Append(x.children, slot)
    BY <1>1, AppendIn
  <1>3. /\ Len(c) = Len(x.children) + 1 /\ \A i \in DOMAIN x.children : c[i] = x.children[i]
    BY <1>1, <1>2, AppendIn
  <1>4. PICK y : y = [x EXCEPT !.children = c]
    OBVIOUS
  <1>5. y \in SearchNodes
    BY <1>4 DEF SearchNodes, Slot
  <1>6. /\ y.key = x.key /\ y.pos = x.pos /\ y.state = x.state /\ y.live = x.live /\ y.children = c
    BY <1>4 DEF SearchNodes
  <1>7. GrownNode(x, y)
    BY <1>1, <1>3, <1>6 DEF GrownNode
  <1> QED
    BY <1>1, <1>2, <1>4, <1>5, <1>6, <1>7

(* The heap after a child is inserted. *)
LEMMA InsertHeap ==
  ASSUME TypeOK, NEW n \in Live, NEW slot \in Slot,
         heap' = [heap EXCEPT ![n].children = Append(@, slot)]
  PROVE  /\ heap' \in Heaps /\ GrownTree(heap, heap') /\ Live' = Live
         /\ \A m \in Live : heap'[m].key = heap[m].key /\ heap'[m].pos = heap[m].pos /\ heap'[m].state = heap[m].state
         /\ heap'[n].children = Append(heap[n].children, slot)
         /\ \A m \in Nodes \ {n} : heap'[m] = heap[m]
  <1>1. heap \in Heaps /\ n \in Nodes /\ heap[n].live
    BY SameHeap DEF Live
  <1>2. PICK x \in SearchNodes : x = heap[n]
    BY <1>1, LiveNode
  <1>4. PICK y \in SearchNodes :
          /\ y = [x EXCEPT !.children = Append(x.children, slot)]
          /\ GrownNode(x, y) /\ y.key = x.key /\ y.pos = x.pos /\ y.state = x.state /\ y.live
          /\ y.children = Append(x.children, slot)
    BY AppendChild
  <1>5. heap' = [heap EXCEPT ![n] = y]
    BY <1>2, <1>4
  <1>6. heap' \in Heaps /\ heap'[n] = y /\ \A m \in Nodes \ {n} : heap'[m] = heap[m]
    BY <1>1, <1>4, <1>5 DEF Heaps
  <1>7. GrownTree(heap, heap')
    <2>1. ASSUME NEW m \in Nodes \ {n} PROVE GrownNode(heap[m], heap'[m])
      <3>1. heap'[m] = heap[m]
        BY <1>6
      <3>2. ASSUME heap[m].live PROVE heap[m].state \in Int /\ Len(heap[m].children) \in Nat
        BY <1>1, <3>2, LiveNode, NodeFields
      <3> QED
        BY <3>1, <3>2 DEF GrownNode
    <2> QED
      BY <1>2, <1>4, <1>6, <2>1 DEF GrownTree
  <1>8. Live' = Live
    <2>1. \A m \in Nodes : heap'[m].live = heap[m].live
      <3>1. heap'[n].live = heap[n].live
        BY <1>1, <1>2, <1>4, <1>6, NodeFields
      <3> QED
        BY <1>6, <3>1
    <2> QED
      BY <2>1 DEF Live
  <1>9. \A m \in Live : heap'[m].key = heap[m].key /\ heap'[m].pos = heap[m].pos /\ heap'[m].state = heap[m].state
    BY <1>2, <1>4, <1>6 DEF Live
  <1> QED
    BY <1>2, <1>4, <1>6, <1>7, <1>8, <1>9

(* A new child in the first free slot of a node. *)
LEMMA InsertStatic ==
  ASSUME TypeOK, StaticInv, NEW n \in Live, NEW slot \in Slot,
         heap' = [heap EXCEPT ![n].children = Append(@, slot)], UNCHANGED <<root, oldRoot, rootPos>>,
         Len(heap[n].children) + 1 <= getChildrenCapacity(heap[n].state),
         \A i \in DOMAIN heap[n].children : heap[n].children[i].move # slot.move,
         slot.move \in DOMAIN Play[heap[n].pos], InTable(slot.node), heap[slot.node].pos = Play[heap[n].pos][slot.move]
  PROVE  StaticInv'
  <1>1. /\ heap' \in Heaps /\ Live' = Live
        /\ \A m \in Live : heap'[m].key = heap[m].key /\ heap'[m].pos = heap[m].pos /\ heap'[m].state = heap[m].state
        /\ heap'[n].children = Append(heap[n].children, slot)
        /\ \A m \in Nodes \ {n} : heap'[m] = heap[m]
    BY InsertHeap
  <1>2. RootInv'
    <2>1. {root, oldRoot} \ {NoNode} \subseteq Nodes
      BY DEF TypeOK
    <2> QED
      BY <1>1, <2>1 DEF StaticInv, RootInv, Live
  <1>3. TableInv' /\ OneNodePerPosition'
    BY <1>1 DEF StaticInv, TableInv, OneNodePerPosition
  <1>4. PICK c \in Seq(Slot) : c = heap[n].children
    <2>1. heap[n] \in SearchNodes
      BY LiveNode, SameHeap DEF Live
    <2> QED
      BY <2>1, NodeFields DEF Slot
  <1>5. PICK d \in Seq(Slot) : d = Append(c, slot)
    BY AppendIn
  <1>6. /\ heap'[n].children = d /\ Len(d) = Len(c) + 1 /\ Len(c) \in Nat
        /\ DOMAIN d = 1 .. Len(c) + 1 /\ DOMAIN c = 1 .. Len(c)
        /\ \A i \in DOMAIN c : d[i] = c[i]
        /\ d[Len(c) + 1] = slot
    BY <1>1, <1>4, <1>5, AppendIn
  <1>7. slot.node \in Live /\ heap'[slot.node].pos = heap[slot.node].pos /\ heap'[slot.node].key # RootKey /\ heap'[slot.node].live
    BY <1>1 DEF InTable, Live
  <1>8. ASSUME NEW i \in DOMAIN c
        PROVE  c[i].node \in Live /\ heap[c[i].node].pos = Play[heap[n].pos][c[i].move]
               /\ c[i].move \in DOMAIN Play[heap[n].pos] /\ heap[c[i].node].key # RootKey
               /\ \A j \in DOMAIN c \ {i} : c[i].move # c[j].move
    <2>1. c[i] \in Slot
      BY ElementIn
    <2>2. c[i].node \in Nodes
      BY <2>1 DEF Slot
    <2>3. heap[c[i].node].live /\ heap[c[i].node].pos = Play[heap[n].pos][c[i].move]
          /\ \A j \in DOMAIN c \ {i} : c[i].move # c[j].move
      BY <1>4 DEF StaticInv, ChildrenFollowMoves
    <2>4. c[i].move \in DOMAIN Play[heap[n].pos] /\ heap[c[i].node].key # RootKey
      BY <1>4 DEF StaticInv, ChildrenInTable, Children
    <2> QED
      BY <2>2, <2>3, <2>4 DEF Live
  <1>9. ASSUME NEW i \in DOMAIN d
        PROVE  d[i].node \in Live /\ heap'[d[i].node].pos = Play[heap'[n].pos][d[i].move]
               /\ d[i].move \in DOMAIN Play[heap'[n].pos] /\ heap'[d[i].node].key # RootKey
               /\ \A j \in DOMAIN d \ {i} : d[i].move # d[j].move
    <2>1. heap'[n].pos = heap[n].pos
      BY <1>1
    <2>2. CASE i \in DOMAIN c
      <3>1. d[i] = c[i]
        BY <1>6, <2>2
      <3>2. \A j \in DOMAIN d \ {i} : d[i].move # d[j].move
        <4>1. ASSUME NEW j \in DOMAIN d \ {i} PROVE d[i].move # d[j].move
          <5>1. CASE j \in DOMAIN c
            BY <1>6, <1>8, <2>2, <3>1, <5>1
          <5>2. CASE j = Len(c) + 1
            BY <1>4, <1>6, <2>2, <3>1, <5>2
          <5> QED
            BY <1>6, <5>1, <5>2
        <4> QED
          BY <4>1
      <3> QED
        BY <1>1, <1>8, <2>1, <2>2, <3>1, <3>2
    <2>3. CASE i = Len(c) + 1
      <3>1. d[i] = slot
        BY <1>6, <2>3
      <3>2. \A j \in DOMAIN d \ {i} : j \in DOMAIN c /\ d[j] = c[j]
        BY <1>6, <2>3
      <3>3. \A j \in DOMAIN d \ {i} : d[i].move # d[j].move
        BY <1>4, <3>1, <3>2
      <3> QED
        BY <1>7, <2>1, <3>1, <3>3
    <2> QED
      BY <1>6, <2>2, <2>3
  <1>10. ASSUME NEW m \in Live \ {n}, NEW i \in DOMAIN heap[m].children
         PROVE  heap[m].children[i].node \in Live
    <2>1. heap[m].children \in Seq(Slot)
      <3>1. heap[m] \in SearchNodes
        BY LiveNode, SameHeap DEF Live
      <3> QED
        BY <3>1, NodeFields DEF Slot
    <2>2. heap[m].children[i] \in Slot
      BY <2>1, ElementIn
    <2>3. heap[m].children[i].node \in Nodes
      BY <2>2 DEF Slot
    <2> QED
      BY <2>3 DEF StaticInv, ChildrenFollowMoves, Live
  <1>11. ASSUME NEW m \in Live \ {n} PROVE heap'[m] = heap[m]
    BY <1>1, SMTT(30) DEF Live
  <1>12. ChildrenInTable'
    <2>1. ASSUME NEW m \in Live', NEW i \in DOMAIN heap'[m].children
          PROVE  heap'[m].children[i].move \in DOMAIN Play[heap'[m].pos]
                 /\ heap'[heap'[m].children[i].node].key # RootKey
      <3>1. CASE m = n
        BY <1>6, <1>9, <3>1
      <3>2. CASE m # n
        <4>1. m \in Live \ {n} /\ heap'[m] = heap[m]
          BY <1>1, <1>11, <3>2
        <4>2. heap[m].children[i].node \in Live
          BY <1>10, <4>1, SMTT(30)
        <4> QED
          BY <1>1, <4>1, <4>2 DEF StaticInv, ChildrenInTable, Children
      <3> QED
        BY <3>1, <3>2
    <2> QED
      BY <2>1 DEF ChildrenInTable, Children
  <1>13. ChildrenFollowMoves'
    <2>1. ASSUME NEW m \in Live'
          PROVE  /\ Len(heap'[m].children) <= getChildrenCapacity(heap'[m].state)
                 /\ \A i \in DOMAIN heap'[m].children :
                      /\ heap'[heap'[m].children[i].node].live
                      /\ heap'[heap'[m].children[i].node].pos = Play[heap'[m].pos][heap'[m].children[i].move]
                      /\ \A j \in DOMAIN heap'[m].children \ {i} : heap'[m].children[i].move # heap'[m].children[j].move
      <3>1. CASE m = n
        <4>1. Len(d) <= getChildrenCapacity(heap'[n].state)
          BY <1>1, <1>4, <1>6
        <4>2. \A i \in DOMAIN d : heap'[d[i].node].live
          BY <1>1, <1>9 DEF Live
        <4>3. \A i \in DOMAIN d : /\ heap'[d[i].node].live
                                   /\ heap'[d[i].node].pos = Play[heap'[n].pos][d[i].move]
                                   /\ \A j \in DOMAIN d \ {i} : d[i].move # d[j].move
          BY <1>9, <4>2
        <4>4. heap'[m].children = d /\ m = n
          BY <1>6, <3>1
        <4> DEFINE Fine(c1, p) == \A i \in DOMAIN c1 : /\ heap'[c1[i].node].live
                                                     /\ heap'[c1[i].node].pos = Play[p][c1[i].move]
                                                     /\ \A j \in DOMAIN c1 \ {i} : c1[i].move # c1[j].move
        <4>5. Fine(d, heap'[n].pos)
          BY <4>3
        <4>6. Fine(heap'[m].children, heap'[m].pos)
          <5> HIDE DEF Fine
          <5> QED
            BY <4>4, <4>5
        <4>7. Len(heap'[m].children) <= getChildrenCapacity(heap'[m].state)
          BY <4>1, <4>4
        <4> QED
          BY <4>6, <4>7, Zenon
      <3>2. CASE m # n
        <4>1. m \in Live \ {n} /\ heap'[m] = heap[m]
          BY <1>1, <1>11, <3>2
        <4>2. \A i \in DOMAIN heap[m].children :
                heap[m].children[i].node \in Live /\ heap'[heap[m].children[i].node].live
                /\ heap'[heap[m].children[i].node].pos = heap[heap[m].children[i].node].pos
          BY <1>1, <1>10, <4>1 DEF Live
        <4> QED
          BY <4>1, <4>2, SMTT(60) DEF StaticInv, ChildrenFollowMoves
      <3> QED
        BY <3>1, <3>2, Zenon
    <2> QED
      BY <2>1, Zenon DEF ChildrenFollowMoves
  <1> QED
    BY <1>2, <1>3, <1>12, <1>13 DEF StaticInv

LEMMA InsertTree ==
  ASSUME TypeOK, TreeInv, NEW t \in Threads, insertChild(t)
  PROVE  TypeOK' /\ TreeInv'
  <1>1. /\ phase = "search" /\ OnTree(t) /\ thread[t].at = "insert" /\ OnlyTree /\ UNCHANGED <<root, oldRoot, rootPos>>
        /\ heap \in Heaps
    BY SameHeap DEF insertChild, At, OnTree, OffTree, OnlyTree, userVars
  <1>2. /\ InTable(thread[t].child) /\ thread[t].node \in Nodes /\ heap[thread[t].node].live
        /\ heap[thread[t].child].pos = Play[Here(t).pos][thread[t].move]
        /\ ChoiceInv(t) /\ thread[t].idx <= getChildrenCapacity(Here(t).state)
    BY <1>1, NodeOf DEF ChildInv, StateInv, ChoiceInv, Choosing
  <1>3. thread[t].child \in Nodes
    BY <1>2, TableNode
  <1>4. CASE thread[t].idx \in Slots(thread[t].node)
    <2>1. /\ heap' = [heap EXCEPT ![thread[t].child].virtualLosses = heap[thread[t].child].virtualLosses - 1]
          /\ thread' = [thread EXCEPT ![t] = GivesUp(t)]
      BY <1>4 DEF insertChild, Become
    <2>2. heap' \in Heaps /\ SameTree(heap, heap')
      BY <1>1, <1>2, <1>3, <2>1, TableNode, LossStep
    <2> QED
      BY <1>1, <2>1, <2>2, GivesUpType, StaysEasy
  <1>5. CASE thread[t].idx \notin Slots(thread[t].node)
    <2>1. PICK n \in Live, c \in Nodes, m \in AllMoves, i \in Nat :
            n = thread[t].node /\ c = thread[t].child /\ m = thread[t].move /\ i = thread[t].idx
      <3>1. thread[t].node \in Live
        BY <1>2 DEF Live
      <3>2. thread[t].move \in AllMoves
        BY <1>1, <1>2, <3>1, MovesLegal DEF ChoiceInv
      <3> QED
        BY <1>3, <3>1, <3>2, ThreadFields
    <2>2. PICK slot \in Slot : /\ slot = [move |-> m, node |-> c, edgeVisits |-> 0]
                               /\ slot.move = m /\ slot.node = c
      <3>1. PICK z \in Nat : z = 0
        OBVIOUS
      <3>2. [move |-> m, node |-> c, edgeVisits |-> z] \in Slot
        BY DEF Slot
      <3> QED
        BY <3>1, <3>2
    <2>3. heap' = [heap EXCEPT ![n].children = Append(@, slot)]
      BY <1>5, <2>1, <2>2 DEF insertChild
    <2>4. /\ Len(heap[n].children) \in Nat /\ DOMAIN heap[n].children = 1 .. Len(heap[n].children)
          /\ heap[n].children \in Seq(Slot)
      <3>1. heap[n] \in SearchNodes
        BY LiveNode, SameHeap DEF Live
      <3> QED
        BY <3>1, NodeFields DEF Slot
    <2>5. i = Len(heap[n].children) + 1
      <3>1. i \in 1 .. Len(heap[n].children) + 1 /\ i \notin DOMAIN heap[n].children
        BY <1>2, <1>5, <2>1 DEF ChoiceInv, Here, Slots
      <3> QED
        BY <2>4, <3>1
    <2>6. m \in DOMAIN Play[heap[n].pos]
      BY <1>1, <1>2, <2>1, MovesLegal DEF ChoiceInv
    <2>7. \A k \in DOMAIN heap[n].children : heap[n].children[k].move # slot.move
      <3>1. \A k \in 1 .. i - 1 : heap[n].children[k].move # m
        BY <1>2, <2>1 DEF ChoiceInv, Here
      <3> QED
        BY <2>2, <2>4, <2>5, <3>1
    <2>8. Len(heap[n].children) + 1 <= getChildrenCapacity(heap[n].state)
      BY <1>2, <2>1, <2>5 DEF Here
    <2>9. InTable(slot.node) /\ heap[slot.node].pos = Play[heap[n].pos][slot.move] /\ slot.move \in DOMAIN Play[heap[n].pos]
      BY <1>2, <2>1, <2>2, <2>6 DEF Here
    <2>10. StaticInv'
      BY <1>1, <2>3, <2>7, <2>8, <2>9, InsertStatic DEF TreeInv, StaticInv
    <2>11. /\ heap' \in Heaps /\ GrownTree(heap, heap') /\ Live' = Live
           /\ \A k \in Live : heap'[k].state = heap[k].state
           /\ heap'[n].children = Append(heap[n].children, slot)
      BY <2>3, InsertHeap
    <2>12. PICK x \in Playouts : x = thread[t]
      BY ThreadRecord
    <2>13. PICK s \in Playouts : /\ s = [x EXCEPT !.at = "edge", !.move = "none", !.state = 0] /\ s.at = "edge"
                                 /\ s.node = x.node /\ s.path = x.path /\ s.idx = x.idx /\ s.child = x.child
      <3>0. PICK r \in UNEVALUATED .. EXPANDED2, no \in AllMoves \cup {"none"} : r = 0 /\ no = "none"
        BY DEF UNEVALUATED, EXPANDED2
      <3> DEFINE s == [x EXCEPT !.at = "edge", !.move = no, !.state = r]
      <3>1. /\ s \in Playouts /\ s.at = "edge"
            /\ s.node = x.node /\ s.path = x.path /\ s.idx = x.idx /\ s.child = x.child
        BY DEF Playouts, Places
      <3>2. s = [x EXCEPT !.at = "edge", !.move = "none", !.state = 0]
        BY <3>0
      <3> HIDE DEF s
      <3> QED
        BY <3>1, <3>2
    <2>14. thread' = [thread EXCEPT ![t] = s]
      BY <1>5, <2>12, <2>13 DEF insertChild, Become
    <2>15. thread'[t] = s
      BY <2>14 DEF TypeOK
    <2>16. PathInv(t)'
      BY <1>1, <2>11, <2>12, <2>13, <2>14, StaysOnPath
    <2>17. OnTree(t)' /\ StateInv(t)' /\ ChildInv(t)'
      <3>1. thread'[t].at = "edge" /\ thread'[t].node = n /\ thread'[t].idx = i /\ thread'[t].child = c
        BY <2>1, <2>12, <2>13, <2>15
      <3>2. i \in DOMAIN heap'[n].children /\ heap'[n].children[i].node = c
        BY <2>2, <2>4, <2>5, <2>11, AppendIn
      <3> QED
        BY <3>1, <3>2 DEF OnTree, OffTree, StateInv, ChildInv, Choosing, Updating, Here, Slots
    <2>18. \A u \in Owners \ {t} : heap'[thread[u].node].state = heap[thread[u].node].state
      <3>1. ASSUME NEW u \in Owners PROVE thread[u].node \in Live
        <4>1. u \in Threads /\ OnTree(u)
          BY DEF Owners, OnTree, OffTree
        <4> QED
          BY <4>1, NodeOf DEF Live
      <3> QED
        BY <2>11, <3>1
    <2>19. t \notin Owners'
      BY <2>13, <2>15 DEF Owners
    <2>20. s.at \in Places \ {"idle"} /\ UNCHANGED <<userVars, markVars>>
           /\ playouts' \in Nat /\ shouldStopNow' \in BOOLEAN
      BY <1>1, <2>13 DEF Places, OnlyTree, TypeOK
    <2> QED
      BY <1>1, <2>10, <2>11, <2>14, <2>16, <2>17, <2>18, <2>19, <2>20, SearchKeeps
  <1> QED
    BY <1>4, <1>5


(* A node at a free address, with children that are there. *)
LEMMA Graft ==
  ASSUME TypeOK, ChildrenFollowMoves, ChildrenInTable, NEW a \in Nodes, a \notin Live, NEW y \in SearchNodes,
         heap' = [heap EXCEPT ![a] = y],
         Len(y.children) <= getChildrenCapacity(y.state),
         \A i \in DOMAIN y.children :
           /\ y.children[i].node \in Live /\ heap[y.children[i].node].key # RootKey
           /\ y.children[i].move \in DOMAIN Play[y.pos]
           /\ heap[y.children[i].node].pos = Play[y.pos][y.children[i].move]
           /\ \A j \in DOMAIN y.children \ {i} : y.children[i].move # y.children[j].move
  PROVE  /\ heap' \in Heaps /\ GrownTree(heap, heap') /\ Live' = Live \cup {a} /\ heap'[a] = y
         /\ \A k \in Nodes \ {a} : heap'[k] = heap[k]
         /\ ChildrenFollowMoves' /\ ChildrenInTable'
  <1>1. heap \in Heaps
    BY SameHeap
  <1>2. heap' \in Heaps /\ heap'[a] = y /\ \A k \in Nodes \ {a} : heap'[k] = heap[k]
    BY <1>1 DEF Heaps
  <1>3. y.live
    BY NodeFields
  <1>4. Live' = Live \cup {a}
    BY <1>2, <1>3 DEF Live
  <1>5. GrownTree(heap, heap')
    <2>1. ASSUME NEW k \in Nodes, heap[k].live PROVE GrownNode(heap[k], heap'[k])
      <3>1. heap'[k] = heap[k]
        BY <1>2, <2>1 DEF Live
      <3>2. heap[k].state \in Int /\ Len(heap[k].children) \in Nat
        BY <1>1, <2>1, LiveNode, NodeFields
      <3> QED
        BY <3>1, <3>2 DEF GrownNode
    <2> QED
      BY <2>1 DEF GrownTree, GrownNode
  <1>6. \A k \in Live : heap'[k] = heap[k]
    BY <1>2 DEF Live
  <1>7. ASSUME NEW k \in Live, NEW i \in DOMAIN heap[k].children
        PROVE  heap[k].children[i].node \in Live
    <2>1. heap[k].children \in Seq(Slot)
      <3>1. heap[k] \in SearchNodes
        BY <1>1, LiveNode DEF Live
      <3> QED
        BY <3>1, NodeFields DEF Slot
    <2>2. heap[k].children[i] \in Slot
      BY <2>1, ElementIn
    <2>3. heap[k].children[i].node \in Nodes
      BY <2>2 DEF Slot
    <2> QED
      BY <2>3 DEF ChildrenFollowMoves, Live
  <1> DEFINE Fine(x) == /\ Len(x.children) <= getChildrenCapacity(x.state)
                        /\ \A i \in DOMAIN x.children :
                             /\ heap'[x.children[i].node].live /\ heap'[x.children[i].node].key # RootKey
                             /\ x.children[i].move \in DOMAIN Play[x.pos]
                             /\ heap'[x.children[i].node].pos = Play[x.pos][x.children[i].move]
                             /\ \A j \in DOMAIN x.children \ {i} : x.children[i].move # x.children[j].move
  <1>8. Fine(y)
    <2>1. ASSUME NEW i \in DOMAIN y.children
          PROVE  /\ heap'[y.children[i].node] = heap[y.children[i].node]
                 /\ heap[y.children[i].node].live
      BY <1>6, SMTT(30) DEF Live
    <2> QED
      BY <2>1
  <1>9. ASSUME NEW k \in Live PROVE Fine(heap[k])
    <2>1. ASSUME NEW i \in DOMAIN heap[k].children
          PROVE  /\ heap'[heap[k].children[i].node].live /\ heap'[heap[k].children[i].node].key # RootKey
                 /\ heap[k].children[i].move \in DOMAIN Play[heap[k].pos]
                 /\ heap'[heap[k].children[i].node].pos = Play[heap[k].pos][heap[k].children[i].move]
                 /\ \A j \in DOMAIN heap[k].children \ {i} : heap[k].children[i].move # heap[k].children[j].move
      <3>1. heap'[heap[k].children[i].node] = heap[heap[k].children[i].node]
        BY <1>6, <1>7
      <3> QED
        BY <3>1, SMTT(60) DEF ChildrenFollowMoves, ChildrenInTable, Children
    <2>2. Len(heap[k].children) <= getChildrenCapacity(heap[k].state)
      BY DEF ChildrenFollowMoves
    <2> QED
      BY <2>1, <2>2, SMTT(30)
  <1>10. \A k \in Live' : Fine(heap'[k])
    <2> HIDE DEF Fine
    <2> QED
      BY <1>2, <1>4, <1>6, <1>8, <1>9, SMTT(30)
  <1>11. ChildrenFollowMoves'
    BY <1>10, SMTT(60) DEF ChildrenFollowMoves
  <1>12. ChildrenInTable'
    BY <1>10, SMTT(60) DEF ChildrenInTable, Children
  <1> QED
    BY <1>2, <1>4, <1>5, <1>11, <1>12

(* A thread that has the node it wants to link to. *)
LEMMA ToInsert ==
  ASSUME TypeOK, TreeInv, phase = "search", NEW t \in Threads, thread[t].at = "allocate", OnlyTree,
         NEW c \in Nodes, Become(t, [thread[t] EXCEPT !.at = "insert", !.child = c]),
         heap' \in Heaps, GrownTree(heap, heap'), StaticInv',
         \A k \in Live : /\ heap'[k].state = heap[k].state /\ heap'[k].children = heap[k].children
                         /\ heap'[k].pos = heap[k].pos,
         heap'[c].live, heap'[c].key # RootKey, heap'[c].pos = Play[Here(t).pos][thread[t].move]
  PROVE  TypeOK' /\ TreeInv'
  <1>1. OnTree(t) /\ UNCHANGED <<root, rootPos>>
    BY DEF OnTree, OffTree, OnlyTree, userVars
  <1>2. PICK n \in Live : n = thread[t].node
    BY <1>1, NodeOf DEF Live
  <1>3. /\ ChoiceInv(t) /\ EXPANDED0 <= thread[t].state /\ thread[t].state <= Here(t).state
        /\ thread[t].idx <= getChildrenCapacity(Here(t).state)
    BY <1>1, NodeOf DEF StateInv, ChoiceInv, Choosing
  <1>4. PICK x \in Playouts : x = thread[t]
    BY ThreadRecord
  <1>5. PICK s \in Playouts : /\ s = [x EXCEPT !.at = "insert", !.child = c] /\ s.at = "insert" /\ s.child = c
                              /\ s.node = x.node /\ s.path = x.path /\ s.idx = x.idx /\ s.move = x.move
                              /\ s.state = x.state
    <2> DEFINE s == [x EXCEPT !.at = "insert", !.child = c]
    <2>1. /\ s \in Playouts /\ s.at = "insert" /\ s.child = c
          /\ s.node = x.node /\ s.path = x.path /\ s.idx = x.idx /\ s.move = x.move /\ s.state = x.state
      BY DEF Playouts, Places
    <2> HIDE DEF s
    <2> QED
      BY <2>1 DEF s
  <1>6. thread' = [thread EXCEPT ![t] = s]
    BY <1>4, <1>5 DEF Become
  <1>7. thread'[t] = s
    BY <1>6 DEF TypeOK
  <1>8. /\ heap'[n].state = Here(t).state /\ heap'[n].children = Here(t).children
        /\ heap'[n].pos = Here(t).pos
    BY <1>2 DEF Here
  <1>9. ChoiceInv(t)'
    <2>1. thread'[t].at = "insert" /\ thread'[t].idx <= getChildrenCapacity(heap'[n].state)
      BY <1>3, <1>4, <1>5, <1>7, <1>8
    <2> QED
      BY <1>1, <1>2, <1>3, <1>4, <1>5, <1>7, <1>8, <2>1, ChoiceStays
  <1>10. OnTree(t)' /\ StateInv(t)' /\ ChildInv(t)'
    <2>1. /\ thread'[t].at = "insert" /\ thread'[t].node = n /\ thread'[t].state = thread[t].state
          /\ thread'[t].child = c /\ thread'[t].move = thread[t].move
      BY <1>2, <1>4, <1>5, <1>7
    <2>2. EXPANDED0 <= thread'[t].state /\ thread'[t].state <= heap'[n].state
      BY <1>3, <1>8, <2>1
    <2>3. heap'[c].pos = Play[heap'[n].pos][thread'[t].move] /\ c \in Live'
      BY <1>8, <2>1 DEF Live
    <2> QED
      BY <1>9, <2>1, <2>2, <2>3 DEF OnTree, OffTree, StateInv, ChildInv, Updating, Here, InTable
  <1>11. PathInv(t)'
    BY <1>1, <1>4, <1>5, <1>6, StaysOnPath
  <1>12. \A u \in Owners \ {t} : heap'[thread[u].node].state = heap[thread[u].node].state
    <2>1. ASSUME NEW u \in Owners PROVE thread[u].node \in Live
      <3>1. u \in Threads /\ OnTree(u)
        BY DEF Owners, OnTree, OffTree
      <3> QED
        BY <3>1, NodeOf DEF Live
    <2> QED
      BY <2>1
  <1>13. t \notin Owners'
    BY <1>5, <1>7 DEF Owners
  <1>14. s.at \in Places \ {"idle"} /\ UNCHANGED <<userVars, markVars>>
         /\ playouts' \in Nat /\ shouldStopNow' \in BOOLEAN
    BY <1>5 DEF Places, OnlyTree, TypeOK
  <1> QED
    BY <1>6, <1>10, <1>11, <1>12, <1>13, <1>14, SearchKeeps

LEMMA NewNode ==
  ASSUME NEW key \in Keys, NEW pos \in Positions
  PROVE  /\ SearchNode(key, pos) \in SearchNodes
         /\ \E y \in SearchNodes : /\ y = [SearchNode(key, pos) EXCEPT !.virtualLosses = @ + 1]
                                   /\ y.live /\ y.key = key /\ y.pos = pos /\ y.children = <<>>
                                   /\ y.state = UNEVALUATED
  <1>1. UNEVALUATED \in UNEVALUATED .. EXPANDED2 /\ <<>> \in Seq([move : AllMoves, node : Nodes, edgeVisits : Nat])
    BY DEF UNEVALUATED, EXPANDED2
  <1>2. SearchNode(key, pos) \in SearchNodes
    BY <1>1 DEF SearchNode, SearchNodes
  <1>3. PICK x \in SearchNodes : /\ x = SearchNode(key, pos) /\ x.live /\ x.key = key /\ x.pos = pos /\ x.children = <<>>
                                 /\ x.state = UNEVALUATED /\ x.virtualLosses = 0
    BY <1>2 DEF SearchNode
  <1>6. PICK v \in Int : v = x.virtualLosses + 1
    BY <1>3
  <1> DEFINE y == [x EXCEPT !.virtualLosses = v]
  <1>4. /\ y \in SearchNodes /\ y.live = x.live /\ y.key = x.key /\ y.pos = x.pos /\ y.children = x.children
        /\ y.state = x.state
    BY Zenon DEF SearchNodes
  <1>5. y = [SearchNode(key, pos) EXCEPT !.virtualLosses = @ + 1]
    BY <1>3, <1>6
  <1> HIDE DEF y
  <1> QED
    BY <1>2, <1>3, <1>4, <1>5

LEMMA AllocateTree ==
  ASSUME TypeOK, TreeInv, NEW t \in Threads, allocateOrFindNode(t)
  PROVE  TypeOK' /\ TreeInv'
  <1>1. /\ phase = "search" /\ thread[t].at = "allocate" /\ OnTree(t) /\ OnlyTree
        /\ UNCHANGED <<root, oldRoot, rootPos>> /\ heap \in Heaps
    BY SameHeap, Zenon DEF allocateOrFindNode, At, OnTree, OffTree, OnlyTree, userVars
  <1>2. ChoiceInv(t) /\ thread[t].node \in Live
    BY <1>1, NodeOf DEF StateInv, Choosing, Live
  <1>3. PICK pos \in Positions : pos = Play[Here(t).pos][thread[t].move]
    BY <1>1, <1>2, MovesLegal DEF ChoiceInv, Here
  <1>4. PICK there, same : /\ there = {n \in Live : heap[n].key = GraphHash[pos]}
                           /\ same = {n \in there : ToMove[heap[n].pos] = ToMove[pos]}
    OBVIOUS
  <1>5. GraphHash[pos] \in Keys /\ FreshKey \in Keys /\ GraphHash[pos] \notin {RootKey, FreshKey}
    BY HashAssumption DEF Keys
  <1>6. CASE same # {}
    <2>1. PICK c : c = Min(same)
      OBVIOUS
    <2>2. c \in same
      <3>1. same \subseteq Nat
        BY <1>4, BoundAssumption DEF Live, Nodes
      <3> QED
        BY <1>6, <2>1, <3>1, MinIn
    <2>3. /\ c \in Nodes /\ heap[c].live /\ c \in Live /\ heap[c].key = GraphHash[pos]
          /\ ToMove[heap[c].pos] = ToMove[pos]
      BY <1>4, <2>2 DEF Live
    <2>4. heap[c].pos = pos
      <3>1. heap[c].key = GraphHash[heap[c].pos]
        BY <1>5, <2>3 DEF TreeInv, TableInv
      <3>2. heap[c].pos \in Positions
        BY <1>1, <2>3, HeapTypes DEF NodeTypes
      <3> QED
        BY <2>3, <3>1, <3>2, HashAssumption
    <2>5. heap' = [heap EXCEPT ![c].virtualLosses = heap[c].virtualLosses + 1]
      BY <1>3, <1>4, <1>6, <2>1, Zenon DEF allocateOrFindNode
    <2>6. Become(t, [thread[t] EXCEPT !.at = "insert", !.child = c])
      BY <1>3, <1>4, <1>6, <2>1, Zenon DEF allocateOrFindNode
    <2>7. heap' \in Heaps /\ SameTree(heap, heap')
      <3>1. heap[c].virtualLosses + 1 \in Int
        BY <1>5, <2>3, TableNode DEF InTable
      <3> QED
        BY <1>1, <2>3, <2>5, <3>1, LossStep
    <2>8. GrownTree(heap, heap') /\ StaticInv'
      BY <1>1, <2>7, SameIsGrown, SameIsQuiet, StaticQuiet DEF TreeInv, StaticInv
    <2>9. ASSUME NEW k \in Live
          PROVE  /\ heap'[k].state = heap[k].state /\ heap'[k].children = heap[k].children
                 /\ heap'[k].pos = heap[k].pos
      <3>1. heap[k] \in SearchNodes /\ k \in Nodes
        BY <1>1, LiveNode DEF Live
      <3>2. CASE k = c
        <4>1. heap'[k] = [heap[k] EXCEPT !.virtualLosses = heap[c].virtualLosses + 1]
          BY <1>1, <2>3, <2>5, <3>2 DEF Heaps
        <4> QED
          BY <3>1, <4>1 DEF SearchNodes
      <3>3. CASE k # c
        BY <1>1, <2>5, <3>1, <3>3 DEF Heaps
      <3> QED
        BY <3>2, <3>3
    <2>10. heap'[c].live /\ heap'[c].key # RootKey /\ heap'[c].pos = Play[Here(t).pos][thread[t].move]
      BY <1>3, <1>5, <2>3, <2>4, <2>8, SMTT(30) DEF GrownTree, GrownNode
    <2> QED
      BY <1>1, <2>3, <2>6, <2>7, <2>8, <2>9, <2>10, ToInsert, Zenon
  <1>7. CASE same = {}
    <2>1. HeapHasRoom
      BY <1>3, <1>4, <1>7, Zenon DEF allocateOrFindNode
    <2>2. PICK a \in Nodes : a = Address /\ a \notin Live
      BY <2>1, RoomForNode
    <2>3. PICK key \in Keys : key = IF there = {} THEN GraphHash[pos] ELSE FreshKey
      BY <1>5
    <2>4. PICK y \in SearchNodes : /\ y = [SearchNode(key, pos) EXCEPT !.virtualLosses = @ + 1]
                                   /\ y.live /\ y.key = key /\ y.pos = pos /\ y.children = <<>>
                                   /\ y.state = UNEVALUATED
      BY NewNode, SMTT(30)
    <2>5. heap' = [heap EXCEPT ![a] = y]
      BY <1>3, <1>4, <1>7, <2>2, <2>3, <2>4, ZenonT(60) DEF allocateOrFindNode
    <2>6. Become(t, [thread[t] EXCEPT !.at = "insert", !.child = a])
      BY <1>3, <1>4, <1>7, <2>2, Zenon DEF allocateOrFindNode
    <2>7. /\ heap' \in Heaps /\ GrownTree(heap, heap') /\ Live' = Live \cup {a} /\ heap'[a] = y
          /\ \A k \in Nodes \ {a} : heap'[k] = heap[k]
          /\ ChildrenFollowMoves' /\ ChildrenInTable'
      <3>1. Len(y.children) <= getChildrenCapacity(y.state)
        BY <2>4 DEF getChildrenCapacity, UNEVALUATED, EXPANDED0
      <3>2. DOMAIN y.children = {}
        BY <2>4
      <3> QED
        BY <2>2, <2>5, <3>1, <3>2, Graft DEF TreeInv
    <2>8. \A k \in Live : heap'[k] = heap[k]
      BY <2>2, <2>7 DEF Live
    <2>9. RootInv'
      <3>1. \A r \in {root, oldRoot} \ {NoNode} : r \in Live
        BY DEF TreeInv, RootInv, TypeOK, Live
      <3> QED
        BY <1>1, <2>8, <3>1 DEF TreeInv, RootInv
    <2>10. TableInv'
      <3>1. y.key # RootKey /\ (y.key # FreshKey => y.key = GraphHash[y.pos])
        BY <1>5, <2>3, <2>4 DEF RootKey, FreshKey
      <3> QED
        BY <1>1, <2>7, <2>8, <3>1 DEF TreeInv, TableInv
    <2>11. OneNodePerPosition'
      <3>1. \A k \in Live : heap[k].key = y.key => y.key = FreshKey
        BY <1>4, <2>3, <2>4
      <3> QED
        BY <2>7, <2>8, <3>1 DEF TreeInv, OneNodePerPosition
    <2>12. StaticInv'
      BY <2>7, <2>9, <2>10, <2>11, SMTT(30) DEF StaticInv
    <2>13. heap'[a].live /\ heap'[a].key # RootKey /\ heap'[a].pos = Play[Here(t).pos][thread[t].move]
      BY <1>3, <1>5, <2>3, <2>4, <2>7, Zenon DEF RootKey, FreshKey
    <2> QED
      BY <1>1, <2>6, <2>7, <2>8, <2>12, <2>13, ToInsert, Zenon
  <1> QED
    BY <1>6, <1>7

LEMMA SearchStepTree ==
  ASSUME TypeOK, TreeInv, NEW t \in Threads, SearchStep(t)
  PROVE  TypeOK' /\ TreeInv'
  BY LoopTree, RunTree, EvaluateTree, DescendTree, ClaimTree, InitializeTree, SelectChildTree, SelectNewMoveTree,
     ExpandTree, GrowTree, AllocateTree, InsertTree, CatchUpTree, PushTree, ReturnTree, UpdateTree
  DEF SearchStep


-----------------------------------------------------------------------------
(* The user's thread *)

LEMMA IdleThreads ==
  ASSUME \A t \in Threads : thread'[t].at \in {"idle", "begin"} /\ thread'[t].path = <<>>
  PROVE  ThreadInv' /\ OwnersInv'
  <1>1. Owners' = {}
    BY DEF Owners
  <1>2. OwnersInv'
    BY <1>1 DEF OwnersInv
  <1>3. \A t \in Threads : ~OnTree(t)' /\ thread'[t].path = <<>>
    BY DEF OnTree, OffTree
  <1>4. ThreadInv'
    BY <1>3 DEF ThreadInv
  <1> QED
    BY <1>2, <1>4

LEMMA NoThreads ==
  ASSUME TypeOK, TreeInv, phase # "search"
  PROVE  /\ thread = [t \in Threads |-> NoPlayout]
         /\ \A t \in Threads : thread[t].at \in {"idle", "begin"} /\ thread[t].path = <<>>
  <1>1. thread = [t \in Threads |-> NoPlayout]
    BY DEF TreeInv, PhaseInv
  <1>2. \A t \in Threads : thread[t] = NoPlayout
    BY <1>1
  <1> QED
    BY <1>1, <1>2 DEF NoPlayout

LEMMA StartedThreads ==
  ASSUME StartThreads
  PROVE  /\ thread' \in [Threads -> Playouts] /\ playouts' \in Nat /\ shouldStopNow' \in BOOLEAN /\ phase' = "search"
         /\ \A t \in Threads : thread'[t].at = "begin" /\ thread'[t].path = <<>>
  <1>1. NoPlayout \in Playouts /\ NoPlayout.path = <<>>
    BY DEF NoPlayout, Playouts, Places, UNEVALUATED, EXPANDED2
  <1>2. PICK x \in Playouts : x = [NoPlayout EXCEPT !.at = "begin"] /\ x.at = "begin" /\ x.path = <<>>
    <2> DEFINE x == [NoPlayout EXCEPT !.at = "begin"]
    <2>1. x \in Playouts /\ x.at = "begin" /\ x.path = NoPlayout.path
      <3> HIDE DEF NoPlayout
      <3> QED
        BY <1>1 DEF Playouts, Places
    <2> HIDE DEF x
    <2>2. x.path = <<>>
      BY <1>1, <2>1
    <2> QED
      BY <2>1, <2>2 DEF x
  <1>3. thread' = [t \in Threads |-> x]
    BY <1>2 DEF StartThreads
  <1> QED
    BY <1>2, <1>3 DEF StartThreads

LEMMA StartedWalk ==
  ASSUME StartWalk, root' \in Live'
  PROVE  /\ WalkInv' /\ phase' = "mark" /\ marked' = {}
         /\ walk' \in [Threads -> Seq([node : Nodes \cup {NoNode}, todo : SUBSET Nodes])]
  <1>1. PICK r \in Nodes : r = root'
    BY DEF Live
  <1>2. PICK f \in [node : Nodes \cup {NoNode}, todo : SUBSET Nodes] :
          f = [node |-> NoNode, todo |-> {root'}] /\ f.node = NoNode /\ f.todo = {r}
    <2>1. {r} \in SUBSET Nodes
      OBVIOUS
    <2>2. [node |-> NoNode, todo |-> {r}] \in [node : Nodes \cup {NoNode}, todo : SUBSET Nodes]
      BY <2>1
    <2> QED
      BY <1>1, <2>2
  <1>3. walk' = [t \in Threads |-> <<f>>] /\ marked' = {} /\ phase' = "mark"
    BY <1>2 DEF StartWalk
  <1>4. walk' \in [Threads -> Seq([node : Nodes \cup {NoNode}, todo : SUBSET Nodes])]
    BY <1>3
  <1>5. \A t \in Threads : walk'[t] = <<f>> /\ walk'[t] # <<>> /\ \A i \in DOMAIN walk'[t] : walk'[t][i] = f
    BY <1>3
  <1>6. ASSUME NEW t \in Threads, NEW i \in DOMAIN walk'[t]
        PROVE  LET frame == walk'[t][i] IN
               /\ frame.node = NoNode /\ root' \in frame.todo /\ frame.todo \subseteq Live'
    BY <1>1, <1>2, <1>5
  <1>7. WalkInv'
    BY <1>3, <1>5, <1>6 DEF WalkInv
  <1> QED
    BY <1>3, <1>4, <1>7

LEMMA NoWalk ==
  ASSUME phase' # "mark", PhaseInv'
  PROVE  WalkInv'
  BY DEF PhaseInv, WalkInv

LEMMA EndSearchTree ==
  ASSUME TypeOK, TreeInv, EndSearch
  PROVE  TypeOK' /\ TreeInv'
  <1>1. NoPlayout \in Playouts /\ NoPlayout.at = "idle" /\ NoPlayout.path = <<>>
    BY DEF NoPlayout, Playouts, Places, UNEVALUATED, EXPANDED2
  <1>2. /\ phase = "search" /\ phase' = "idle" /\ thread' = [t \in Threads |-> NoPlayout] /\ playouts' = 0
        /\ shouldStopNow' = FALSE /\ UNCHANGED <<heap, root, oldRoot, rootPos, searches, markVars>>
    BY DEF EndSearch
  <1>3. \A t \in Threads : thread'[t] = NoPlayout
    BY <1>2
  <1>4. TypeOK'
    <2> HIDE DEF NoPlayout
    <2> QED
      BY <1>1, <1>2 DEF TypeOK, markVars
  <1>5. PhaseInv'
    BY <1>2 DEF TreeInv, PhaseInv, markVars
  <1>6. ThreadInv' /\ OwnersInv'
    BY <1>1, <1>3, IdleThreads
  <1>7. StaticInv'
    BY <1>2, SameHeap, SameIsQuiet, StaticQuiet DEF TreeInv, StaticInv
  <1>8. WalkInv'
    BY <1>2, <1>5, NoWalk
  <1> QED
    BY <1>4, <1>5, <1>6, <1>7, <1>8 DEF TreeInv, StaticInv

(* Mark: the walks only read the tree. *)
LEMMA WalkKeeps ==
  ASSUME TypeOK, TreeInv, phase = "mark", UNCHANGED <<heap, userVars, playouts, shouldStopNow, thread>>,
         marked' \subseteq Nodes, walk' \in [Threads -> Seq([node : Nodes \cup {NoNode}, todo : SUBSET Nodes])], WalkInv'
  PROVE  TypeOK' /\ TreeInv'
  <1>1. TypeOK'
    BY DEF TypeOK, userVars
  <1>2. PhaseInv'
    BY DEF TreeInv, PhaseInv, userVars
  <1>3. ThreadInv' /\ OwnersInv'
    BY NoThreads, IdleThreads
  <1>4. StaticInv'
    BY SameHeap, SameIsQuiet, StaticQuiet DEF TreeInv, StaticInv, userVars
  <1> QED
    BY <1>1, <1>2, <1>3, <1>4 DEF TreeInv, StaticInv

WalkFrame == [node : Nodes \cup {NoNode}, todo : SUBSET Nodes]

LEMMA TopFrame ==
  ASSUME TypeOK, TreeInv, NEW t \in Threads, walk[t] # <<>>
  PROVE  /\ walk[t] \in Seq(WalkFrame) /\ Len(walk[t]) \in Nat /\ Len(walk[t]) \in DOMAIN walk[t]
         /\ DOMAIN walk[t] = 1 .. Len(walk[t]) /\ Last(walk[t]) = walk[t][Len(walk[t])]
         /\ Last(walk[t]) \in WalkFrame
  <1>1. walk[t] \in Seq(WalkFrame)
    BY DEF TypeOK, WalkFrame
  <1>2. /\ Len(walk[t]) \in Nat /\ Len(walk[t]) \in DOMAIN walk[t]
        /\ DOMAIN walk[t] = 1 .. Len(walk[t]) /\ Last(walk[t]) = walk[t][Len(walk[t])]
    BY <1>1 DEF Last
  <1>3. Last(walk[t]) \in WalkFrame
    BY <1>1, <1>2, ElementIn
  <1> QED
    BY <1>1, <1>2, <1>3

HeirsOf(h, n) == {h[n].children[i].node : i \in DOMAIN h[n].children}

LEMMA OnStack ==
  ASSUME NEW n
  PROVE  /\ n \in OnStacks <=> \E t \in Threads : \E i \in DOMAIN walk[t] : walk[t][i].node = n
         /\ n \in OnStacks' <=> \E t \in Threads : \E i \in DOMAIN walk'[t] : walk'[t][i].node = n
  BY DEF OnStacks, NodesOnStack

(* Each slot of a node is walked. *)
LEMMA WalksAll ==
  ASSUME TypeOK, TreeInv, NEW n \in Live
  PROVE  /\ iterateChildren(n) = ChildrenOf(n) /\ iterateChildren(n) \subseteq Live
         /\ iterateChildren(n) \subseteq Nodes
  <1>1. /\ Len(heap[n].children) \in Nat /\ DOMAIN heap[n].children = 1 .. Len(heap[n].children)
        /\ heap[n].state \in UNEVALUATED .. EXPANDED2 /\ heap[n].state \in Int
    <2>1. heap[n] \in SearchNodes
      BY LiveNode, SameHeap DEF Live
    <2> QED
      BY <2>1, NodeFields
  <1>2. getChildrenCapacity(heap[n].state) \in Nat
    <2>1. heap[n].state <= heap[n].state
      BY <1>1
    <2> QED
      BY <1>1, <2>1, CapacityGrows
  <1>3. Len(heap[n].children) <= getChildrenCapacity(heap[n].state)
    BY DEF TreeInv, ChildrenFollowMoves
  <1>4. Slots(n) \cap 1..getChildrenCapacity(heap[n].state) = Slots(n)
    BY <1>1, <1>2, <1>3 DEF Slots
  <1>5. iterateChildren(n) = ChildrenOf(n)
    BY <1>4 DEF iterateChildren, ChildrenOf
  <1>6. \A i \in Slots(n) : heap[n].children[i].node \in Live
    BY ChildSlot DEF InTable
  <1> QED
    BY <1>5, <1>6 DEF ChildrenOf, Live

LEMMA WalkDoneTree ==
  ASSUME TypeOK, TreeInv, NEW t \in Threads, WalkDone(t)
  PROVE  TypeOK' /\ TreeInv'
  <1>1. /\ phase = "mark" /\ walk[t] # <<>> /\ UNCHANGED <<heap, userVars, playouts, shouldStopNow, thread>>
        /\ UNCHANGED <<root, phase>>
    BY DEF WalkDone, userVars
  <1>2. PICK w \in Seq(WalkFrame), k \in Nat, f \in WalkFrame :
          /\ w = walk[t] /\ k = Len(w) /\ k \in DOMAIN w /\ DOMAIN w = 1 .. k /\ f = w[k] /\ f = Last(walk[t])
    BY <1>1, TopFrame
  <1>3. /\ f.todo = {} /\ marked' = marked \cup ({f.node} \ {NoNode}) /\ walk' = [walk EXCEPT ![t] = Front(w)]
    BY <1>2 DEF WalkDone
  <1>4. PICK v \in Seq(WalkFrame) : v = Front(w) /\ DOMAIN v = 1 .. k - 1 /\ \A i \in 1 .. k - 1 : v[i] = w[i]
    <2>1. Front(w) \in Seq(WalkFrame)
      BY <1>1, <1>2, FrontIn
    <2>2. DOMAIN Front(w) = 1 .. k - 1 /\ \A i \in 1 .. k - 1 : Front(w)[i] = w[i]
      BY <1>2 DEF Front
    <2> QED
      BY <2>1, <2>2
  <1>5. /\ walk' \in [Threads -> Seq(WalkFrame)] /\ walk'[t] = v
        /\ \A u \in Threads \ {t} : walk'[u] = walk[u]
    BY <1>3, <1>4 DEF TypeOK, WalkFrame
  <1>6. Live' = Live /\ \A n : ChildrenOf(n)' = ChildrenOf(n)
    BY <1>1 DEF Live, ChildrenOf, Slots
  <1>7. ASSUME NEW n \in Covered, n # NoNode PROVE n \in Covered'
    <2>1. CASE n \in marked
      BY <1>3, <2>1 DEF Covered
    <2>2. CASE n \in OnStacks
      <3>0. PICK u \in Threads : \E i \in DOMAIN walk[u] : walk[u][i].node = n
        BY <2>2, OnStack
      <3>1. PICK i \in DOMAIN walk[u] : walk[u][i].node = n
        BY <3>0
      <3>2. CASE u = t /\ i = k
        BY <1>2, <1>3, <1>7, <3>1, <3>2 DEF Covered
      <3>3. CASE u = t /\ i # k
        <4>1. i \in DOMAIN walk'[t] /\ walk'[t][i].node = n
          BY <1>2, <1>4, <1>5, <3>1, <3>3
        <4> QED
          BY <4>1, OnStack DEF Covered
      <3>4. CASE u # t
        BY <1>5, <3>1, <3>4, OnStack DEF Covered
      <3> QED
        BY <3>2, <3>3, <3>4
    <2> QED
      BY <2>1, <2>2 DEF Covered
  <1>8. f.node = NoNode => root \in Covered
    BY <1>2, <1>3 DEF TreeInv, WalkInv
  <1>9. f.node # NoNode => f.node \in Live /\ ChildrenOf(f.node) \subseteq Covered
    BY <1>2, <1>3 DEF TreeInv, WalkInv
  <1>10. root # NoNode
    BY <1>1 DEF TreeInv, PhaseInv
  <1>11. ASSUME NEW n \in Live PROVE NoNode \notin ChildrenOf(n)
    <2>1. NoNode \notin Nodes
      BY DEF NoNode, Nodes
    <2>2. iterateChildren(n) = ChildrenOf(n) /\ iterateChildren(n) \subseteq Nodes
      BY WalksAll
    <2> QED
      BY <2>1, <2>2
  <1>12. marked \subseteq Live /\ \A n \in marked : ChildrenOf(n) \subseteq Covered
    BY DEF TreeInv, WalkInv
  <1>13. marked' \subseteq Live'
    BY <1>3, <1>6, <1>9, <1>12
  <1>14. \A n \in marked' : ChildrenOf(n)' \subseteq Covered'
    <2>1. ASSUME NEW n \in marked' PROVE n \in Live /\ ChildrenOf(n) \subseteq Covered
      BY <1>3, <1>9, <1>12
    <2> QED
      BY <1>6, <1>7, <1>11, <2>1
  <1>15. ASSUME NEW u \in Threads, NEW i \in DOMAIN walk'[u], NEW g, g = walk'[u][i]
         PROVE  /\ g.node = NoNode => root' \in g.todo \cup Covered'
                /\ g.node # NoNode => g.node \in Live' /\ HeirsOf(heap', g.node) \subseteq g.todo \cup Covered'
                /\ g.todo \subseteq Live' /\ (i = 1 => g.node = NoNode)
    <2>1. i \in DOMAIN walk[u] /\ walk'[u][i] = walk[u][i]
      BY <1>2, <1>4, <1>5
    <2>2. g = walk[u][i]
      BY <1>15, <2>1
    <2>3. /\ g.node = NoNode => root \in g.todo \cup Covered
          /\ g.node # NoNode => g.node \in Live /\ ChildrenOf(g.node) \subseteq g.todo \cup Covered
          /\ g.todo \subseteq Live /\ (i = 1 => g.node = NoNode)
      BY <2>1, <2>2 DEF TreeInv, WalkInv
    <2>4. g.node = NoNode => root \in g.todo \cup Covered'
      BY <1>7, <1>10, <2>3
    <2>5. g.node # NoNode => ChildrenOf(g.node) \subseteq g.todo \cup Covered'
      BY <1>7, <1>11, <2>3
    <2> QED
      BY <1>1, <1>6, <2>3, <2>4, <2>5 DEF HeirsOf, ChildrenOf, Slots
  <1>16. root' \in Covered' \/ \A u \in Threads : walk'[u] # <<>>
    <2>1. CASE root \in Covered
      BY <1>1, <1>7, <1>10, <2>1
    <2>2. CASE root \notin Covered
      <3>1. \A u \in Threads : walk[u] # <<>>
        BY <1>1, <2>2 DEF TreeInv, WalkInv
      <3>2. k # 1
        BY <1>2, <1>8, <2>2 DEF TreeInv, WalkInv
      <3>3. v # <<>>
        <4>0. k - 1 \in Nat /\ 1 <= k - 1
          <5>1. k \in 1 .. k
            BY <1>2, Zenon
          <5> QED
            BY <3>2, <5>1
        <4>1. 1 \in DOMAIN v
          BY <1>4, <4>0
        <4> QED
          BY <4>1
      <3> QED
        BY <1>5, <3>1, <3>3
    <2> QED
      BY <2>1, <2>2
  <1>17. WalkInv'
    BY <1>13, <1>14, <1>15, <1>16 DEF WalkInv, HeirsOf, ChildrenOf, Slots
  <1>18. marked' \subseteq Nodes
    BY <1>13 DEF Live
  <1> QED
    BY <1>1, <1>5, <1>17, <1>18, WalkKeeps DEF WalkFrame


LEMMA WalkChildTree ==
  ASSUME TypeOK, TreeInv, NEW t \in Threads, WalkChild(t)
  PROVE  TypeOK' /\ TreeInv'
  <1>1. /\ phase = "mark" /\ walk[t] # <<>> /\ UNCHANGED <<heap, userVars, playouts, shouldStopNow, thread>>
        /\ UNCHANGED <<root, phase, marked>>
    BY DEF WalkChild, userVars
  <1>2. PICK w \in Seq(WalkFrame), k \in Nat, f \in WalkFrame :
          /\ w = walk[t] /\ k = Len(w) /\ k \in DOMAIN w /\ DOMAIN w = 1 .. k /\ f = w[k] /\ f = Last(walk[t])
    BY <1>1, TopFrame
  <1>3. PICK c \in f.todo :
          walk' = [walk EXCEPT ![t] = IF c \in marked \cup NodesOnStack(t) THEN [w EXCEPT ![k].todo = @ \ {c}]
                                      ELSE Append([w EXCEPT ![k].todo = @ \ {c}],
                                                  [node |-> c, todo |-> iterateChildren(c)])]
    BY <1>2 DEF WalkChild
  <1>4. f.todo \subseteq Live /\ c \in Live /\ c \in Nodes /\ c # NoNode
    <2>1. f.todo \subseteq Live
      BY <1>2 DEF TreeInv, WalkInv
    <2> QED
      BY <2>1 DEF Live, NoNode, Nodes
  <1>5. PICK h \in WalkFrame : h = [f EXCEPT !.todo = @ \ {c}] /\ h.node = f.node /\ h.todo = f.todo \ {c}
    <2> DEFINE h == [f EXCEPT !.todo = @ \ {c}]
    <2>1. h \in WalkFrame /\ h.node = f.node /\ h.todo = f.todo \ {c}
      BY DEF WalkFrame
    <2> QED
      BY <2>1
  <1>6. PICK rest \in Seq(WalkFrame) :
          /\ rest = [w EXCEPT ![k].todo = @ \ {c}] /\ DOMAIN rest = 1 .. k /\ Len(rest) = k /\ rest[k] = h
          /\ \A i \in 1 .. k : i # k => rest[i] = w[i]
    <2> DEFINE rest == [w EXCEPT ![k] = h]
    <2>1. rest \in Seq(WalkFrame) /\ DOMAIN rest = 1 .. k /\ Len(rest) = k /\ rest[k] = h
          /\ \A i \in 1 .. k : i # k => rest[i] = w[i]
      BY <1>2
    <2>2. rest = [w EXCEPT ![k].todo = @ \ {c}]
      BY <1>2, <1>5
    <2> QED
      BY <2>1, <2>2
  <1>7. PICK g \in WalkFrame : /\ g = [node |-> c, todo |-> iterateChildren(c)] /\ g.node = c
                               /\ g.todo = iterateChildren(c)
    <2>1. PICK todo \in SUBSET Nodes : todo = iterateChildren(c)
      BY <1>4, WalksAll
    <2>2. [node |-> c, todo |-> todo] \in WalkFrame
      BY <1>4 DEF WalkFrame
    <2> QED
      BY <2>1, <2>2
  <1>8. PICK v \in Seq(WalkFrame) :
          /\ walk' = [walk EXCEPT ![t] = v]
          /\ \/ v = rest /\ c \in marked \cup NodesOnStack(t) /\ DOMAIN v = 1 .. k
             \/ v[k + 1] = g /\ DOMAIN v = 1 .. k + 1
          /\ \A i \in 1 .. k : v[i] = rest[i]
    <2>1. CASE c \in marked \cup NodesOnStack(t)
      BY <1>3, <1>6, <2>1
    <2>2. CASE c \notin marked \cup NodesOnStack(t)
      <3>1. walk' = [walk EXCEPT ![t] = Append(rest, g)]
        BY <1>3, <1>6, <1>7, <2>2
      <3>2. /\ Append(rest, g) \in Seq(WalkFrame) /\ Append(rest, g)[k + 1] = g /\ DOMAIN Append(rest, g) = 1 .. k + 1
            /\ \A i \in 1 .. k : Append(rest, g)[i] = rest[i]
        BY <1>6, AppendIn
      <3> QED
        BY <3>1, <3>2
    <2> QED
      BY <2>1, <2>2
  <1>9. /\ walk' \in [Threads -> Seq(WalkFrame)] /\ walk'[t] = v
        /\ \A u \in Threads \ {t} : walk'[u] = walk[u]
    BY <1>8 DEF TypeOK, WalkFrame
  <1>10. Live' = Live /\ \A n : HeirsOf(heap', n) = ChildrenOf(n) /\ HeirsOf(heap, n) = ChildrenOf(n)
    BY <1>1 DEF Live, ChildrenOf, Slots, HeirsOf
  <1>11. \A i \in 1 .. k : i \in DOMAIN walk'[t] /\ walk'[t][i].node = w[i].node
    <2>1. ASSUME NEW i \in 1 .. k PROVE i \in DOMAIN walk'[t] /\ walk'[t][i].node = w[i].node
      <3>1. i \in DOMAIN v /\ v[i] = rest[i]
        BY <1>8
      <3>2. rest[i].node = w[i].node
        BY <1>2, <1>5, <1>6
      <3> QED
        BY <1>9, <3>1, <3>2
    <2> QED
      BY <2>1
  <1>12. ASSUME NEW n \in Covered PROVE n \in Covered'
    <2>1. CASE n \in marked
      BY <1>1, <2>1 DEF Covered
    <2>2. CASE n \in OnStacks
      <3>1. PICK u \in Threads : \E i \in DOMAIN walk[u] : walk[u][i].node = n
        BY <2>2, OnStack
      <3>2. PICK i \in DOMAIN walk[u] : walk[u][i].node = n
        BY <3>1
      <3>3. i \in DOMAIN walk'[u] /\ walk'[u][i].node = n
        BY <1>2, <1>9, <1>11, <3>2
      <3> QED
        BY <3>3, OnStack DEF Covered
    <2> QED
      BY <2>1, <2>2 DEF Covered
  <1>13. c \in Covered'
    <2>1. CASE c \in marked
      BY <1>1, <2>1 DEF Covered
    <2>2. CASE c \in NodesOnStack(t)
      <3>1. c \in Covered
        BY <2>2 DEF Covered, OnStacks
      <3> QED
        BY <1>12, <3>1
    <2>3. CASE v[k + 1] = g /\ DOMAIN v = 1 .. k + 1
      <3>1. k + 1 \in DOMAIN walk'[t] /\ walk'[t][k + 1].node = c
        BY <1>7, <1>9, <2>3
      <3> QED
        BY <3>1, OnStack DEF Covered
    <2> QED
      BY <1>8, <2>1, <2>2, <2>3
  <1>14. marked \subseteq Live /\ \A n \in marked : ChildrenOf(n) \subseteq Covered
    BY DEF TreeInv, WalkInv
  <1>15. ASSUME NEW u \in Threads, NEW i \in DOMAIN walk[u], NEW e, e = walk[u][i]
         PROVE  /\ e.node = NoNode => root \in e.todo \cup Covered'
                /\ e.node # NoNode => e.node \in Live /\ ChildrenOf(e.node) \subseteq e.todo \cup Covered'
                /\ e.todo \subseteq Live /\ (i = 1 => e.node = NoNode)
    <2>1. /\ e.node = NoNode => root \in e.todo \cup Covered
          /\ e.node # NoNode => e.node \in Live /\ ChildrenOf(e.node) \subseteq e.todo \cup Covered
          /\ e.todo \subseteq Live /\ (i = 1 => e.node = NoNode)
      BY <1>15 DEF TreeInv, WalkInv
    <2> QED
      BY <1>12, <2>1
  <1>16. ASSUME NEW u \in Threads, NEW i \in DOMAIN walk'[u], NEW e, e = walk'[u][i]
         PROVE  /\ e.node = NoNode => root' \in e.todo \cup Covered'
                /\ e.node # NoNode => e.node \in Live' /\ HeirsOf(heap', e.node) \subseteq e.todo \cup Covered'
                /\ e.todo \subseteq Live' /\ (i = 1 => e.node = NoNode)
    <2>1. CASE u # t
      <3>1. i \in DOMAIN walk[u] /\ e = walk[u][i]
        BY <1>9, <1>16, <2>1
      <3> QED
        BY <1>1, <1>10, <1>15, <3>1
    <2>2. CASE u = t /\ i \in 1 .. k /\ i # k
      <3>1. i \in DOMAIN walk[u] /\ e = walk[u][i]
        BY <1>2, <1>6, <1>8, <1>9, <1>16, <2>2
      <3> QED
        BY <1>1, <1>10, <1>15, <3>1
    <2>3. CASE u = t /\ i = k
      <3>1. k \in 1 .. k
        BY <1>2
      <3>2. e = h
        BY <1>6, <1>8, <1>9, <1>16, <2>3, <3>1
      <3>3. /\ f.node = NoNode => root \in f.todo \cup Covered'
            /\ f.node # NoNode => f.node \in Live /\ ChildrenOf(f.node) \subseteq f.todo \cup Covered'
            /\ f.todo \subseteq Live /\ (k = 1 => f.node = NoNode)
        BY <1>2, <1>15
      <3> QED
        BY <1>1, <1>5, <1>10, <1>13, <2>3, <3>2, <3>3
    <2>4. CASE u = t /\ i \notin 1 .. k
      <3>1. i = k + 1 /\ v[k + 1] = g
        BY <1>8, <1>9, <2>4
      <3>2. e = g /\ i # 1
        BY <1>2, <1>9, <1>16, <2>4, <3>1
      <3>3. iterateChildren(c) = ChildrenOf(c) /\ iterateChildren(c) \subseteq Live
        BY <1>4, WalksAll
      <3> QED
        BY <1>4, <1>7, <1>10, <3>2, <3>3
    <2> QED
      BY <2>1, <2>2, <2>3, <2>4
  <1>17. root' \in Covered' \/ \A u \in Threads : walk'[u] # <<>>
    <2>1. CASE root \in Covered
      BY <1>1, <1>12, <2>1
    <2>2. CASE root \notin Covered
      <3>1. \A u \in Threads : walk[u] # <<>>
        BY <1>1, <2>2 DEF TreeInv, WalkInv
      <3>2. walk'[t] # <<>>
        <4>1. k \in DOMAIN walk'[t]
          BY <1>2, <1>11
        <4> QED
          BY <4>1
      <3> QED
        BY <1>9, <3>1, <3>2
    <2> QED
      BY <2>1, <2>2
  <1>18. marked' \subseteq Live' /\ \A n \in marked' : HeirsOf(heap', n) \subseteq Covered'
    BY <1>1, <1>10, <1>12, <1>14
  <1>19. WalkInv'
    BY <1>16, <1>17, <1>18 DEF WalkInv, HeirsOf, ChildrenOf, Slots
  <1>20. marked' \subseteq Nodes
    BY <1>18 DEF Live
  <1> QED
    BY <1>1, <1>9, <1>19, <1>20, WalkKeeps DEF WalkFrame


(* What the sweep leaves is as it was, and so are its children. *)
(* When all walks are done, what the root reaches is marked. *)
Closed(S) == root \in S /\ \A n \in S : ChildrenOf(n) \subseteq S
LEMMA MarkedAll ==
  ASSUME TypeOK, TreeInv, phase = "mark", \A t \in Threads : walk[t] = <<>>
  PROVE  /\ root \in Live /\ marked \in SUBSET Live /\ Closed(marked)
         /\ \A n \in Live : ChildrenOf(n) \subseteq Live
  <1>1. root \in Live /\ marked \subseteq Live
    BY RootThere DEF TreeInv, WalkInv
  <1>2. Covered = marked
    <2>1. \A n : n \notin OnStacks
      BY OnStack
    <2> QED
      BY <2>1 DEF Covered
  <1>3. PICK t \in Threads : walk[t] = <<>>
    BY ThreadsAssumption
  <1>4. root \in marked /\ \A n \in marked : ChildrenOf(n) \subseteq marked
    BY <1>2, <1>3 DEF TreeInv, WalkInv
  <1>5. \A n \in Live : ChildrenOf(n) \subseteq Live
    BY ChildSlot DEF InTable, ChildrenOf
  <1> QED
    BY <1>1, <1>4, <1>5 DEF Closed

LEMMA SweepKeeps ==
  ASSUME TypeOK, TreeInv, Sweep
  PROVE  /\ Live' = Live \ (Old \cup {oldRoot}) /\ \A n \in Live' : heap'[n] = heap[n]
         /\ \A n \in Live' : \A i \in DOMAIN heap[n].children : heap[n].children[i].node \in Live'
  <1>1. /\ phase = "mark" /\ \A t \in Threads : walk[t] = <<>>
        /\ heap' = [n \in Nodes |-> IF n \in Old \cup {oldRoot} THEN Free ELSE heap[n]]
    BY DEF Sweep
  <1>4. root \in marked /\ \A n \in marked : ChildrenOf(n) \subseteq marked
    BY <1>1, MarkedAll DEF Closed
  <1>5. Live' = Live \ (Old \cup {oldRoot}) /\ \A n \in Live' : heap'[n] = heap[n]
    <2>1. \A n \in Nodes : heap'[n] = IF n \in Old \cup {oldRoot} THEN Free ELSE heap[n]
      BY <1>1
    <2> QED
      BY <2>1 DEF Live, Free
  <1>6. \A n \in Live' : n \in Live /\ n \in marked
    BY <1>4, <1>5 DEF Old, TreeInv, TableInv
  <1>7. ASSUME NEW n \in Live', NEW i \in DOMAIN heap[n].children
        PROVE  heap[n].children[i].node \in Live'
    <2>1. PICK c : c = heap[n].children[i].node
      OBVIOUS
    <2>2. c \in Nodes /\ c \in Live /\ heap[c].key # RootKey
      BY <1>6, <2>1, ChildSlot DEF InTable, Slots
    <2>3. c \in marked
      BY <1>4, <1>6, <2>1 DEF ChildrenOf, Slots
    <2>4. c # oldRoot
      <3>1. oldRoot # NoNode => heap[oldRoot].key = RootKey
        BY DEF TreeInv, RootInv
      <3> QED
        BY <2>2, <3>1 DEF NoNode, Nodes
    <2> QED
      BY <1>5, <2>1, <2>2, <2>3, <2>4 DEF Old
  <1> QED
    BY <1>5, <1>7

(* After the walks, what the root reaches is marked, and so is what is kept. *)
LEMMA SweepTree ==
  ASSUME TypeOK, TreeInv, Sweep
  PROVE  TypeOK' /\ TreeInv'
  <1>1. /\ phase = "mark" /\ \A t \in Threads : walk[t] = <<>>
        /\ oldRoot' = NoNode /\ marked' = {} /\ UNCHANGED <<root, rootPos, searches, walk>>
        /\ heap' = [n \in Nodes |-> IF n \in Old \cup {oldRoot} THEN Free ELSE heap[n]]
    BY DEF Sweep
  <1>2. root \in Nodes /\ root \in Live /\ heap[root].key = RootKey /\ heap[root].pos = rootPos /\ root # NoNode
    BY <1>1, RootThere DEF NoNode, Nodes
  <1>3. root # oldRoot
    BY <1>2 DEF TreeInv, RootInv
  <1>6. /\ Live' = Live \ (Old \cup {oldRoot}) /\ \A n \in Live' : heap'[n] = heap[n]
        /\ \A n \in Live' : \A i \in DOMAIN heap[n].children : heap[n].children[i].node \in Live'
    BY SweepKeeps
  <1>7. \A n \in Live' : n \in Live /\ (heap[n].key = RootKey => n = root)
    BY <1>6 DEF TreeInv, TableInv
  <1>8. root \in Live'
    BY <1>2, <1>3, <1>6 DEF Old
  <1>9. ASSUME NEW n \in Live', NEW i \in DOMAIN heap[n].children
        PROVE  heap[n].children[i].node \in Live'
    BY <1>6
  <1>10. heap' \in Heaps
    BY <1>1 DEF TypeOK, Heaps
  <1>11. RootInv'
    BY <1>1, <1>2, <1>6, <1>8 DEF RootInv, Live
  <1>12. TableInv' /\ OneNodePerPosition'
    <2>1. TableInv /\ OneNodePerPosition
      BY DEF TreeInv
    <2> QED
      BY <1>1, <1>6, <1>7, <2>1 DEF TableInv, OneNodePerPosition
  <1>13. ChildrenFollowMoves' /\ ChildrenInTable'
    <2>1. ASSUME NEW n \in Live', NEW i \in DOMAIN heap[n].children
          PROVE  heap'[heap[n].children[i].node] = heap[heap[n].children[i].node]
                 /\ heap'[heap[n].children[i].node].live
      BY <1>6, <1>9 DEF Live
    <2>2. ChildrenFollowMoves /\ ChildrenInTable
      BY DEF TreeInv
    <2>3. ChildrenFollowMoves'
      BY <1>6, <1>7, <2>1, <2>2, SMTT(30) DEF ChildrenFollowMoves
    <2>4. ChildrenInTable'
      BY <1>6, <1>7, <2>1, <2>2 DEF ChildrenInTable, Children
    <2> QED
      BY <2>3, <2>4
  <1>14. /\ phase' \in {"idle", "search"} /\ thread' \in [Threads -> Playouts] /\ playouts' \in Nat
         /\ shouldStopNow' \in BOOLEAN
         /\ phase' = "idle" => thread' = [t \in Threads |-> NoPlayout]
         /\ phase' = "search" => \A t \in Threads : thread'[t].at = "begin"
         /\ \A t \in Threads : thread'[t].at \in {"idle", "begin"} /\ thread'[t].path = <<>>
    <2>1. CASE oldRoot = NoNode
      <3>1. StartThreads
        BY <2>1 DEF Sweep
      <3> QED
        BY <3>1, StartedThreads
    <2>2. CASE oldRoot # NoNode
      <3>1. phase' = "idle" /\ UNCHANGED <<playouts, shouldStopNow, thread>>
        BY <2>2 DEF Sweep
      <3> QED
        BY <1>1, <3>1, NoThreads DEF TypeOK
    <2> QED
      BY <2>1, <2>2
  <1>15. TypeOK'
    BY <1>1, <1>10, <1>14 DEF TypeOK, Heaps
  <1>16. PhaseInv'
    <2>1. walk' = [t \in Threads |-> <<>>]
      BY <1>1 DEF TypeOK
    <2> QED
      BY <1>1, <1>2, <1>14, <2>1 DEF PhaseInv, Places
  <1>17. ThreadInv' /\ OwnersInv'
    BY <1>14, IdleThreads
  <1>18. WalkInv'
    BY <1>14, <1>16, NoWalk
  <1> QED
    BY <1>11, <1>12, <1>13, <1>15, <1>16, <1>17, <1>18 DEF TreeInv

KeptOf(order) == [i \in DOMAIN order |-> heap[root].children[order[i]]]
EdgesIn(children) == MapThenSumSet(LAMBDA i : children[i].edgeVisits, DOMAIN children)

LEMMA EdgesInNat ==
  ASSUME NEW c \in Seq(Slot)
  PROVE  EdgesIn(c) \in Nat
  <1> DEFINE f == [i \in DOMAIN c |-> c[i].edgeVisits]
  <1>1. EdgesIn(c) = Total(f, DOMAIN c)
    BY DEF EdgesIn, Total, MapThenSumSet, MapThenFoldSet
  <1>2. ASSUME NEW i \in DOMAIN c PROVE f[i] \in Nat
    <2>1. c[i] \in Slot
      BY ElementIn
    <2> QED
      BY <2>1 DEF Slot
  <1>3. IsFiniteSet(DOMAIN c)
    <2>1. DOMAIN c = 1 .. Len(c) /\ Len(c) \in Nat
      OBVIOUS
    <2> QED
      BY <2>1, FS_Interval
  <1> HIDE DEF f
  <1>4. Total(f, DOMAIN c) \in Nat
    BY <1>2, <1>3, TotalNat
  <1> QED
    BY <1>1, <1>4

LEMMA Collapsed ==
  ASSUME NEW k \in Nat, k <= Size[3]
  PROVE  CollapsedState(k) \in UNEVALUATED .. EXPANDED2 /\ k <= getChildrenCapacity(CollapsedState(k))
  BY SizeAssumption DEF CollapsedState, getChildrenCapacity, UNEVALUATED, EXPANDED0, EXPANDED1, EXPANDED2

(* What the filter makes of the root. *)
Filtered(k, order, d, y) ==
  /\ DOMAIN d = 1 .. k /\ Len(d) = k /\ \A i \in 1 .. k : order[i] \in Slots(root) /\ d[i] = heap[root].children[order[i]]
  /\ \A i, j \in 1 .. k : i < j => order[i] < order[j]
  /\ y.live /\ y.key = heap[root].key /\ y.pos = heap[root].pos /\ y.nnOutput = heap[root].nnOutput
  /\ y.dirtyCounter = heap[root].dirtyCounter /\ y.virtualLosses = heap[root].virtualLosses
  /\ y.children = d /\ y.visits = EdgesIn(d) + 1 /\ y.weight = EdgesIn(d) /\ EdgesIn(d) \in Nat
  /\ y.state >= EXPANDED0 /\ k <= getChildrenCapacity(y.state)
  /\ heap' = [heap EXCEPT ![root] = y]

LEMMA FilterDoes ==
  ASSUME TypeOK, TreeInv, phase = "idle", root # NoNode, NEW good \in SUBSET Slots(root), FilterRoot(good)
  PROVE  \E order : \E k \in Nat, d \in Seq(Slot), y \in SearchNodes : Filtered(k, order, d, y)
  <1>1. root \in Nodes /\ root \in Live /\ heap[root] \in SearchNodes /\ heap \in Heaps
    BY LiveNode, SameHeap DEF TreeInv, RootInv, TypeOK, Live
  <1>2. PICK x \in SearchNodes : x = heap[root]
    BY <1>1
  <1>3. PICK c \in Seq(Slot) : c = x.children /\ DOMAIN c = 1 .. Len(c) /\ Len(c) \in Nat /\ DOMAIN c = Slots(root)
    BY <1>2, NodeFields DEF Slot, Slots
  <1>4. IsFiniteSet(good) /\ good \subseteq DOMAIN c /\ Cardinality(good) \in Nat /\ Cardinality(good) <= Len(c)
    <2>1. IsFiniteSet(DOMAIN c) /\ Cardinality(DOMAIN c) = Len(c)
      <3>1. Cardinality(1 .. Len(c)) = IF 1 > Len(c) THEN 0 ELSE Len(c) - 1 + 1
        BY <1>3, FS_Interval, SMTT(30)
      <3> QED
        BY <1>3, <3>1, FS_Interval
    <2>2. good \in SUBSET DOMAIN c
      BY <1>3
    <2>3. IsFiniteSet(good) /\ Cardinality(good) <= Cardinality(DOMAIN c)
      BY <2>1, <2>2, FS_Subset
    <2> QED
      BY <2>1, <2>2, <2>3, FS_CardinalityType
  <1>5. Len(c) <= Size[3]
    <2>1. Len(c) <= getChildrenCapacity(x.state)
      BY <1>1, <1>2, <1>3 DEF TreeInv, ChildrenFollowMoves
    <2>2. x.state \in UNEVALUATED .. EXPANDED2
      BY NodeFields
    <2> QED
      BY <1>3, <2>1, <2>2, SizeAssumption DEF getChildrenCapacity, UNEVALUATED, EXPANDED0, EXPANDED1, EXPANDED2
  <1>6. PICK order \in [1..Cardinality(good) -> good] :
          /\ \A i, j \in DOMAIN order : i < j => order[i] < order[j]
          /\ heap' = [heap EXCEPT ![root].children = KeptOf(order), ![root].state = CollapsedState(Len(KeptOf(order))),
                                  ![root].visits = EdgesIn(KeptOf(order)) + 1, ![root].weight = EdgesIn(KeptOf(order))]
    BY Zenon DEF FilterRoot, KeptOf, EdgesIn
  <1>7. PICK k \in Nat : k = Cardinality(good) /\ k <= Len(c)
    BY <1>4
  <1>8. DOMAIN order = 1 .. k /\ \A i \in 1 .. k : order[i] \in DOMAIN c
    BY <1>4, <1>6, <1>7
  <1>9. PICK d \in Seq(Slot) : /\ d = KeptOf(order) /\ DOMAIN d = 1 .. k /\ Len(d) = k
                               /\ \A i \in 1 .. k : d[i] = c[order[i]]
    <2> DEFINE d == [i \in 1 .. k |-> c[order[i]]]
    <2>1. KeptOf(order) = d
      BY <1>2, <1>3, <1>8 DEF KeptOf
    <2>2. \A i \in 1 .. k : c[order[i]] \in Slot
      BY <1>8, ElementIn
    <2>3. d \in Seq(Slot)
      BY <2>2
    <2> QED
      BY <2>1, <2>3
  <1>10. PICK e \in Nat : e = EdgesIn(d)
    BY <1>9, EdgesInNat
  <1>11. PICK r \in UNEVALUATED .. EXPANDED2 : r = CollapsedState(k) /\ k <= getChildrenCapacity(r) /\ r >= EXPANDED0
    <2>1. k <= Size[3]
      BY <1>3, <1>5, <1>7, SizeAssumption
    <2>2. CollapsedState(k) >= EXPANDED0
      BY DEF CollapsedState, EXPANDED0, EXPANDED1, EXPANDED2
    <2> QED
      BY <2>1, <2>2, Collapsed
  <1>12. PICK v \in Nat : v = e + 1
    OBVIOUS
  <1> DEFINE y == [x EXCEPT !.children = d, !.state = r, !.visits = v, !.weight = e]
  <1>13. y \in SearchNodes
    BY DEF SearchNodes, Slot
  <1>14. /\ y.children = d /\ y.state = r /\ y.visits = v /\ y.weight = e /\ y.key = x.key /\ y.pos = x.pos /\ y.live = x.live
         /\ y.nnOutput = x.nnOutput /\ y.dirtyCounter = x.dirtyCounter /\ y.virtualLosses = x.virtualLosses
    BY DEF SearchNodes
  <1>15. heap' = [heap EXCEPT ![root] = y]
    BY <1>2, <1>6, <1>9, <1>10, <1>11, <1>12
  <1>16. x.live
    BY NodeFields
  <1> HIDE DEF y
  <1>17. \A i, j \in 1 .. k : i < j => order[i] < order[j]
    BY <1>6, <1>8
  <1>18. Filtered(k, order, d, y)
    BY <1>2, <1>3, <1>8, <1>9, <1>10, <1>11, <1>12, <1>14, <1>15, <1>16, <1>17 DEF Filtered
  <1> QED
    BY <1>13, <1>18

(* The root keeps some of its children, in order. *)
LEMMA FilterTree ==
  ASSUME TypeOK, TreeInv, phase = "idle", root # NoNode, NEW good \in SUBSET Slots(root), FilterRoot(good),
         UNCHANGED <<root, oldRoot, rootPos>>
  PROVE  heap' \in Heaps /\ StaticInv' /\ root \in Live'
  <1>1. root \in Nodes /\ root \in Live /\ heap[root] \in SearchNodes /\ heap \in Heaps
    BY LiveNode, SameHeap DEF TreeInv, RootInv, TypeOK, Live
  <1>2. PICK x \in SearchNodes : x = heap[root]
    BY <1>1
  <1>3. PICK c \in Seq(Slot) : c = x.children /\ DOMAIN c = 1 .. Len(c) /\ Len(c) \in Nat /\ DOMAIN c = Slots(root)
    BY <1>2, NodeFields DEF Slot, Slots
  <1>4. PICK order : \E k \in Nat, d \in Seq(Slot), y \in SearchNodes : Filtered(k, order, d, y)
    BY FilterDoes
  <1>5. PICK k \in Nat, d \in Seq(Slot), y \in SearchNodes : Filtered(k, order, d, y)
    BY <1>4
  <1>8. \A i \in 1 .. k : order[i] \in DOMAIN c
    BY <1>3, <1>5 DEF Filtered
  <1>9. DOMAIN d = 1 .. k /\ Len(d) = k /\ \A i \in 1 .. k : d[i] = c[order[i]]
    BY <1>2, <1>3, <1>5 DEF Filtered
  <1>12. y.children = d /\ y.key = x.key /\ y.pos = x.pos /\ y.live /\ k <= getChildrenCapacity(y.state)
    BY <1>2, <1>5 DEF Filtered
  <1>13. heap' = [heap EXCEPT ![root] = y] /\ \A i, j \in 1 .. k : i < j => order[i] < order[j]
    BY <1>5 DEF Filtered
  <1>14. heap' \in Heaps /\ heap'[root] = y /\ \A n \in Nodes \ {root} : heap'[n] = heap[n]
    BY <1>1, <1>13 DEF Heaps
  <1>15. /\ Live' = Live
         /\ \A n \in Live : heap'[n].key = heap[n].key /\ heap'[n].pos = heap[n].pos /\ heap'[n].live
    <2>1. ASSUME NEW n \in Nodes
          PROVE  heap'[n].live = heap[n].live /\ heap'[n].key = heap[n].key /\ heap'[n].pos = heap[n].pos
      <3>1. CASE n = root
        <4>1. heap'[n] = y /\ heap[n] = x /\ y.live /\ x.live
          BY <1>2, <1>12, <1>14, <3>1, NodeFields
        <4>2. y.live = x.live
          BY NodeFields
        <4> QED
          BY <1>12, <4>1, <4>2
      <3>2. CASE n # root
        BY <1>14, <3>2
      <3> QED
        BY <3>1, <3>2
    <2> QED
      BY <2>1 DEF Live
  <1>16. RootInv'
    <2>1. {root, oldRoot} \ {NoNode} \subseteq Nodes
      BY DEF TypeOK
    <2> QED
      BY <1>15, <2>1 DEF TreeInv, RootInv, Live
  <1>17. TableInv' /\ OneNodePerPosition'
    BY <1>15 DEF TreeInv, TableInv, OneNodePerPosition
  <1> DEFINE Fine(z) == /\ Len(z.children) <= getChildrenCapacity(z.state)
                        /\ \A i \in DOMAIN z.children :
                             /\ heap'[z.children[i].node].live /\ heap'[z.children[i].node].key # RootKey
                             /\ z.children[i].move \in DOMAIN Play[z.pos]
                             /\ heap'[z.children[i].node].pos = Play[z.pos][z.children[i].move]
                             /\ \A j \in DOMAIN z.children \ {i} : z.children[i].move # z.children[j].move
  <1>18. ASSUME NEW n \in Live PROVE Fine(heap[n])
    <2>1. ASSUME NEW i \in DOMAIN heap[n].children
          PROVE  /\ heap'[heap[n].children[i].node].live /\ heap'[heap[n].children[i].node].key # RootKey
                 /\ heap[n].children[i].move \in DOMAIN Play[heap[n].pos]
                 /\ heap'[heap[n].children[i].node].pos = Play[heap[n].pos][heap[n].children[i].move]
                 /\ \A j \in DOMAIN heap[n].children \ {i} : heap[n].children[i].move # heap[n].children[j].move
      <3>1. heap[n].children[i].node \in Live
        BY ChildSlot DEF InTable, Slots
      <3> QED
        BY <1>15, <3>1 DEF TreeInv, ChildrenFollowMoves, ChildrenInTable, Children
    <2>2. Len(heap[n].children) <= getChildrenCapacity(heap[n].state)
      BY DEF TreeInv, ChildrenFollowMoves
    <2> QED
      BY <2>1, <2>2
  <1>19. Fine(y)
    <2>1. ASSUME NEW i \in 1 .. k
          PROVE  /\ heap'[d[i].node].live /\ heap'[d[i].node].key # RootKey
                 /\ d[i].move \in DOMAIN Play[y.pos]
                 /\ heap'[d[i].node].pos = Play[y.pos][d[i].move]
                 /\ \A j \in 1 .. k \ {i} : d[i].move # d[j].move
      <3>1. order[i] \in DOMAIN c /\ d[i] = c[order[i]]
        BY <1>8, <1>9
      <3>2. /\ heap'[c[order[i]].node].live /\ heap'[c[order[i]].node].key # RootKey
            /\ c[order[i]].move \in DOMAIN Play[y.pos]
            /\ heap'[c[order[i]].node].pos = Play[y.pos][c[order[i]].move]
            /\ \A j \in DOMAIN c \ {order[i]} : c[order[i]].move # c[j].move
        <4>1. Fine(x)
          <5> HIDE DEF Fine
          <5> QED
            BY <1>1, <1>2, <1>18
        <4> QED
          BY <1>3, <1>12, <3>1, <4>1
      <3>3. ASSUME NEW j \in 1 .. k \ {i} PROVE d[i].move # d[j].move
        <4>1. order[j] \in DOMAIN c /\ d[j] = c[order[j]]
          BY <1>8, <1>9
        <4>2. order[i] # order[j]
          <5>1. order[i] \in Int /\ order[j] \in Int
            BY <1>3, <3>1, <4>1
          <5>2. i < j \/ j < i
            BY <3>3
          <5>3. order[i] < order[j] \/ order[j] < order[i]
            BY <1>13, <3>3, <5>2
          <5> QED
            BY <5>1, <5>3
        <4> QED
          BY <3>1, <3>2, <4>1, <4>2
      <3> QED
        BY <3>1, <3>2, <3>3
    <2> QED
      BY <1>9, <1>12, <2>1
  <1>20. \A n \in Live' : Fine(heap'[n])
    <2>1. \A n \in Live : n # root => heap'[n] = heap[n]
      BY <1>14 DEF Live
    <2> HIDE DEF Fine
    <2> QED
      BY <1>14, <1>15, <1>18, <1>19, <2>1
  <1>21. ChildrenFollowMoves'
    BY <1>20 DEF ChildrenFollowMoves
  <1>22. ChildrenInTable'
    BY <1>20 DEF ChildrenInTable, Children
  <1> QED
    BY <1>1, <1>14, <1>15, <1>16, <1>17, <1>21, <1>22 DEF StaticInv


(* The user's steps that leave no thread in the tree. *)
LEMMA UserKeeps ==
  ASSUME TypeOK', PhaseInv', StaticInv', WalkInv',
         \A t \in Threads : thread'[t].at \in {"idle", "begin"} /\ thread'[t].path = <<>>
  PROVE  TypeOK' /\ TreeInv'
  BY IdleThreads DEF TreeInv, StaticInv

LEMMA ToSearch ==
  ASSUME TypeOK, TreeInv, phase # "search", oldRoot = NoNode, marked = {}, walk = [t \in Threads |-> <<>>], StartThreads,
         heap' \in Heaps, root' \in Nodes, rootPos' \in Positions, searches' \in 0 .. Len(Limits),
         UNCHANGED <<oldRoot, markVars>>, StaticInv'
  PROVE  TypeOK' /\ TreeInv'
  <1>1. /\ thread' \in [Threads -> Playouts] /\ playouts' \in Nat /\ shouldStopNow' \in BOOLEAN /\ phase' = "search"
        /\ \A t \in Threads : thread'[t].at = "begin" /\ thread'[t].path = <<>>
    BY StartedThreads
  <1>2. TypeOK'
    BY <1>1 DEF TypeOK, Heaps, markVars
  <1>3. PhaseInv'
    BY <1>1 DEF PhaseInv, markVars, Places, NoNode, Nodes
  <1>4. WalkInv'
    BY <1>1, <1>3, NoWalk
  <1> QED
    BY <1>1, <1>2, <1>3, <1>4, UserKeeps

LEMMA ToMark ==
  ASSUME TypeOK, TreeInv, phase = "idle", StartWalk,
         heap' \in Heaps, root' \in Live', oldRoot' \in Nodes \cup {NoNode}, rootPos' \in Positions,
         searches' \in 0 .. Len(Limits),
         UNCHANGED <<playouts, shouldStopNow, thread>>, StaticInv'
  PROVE  TypeOK' /\ TreeInv'
  <1>1. /\ WalkInv' /\ phase' = "mark" /\ marked' = {}
        /\ walk' \in [Threads -> Seq([node : Nodes \cup {NoNode}, todo : SUBSET Nodes])]
    BY StartedWalk
  <1>2. TypeOK'
    BY <1>1 DEF TypeOK, Heaps, Live
  <1>3. PhaseInv'
    BY <1>1, NoThreads DEF PhaseInv, Live, NoNode, Nodes
  <1>4. \A t \in Threads : thread'[t].at \in {"idle", "begin"} /\ thread'[t].path = <<>>
    BY NoThreads
  <1> QED
    BY <1>1, <1>2, <1>3, <1>4, UserKeeps

LEMMA BeginSearchTree ==
  ASSUME TypeOK, TreeInv, beginSearch
  PROVE  TypeOK' /\ TreeInv'
  <1>1. /\ phase = "idle" /\ oldRoot = NoNode /\ marked = {} /\ walk = [t \in Threads |-> <<>>]
        /\ UNCHANGED <<oldRoot, rootPos>> /\ rootPos \in Positions /\ heap \in Heaps
        /\ searches' \in 0 .. Len(Limits)
    <2>1. phase = "idle" /\ searches < Len(Limits) /\ searches' = searches + 1 /\ UNCHANGED <<oldRoot, rootPos>>
      BY DEF beginSearch
    <2>2. searches \in 0 .. Len(Limits) /\ Len(Limits) \in Nat
      BY BoundAssumption DEF TypeOK
    <2>3. searches' \in 0 .. Len(Limits)
      BY <2>1, <2>2
    <2> QED
      BY <2>1, <2>3, SameHeap DEF TreeInv, PhaseInv, TypeOK
  <1>2. CASE root = NoNode
    <2>1. HeapHasRoom /\ StartThreads /\ UNCHANGED markVars /\ root' = Address
          /\ heap' = [heap EXCEPT ![Address] = SearchNode(RootKey, rootPos)]
      BY <1>2 DEF beginSearch
    <2>2. PICK a \in Nodes : a = Address /\ a \notin Live
      BY <2>1, RoomForNode
    <2>3. PICK y \in SearchNodes : /\ y = SearchNode(RootKey, rootPos) /\ y.key = RootKey /\ y.pos = rootPos
                                   /\ y.children = <<>> /\ y.state = UNEVALUATED
      <3>1. RootKey \in Keys
        BY DEF Keys
      <3>2. SearchNode(RootKey, rootPos) \in SearchNodes
        BY <1>1, <3>1, NewNode
      <3> QED
        BY <3>2 DEF SearchNode
    <2>4. heap' = [heap EXCEPT ![a] = y] /\ root' = a
      BY <2>1, <2>2, <2>3
    <2>5. /\ heap' \in Heaps /\ Live' = Live \cup {a} /\ heap'[a] = y
          /\ \A k \in Nodes \ {a} : heap'[k] = heap[k]
          /\ ChildrenFollowMoves' /\ ChildrenInTable'
      <3>1. Len(y.children) <= getChildrenCapacity(y.state)
        BY <2>3 DEF getChildrenCapacity, UNEVALUATED, EXPANDED0
      <3>2. DOMAIN y.children = {}
        BY <2>3
      <3> QED
        BY <2>2, <2>4, <3>1, <3>2, Graft DEF TreeInv
    <2>6. \A k \in Live : heap'[k] = heap[k]
      BY <2>2, <2>5 DEF Live
    <2>7. \A k \in Live : heap[k].key # RootKey
      BY <1>1, <1>2 DEF TreeInv, TableInv, Live, NoNode, Nodes
    <2>8. RootInv'
      BY <1>1, <2>3, <2>4, <2>5 DEF RootInv, Live, NoNode, Nodes
    <2>9. TableInv'
      BY <1>1, <2>3, <2>4, <2>5, <2>6, <2>7 DEF TreeInv, TableInv
    <2>10. OneNodePerPosition'
      BY <2>3, <2>5, <2>6 DEF TreeInv, OneNodePerPosition
    <2>11. StaticInv'
      BY <2>5, <2>8, <2>9, <2>10 DEF StaticInv
    <2> QED
      BY <1>1, <2>1, <2>4, <2>5, <2>11, ToSearch
  <1>3. CASE root # NoNode
    <2>1. PICK good \in SUBSET Slots(root) :
            /\ root' = root
            /\ \/ StartThreads /\ UNCHANGED <<heap, markVars>>
               \/ FilterRoot(good) /\ StartWalk /\ UNCHANGED <<playouts, shouldStopNow, thread>>
      <3> DEFINE good == {i \in Slots(root) : heap[root].children[i].move \in RootMoves[rootPos]}
      <3>1. good \in SUBSET Slots(root)
        OBVIOUS
      <3>2. /\ root' = root
            /\ IF good = Slots(root)
               THEN StartThreads /\ UNCHANGED <<heap, markVars>>
               ELSE FilterRoot(good) /\ StartWalk /\ UNCHANGED <<playouts, shouldStopNow, thread>>
        BY <1>3 DEF beginSearch
      <3> HIDE DEF good
      <3> QED
        BY <3>1, <3>2
    <2>2. CASE StartThreads /\ UNCHANGED <<heap, markVars>>
      <3>1. StaticInv'
        BY <1>1, <2>1, <2>2, SameHeap, SameIsQuiet, StaticQuiet DEF TreeInv, StaticInv
      <3>2. root' \in Nodes
        BY <1>3, <2>1 DEF TypeOK
      <3> QED
        BY <1>1, <2>2, <3>1, <3>2, ToSearch
    <2>3. CASE FilterRoot(good) /\ StartWalk /\ UNCHANGED <<playouts, shouldStopNow, thread>>
      <3>1. heap' \in Heaps /\ StaticInv' /\ root' \in Live'
        BY <1>1, <1>3, <2>1, <2>3, FilterTree
      <3> QED
        BY <1>1, <2>3, <3>1, ToMark
    <2> QED
      BY <2>1, <2>2, <2>3
  <1> QED
    BY <1>2, <1>3

(* The child of the move that is played: it was evaluated. *)
LEMMA PlayedChild ==
  ASSUME TypeOK, TreeInv, NEW m \in DOMAIN Play[rootPos], makeMove(m), ~clearSearch
  PROVE  /\ root \in Nodes /\ root \in Live /\ heap[root].key = RootKey /\ heap[root].pos = rootPos
         /\ \E c \in Live : /\ c \in Nodes /\ heap[c].live /\ heap[c].key # RootKey /\ heap[c].nnOutput
                            /\ heap[c].pos = Play[rootPos][m] /\ promote(c)
  <1> DEFINE played == {i \in Slots(root) : heap[root].children[i].move = m}
  <1>1. /\ root # NoNode /\ played # {} /\ promote(heap[root].children[Min(played)].node)
        /\ heap[heap[root].children[Min(played)].node].nnOutput
    BY Zenon DEF makeMove
  <1>2. root \in Nodes /\ root \in Live /\ heap[root].key = RootKey /\ heap[root].pos = rootPos
    BY <1>1, Zenon DEF TreeInv, RootInv, TypeOK, Live
  <1>3. Slots(root) \subseteq Nat
    <2>1. heap[root] \in SearchNodes
      BY <1>2, LiveNode, SameHeap DEF Live
    <2>2. Slots(root) = 1 .. Len(heap[root].children) /\ Len(heap[root].children) \in Nat
      BY <2>1, NodeFields DEF Slots
    <2> QED
      BY <2>2
  <1>4. Min(played) \in played
    <2>1. played \subseteq Nat
      BY <1>3
    <2> HIDE DEF played
    <2> QED
      BY <1>1, <2>1, MinIn
  <1>5. PICK i \in Slots(root) : i = Min(played) /\ heap[root].children[i].move = m
    BY <1>4
  <1> HIDE DEF played
  <1>6. PICK c : c = heap[root].children[i].node
    OBVIOUS
  <1>7. c \in Nodes /\ c \in Live /\ heap[c].key # RootKey /\ heap[c].pos = Play[rootPos][m]
    BY <1>2, <1>5, <1>6, ChildSlot DEF InTable
  <1> QED
    BY <1>1, <1>2, <1>5, <1>6, <1>7, SMTT(30) DEF Live

LEMMA MakeMoveTree ==
  ASSUME TypeOK, TreeInv, NEW m \in DOMAIN Play[rootPos], makeMove(m)
  PROVE  TypeOK' /\ TreeInv'
  <1>1. /\ phase = "idle" /\ oldRoot = NoNode /\ marked = {} /\ walk = [t \in Threads |-> <<>>]
        /\ rootPos' = Play[rootPos][m] /\ rootPos' \in Positions /\ heap \in Heaps
        /\ UNCHANGED <<searches, playouts, shouldStopNow, thread>> /\ searches' \in 0 .. Len(Limits)
    <2>1. phase = "idle" /\ rootPos' = Play[rootPos][m] /\ UNCHANGED <<searches, playouts, shouldStopNow, thread>>
      BY DEF makeMove
    <2>2. Play[rootPos][m] \in Positions
      BY GameAssumption DEF TypeOK
    <2> QED
      BY <2>1, <2>2, SameHeap, SMTT(30) DEF TreeInv, PhaseInv, TypeOK
  <1>2. CASE clearSearch
    <2>1. /\ heap' = [n \in Nodes |-> Free] /\ root' = NoNode
          /\ UNCHANGED <<oldRoot, phase, markVars>>
      BY <1>2 DEF clearSearch
    <2>2. Live' = {}
      BY <2>1 DEF Live, Free
    <2>3. StaticInv'
      <3>1. RootInv'
        BY <1>1, <2>1 DEF RootInv
      <3> QED
        BY <2>2, <3>1 DEF StaticInv, TableInv, OneNodePerPosition, ChildrenFollowMoves, ChildrenInTable
    <2>4. TypeOK'
      BY <1>1, <2>1 DEF TypeOK, markVars
    <2>5. PhaseInv'
      BY <1>1, <2>1, NoThreads DEF PhaseInv, markVars
    <2>6. WalkInv'
      BY <1>1, <2>1, <2>5, NoWalk
    <2>7. \A t \in Threads : thread'[t].at \in {"idle", "begin"} /\ thread'[t].path = <<>>
      BY <1>1, NoThreads
    <2> QED
      BY <2>3, <2>4, <2>5, <2>6, <2>7, UserKeeps
  <1>3. CASE ~clearSearch
    <2>2. root \in Nodes /\ root \in Live /\ heap[root].key = RootKey /\ heap[root].pos = rootPos
      BY <1>3, PlayedChild
    <2>3. PICK c \in Live : /\ c \in Nodes /\ heap[c].live
                            /\ heap[c].pos = rootPos' /\ promote(c)
      BY <1>1, <1>3, PlayedChild
    <2>4. HeapHasRoom /\ heap' = [heap EXCEPT ![Address] = [heap[c] EXCEPT !.key = RootKey]]
          /\ root' = Address /\ oldRoot' = root /\ StartWalk
      BY <2>3 DEF promote
    <2>5. PICK a \in Nodes : a = Address /\ a \notin Live
      BY <2>4, RoomForNode
    <2>6. PICK x \in SearchNodes : x = heap[c]
      BY <1>1, <2>3, LiveNode
    <2>7. PICK y \in SearchNodes : /\ y = [x EXCEPT !.key = RootKey] /\ y.key = RootKey /\ y.pos = x.pos
                                   /\ y.children = x.children /\ y.state = x.state
      <3>1. PICK k \in Keys : k = RootKey
        BY DEF Keys
      <3> DEFINE y == [x EXCEPT !.key = k]
      <3>2. y \in SearchNodes
        BY DEF SearchNodes
      <3>3. y.key = k /\ y.pos = x.pos /\ y.children = x.children /\ y.state = x.state
        BY DEF SearchNodes
      <3> QED
        BY <3>1, <3>2, <3>3
    <2>8. heap' = [heap EXCEPT ![a] = y] /\ root' = a
      BY <2>4, <2>5, <2>6, <2>7
    <2>9. /\ heap' \in Heaps /\ Live' = Live \cup {a} /\ heap'[a] = y
          /\ \A k \in Nodes \ {a} : heap'[k] = heap[k]
          /\ ChildrenFollowMoves' /\ ChildrenInTable'
      <3>1. Len(x.children) <= getChildrenCapacity(x.state)
        BY <2>3, <2>6 DEF TreeInv, ChildrenFollowMoves
      <3>2. ASSUME NEW j \in DOMAIN x.children
            PROVE  /\ x.children[j].node \in Live /\ heap[x.children[j].node].key # RootKey
                   /\ x.children[j].move \in DOMAIN Play[x.pos]
                   /\ heap[x.children[j].node].pos = Play[x.pos][x.children[j].move]
                   /\ \A l \in DOMAIN x.children \ {j} : x.children[j].move # x.children[l].move
        <4>1. j \in Slots(c)
          BY <2>6, <3>2 DEF Slots
        <4>2. \A l \in DOMAIN x.children \ {j} : x.children[j].move # x.children[l].move
          BY <2>3, <2>6, <3>2 DEF TreeInv, ChildrenFollowMoves
        <4> QED
          BY <2>3, <2>6, <4>1, <4>2, ChildSlot DEF InTable
      <3>3. Len(y.children) <= getChildrenCapacity(y.state)
        BY <2>7, <3>1
      <3>4. \A j \in DOMAIN y.children :
              /\ y.children[j].node \in Live /\ heap[y.children[j].node].key # RootKey
              /\ y.children[j].move \in DOMAIN Play[y.pos]
              /\ heap[y.children[j].node].pos = Play[y.pos][y.children[j].move]
              /\ \A l \in DOMAIN y.children \ {j} : y.children[j].move # y.children[l].move
        BY <2>7, <3>2
      <3> QED
        <4>1. ChildrenFollowMoves /\ ChildrenInTable
          BY DEF TreeInv
        <4>2. heap' = [heap EXCEPT ![a] = y] /\ a \notin Live
          BY <2>5, <2>8
        <4> QED
          BY <3>3, <3>4, <4>1, <4>2, Graft
    <2>10. \A k \in Live : heap'[k] = heap[k]
      BY <2>5, <2>9 DEF Live
    <2>11. RootInv'
      <3>1. heap'[a].live /\ heap'[a].key = RootKey /\ heap'[a].pos = rootPos'
        BY <2>3, <2>6, <2>7, <2>9, NodeFields
      <3>2. heap'[root].live /\ heap'[root].key = RootKey /\ a # root
        BY <2>2, <2>5, <2>10 DEF Live
      <3> QED
        BY <2>4, <2>8, <3>1, <3>2 DEF RootInv
    <2>12. TableInv'
      <3>1. TableInv
        BY DEF TreeInv
      <3>2. ASSUME NEW k \in Live
            PROVE  /\ heap'[k].key = RootKey => k \in {root', oldRoot'}
                   /\ heap'[k].key \notin {RootKey, FreshKey} => heap'[k].key = GraphHash[heap'[k].pos]
        <4>1. heap'[k] = heap[k]
          BY <2>10
        <4>2. heap[k].key = RootKey => k \in {root, oldRoot}
          BY <3>1 DEF TableInv
        <4>3. heap[k].key \notin {RootKey, FreshKey} => heap[k].key = GraphHash[heap[k].pos]
          BY <3>1 DEF TableInv
        <4>4. k # NoNode
          BY DEF Live, Nodes, NoNode
        <4> QED
          BY <1>1, <2>4, <4>1, <4>2, <4>3, <4>4
      <3>3. heap'[a].key = RootKey /\ a = root'
        BY <2>7, <2>8, <2>9
      <3> QED
        BY <2>9, <3>2, <3>3 DEF TableInv
    <2>13. OneNodePerPosition'
      <3>1. OneNodePerPosition
        BY DEF TreeInv
      <3>2. heap'[a].key = RootKey
        BY <2>7, <2>9
      <3>3. ASSUME NEW j \in Live', NEW k \in Live', j # k, heap'[j].key = heap'[k].key
            PROVE  heap'[j].key \in {FreshKey, RootKey}
        <4>1. CASE j = a \/ k = a
          BY <3>2, <3>3, <4>1
        <4>2. CASE j \in Live /\ k \in Live
          <5>1. heap'[j] = heap[j] /\ heap'[k] = heap[k]
            BY <2>10, <4>2
          <5> QED
            BY <3>1, <3>3, <4>2, <5>1 DEF OneNodePerPosition
        <4> QED
          BY <2>9, <4>1, <4>2
      <3> QED
        BY <3>3 DEF OneNodePerPosition
    <2>14. StaticInv'
      BY <2>9, <2>11, <2>12, <2>13 DEF StaticInv
    <2>15. root' \in Live' /\ oldRoot' \in Nodes \cup {NoNode}
      BY <2>2, <2>4, <2>8, <2>9
    <2> QED
      BY <1>1, <2>4, <2>9, <2>14, <2>15, ToMark
  <1> QED
    BY <1>2, <1>3

LEMMA InitTree ==
  ASSUME Init
  PROVE  TypeOK /\ TreeInv
  <1>1. NoPlayout \in Playouts /\ NoPlayout.path = <<>> /\ NoPlayout.at = "idle"
    BY DEF NoPlayout, Playouts, Places, UNEVALUATED, EXPANDED2
  <1>2. Live = {}
    BY DEF Init, Live, Free
  <1>3. TypeOK
    <2>1. 0 \in 0 .. Len(Limits)
      BY BoundAssumption
    <2>2. <<>> \in Seq([node : Nodes \cup {NoNode}, todo : SUBSET Nodes])
      OBVIOUS
    <2> HIDE DEF NoPlayout
    <2> QED
      BY <1>1, <2>1, <2>2, GameAssumption DEF Init, TypeOK
  <1>4. PhaseInv
    BY DEF Init, PhaseInv
  <1>5. RootInv /\ TableInv /\ OneNodePerPosition /\ ChildrenFollowMoves /\ ChildrenInTable
    <2>1. RootInv
      BY DEF Init, RootInv
    <2> QED
      BY <1>2, <2>1 DEF TableInv, OneNodePerPosition, ChildrenFollowMoves, ChildrenInTable
  <1>6. \A t \in Threads : thread[t] = NoPlayout
    BY DEF Init
  <1>7. ThreadInv /\ OwnersInv
    BY <1>1, <1>6 DEF ThreadInv, OnTree, OffTree, OwnersInv, Owners
  <1>8. WalkInv
    BY DEF Init, WalkInv
  <1> QED
    BY <1>3, <1>4, <1>5, <1>7, <1>8 DEF TreeInv

(* Every step keeps the tree. *)
LEMMA NextTree ==
  ASSUME TypeOK, TreeInv, [Next]_vars
  PROVE  TypeOK' /\ TreeInv'
  <1>1. CASE Next
    BY <1>1, SearchStepTree, BeginSearchTree, EndSearchTree, SweepTree, MakeMoveTree, WalkChildTree, WalkDoneTree
    DEF Next, WalkStep
  <1>2. CASE UNCHANGED vars
    <2>1. TypeOK'
      BY <1>2 DEF TypeOK, vars
    <2>2. CASE phase = "search"
      <3>1. ASSUME NEW t \in Threads, OnTree(t) PROVE PathInv(t)' /\ StateInv(t)' /\ ChildInv(t)'
        <4>1. heap' = heap /\ thread'[t] = thread[t] /\ root' = root /\ rootPos' = rootPos
          BY <1>2 DEF vars
        <4>2. GrownTree(heap, heap') /\ heap' \in Heaps
          BY <4>1, SameHeap, SameIsGrown
        <4>3. thread[t].node \in Live /\ PathInv(t) /\ StateInv(t) /\ ChildInv(t)
          BY <3>1, NodeOf DEF Live
        <4> QED
          BY <4>1, <4>2, <4>3, PathKeeps, StateKeeps, ChildKeeps
      <3>2. ThreadInv'
        <4>1. thread' = thread
          BY <1>2 DEF vars
        <4> QED
          BY <3>1, <4>1 DEF TreeInv, ThreadInv, OnTree
      <3>3. OwnersInv'
        BY <1>2 DEF vars, TreeInv, OwnersInv, Owners
      <3>4. PhaseInv'
        BY <1>2 DEF vars, TreeInv, PhaseInv
      <3>5. WalkInv'
        BY <1>2, <2>2, <3>4, NoWalk DEF vars
      <3>6. StaticInv'
        BY <1>2, SameHeap, SameIsQuiet, StaticQuiet DEF TreeInv, StaticInv, vars
      <3> QED
        BY <2>1, <3>2, <3>3, <3>4, <3>5, <3>6 DEF TreeInv, StaticInv
    <2>3. CASE phase # "search"
      <3>1. PhaseInv'
        BY <1>2 DEF vars, TreeInv, PhaseInv
      <3>2. StaticInv'
        BY <1>2, SameHeap, SameIsQuiet, StaticQuiet DEF TreeInv, StaticInv, vars
      <3>3. WalkInv'
        <4>1. /\ heap' = heap /\ walk' = walk /\ marked' = marked /\ root' = root /\ phase' = phase
          BY <1>2 DEF vars
        <4>2. Live' = Live
          BY <4>1 DEF Live
        <4>3. Covered' = Covered
          BY <4>1 DEF Covered, OnStacks, NodesOnStack
        <4>4. ASSUME NEW n PROVE ChildrenOf(n)' = ChildrenOf(n)
          BY <4>1 DEF ChildrenOf, Slots
        <4>5. WalkInv
          BY DEF TreeInv
        <4>6. marked' \subseteq Live' /\ \A n \in marked' : ChildrenOf(n)' \subseteq Covered'
          BY <4>1, <4>2, <4>3, <4>4, <4>5 DEF WalkInv
        <4>7. ASSUME NEW u \in Threads, NEW i \in DOMAIN walk'[u], NEW e, e = walk'[u][i]
              PROVE  /\ e.node = NoNode => root' \in e.todo \cup Covered'
                     /\ e.node # NoNode => e.node \in Live' /\ HeirsOf(heap', e.node) \subseteq e.todo \cup Covered'
                     /\ e.todo \subseteq Live' /\ (i = 1 => e.node = NoNode)
          <5>1. i \in DOMAIN walk[u] /\ e = walk[u][i]
            BY <4>1, <4>7
          <5>2. /\ e.node = NoNode => root \in e.todo \cup Covered
                /\ e.node # NoNode => e.node \in Live /\ ChildrenOf(e.node) \subseteq e.todo \cup Covered
                /\ e.todo \subseteq Live /\ (i = 1 => e.node = NoNode)
            BY <4>5, <5>1 DEF WalkInv
          <5>3. HeirsOf(heap', e.node) = ChildrenOf(e.node)
            BY <4>1 DEF HeirsOf, ChildrenOf, Slots
          <5> QED
            BY <4>1, <4>2, <4>3, <5>2, <5>3
        <4>8. phase' = "mark" => root' \in Covered' \/ \A t \in Threads : walk'[t] # <<>>
          BY <4>1, <4>3, <4>5 DEF WalkInv
        <4> QED
          BY <4>6, <4>7, <4>8 DEF WalkInv, HeirsOf, ChildrenOf, Slots
      <3>4. \A t \in Threads : thread'[t].at \in {"idle", "begin"} /\ thread'[t].path = <<>>
        BY <1>2, <2>3, NoThreads DEF vars
      <3> QED
        BY <2>1, <3>1, <3>2, <3>3, <3>4, UserKeeps
    <2> QED
      BY <2>2, <2>3
  <1> QED
    BY <1>1, <1>2

(* The types: no thread is ever at a place the code has not, and no field  *)
(* of a node leaves its range, whatever the threads do at once.            *)
THEOREM SearchTypeCorrect == Spec => []TypeOK
  <1>1. Init => TypeOK /\ TreeInv
    BY InitTree
  <1>2. TypeOK /\ TreeInv /\ [Next]_vars => TypeOK' /\ TreeInv'
    BY NextTree
  <1> QED
    BY <1>1, <1>2, PTL DEF Spec

(* Whatever threads grow a node at once, and whatever the table hands them, *)
(* its children are the positions its moves lead to, each move once, in     *)
(* slots its state has; and no sweep frees a node that another points to.   *)
THEOREM ChildrenAlwaysFollowMoves == Spec => []ChildrenFollowMoves
  <1>1. Init => TypeOK /\ TreeInv
    BY InitTree
  <1>2. TypeOK /\ TreeInv /\ [Next]_vars => TypeOK' /\ TreeInv'
    BY NextTree
  <1>3. TreeInv => ChildrenFollowMoves
    BY DEF TreeInv
  <1> QED
    BY <1>1, <1>2, <1>3, PTL DEF Spec

(* The node table never holds two nodes of a position under its hash.      *)
THEOREM OneNodeForAPosition == Spec => []OneNodePerPosition
  <1>1. Init => TypeOK /\ TreeInv
    BY InitTree
  <1>2. TypeOK /\ TreeInv /\ [Next]_vars => TypeOK' /\ TreeInv'
    BY NextTree
  <1>3. TreeInv => OneNodePerPosition
    BY DEF TreeInv
  <1> QED
    BY <1>1, <1>2, <1>3, PTL DEF Spec

-----------------------------------------------------------------------------
(* What each step does, in terms of what the books depend on *)

Goes(t, s) ==
  /\ phase = "search" /\ UNCHANGED <<root, oldRoot, rootPos>>
  /\ s \in Playouts /\ thread' = [thread EXCEPT ![t] = s]
Stays(t, s) == Goes(t, s) /\ OnTree(t) /\ s.node = thread[t].node /\ s.path = thread[t].path
Lose(c, k) == heap' = [heap EXCEPT ![c].virtualLosses = heap[c].virtualLosses + k]

LEMMA SearchFrame ==
  ASSUME NEW t \in Threads, SearchStep(t)
  PROVE  phase = "search" /\ UNCHANGED <<root, oldRoot, rootPos>>
  <1> USE DEF At, OnlyTree, OnlyThread, userVars
  <1>1. CASE Begin(t) \/ StopSearching(t) \/ runSinglePlayout(t) \/ FinishPlayout(t)
    BY <1>1, SMTT(30) DEF Begin, StopSearching, runSinglePlayout, FinishPlayout
  <1>2. CASE AddLeaf(t) \/ playoutDescend(t) \/ SelectChild(t) \/ SelectNewMove(t) \/ SelectNothing(t)
    BY <1>2, Zenon DEF AddLeaf, playoutDescend, SelectChild, SelectNewMove, SelectNothing
  <1>3. CASE \/ storeNNOutputIfNull(t) \/ addCurrentNNOutputAsLeafValue(t) \/ claimEvaluating(t)
             \/ initializeChildren(t)
    BY <1>3, SMTT(30) DEF storeNNOutputIfNull, addCurrentNNOutputAsLeafValue, claimEvaluating, initializeChildren
  <1>4. CASE maybeExpandChildrenCapacity(t) \/ growChildren(t) \/ allocateOrFindNode(t) \/ insertChild(t)
    BY <1>4, Zenon DEF maybeExpandChildrenCapacity, growChildren, allocateOrFindNode, insertChild
  <1>5. CASE \/ maybeCatchUpEdgeVisits(t) \/ Descend(t) \/ EndCycle(t) \/ ReturnTrue(t) \/ ReturnFalse(t)
    BY <1>5 DEF maybeCatchUpEdgeVisits, Descend, EndCycle, ReturnTrue, ReturnFalse
  <1>6. CASE updateStatsAfterPlayout(t) \/ readChildren(t) \/ writeStats(t) \/ undirty(t)
    BY <1>6 DEF updateStatsAfterPlayout, readChildren, writeStats, undirty
  <1> QED
    BY <1>1, <1>2, <1>3, <1>4, <1>5, <1>6 DEF SearchStep

LEMMA LoopDoes ==
  ASSUME TypeOK, TreeInv, NEW t \in Threads,
         Begin(t) \/ StopSearching(t) \/ FinishPlayout(t) \/ runSinglePlayout(t)
  PROVE  /\ heap' = heap /\ thread[t].at \in {"begin", "top", "true", "false"} /\ thread[t].path = <<>>
         /\ OnTree(t) => thread[t].node = root
         /\ \E s : /\ Goes(t, s) /\ s.path = <<>> /\ s.at \in {"top", "done", "visit"}
                   /\ s.at = "visit" => s.node = root
  <1>1. phase = "search" /\ UNCHANGED <<root, oldRoot, rootPos>>
    BY SearchFrame DEF SearchStep
  <1>2. heap' = heap /\ thread[t].at \in {"begin", "top", "true", "false"} /\ thread[t].path = <<>>
    BY DEF Begin, StopSearching, FinishPlayout, runSinglePlayout, At, OnlyThread, userVars, TreeInv, ThreadInv,
           OnTree, OffTree
  <1>3. OnTree(t) => thread[t].node = root
    BY <1>2, NodeOf DEF PathInv
  <1>4. PICK x \in Playouts : x = thread[t] /\ x.path = <<>>
    BY <1>2, ThreadRecord
  <1>5. NoPlayout \in Playouts /\ NoPlayout.path = <<>> /\ playouts \in Nat /\ playouts + 1 \in Nat
    BY DEF TypeOK, NoPlayout, Playouts, Places, UNEVALUATED, EXPANDED2
  <1>6. \E s \in Playouts : /\ thread' = [thread EXCEPT ![t] = s] /\ s.path = <<>> /\ s.at \in {"top", "done", "visit"}
                            /\ s.at = "visit" => s.node = root
    <2>1. CASE Begin(t)
      <3> DEFINE s == [x EXCEPT !.at = "top", !.numPlayouts = playouts]
      <3>1. s \in Playouts /\ s.at = "top" /\ s.path = x.path
        BY <1>5 DEF Playouts, Places
      <3> QED
        BY <1>4, <2>1, <3>1 DEF Begin, Become
    <2>2. CASE StopSearching(t)
      <3> DEFINE s == [x EXCEPT !.at = "done"]
      <3>1. s \in Playouts /\ s.at = "done" /\ s.path = x.path
        BY DEF Playouts, Places
      <3> QED
        BY <1>4, <2>2, <3>1 DEF StopSearching, Become
    <2>3. CASE FinishPlayout(t)
      <3>1. PICK k \in Nat : thread' = [thread EXCEPT ![t] = [NoPlayout EXCEPT !.at = "top", !.numPlayouts = k]]
        <4>1. (IF thread[t].shouldCount THEN playouts + 1 ELSE thread[t].numPlayouts) \in Nat
          BY <1>5, ThreadFields
        <4> QED
          BY <2>3, <4>1, Zenon DEF FinishPlayout, Become
      <3> DEFINE s == [NoPlayout EXCEPT !.at = "top", !.numPlayouts = k]
      <3>2. s \in Playouts /\ s.at = "top" /\ s.path = <<>>
        <4> HIDE DEF NoPlayout
        <4> QED
          BY <1>5 DEF Playouts, Places
      <3> QED
        BY <3>1, <3>2
    <2>4. CASE runSinglePlayout(t)
      <3>1. root \in Nodes
        BY <1>1, RootThere
      <3> DEFINE s == [x EXCEPT !.at = "visit", !.node = root]
      <3>2. s \in Playouts /\ s.at = "visit" /\ s.path = x.path /\ s.node = root
        BY <3>1 DEF Playouts, Places
      <3> QED
        BY <1>4, <2>4, <3>2 DEF runSinglePlayout, Become
    <2> QED
      BY <2>1, <2>2, <2>3, <2>4
  <1> QED
    BY <1>1, <1>2, <1>3, <1>6 DEF Goes

(* A thread that stays where it is, its record otherwise as it was.        *)
LEMMA GoesOn ==
  ASSUME TypeOK, NEW t \in Threads, OnTree(t), phase = "search", UNCHANGED <<root, oldRoot, rootPos>>, NEW a \in Places,
         Become(t, [thread[t] EXCEPT !.at = a])
  PROVE  \E s : Stays(t, s) /\ s.at = a /\ s.child = thread[t].child
  <1>1. thread[t] \in Playouts
    BY ThreadRecord
  <1>2. PICK s \in Playouts : /\ s = [thread[t] EXCEPT !.at = a] /\ s.at = a /\ s.node = thread[t].node
                              /\ s.path = thread[t].path /\ s.child = thread[t].child
    BY <1>1, MovesTo
  <1> QED
    BY <1>2 DEF Stays, Goes, Become

(* ... or as new. *)
LEMMA StartsOver ==
  ASSUME TypeOK, NEW t \in Threads, OnTree(t), phase = "search", UNCHANGED <<root, oldRoot, rootPos>>,
         NEW s, Become(t, s), s = Returns(t) \/ s = GivesUp(t)
  PROVE  /\ Stays(t, s)
         /\ s = Returns(t) => s.at = "true"
         /\ s = GivesUp(t) => s.at = "false"
  BY GivesUpType DEF Stays, Goes, Become

LEMMA ToSelectDoes ==
  ASSUME TypeOK, NEW t \in Threads, OnTree(t), phase = "search", UNCHANGED <<root, oldRoot, rootPos>>,
         NEW r \in UNEVALUATED .. EXPANDED2, Become(t, [AtNode(t, "select") EXCEPT !.state = r])
  PROVE  \E s : Stays(t, s) /\ s.at = "select"
  <1>1. PICK x \in Playouts : /\ x = AtNode(t, "select") /\ x.at = "select"
                              /\ x.node = thread[t].node /\ x.path = thread[t].path
    <2>1. "select" \in Places
      BY DEF Places
    <2> QED
      BY <2>1, AtNodeType
  <1> DEFINE s == [x EXCEPT !.state = r]
  <1>2. s \in Playouts /\ s.at = x.at /\ s.node = x.node /\ s.path = x.path
    BY DEF Playouts
  <1>3. thread' = [thread EXCEPT ![t] = s]
    BY <1>1 DEF Become
  <1> HIDE DEF s
  <1> QED
    BY <1>1, <1>2, <1>3 DEF Stays, Goes

LEMMA DescendDoes ==
  ASSUME TypeOK, TreeInv, NEW t \in Threads, playoutDescend(t)
  PROVE  /\ heap' = heap /\ thread[t].at = "visit" /\ ~(thread[t].node # root /\ Here(t).pos \in Leaves)
         /\ \E s : Stays(t, s) /\ s.at \in {"evaluate", "select", "false"}
  <1>1. phase = "search" /\ UNCHANGED <<root, oldRoot, rootPos>>
    BY SearchFrame DEF SearchStep
  <1>2. /\ heap' = heap /\ thread[t].at = "visit" /\ ~(thread[t].node # root /\ Here(t).pos \in Leaves)
        /\ OnTree(t)
    BY DEF playoutDescend, At, OnlyThread, OnTree, OffTree
  <1>3. CASE Here(t).state = UNEVALUATED
    <2>1. Become(t, [thread[t] EXCEPT !.at = "evaluate"]) /\ "evaluate" \in Places
      BY <1>3 DEF playoutDescend, UNEVALUATED, EVALUATING, Places
    <2>2. \E s : Stays(t, s) /\ s.at = "evaluate" /\ s.child = thread[t].child
      BY <1>1, <1>2, <2>1, GoesOn
    <2> QED
      BY <1>2, <2>2
  <1>4. CASE Here(t).state = EVALUATING
    <2>1. Become(t, GivesUp(t))
      BY <1>4 DEF playoutDescend, UNEVALUATED, EVALUATING
    <2> QED
      BY <1>1, <1>2, <2>1, StartsOver
  <1>5. CASE Here(t).state # UNEVALUATED /\ Here(t).state # EVALUATING
    <2>1. Become(t, [AtNode(t, "select") EXCEPT !.state = Here(t).state])
      BY <1>5 DEF playoutDescend
    <2>2. Here(t).state \in UNEVALUATED .. EXPANDED2
      BY <1>2, NodeOf
    <2>3. \E s : Stays(t, s) /\ s.at = "select"
      BY <1>1, <1>2, <2>1, <2>2, ToSelectDoes
    <2> QED
      BY <1>2, <2>3
  <1> QED
    BY <1>3, <1>4, <1>5

LEMMA SelectChildDoes ==
  ASSUME TypeOK, TreeInv, NEW t \in Threads, SelectChild(t)
  PROVE  /\ thread[t].at = "select"
         /\ \E c \in Live : /\ InTable(c) /\ Lose(c, 1)
                            /\ \E s : Stays(t, s) /\ s.at = "edge" /\ s.child = c
  <1>1. phase = "search" /\ UNCHANGED <<root, oldRoot, rootPos>>
    BY SearchFrame DEF SearchStep
  <1>2. OnTree(t) /\ thread[t].at = "select"
    BY DEF SelectChild, At, OnTree, OffTree
  <1>3. PICK i \in Found(t), count \in CountKinds(t) :
          LET child == Here(t).children[i].node IN
          /\ heap' = [heap EXCEPT ![child].virtualLosses = @ + 1]
          /\ thread' = [thread EXCEPT ![t] = [AtNode(t, "edge") EXCEPT !.idx = i, !.child = child, !.countEdgeVisit = count]]
    BY Zenon DEF SelectChild, Become
  <1>4. PICK c : c = Here(t).children[i].node
    OBVIOUS
  <1>5. thread[t].node \in Live /\ i \in Slots(thread[t].node)
    BY <1>2, NodeOf DEF Found, Live
  <1>6. c \in Nodes /\ InTable(c)
    BY <1>4, <1>5, ChildSlot DEF Here
  <1>7. i \in Nat /\ count \in BOOLEAN
    <2>1. heap[thread[t].node] \in SearchNodes
      BY <1>2, NodeOf DEF Here
    <2>2. /\ DOMAIN heap[thread[t].node].children = 1 .. Len(heap[thread[t].node].children)
          /\ Len(heap[thread[t].node].children) \in Nat
      BY <2>1, NodeFields
    <2>3. i \in Nat
      BY <1>5, <2>2 DEF Slots
    <2>4. CountKinds(t) \subseteq BOOLEAN
      BY Zenon DEF CountKinds
    <2> QED
      BY <1>3, <2>3, <2>4
  <1>8. PICK x \in Playouts : /\ x = AtNode(t, "edge") /\ x.at = "edge"
                              /\ x.node = thread[t].node /\ x.path = thread[t].path
    <2>1. "edge" \in Places
      BY DEF Places
    <2> QED
      BY <2>1, AtNodeType
  <1> DEFINE s == [x EXCEPT !.idx = i, !.child = c, !.countEdgeVisit = count]
  <1>9. s \in Playouts /\ s.at = x.at /\ s.node = x.node /\ s.path = x.path /\ s.child = c
    BY <1>6, <1>7 DEF Playouts
  <1>10. thread' = [thread EXCEPT ![t] = s]
    BY <1>3, <1>4, <1>8
  <1> HIDE DEF s
  <1>11. Stays(t, s) /\ s.at = "edge"
    BY <1>1, <1>2, <1>8, <1>9, <1>10 DEF Stays, Goes
  <1>12. Lose(c, 1)
    BY <1>3, <1>4 DEF Lose
  <1> QED
    BY <1>2, <1>6, <1>9, <1>11, <1>12 DEF InTable

LEMMA SelectNewMoveDoes ==
  ASSUME TypeOK, TreeInv, NEW t \in Threads, SelectNewMove(t)
  PROVE  /\ heap' = heap /\ thread[t].at = "select"
         /\ \E s : Stays(t, s) /\ s.at \in {"allocate", "full"}
  <1>1. phase = "search" /\ UNCHANGED <<root, oldRoot, rootPos>>
    BY SearchFrame DEF SearchStep
  <1>2. OnTree(t) /\ thread[t].at = "select" /\ heap' = heap
    BY DEF SelectNewMove, At, OnTree, OffTree, OnlyThread
  <1>3. TypeOK'
    BY SelectNewMoveTree
  <1>4. PICK x \in Playouts : x = thread[t]
    BY ThreadRecord
  <1>5. PICK i, cap : i = Cardinality(Found(t)) + 1 /\ cap = getChildrenCapacity(thread[t].state)
    OBVIOUS
  <1>9. PICK m \in NewMoves(t), count \in CountKinds(t) :
          Become(t, [thread[t] EXCEPT !.at = IF i <= cap THEN "allocate" ELSE "full",
                                      !.idx = i, !.move = m, !.countEdgeVisit = count])
    BY <1>5, Zenon DEF SelectNewMove
  <1>10. PICK a \in {"allocate", "full"} : a = IF i <= cap THEN "allocate" ELSE "full"
    OBVIOUS
  <1> DEFINE s == [x EXCEPT !.at = a, !.idx = i, !.move = m, !.countEdgeVisit = count]
  <1>6. s.at = a /\ s.node = x.node /\ s.path = x.path
    BY DEF Playouts
  <1> HIDE DEF s
  <1>7. thread' = [thread EXCEPT ![t] = s]
    BY <1>4, <1>9, <1>10 DEF s, Become
  <1>8. s \in Playouts
    <2>1. thread'[t] = s
      BY <1>7 DEF TypeOK
    <2> QED
      BY <1>3, <2>1 DEF TypeOK
  <1> QED
    BY <1>1, <1>2, <1>4, <1>6, <1>7, <1>8 DEF Stays, Goes

SameExceptState(x, y) ==
  /\ y.live = x.live /\ y.key = x.key /\ y.pos = x.pos /\ y.nnOutput = x.nnOutput /\ y.children = x.children
  /\ y.visits = x.visits /\ y.weight = x.weight /\ y.dirtyCounter = x.dirtyCounter /\ y.virtualLosses = x.virtualLosses
OnlyState(n, r) ==
  /\ heap'[n].state = r /\ SameExceptState(heap[n], heap'[n]) /\ \A m \in Nodes \ {n} : heap'[m] = heap[m]

LEMMA StateSet ==
  ASSUME TypeOK, NEW n \in Live, NEW r, heap' = [heap EXCEPT ![n].state = r]
  PROVE  OnlyState(n, r)
  <1>1. heap[n] \in SearchNodes /\ n \in Nodes /\ heap \in Heaps
    BY LiveNode, SameHeap DEF Live
  <1>2. heap'[n] = [heap[n] EXCEPT !.state = r] /\ \A m \in Nodes \ {n} : heap'[m] = heap[m]
    BY <1>1 DEF Heaps
  <1>3. PICK x \in SearchNodes : x = heap[n]
    BY <1>1
  <1>4. [x EXCEPT !.state = r].state = r /\ SameExceptState(x, [x EXCEPT !.state = r])
    BY DEF SearchNodes, SameExceptState
  <1> QED
    BY <1>2, <1>3, <1>4 DEF OnlyState

LEMMA GrowDoes ==
  ASSUME TypeOK, TreeInv, NEW t \in Threads, maybeExpandChildrenCapacity(t) \/ growChildren(t)
  PROVE  /\ thread[t].at \in {"full", "grow"} /\ thread[t].node \in Live
         /\ heap' = heap \/ \E r \in Int : /\ Here(t).state >= EXPANDED0 /\ r >= EXPANDED0
                                           /\ OnlyState(thread[t].node, r)
         /\ \E s : Stays(t, s) /\ s.at \in {"select", "grow", "allocate"}
  <1>1. phase = "search" /\ UNCHANGED <<root, oldRoot, rootPos>>
    BY SearchFrame DEF SearchStep
  <1>2. OnTree(t) /\ thread[t].at \in {"full", "grow"}
    BY DEF maybeExpandChildrenCapacity, growChildren, At, OnTree, OffTree
  <1>3. /\ thread[t].node \in Live /\ Here(t).state \in UNEVALUATED .. EXPANDED2 /\ Here(t).state \in Int
        /\ EXPANDED0 <= thread[t].state /\ thread[t].state <= Here(t).state /\ thread[t].state \in Int
    BY <1>2, NodeOf, ThreadFields DEF StateInv, Choosing, Live
  <1>4. Here(t).state >= EXPANDED0 /\ Here(t).state + 1 >= EXPANDED0 /\ Here(t).state + 1 \in Int
    BY <1>3 DEF EXPANDED0
  <1>5. PICK x \in Playouts : x = thread[t]
    BY ThreadRecord
  <1>6. TypeOK'
    BY ExpandTree, GrowTree
  <1>7. ASSUME NEW s, thread' = [thread EXCEPT ![t] = s] PROVE s \in Playouts
    <2>1. thread'[t] = s
      BY <1>7 DEF TypeOK
    <2> QED
      BY <1>6, <2>1 DEF TypeOK
  <1>8. ASSUME NEW a, NEW r, thread' = [thread EXCEPT ![t] = [x EXCEPT !.at = a, !.state = r]]
        PROVE  \E s : Stays(t, s) /\ s.at = a
    <2> DEFINE s == [x EXCEPT !.at = a, !.state = r]
    <2>1. s.at = a /\ s.node = x.node /\ s.path = x.path
      BY DEF Playouts
    <2>2. thread' = [thread EXCEPT ![t] = s]
      BY <1>8
    <2> HIDE DEF s
    <2>3. s \in Playouts
      BY <1>7, <2>2
    <2> QED
      BY <1>1, <1>2, <1>5, <2>1, <2>2, <2>3 DEF Stays, Goes
  <1>9. CASE growChildren(t)
    <2>1. /\ thread' = [thread EXCEPT ![t] = [x EXCEPT !.at = "allocate", !.state = thread[t].state + 1]]
          /\ heap' = [heap EXCEPT ![thread[t].node].state = Here(t).state + 1]
      BY <1>5, <1>9 DEF growChildren, Become, Here
    <2>2. OnlyState(thread[t].node, Here(t).state + 1)
      BY <1>3, <2>1, StateSet
    <2>3. \E s : Stays(t, s) /\ s.at = "allocate"
      BY <1>8, <2>1, Zenon
    <2> QED
      BY <1>2, <1>3, <1>4, <2>2, <2>3
  <1>10. CASE maybeExpandChildrenCapacity(t)
    <2>1. CASE ~(thread[t].state \in {EXPANDED0, EXPANDED1} /\ Here(t).state = thread[t].state)
      <3>1. heap' = heap /\ Become(t, [AtNode(t, "select") EXCEPT !.state = Here(t).state])
        BY <1>10, <2>1 DEF maybeExpandChildrenCapacity
      <3>2. \E s : Stays(t, s) /\ s.at = "select"
        BY <1>1, <1>2, <1>3, <3>1, ToSelectDoes
      <3> QED
        BY <1>2, <1>3, <3>1, <3>2
    <2>2. CASE thread[t].state \in {EXPANDED0, EXPANDED1} /\ Here(t).state = thread[t].state
      <3>1. /\ thread' = [thread EXCEPT ![t] = [x EXCEPT !.at = "grow", !.state = thread[t].state + 1]]
            /\ heap' = [heap EXCEPT ![thread[t].node].state = Here(t).state + 1]
        BY <1>5, <1>10, <2>2 DEF maybeExpandChildrenCapacity, Become
      <3>2. OnlyState(thread[t].node, Here(t).state + 1)
        BY <1>3, <3>1, StateSet
      <3>3. \E s : Stays(t, s) /\ s.at = "grow"
        BY <1>8, <3>1, Zenon
      <3> QED
        BY <1>2, <1>3, <1>4, <3>2, <3>3
    <2> QED
      BY <2>1, <2>2
  <1> QED
    BY <1>9, <1>10

(* The node of the table, or a new one, gets the loss. *)
LEMMA AllocateDoes ==
  ASSUME TypeOK, TreeInv, NEW t \in Threads, allocateOrFindNode(t)
  PROVE  /\ thread[t].at = "allocate"
         /\ \E c \in Nodes :
              /\ \E s : Stays(t, s) /\ s.at = "insert" /\ s.child = c
              /\ \/ InTable(c) /\ Lose(c, 1)
                 \/ /\ c \notin Live /\ \A m \in Nodes \ {c} : heap'[m] = heap[m]
                    /\ heap'[c].live /\ heap'[c].key # RootKey /\ ~heap'[c].nnOutput /\ heap'[c].children = <<>>
                    /\ heap'[c].state = UNEVALUATED /\ heap'[c].visits = 0 /\ heap'[c].weight = 0
                    /\ heap'[c].dirtyCounter = 0 /\ heap'[c].virtualLosses = 1
  <1>1. /\ phase = "search" /\ thread[t].at = "allocate" /\ OnTree(t)
        /\ UNCHANGED <<root, oldRoot, rootPos>> /\ heap \in Heaps
    BY SearchFrame, SameHeap, Zenon DEF allocateOrFindNode, At, OnTree, OffTree, SearchStep
  <1>2. PICK pos, there, same, key :
          /\ pos = Play[Here(t).pos][thread[t].move]
          /\ there = {n \in Live : heap[n].key = GraphHash[pos]}
          /\ same = {n \in there : ToMove[heap[n].pos] = ToMove[pos]}
          /\ key = IF there = {} THEN GraphHash[pos] ELSE FreshKey
    BY Zenon
  <1>3. pos \in Positions
    <2>1. ChoiceInv(t) /\ thread[t].node \in Live
      BY <1>1, NodeOf DEF StateInv, Choosing, Live
    <2> QED
      BY <1>1, <1>2, <2>1, MovesLegal, Zenon DEF ChoiceInv, Here
  <1>4. GraphHash[pos] # RootKey /\ key # RootKey
    BY <1>2, <1>3, HashAssumption DEF RootKey, FreshKey
  <1>5. TypeOK'
    BY AllocateTree
  <1>6. ASSUME NEW c, Become(t, [thread[t] EXCEPT !.at = "insert", !.child = c])
        PROVE  \E s : Stays(t, s) /\ s.at = "insert" /\ s.child = c
    <2>1. PICK x \in Playouts : x = thread[t]
      BY ThreadRecord
    <2> DEFINE s == [x EXCEPT !.at = "insert", !.child = c]
    <2>2. s.at = "insert" /\ s.child = c /\ s.node = x.node /\ s.path = x.path
      BY DEF Playouts
    <2>3. thread' = [thread EXCEPT ![t] = s]
      BY <1>6, <2>1 DEF Become
    <2> HIDE DEF s
    <2>4. s \in Playouts
      <3>1. thread'[t] = s
        BY <2>3 DEF TypeOK
      <3> QED
        BY <1>5, <3>1 DEF TypeOK
    <2> QED
      BY <1>1, <2>1, <2>2, <2>3, <2>4 DEF Stays, Goes
  <1>7. CASE same # {}
    <2>1. PICK c : c = Min(same)
      OBVIOUS
    <2>2. c \in same
      <3>1. same \subseteq Nat
        BY <1>2, BoundAssumption DEF Live, Nodes
      <3> QED
        BY <1>7, <2>1, <3>1, MinIn
    <2>3. c \in Nodes /\ InTable(c)
      BY <1>2, <1>4, <2>2, Zenon DEF Live, InTable
    <2>4. Lose(c, 1)
      BY <1>2, <1>7, <2>1, Zenon DEF allocateOrFindNode, Lose
    <2>5. Become(t, [thread[t] EXCEPT !.at = "insert", !.child = c])
      BY <1>2, <1>7, <2>1, Zenon DEF allocateOrFindNode
    <2> QED
      BY <1>1, <1>6, <2>3, <2>4, <2>5, Zenon
  <1>8. CASE same = {}
    <2>1. PICK c \in Nodes : c = Address /\ c \notin Live
      <3>1. HeapHasRoom
        BY <1>2, <1>8, Zenon DEF allocateOrFindNode
      <3> QED
        BY <3>1, RoomForNode
    <2>2. heap' = [heap EXCEPT ![c] = [SearchNode(key, pos) EXCEPT !.virtualLosses = @ + 1]]
      BY <1>2, <1>8, <2>1, Zenon DEF allocateOrFindNode
    <2>3. Become(t, [thread[t] EXCEPT !.at = "insert", !.child = c])
      BY <1>2, <1>8, <2>1, Zenon DEF allocateOrFindNode
    <2>4. heap'[c] = [SearchNode(key, pos) EXCEPT !.virtualLosses = @ + 1] /\ \A m \in Nodes \ {c} : heap'[m] = heap[m]
      BY <1>1, <2>2 DEF Heaps
    <2>5. /\ heap'[c].live /\ heap'[c].key = key /\ ~heap'[c].nnOutput /\ heap'[c].children = <<>>
          /\ heap'[c].state = UNEVALUATED /\ heap'[c].visits = 0 /\ heap'[c].weight = 0
          /\ heap'[c].dirtyCounter = 0 /\ heap'[c].virtualLosses = 1
      BY <2>4 DEF SearchNode
    <2> QED
      BY <1>1, <1>4, <1>6, <2>1, <2>3, <2>4, <2>5, Zenon
  <1> QED
    BY <1>7, <1>8

LEMMA InsertDoes ==
  ASSUME TypeOK, TreeInv, NEW t \in Threads, insertChild(t)
  PROVE  /\ thread[t].at = "insert" /\ InTable(thread[t].child) /\ thread[t].child \in Nodes
         /\ \/ Lose(thread[t].child, -1) /\ \E s : Stays(t, s) /\ s.at = "false"
            \/ /\ \E slot \in Slot : /\ slot.edgeVisits = 0
                                     /\ heap' = [heap EXCEPT ![thread[t].node].children = Append(@, slot)]
               /\ \E s : Stays(t, s) /\ s.at = "edge" /\ s.child = thread[t].child
  <1>1. /\ phase = "search" /\ OnTree(t) /\ thread[t].at = "insert" /\ UNCHANGED <<root, oldRoot, rootPos>>
    BY SearchFrame, Zenon DEF insertChild, At, OnTree, OffTree, SearchStep
  <1>2. InTable(thread[t].child) /\ ChoiceInv(t)
    BY <1>1, NodeOf DEF ChildInv, StateInv, Choosing
  <1>3. thread[t].child \in Nodes
    BY <1>2, TableNode
  <1>4. CASE thread[t].idx \in Slots(thread[t].node)
    <2>1. Become(t, GivesUp(t)) /\ heap' = [heap EXCEPT ![thread[t].child].virtualLosses = @ - 1]
      BY <1>4 DEF insertChild
    <2>2. heap[thread[t].child].virtualLosses - 1 = heap[thread[t].child].virtualLosses + (-1)
      BY <1>2, TableNode
    <2>3. Lose(thread[t].child, -1)
      BY <2>1, <2>2 DEF Lose
    <2> QED
      BY <1>1, <1>2, <1>3, <2>1, <2>3, StartsOver
  <1>5. CASE thread[t].idx \notin Slots(thread[t].node)
    <2>1. thread[t].move \in AllMoves
      <3>1. thread[t].node \in Live
        BY <1>1, NodeOf DEF Live
      <3> QED
        BY <1>1, <1>2, <3>1, MovesLegal DEF ChoiceInv
    <2>2. PICK slot \in Slot : /\ slot = [move |-> thread[t].move, node |-> thread[t].child, edgeVisits |-> 0]
                               /\ slot.edgeVisits = 0
      <3>1. PICK z \in Nat, m \in AllMoves, c \in Nodes : z = 0 /\ m = thread[t].move /\ c = thread[t].child
        BY <1>3, <2>1
      <3>2. [move |-> m, node |-> c, edgeVisits |-> z] \in Slot
        BY DEF Slot
      <3> QED
        BY <3>1, <3>2
    <2>3. heap' = [heap EXCEPT ![thread[t].node].children = Append(@, slot)]
      BY <1>5, <2>2 DEF insertChild
    <2>4. PICK x \in Playouts : x = thread[t]
      BY ThreadRecord
    <2> DEFINE s == [x EXCEPT !.at = "edge", !.move = "none", !.state = 0]
    <2>5. s.at = "edge" /\ s.node = x.node /\ s.path = x.path /\ s.child = x.child
      BY DEF Playouts
    <2>6. thread' = [thread EXCEPT ![t] = s]
      BY <1>5, <2>4 DEF insertChild, Become
    <2> HIDE DEF s
    <2>7. s \in Playouts
      <3>1. thread'[t] = s
        BY <2>6 DEF TypeOK
      <3> QED
        BY <3>1, InsertTree DEF TypeOK
    <2>8. Stays(t, s)
      BY <1>1, <2>4, <2>5, <2>6, <2>7 DEF Stays, Goes
    <2> QED
      BY <1>1, <1>2, <1>3, <2>2, <2>3, <2>4, <2>5, <2>8
  <1> QED
    BY <1>4, <1>5

(* An edge gets one more visit; only that of the node changes.             *)
OneEdge(n, i) ==
  /\ n \in Live /\ i \in DOMAIN heap[n].children
  /\ heap' = [heap EXCEPT ![n].children[i].edgeVisits = @ + 1]

LEMMA EdgeDoes ==
  ASSUME TypeOK, TreeInv, NEW t \in Threads, maybeCatchUpEdgeVisits(t) \/ EndCycle(t)
  PROVE  /\ thread[t].at = "edge" /\ thread[t].child \in Nodes /\ InTable(thread[t].child)
         /\ thread[t].idx \in DOMAIN heap[thread[t].node].children
         /\ heap[thread[t].node].children[thread[t].idx].node = thread[t].child
         /\ heap[thread[t].node].children[thread[t].idx].edgeVisits < heap[thread[t].child].visits
              \/ thread[t].child \in graphPath(t)
         /\ \/ Lose(thread[t].child, -1) /\ \E s : Stays(t, s) /\ s.at = "false"
            \/ /\ OneEdge(thread[t].node, thread[t].idx)
               /\ \E s : Stays(t, s) /\ s.at = "update" /\ s.child = thread[t].child
  <1>1. phase = "search" /\ UNCHANGED <<root, oldRoot, rootPos>> /\ thread[t].at = "edge" /\ OnTree(t)
    BY SearchFrame DEF maybeCatchUpEdgeVisits, EndCycle, At, OnTree, OffTree, SearchStep
  <1>2. /\ thread[t].child \in Nodes /\ InTable(thread[t].child)
        /\ thread[t].idx \in DOMAIN heap[thread[t].node].children
        /\ heap[thread[t].node].children[thread[t].idx].node = thread[t].child
        /\ thread[t].node \in Live
    BY <1>1, EdgeChild, NodeOf DEF Live
  <1>3. \/ heap[thread[t].node].children[thread[t].idx].edgeVisits < heap[thread[t].child].visits
        \/ thread[t].child \in graphPath(t)
    BY DEF maybeCatchUpEdgeVisits, EndCycle, Here
  <1>4. CASE maybeCatchUpEdgeVisits(t) \/ (EndCycle(t) /\ thread[t].countEdgeVisit)
    <2>1. /\ OneEdge(thread[t].node, thread[t].idx)
          /\ thread' = [thread EXCEPT ![t] = WithC(AtNode(t, "update"), thread[t].child)]
      BY <1>2, <1>4, Zenon DEF maybeCatchUpEdgeVisits, EndCycle, AddEdgeVisit, Become, WithC, OneEdge
    <2>2. PICK x \in Playouts : /\ x = AtNode(t, "update") /\ x.at = "update"
                                /\ x.node = thread[t].node /\ x.path = thread[t].path
      <3>1. "update" \in Places
        BY DEF Places
      <3> QED
        BY <3>1, AtNodeType
    <2>3. PICK s \in Playouts : /\ s = WithC(x, thread[t].child) /\ s.at = "update" /\ s.child = thread[t].child
                                /\ s.node = thread[t].node /\ s.path = thread[t].path
      BY <1>2, <2>2, WithChildType
    <2>4. Stays(t, s)
      BY <1>1, <2>1, <2>2, <2>3 DEF Stays, Goes
    <2> QED
      BY <1>1, <1>2, <1>3, <2>1, <2>3, <2>4, SMTT(30)
  <1>5. CASE EndCycle(t) /\ ~thread[t].countEdgeVisit
    <2>1. heap' = [heap EXCEPT ![thread[t].child].virtualLosses = @ - 1] /\ Become(t, AtNode(t, "false"))
      BY <1>5 DEF EndCycle
    <2>2. heap[thread[t].child].virtualLosses - 1 = heap[thread[t].child].virtualLosses + (-1)
      BY <1>2, TableNode
    <2>3. Lose(thread[t].child, -1)
      BY <2>1, <2>2 DEF Lose
    <2>4. PICK s \in Playouts : /\ s = AtNode(t, "false") /\ s.at = "false"
                                /\ s.node = thread[t].node /\ s.path = thread[t].path
      <3>1. "false" \in Places
        BY DEF Places
      <3> QED
        BY <3>1, AtNodeType
    <2>5. Stays(t, s)
      BY <1>1, <2>1, <2>4 DEF Stays, Goes, Become
    <2> QED
      BY <1>1, <1>2, <1>3, <2>3, <2>4, <2>5
  <1> QED
    BY <1>4, <1>5 DEF maybeCatchUpEdgeVisits, EndCycle

LEMMA PushDoes ==
  ASSUME TypeOK, TreeInv, NEW t \in Threads, Descend(t)
  PROVE  /\ heap' = heap /\ thread[t].at = "edge" /\ OnTree(t) /\ thread[t].child \in Nodes /\ InTable(thread[t].child)
         /\ thread[t].child \notin graphPath(t) /\ thread[t].path \in Seq(Frame)
         /\ \E s, frame : /\ Goes(t, s) /\ s.at = "visit" /\ s.node = thread[t].child
                          /\ frame \in Frame /\ frame.node = thread[t].node
                          /\ s.path = Append(thread[t].path, frame)
  <1>1. /\ phase = "search" /\ UNCHANGED <<root, oldRoot, rootPos>> /\ thread[t].at = "edge" /\ OnTree(t) /\ heap' = heap
        /\ thread[t].child \notin graphPath(t)
    BY SearchFrame, Zenon DEF Descend, At, OnTree, OffTree, SearchStep, OnlyThread
  <1>2. /\ thread[t].node \in Nodes /\ thread[t].idx \in Nat /\ thread[t].countEdgeVisit \in BOOLEAN
        /\ thread[t].path \in Seq(Frame) /\ thread[t].child \in Nodes /\ InTable(thread[t].child)
    BY <1>1, NodeOf, ThreadFields, EdgeChild DEF Frame
  <1>3. PICK frame \in Frame :
          /\ frame = [node |-> thread[t].node, idx |-> thread[t].idx, count |-> thread[t].countEdgeVisit]
          /\ frame.node = thread[t].node
    <2>1. PICK n \in Nodes, i \in Nat, b \in BOOLEAN :
            n = thread[t].node /\ i = thread[t].idx /\ b = thread[t].countEdgeVisit
      BY <1>2
    <2>2. [node |-> n, idx |-> i, count |-> b] \in Frame
      BY DEF Frame
    <2> QED
      BY <2>1, <2>2
  <1>4. PICK k, c, q : k = thread[t].numPlayouts /\ c = thread[t].child /\ q = Append(thread[t].path, frame)
    OBVIOUS
  <1> DEFINE s == [NoPlayout EXCEPT !.at = "visit", !.numPlayouts = k, !.node = c, !.path = q]
  <1>5. s.at = "visit" /\ s.node = c /\ s.path = q
    BY DEF NoPlayout
  <1>6. thread' = [thread EXCEPT ![t] = s]
    BY <1>3, <1>4 DEF Descend, Become
  <1> HIDE DEF s
  <1>7. s \in Playouts
    <2>1. thread'[t] = s
      BY <1>6 DEF TypeOK
    <2> QED
      BY <2>1, PushTree DEF TypeOK
  <1> QED
    BY <1>1, <1>2, <1>3, <1>4, <1>5, <1>6, <1>7 DEF Goes

LEMMA ReturnDoes ==
  ASSUME TypeOK, TreeInv, NEW t \in Threads, ReturnTrue(t) \/ ReturnFalse(t)
  PROVE  /\ thread[t].at \in {"true", "false"} /\ OnTree(t) /\ thread[t].node \in Nodes /\ InTable(thread[t].node)
         /\ thread[t].path # <<>> /\ thread[t].path \in Seq(Frame)
         /\ Caller(t).node \in Live /\ Caller(t).idx \in DOMAIN heap[Caller(t).node].children
         /\ heap[Caller(t).node].children[Caller(t).idx].node = thread[t].node
         /\ \E s : /\ Goes(t, s) /\ s.node = Caller(t).node /\ s.path = Front(thread[t].path)
                   /\ \/ Lose(thread[t].node, -1) /\ s.at = "false"
                      \/ /\ OneEdge(Caller(t).node, Caller(t).idx) /\ s.at = "update" /\ s.child = thread[t].node
                         /\ thread[t].at = "true"
  <1>1. /\ phase = "search" /\ UNCHANGED <<root, oldRoot, rootPos>> /\ OnTree(t) /\ thread[t].path # <<>>
        /\ thread[t].at \in {"true", "false"} /\ (ReturnTrue(t) => thread[t].at = "true")
    BY SearchFrame DEF ReturnTrue, ReturnFalse, At, OnTree, OffTree, SearchStep
  <1>2. /\ Caller(t).node \in Nodes /\ Caller(t).node \in Live /\ InTable(thread[t].node) /\ thread[t].node \in Nodes
        /\ Caller(t).idx \in DOMAIN heap[Caller(t).node].children /\ thread[t].path \in Seq(Frame)
        /\ heap[Caller(t).node].children[Caller(t).idx].node = thread[t].node
    BY <1>1, CallerOf, NodeOf, ThreadFields DEF Frame
  <1>3. CASE ReturnTrue(t)
    <2>1. PICK x \in Playouts : /\ x = InCaller(t, "update") /\ x.at = "update"
                                /\ x.node = Caller(t).node /\ x.path = Front(thread[t].path)
      <3>1. "update" \in Places
        BY DEF Places
      <3> QED
        BY <1>1, <3>1, InCallerType
    <2>2. PICK s \in Playouts : /\ s = WithC(x, thread[t].node) /\ s.at = "update" /\ s.child = thread[t].node
                                /\ s.node = Caller(t).node /\ s.path = Front(thread[t].path)
      BY <1>2, <2>1, WithChildType
    <2>3. thread' = [thread EXCEPT ![t] = s]
      BY <1>3, <2>1, <2>2 DEF ReturnTrue, Become, WithC
    <2>4. OneEdge(Caller(t).node, Caller(t).idx)
      BY <1>2, <1>3 DEF ReturnTrue, AddEdgeVisit, OneEdge
    <2> QED
      BY <1>1, <1>2, <1>3, <2>2, <2>3, <2>4 DEF Goes
  <1>4. CASE ReturnFalse(t)
    <2>1. PICK s \in Playouts : /\ s = InCaller(t, "false") /\ s.at = "false"
                                /\ s.node = Caller(t).node /\ s.path = Front(thread[t].path)
      <3>1. "false" \in Places
        BY DEF Places
      <3> QED
        BY <1>1, <3>1, InCallerType
    <2>2. thread' = [thread EXCEPT ![t] = s]
      BY <1>4, <2>1 DEF ReturnFalse, Become
    <2>3. heap' = [heap EXCEPT ![thread[t].node].virtualLosses = @ - 1]
      BY <1>4 DEF ReturnFalse
    <2>4. heap[thread[t].node].virtualLosses - 1 = heap[thread[t].node].virtualLosses + (-1)
      BY <1>2, TableNode
    <2>5. Lose(thread[t].node, -1)
      BY <2>3, <2>4 DEF Lose
    <2> QED
      BY <1>1, <1>2, <2>1, <2>2, <2>5 DEF Goes
  <1> QED
    BY <1>3, <1>4

(* Only some numbers of a node are set. *)
Sets(n, nnOutput, state, visits) ==
  /\ n \in Live /\ \A m \in Nodes \ {n} : heap'[m] = heap[m]
  /\ LET x == heap[n]
         y == heap'[n]
     IN  /\ y.live = x.live /\ y.key = x.key /\ y.pos = x.pos /\ y.children = x.children
         /\ y.weight = x.weight /\ y.dirtyCounter = x.dirtyCounter /\ y.virtualLosses = x.virtualLosses
         /\ y.nnOutput = nnOutput /\ y.state = state /\ y.visits = visits

LEMMA SetsOne ==
  ASSUME TypeOK, NEW n \in Live
  PROVE  /\ heap' = heap => Sets(n, heap[n].nnOutput, heap[n].state, heap[n].visits)
         /\ \A v : heap' = [heap EXCEPT ![n].nnOutput = v] => Sets(n, v, heap[n].state, heap[n].visits)
         /\ \A v : heap' = [heap EXCEPT ![n].state = v] => Sets(n, heap[n].nnOutput, v, heap[n].visits)
         /\ \A v : heap' = [heap EXCEPT ![n].visits = v] => Sets(n, heap[n].nnOutput, heap[n].state, v)
  <1>1. heap[n] \in SearchNodes /\ n \in Nodes /\ heap \in Heaps
    BY LiveNode, SameHeap DEF Live
  <1>2. PICK x \in SearchNodes : x = heap[n]
    BY <1>1
  <1>3. heap' = heap => Sets(n, heap[n].nnOutput, heap[n].state, heap[n].visits)
    BY DEF Sets
  <1>4. ASSUME NEW v, heap' = [heap EXCEPT ![n].nnOutput = v] PROVE Sets(n, v, heap[n].state, heap[n].visits)
    <2>1. heap'[n] = [x EXCEPT !.nnOutput = v] /\ \A m \in Nodes \ {n} : heap'[m] = heap[m]
      BY <1>1, <1>2, <1>4 DEF Heaps
    <2> QED
      BY <1>2, <2>1 DEF Sets, SearchNodes
  <1>5. ASSUME NEW v, heap' = [heap EXCEPT ![n].state = v] PROVE Sets(n, heap[n].nnOutput, v, heap[n].visits)
    <2>1. heap'[n] = [x EXCEPT !.state = v] /\ \A m \in Nodes \ {n} : heap'[m] = heap[m]
      BY <1>1, <1>2, <1>5 DEF Heaps
    <2> QED
      BY <1>2, <2>1 DEF Sets, SearchNodes
  <1>6. ASSUME NEW v, heap' = [heap EXCEPT ![n].visits = v] PROVE Sets(n, heap[n].nnOutput, heap[n].state, v)
    <2>1. heap'[n] = [x EXCEPT !.visits = v] /\ \A m \in Nodes \ {n} : heap'[m] = heap[m]
      BY <1>1, <1>2, <1>6 DEF Heaps
    <2> QED
      BY <1>2, <2>1 DEF Sets, SearchNodes
  <1> QED
    BY <1>3, <1>4, <1>5, <1>6

-----------------------------------------------------------------------------
(* The books: what a node's statistics are while threads are at work on it *)

Edges(n) == EdgesIn(heap[n].children)
LeafNode(n) == heap[n].key # RootKey /\ heap[n].pos \in Leaves
Evaluators == {"addValue", "claim", "initialize"}
Staked == Evaluators \cup Updating \cup {"update"}
EvaluatorsOf(n) == {t \in Threads : thread[t].at \in Evaluators /\ thread[t].node = n}
UpdatesOf(n) == {t \in Threads : thread[t].at = "update" /\ thread[t].node = n}
UpdatersOf(n) == {t \in Threads : thread[t].at \in Updating /\ thread[t].node = n}

(* A node is evaluated once, by one thread, and a leaf never.              *)
Evaluated(n) ==
  /\ LeafNode(n) => ~heap[n].nnOutput
  /\ ~heap[n].nnOutput => heap[n].state = UNEVALUATED /\ (LeafNode(n) \/ heap[n].visits = 0)
  /\ heap[n].nnOutput => \/ heap[n].state >= EXPANDED0 /\ heap[n].visits > 0
                         \/ EvaluatorsOf(n) # {}
  /\ \A t \in EvaluatorsOf(n) :
       /\ heap[n].nnOutput
       /\ heap[n].state = (IF thread[t].at = "initialize" THEN EVALUATING ELSE UNEVALUATED)
       /\ heap[n].visits = (IF thread[t].at = "addValue" THEN 0 ELSE 1)
       /\ \A u \in EvaluatorsOf(n) : u = t

(* One thread at a time recomputes a node, for updates that the counter    *)
(* counts.                                                                 *)
Updated(n) ==
  /\ UpdatesOf(n) \cup UpdatersOf(n) # {} => heap[n].state >= EXPANDED0
  /\ UpdatersOf(n) = {} => heap[n].dirtyCounter = 0
  /\ \A t \in UpdatersOf(n) :
       /\ thread[t].completed \in 1 .. heap[n].dirtyCounter
       /\ \A u \in UpdatersOf(n) : u = t

(* Once no update is announced or came meanwhile, the weight is up to date.*)
Weighed(n) ==
  UpdatesOf(n) = {} =>
    /\ UpdatersOf(n) = {} => heap[n].weight = Edges(n)
    /\ \A t \in UpdatersOf(n) : thread[t].completed = heap[n].dirtyCounter =>
         /\ thread[t].at = "write" => thread[t].edges = Edges(n)
         /\ thread[t].at = "undirty" => heap[n].weight = Edges(n)

(* The visits of a node that may have children: its own, and those of its  *)
(* edges, once the updates on their way are counted.                       *)
Counted(n) == n # oldRoot /\ heap[n].state >= EXPANDED0 /\ (Children(n) # <<>> \/ MovesOf(n) # {})
Seen(n) == heap[n].visits + Cardinality(UpdatesOf(n)) + heap[n].dirtyCounter
Added(n) ==
  Counted(n) =>
    /\ (\A t \in UpdatersOf(n) : thread[t].at # "undirty") => Seen(n) = 1 + Edges(n)
    /\ \A t \in UpdatersOf(n) : thread[t].at = "undirty" => Seen(n) = 1 + Edges(n) + thread[t].completed

Balanced(n) == Evaluated(n) /\ Updated(n) /\ Weighed(n) /\ Added(n)
(* An edge is visited only to a child that is.                             *)
Visited(n) == \A i \in Slots(n) : Children(n)[i].edgeVisits > 0 => heap[Children(n)[i].node].visits > 0
Expanding(t) ==
  /\ OnTree(t) /\ thread[t].at \notin {"visit", "true", "false"} => ~LeafNode(thread[t].node)
  /\ thread[t].at = "true" => heap[thread[t].node].visits > 0
BookInv ==
  /\ \A n \in Live : Balanced(n) /\ Visited(n)
  /\ \A t \in Threads : Expanding(t)

(* One node's account is another's, before the step. *)
SameBook(m, n) ==
  /\ heap'[n].nnOutput = heap[m].nnOutput /\ heap'[n].visits = heap[m].visits
  /\ heap'[n].weight = heap[m].weight /\ heap'[n].dirtyCounter = heap[m].dirtyCounter
  /\ \/ heap'[n].state = heap[m].state
     \/ heap[m].state >= EXPANDED0 /\ heap'[n].state >= EXPANDED0
  /\ LeafNode(n)' = LeafNode(m) /\ Edges(n)' = Edges(m) /\ (Counted(n)' => Counted(m))
SameStakes(m, n) ==
  /\ EvaluatorsOf(n)' = EvaluatorsOf(m) /\ UpdatesOf(n)' = UpdatesOf(m) /\ UpdatersOf(n)' = UpdatersOf(m)
  /\ \A t \in EvaluatorsOf(m) \cup UpdatersOf(m) : thread'[t] = thread[t]

LEMMA BalanceKeeps ==
  ASSUME NEW m, NEW n, SameBook(m, n), SameStakes(m, n), Balanced(m)
  PROVE  Balanced(n)'
  <1>1. Evaluated(n)'
    BY DEF SameBook, SameStakes, Balanced, Evaluated, UNEVALUATED, EVALUATING, EXPANDED0
  <1>2. Updated(n)'
    BY DEF SameBook, SameStakes, Balanced, Updated
  <1>3. Weighed(n)'
    BY DEF SameBook, SameStakes, Balanced, Weighed
  <1>4. Added(n)'
    <2>1. Seen(n)' = Seen(m)
      BY DEF SameBook, SameStakes, Seen
    <2> QED
      BY <2>1 DEF SameBook, SameStakes, Balanced, Added
  <1> QED
    BY <1>1, <1>2, <1>3, <1>4 DEF Balanced

(* A step of one thread changes the stakes of the nodes it works on only.  *)
LEMMA StakesKeep ==
  ASSUME TypeOK, NEW t \in Threads, NEW s, thread' = [thread EXCEPT ![t] = s], NEW n,
         thread[t].at \in Staked => thread[t].node # n, s.at \in Staked => s.node # n
  PROVE  SameStakes(n, n)
  <1>1. thread'[t] = s /\ \A u \in Threads \ {t} : thread'[u] = thread[u]
    BY DEF TypeOK
  <1>2. EvaluatorsOf(n)' = EvaluatorsOf(n)
    BY <1>1 DEF EvaluatorsOf, Staked
  <1>3. UpdatesOf(n)' = UpdatesOf(n)
    BY <1>1 DEF UpdatesOf, Staked
  <1>4. UpdatersOf(n)' = UpdatersOf(n)
    BY <1>1 DEF UpdatersOf, Staked
  <1>5. ASSUME NEW u \in EvaluatorsOf(n) \cup UpdatersOf(n) PROVE thread'[u] = thread[u]
    <2>1. u # t
      BY DEF EvaluatorsOf, UpdatersOf, Staked
    <2> QED
      BY <1>1, <2>1 DEF EvaluatorsOf, UpdatersOf
  <1> QED
    BY <1>2, <1>3, <1>4, <1>5 DEF SameStakes

(* What others change of a node while one thread works on its own.         *)
SameButLosses(x, y) ==
  /\ y.live = x.live /\ y.key = x.key /\ y.pos = x.pos /\ y.nnOutput = x.nnOutput /\ y.state = x.state
  /\ y.children = x.children /\ y.visits = x.visits /\ y.weight = x.weight /\ y.dirtyCounter = x.dirtyCounter

LEMMA BookKeeps ==
  ASSUME NEW n, SameButLosses(heap[n], heap'[n]), UNCHANGED <<root, oldRoot, rootPos>>
  PROVE  SameBook(n, n)
  BY DEF SameButLosses, SameBook, LeafNode, Edges, Counted, Children, MovesOf

LEMMA VisitedKeeps ==
  ASSUME TypeOK, TreeInv, NEW n \in Live, Visited(n), heap'[n].children = heap[n].children,
         \A m \in Live : heap[m].visits > 0 => heap'[m].visits > 0
  PROVE  Visited(n)'
  <1>1. ASSUME NEW i \in Slots(n) PROVE Children(n)[i].node \in Live
    BY <1>1, ChildSlot DEF InTable, Children
  <1>2. ASSUME NEW i \in Slots(n)', Children(n)'[i].edgeVisits > 0 PROVE heap'[Children(n)'[i].node].visits > 0
    <2>1. i \in Slots(n) /\ Children(n)'[i] = Children(n)[i]
      BY DEF Slots, Children
    <2>2. heap[Children(n)[i].node].visits > 0
      BY <1>2, <2>1 DEF Visited
    <2> QED
      BY <1>1, <2>1, <2>2
  <1> QED
    BY <1>2 DEF Visited

(* A step of one thread that works on node n, which it may have made.      *)
LEMMA OneAccount ==
  ASSUME TypeOK, TreeInv, BookInv, NEW t \in Threads, NEW s, thread' = [thread EXCEPT ![t] = s],
         UNCHANGED <<root, oldRoot, rootPos>>, NEW n, n \in Live', Live \subseteq Live', Live' \subseteq Live \cup {n},
         \A m \in Live \ {n} : SameButLosses(heap[m], heap'[m]),
         n \in Live => /\ heap[n].visits > 0 => heap'[n].visits > 0
                       /\ heap'[n].key = heap[n].key /\ heap'[n].pos = heap[n].pos,
         thread[t].at \in Staked => thread[t].node = n, s.at \in Staked => s.node = n,
         Balanced(n)', Visited(n)', Expanding(t)'
  PROVE  BookInv'
  <1>1. thread'[t] = s /\ \A u \in Threads \ {t} : thread'[u] = thread[u]
    BY DEF TypeOK
  <1>2. \A m \in Live : heap[m].visits > 0 => heap'[m].visits > 0
    BY DEF SameButLosses
  <1>3. ASSUME NEW m \in Live \ {n} PROVE Balanced(m)' /\ Visited(m)'
    <2>1. SameBook(m, m)
      BY BookKeeps
    <2>2. SameStakes(m, m)
      <3>1. m # n
        OBVIOUS
      <3>2. (thread[t].at \in Staked => thread[t].node # m) /\ (s.at \in Staked => s.node # m)
        BY <3>1
      <3> QED
        BY ONLY <3>2, TypeOK, t \in Threads, thread' = [thread EXCEPT ![t] = s], StakesKeep
    <2>3. Balanced(m) /\ Visited(m)
      BY DEF BookInv
    <2>4. Balanced(m)'
      BY <2>1, <2>2, <2>3, BalanceKeeps
    <2>5. heap'[m].children = heap[m].children
      BY DEF SameButLosses
    <2>6. Visited(m)'
      BY <1>2, <2>3, <2>5, VisitedKeeps
    <2> QED
      BY <2>4, <2>6
  <1>4. ASSUME NEW u \in Threads PROVE Expanding(u)'
    <2>1. CASE u = t
      BY <2>1
    <2>2. CASE u # t /\ OnTree(u)
      <3>1. thread[u].node \in Live
        BY <2>2, NodeOf DEF Live
      <3>2. /\ heap'[thread[u].node].key = heap[thread[u].node].key /\ heap'[thread[u].node].pos = heap[thread[u].node].pos
            /\ heap[thread[u].node].visits > 0 => heap'[thread[u].node].visits > 0
        BY <3>1 DEF SameButLosses
      <3>3. thread'[u] = thread[u] /\ Expanding(u)
        BY <1>1, <2>2 DEF BookInv
      <3> QED
        BY <3>2, <3>3 DEF Expanding, OnTree, LeafNode
    <2>3. CASE u # t /\ ~OnTree(u)
      <3>1. thread'[u] = thread[u]
        BY <1>1, <2>3
      <3> QED
        BY <2>3, <3>1 DEF Expanding, OnTree, OffTree
    <2> QED
      BY <2>1, <2>2, <2>3
  <1> QED
    BY <1>3, <1>4 DEF BookInv

OnlyLosses == \A m \in Nodes : SameButLosses(heap[m], heap'[m])

LEMMA LossesOnly ==
  ASSUME TypeOK, heap' = heap \/ \E c \in Live, v \in Int : heap' = [heap EXCEPT ![c].virtualLosses = v]
  PROVE  OnlyLosses /\ Live' = Live
  <1>1. CASE heap' = heap
    BY <1>1 DEF OnlyLosses, SameButLosses, Live
  <1>2. CASE \E c \in Live, v \in Int : heap' = [heap EXCEPT ![c].virtualLosses = v]
    <2>1. PICK c \in Live, v \in Int : heap' = [heap EXCEPT ![c].virtualLosses = v]
      BY <1>2
    <2>2. heap[c] \in SearchNodes /\ c \in Nodes /\ heap \in Heaps
      BY LiveNode, SameHeap DEF Live
    <2>3. SameButLosses(heap[c], [heap[c] EXCEPT !.virtualLosses = v])
      BY <2>2 DEF SearchNodes, SameButLosses
    <2>4. heap'[c] = [heap[c] EXCEPT !.virtualLosses = v] /\ \A m \in Nodes \ {c} : heap'[m] = heap[m]
      BY <2>1, <2>2 DEF Heaps
    <2>5. OnlyLosses
      BY <2>3, <2>4 DEF OnlyLosses, SameButLosses
    <2> QED
      BY <2>5 DEF OnlyLosses, SameButLosses, Live
  <1> QED
    BY <1>1, <1>2

(* A step of a thread that changes no account. *)
LEMMA QuietStep ==
  ASSUME TypeOK, TreeInv, BookInv, phase = "search", NEW t \in Threads, NEW s, thread' = [thread EXCEPT ![t] = s],
         UNCHANGED <<root, oldRoot, rootPos>>, OnlyLosses, thread[t].at \notin Staked,
         \/ s.at \in OffTree \cup {"visit", "false"}
         \/ s.at \notin Staked \cup {"true"} /\ s.node = thread[t].node /\ OnTree(t) /\ ~LeafNode(thread[t].node)
  PROVE  BookInv'
  <1>1. root \in Live /\ Live' = Live
    BY RootThere DEF OnlyLosses, SameButLosses, Live
  <1>2. s.at \notin Staked
    BY DEF Staked, Evaluators, Updating, OffTree
  <1>3. SameButLosses(heap[root], heap'[root])
    BY <1>1 DEF OnlyLosses, Live
  <1>4. Balanced(root) /\ Visited(root)
    BY <1>1 DEF BookInv
  <1>5. Balanced(root)'
    <2>1. SameBook(root, root)
      BY <1>3, BookKeeps
    <2>2. SameStakes(root, root)
      BY <1>2, StakesKeep
    <2> QED
      BY <1>4, <2>1, <2>2, BalanceKeeps
  <1>6. Visited(root)'
    <2>1. heap'[root].children = heap[root].children /\ \A m \in Live : heap[m].visits > 0 => heap'[m].visits > 0
      BY <1>1, <1>3 DEF OnlyLosses, SameButLosses, Live
    <2> QED
      BY <1>1, <1>4, <2>1, VisitedKeeps
  <1>7. Expanding(t)'
    <2>1. thread'[t] = s
      BY DEF TypeOK
    <2>2. CASE s.at \in OffTree \cup {"visit", "false"}
      BY <2>1, <2>2 DEF Expanding, OnTree, OffTree
    <2>3. CASE s.at \notin Staked \cup {"true"} /\ s.node = thread[t].node /\ OnTree(t) /\ ~LeafNode(thread[t].node)
      <3>1. thread[t].node \in Nodes
        BY <2>3, NodeOf
      <3>2. ~LeafNode(thread[t].node)'
        BY <2>1, <2>3, <3>1 DEF LeafNode, OnlyLosses, SameButLosses
      <3> QED
        BY <2>1, <2>3, <3>2 DEF Expanding
    <2> QED
      BY <2>2, <2>3
  <1>8. \A m \in Live \ {root} : SameButLosses(heap[m], heap'[m])
    BY DEF OnlyLosses, Live
  <1>9. /\ heap[root].visits > 0 => heap'[root].visits > 0
        /\ heap'[root].key = heap[root].key /\ heap'[root].pos = heap[root].pos
    BY <1>3 DEF SameButLosses
  <1> QED
    BY <1>1, <1>2, <1>5, <1>6, <1>7, <1>8, <1>9, OneAccount

LEMMA NotLeaf ==
  ASSUME TypeOK, TreeInv, BookInv, NEW t \in Threads, OnTree(t), thread[t].at \notin {"visit", "true", "false"}
  PROVE  ~LeafNode(thread[t].node)
  BY DEF BookInv, Expanding

(* A thread that leaves the tree, or is not in it. *)
LEMMA LoopBook ==
  ASSUME TypeOK, TreeInv, BookInv, NEW t \in Threads,
         Begin(t) \/ StopSearching(t) \/ FinishPlayout(t) \/ runSinglePlayout(t)
  PROVE  BookInv'
  <1>1. /\ phase = "search" /\ UNCHANGED <<root, oldRoot, rootPos>> /\ heap' = heap /\ thread[t].at \notin Staked
    BY DEF Begin, StopSearching, FinishPlayout, runSinglePlayout, At, OnlyThread, userVars,
           Staked, Evaluators, Updating
  <1>2. OnlyLosses
    BY <1>1, LossesOnly
  <1>3. PICK s : thread' = [thread EXCEPT ![t] = s] /\ s.at \in {"top", "done", "visit"}
    <2>1. PICK x \in Playouts : x = thread[t]
      BY ThreadRecord
    <2>2. CASE Begin(t)
      <3> DEFINE s == [x EXCEPT !.at = "top", !.numPlayouts = playouts]
      <3>1. s.at = "top"
        BY DEF Playouts
      <3> QED
        BY <2>1, <2>2, <3>1 DEF Begin, Become
    <2>3. CASE StopSearching(t)
      <3> DEFINE s == [x EXCEPT !.at = "done"]
      <3>1. s.at = "done"
        BY DEF Playouts
      <3> QED
        BY <2>1, <2>3, <3>1 DEF StopSearching, Become
    <2>4. CASE FinishPlayout(t)
      <3>1. PICK k : thread' = [thread EXCEPT ![t] = [NoPlayout EXCEPT !.at = "top", !.numPlayouts = k]]
        BY <2>4, Zenon DEF FinishPlayout, Become
      <3>2. [NoPlayout EXCEPT !.at = "top", !.numPlayouts = k].at = "top"
        BY DEF NoPlayout
      <3> QED
        BY <3>1, <3>2
    <2>5. CASE runSinglePlayout(t)
      <3> DEFINE s == [x EXCEPT !.at = "visit", !.node = root]
      <3>1. s.at = "visit"
        BY DEF Playouts
      <3> QED
        BY <2>1, <2>5, <3>1 DEF runSinglePlayout, Become
    <2> QED
      BY <2>2, <2>3, <2>4, <2>5
  <1>4. s.at \in OffTree \cup {"visit", "false"}
    BY <1>3 DEF OffTree
  <1> QED
    BY <1>1, <1>2, <1>3, <1>4, QuietStep

(* A thread that gives up its playout where it is, or where it was called. *)
LEMMA GivesUpBook ==
  ASSUME TypeOK, TreeInv, BookInv, phase = "search", NEW t \in Threads, NEW s, s.at = "false",
         thread' = [thread EXCEPT ![t] = s], UNCHANGED <<root, oldRoot, rootPos>>, OnlyLosses, thread[t].at \notin Staked
  PROVE  BookInv'
  BY QuietStep

LEMMA DescendBook ==
  ASSUME TypeOK, TreeInv, BookInv, NEW t \in Threads, playoutDescend(t)
  PROVE  BookInv'
  <1>1. /\ phase = "search" /\ UNCHANGED <<root, oldRoot, rootPos>> /\ heap' = heap /\ thread[t].at \notin Staked
        /\ OnTree(t) /\ OnlyThread
    BY DEF playoutDescend, At, OnlyThread, userVars, Staked, Evaluators, Updating, OnTree, OffTree
  <1>2. OnlyLosses
    BY <1>1, LossesOnly
  <1>3. ~LeafNode(thread[t].node)
    <2>1. heap[root].key = RootKey
      BY <1>1, RootThere
    <2> QED
      BY <2>1 DEF playoutDescend, LeafNode, Here
  <1>4. CASE Here(t).state = EVALUATING
    <2>1. thread' = [thread EXCEPT ![t] = GivesUp(t)]
      BY <1>4 DEF playoutDescend, Become, EVALUATING, UNEVALUATED
    <2> QED
      BY <1>1, <1>2, <2>1, GivesUpType, GivesUpBook
  <1>5. CASE Here(t).state # EVALUATING
    <2>1. PICK s : thread' = [thread EXCEPT ![t] = s] /\ s.at \in {"evaluate", "select"} /\ s.node = thread[t].node
      <3>1. CASE Here(t).state = UNEVALUATED
        <4>1. PICK s \in Playouts : /\ s = [thread[t] EXCEPT !.at = "evaluate"] /\ s.at = "evaluate"
                                    /\ s.node = thread[t].node
          <5>1. thread[t] \in Playouts /\ "evaluate" \in Places
            BY ThreadRecord DEF Places
          <5> QED
            BY <5>1, MovesTo
        <4>2. thread' = [thread EXCEPT ![t] = s]
          BY <3>1, <4>1 DEF playoutDescend, Become, UNEVALUATED, EVALUATING
        <4> QED
          BY <4>1, <4>2
      <3>2. CASE Here(t).state # UNEVALUATED
        <4>1. PICK r : thread' = [thread EXCEPT ![t] = [AtNode(t, "select") EXCEPT !.state = r]]
          BY <1>5, <3>2 DEF playoutDescend, Become
        <4>2. PICK x \in Playouts : x = AtNode(t, "select") /\ x.at = "select" /\ x.node = thread[t].node
          <5>1. "select" \in Places
            BY DEF Places
          <5> QED
            BY <5>1, AtNodeType
        <4>3. [x EXCEPT !.state = r].at = x.at /\ [x EXCEPT !.state = r].node = x.node
          BY DEF Playouts
        <4> QED
          BY <4>1, <4>2, <4>3
      <3> QED
        BY <3>1, <3>2
    <2>2. s.at \notin Staked \cup {"true"}
      BY <2>1 DEF Staked, Evaluators, Updating
    <2> QED
      BY <1>1, <1>2, <1>3, <2>1, <2>2, QuietStep
  <1> QED
    BY <1>4, <1>5

(* What a step makes of the stakes in a node. *)
Joins(stakes, t, is) == (stakes \ {t}) \cup (IF is THEN {t} ELSE {})
Moved(t, s, n) ==
  /\ EvaluatorsOf(n)' = Joins(EvaluatorsOf(n), t, s.at \in Evaluators /\ s.node = n)
  /\ UpdatesOf(n)' = Joins(UpdatesOf(n), t, s.at = "update" /\ s.node = n)
  /\ UpdatersOf(n)' = Joins(UpdatersOf(n), t, s.at \in Updating /\ s.node = n)
  /\ thread'[t] = s /\ \A u \in Threads \ {t} : thread'[u] = thread[u]

LEMMA StakesMove ==
  ASSUME TypeOK, NEW t \in Threads, NEW s, thread' = [thread EXCEPT ![t] = s], NEW n
  PROVE  Moved(t, s, n)
  <1>1. thread'[t] = s /\ \A u \in Threads \ {t} : thread'[u] = thread[u]
    BY DEF TypeOK
  <1>2. EvaluatorsOf(n)' = Joins(EvaluatorsOf(n), t, s.at \in Evaluators /\ s.node = n)
    BY <1>1 DEF EvaluatorsOf, Joins
  <1>3. UpdatesOf(n)' = Joins(UpdatesOf(n), t, s.at = "update" /\ s.node = n)
    BY <1>1 DEF UpdatesOf, Joins
  <1>4. UpdatersOf(n)' = Joins(UpdatersOf(n), t, s.at \in Updating /\ s.node = n)
    BY <1>1 DEF UpdatersOf, Joins
  <1> QED
    BY <1>1, <1>2, <1>3, <1>4 DEF Moved

LEMMA NoEdgesIn == EdgesIn(<<>>) = 0
  <1>1. EdgesIn(<<>>) = Total([i \in DOMAIN << >> |-> <<>>[i].edgeVisits], DOMAIN <<>>)
    BY DEF EdgesIn, Total, MapThenSumSet, MapThenFoldSet
  <1>2. DOMAIN <<>> = {} /\ IsFiniteSet({})
    BY FS_EmptySet
  <1> QED
    BY <1>1, <1>2, TotalStep

LEMMA NoEdges ==
  ASSUME TypeOK, TreeInv, NEW n \in Live, heap[n].state < EXPANDED0
  PROVE  Children(n) = <<>> /\ Edges(n) = 0
  <1>1. /\ heap[n] \in SearchNodes /\ n \in Nodes
    BY LiveNode, SameHeap DEF Live
  <1>2. heap[n].children \in Seq(Slot) /\ Len(heap[n].children) <= 0
    BY <1>1, NodeFields DEF TreeInv, ChildrenFollowMoves, getChildrenCapacity, Slot
  <1>3. heap[n].children = <<>>
    BY <1>2
  <1> QED
    BY <1>3, NoEdgesIn DEF Children, Edges

(* A step that sets numbers of the thread's node while it is evaluated. *)
LEMMA OwnNode ==
  ASSUME TypeOK, TreeInv, BookInv, NEW t \in Threads, NEW s, Stays(t, s), NEW n, n = thread[t].node,
         NEW o, NEW r, NEW v \in Nat, Sets(n, o, r, v), heap[n].visits > 0 => v > 0,
         thread[t].at \notin Updating \cup {"update"}, s.at \notin Updating \cup {"update"},
         heap[n].state >= EXPANDED0 => r >= EXPANDED0,
         Counted(n)' => \/ heap[n].state >= EXPANDED0 /\ v = heap[n].visits
                        \/ ~(heap[n].state >= EXPANDED0) /\ v = 1,
         Evaluated(n)', Expanding(t)'
  PROVE  BookInv'
  <1>1. /\ thread' = [thread EXCEPT ![t] = s] /\ UNCHANGED <<root, oldRoot, rootPos>>
        /\ n \in Live /\ n \in Nodes /\ s.node = n
    BY DEF Stays, Goes, Sets, Live
  <1>2. /\ UpdatesOf(n)' = UpdatesOf(n) /\ UpdatersOf(n)' = UpdatersOf(n)
        /\ \A u \in UpdatersOf(n) : thread'[u] = thread[u]
    <2>1. t \notin UpdatesOf(n) /\ t \notin UpdatersOf(n)
      BY DEF UpdatesOf, UpdatersOf
    <2>2. Moved(t, s, n)
      BY <1>1, StakesMove
    <2> QED
      BY <2>1, <2>2 DEF Moved, Joins, UpdatersOf
  <1>3. /\ heap'[n].dirtyCounter = heap[n].dirtyCounter /\ heap'[n].weight = heap[n].weight
        /\ heap'[n].children = heap[n].children /\ heap'[n].state = r /\ heap'[n].visits = v
        /\ heap'[n].key = heap[n].key /\ heap'[n].pos = heap[n].pos /\ heap'[n].live = heap[n].live
    BY DEF Sets
  <1>4. Edges(n)' = Edges(n)
    BY <1>3 DEF Edges
  <1>5. Updated(n) /\ Weighed(n) /\ Added(n) /\ Visited(n)
    BY <1>1 DEF BookInv, Balanced
  <1>6. Updated(n)'
    BY <1>2, <1>3, <1>5 DEF Updated
  <1>7. Weighed(n)'
    BY <1>2, <1>3, <1>4, <1>5 DEF Weighed
  <1>8. Added(n)'
    <2>1. CASE heap[n].state >= EXPANDED0 /\ v = heap[n].visits
      <3>1. Counted(n)' => Counted(n)
        BY <1>1, <1>3, <2>1 DEF Counted, Children, MovesOf
      <3>2. Seen(n)' = Seen(n)
        BY <1>2, <1>3, <2>1 DEF Seen
      <3> QED
        BY <1>2, <1>4, <1>5, <3>1, <3>2, SMTT(30) DEF Added
    <2>2. CASE ~(heap[n].state >= EXPANDED0) /\ v = 1
      <3>1. UpdatesOf(n) = {} /\ UpdatersOf(n) = {} /\ heap[n].dirtyCounter = 0
        BY <1>5, <2>2 DEF Updated
      <3>2. Edges(n) = 0
        <4>1. heap[n].state \in Int
          BY <1>1, LiveNode, SameHeap, NodeFields DEF Live
        <4>2. heap[n].state < EXPANDED0
          BY <2>2, <4>1 DEF EXPANDED0
        <4> QED
          BY <1>1, <4>2, NoEdges
      <3>3. Cardinality({}) = 0
        BY FS_EmptySet
      <3>4. Seen(n)' = 1
        BY <1>2, <1>3, <2>2, <3>1, <3>3 DEF Seen
      <3> QED
        BY <1>2, <1>4, <3>1, <3>2, <3>4 DEF Added
    <2> QED
      BY <2>1, <2>2 DEF Added
  <1>9. Live' = Live /\ \A m \in Live \ {n} : heap'[m] = heap[m]
    BY <1>1, <1>3 DEF Sets, Live
  <1>10. Visited(n)'
    <2>1. \A m \in Live : heap[m].visits > 0 => heap'[m].visits > 0
      BY <1>3, <1>9
    <2> QED
      BY <1>1, <1>3, <1>5, <2>1, VisitedKeeps
  <1>11. Balanced(n)'
    BY <1>6, <1>7, <1>8 DEF Balanced
  <1>12. \A m \in Live \ {n} : SameButLosses(heap[m], heap'[m])
    BY <1>9 DEF SameButLosses
  <1>13. n \in Live => /\ heap[n].visits > 0 => heap'[n].visits > 0
                       /\ heap'[n].key = heap[n].key /\ heap'[n].pos = heap[n].pos
    BY <1>3
  <1>14. /\ thread[t].at \in Staked => thread[t].node = n
         /\ s.at \in Staked => s.node = n
    BY <1>1
  <1>15. n \in Live' /\ Live \subseteq Live' /\ Live' \subseteq Live \cup {n}
    BY <1>1, <1>9
  <1> QED
    BY <1>1, <1>10, <1>11, <1>12, <1>13, <1>14, <1>15, OneAccount

(* What a step does that gives a node a value, or expands it.              *)
Evaluates(t, s, o, r, v) ==
  \/ /\ thread[t].at = "visit" /\ thread[t].node # root /\ Here(t).pos \in Leaves /\ s.at = "true"
     /\ o = Here(t).nnOutput /\ r = Here(t).state /\ v = Here(t).visits + 1
  \/ /\ thread[t].at = "evaluate" /\ Here(t).nnOutput /\ s.at = "false"
     /\ o = Here(t).nnOutput /\ r = Here(t).state /\ v = Here(t).visits
  \/ /\ thread[t].at = "evaluate" /\ ~Here(t).nnOutput /\ s.at = "addValue"
     /\ o = TRUE /\ r = Here(t).state /\ v = Here(t).visits
  \/ /\ thread[t].at = "addValue" /\ s.at = "claim"
     /\ o = Here(t).nnOutput /\ r = Here(t).state /\ v = Here(t).visits + 1
  \/ /\ thread[t].at = "claim" /\ Here(t).state = UNEVALUATED /\ s.at = "initialize"
     /\ o = Here(t).nnOutput /\ r = EVALUATING /\ v = Here(t).visits
  \/ /\ thread[t].at = "claim" /\ Here(t).state # UNEVALUATED /\ s.at = "false"
     /\ o = Here(t).nnOutput /\ r = Here(t).state /\ v = Here(t).visits
  \/ /\ thread[t].at = "initialize" /\ s.at = "true"
     /\ o = Here(t).nnOutput /\ r = EXPANDED0 /\ v = Here(t).visits
  \/ /\ thread[t].at = "select" /\ Found(t) = {} /\ NewMoves(t) = {} /\ s.at = "true"
     /\ o = Here(t).nnOutput /\ r = Here(t).state /\ v = Here(t).visits + 1
EvaluateStep(t) ==
  \/ AddLeaf(t) \/ storeNNOutputIfNull(t) \/ addCurrentNNOutputAsLeafValue(t) \/ claimEvaluating(t)
  \/ initializeChildren(t) \/ SelectNothing(t)

LEMMA EvaluateDoes ==
  ASSUME TypeOK, TreeInv, NEW t \in Threads, EvaluateStep(t)
  PROVE  /\ thread[t].at \in {"visit", "evaluate", "addValue", "claim", "initialize", "select"}
         /\ \E s, o, r, v : Stays(t, s) /\ Sets(thread[t].node, o, r, v) /\ Evaluates(t, s, o, r, v)
  <1> DEFINE n == thread[t].node
  <1>1. /\ phase = "search" /\ UNCHANGED <<root, oldRoot, rootPos>> /\ OnTree(t)
        /\ thread[t].at \in {"visit", "evaluate", "addValue", "claim", "initialize", "select"}
    <2>1. SearchStep(t)
      BY DEF EvaluateStep, SearchStep
    <2> QED
      BY <2>1, SearchFrame DEF EvaluateStep, AddLeaf, storeNNOutputIfNull, addCurrentNNOutputAsLeafValue, claimEvaluating,
                 initializeChildren, SelectNothing, At, OnTree, OffTree
  <1>2. n \in Live /\ Here(t) = heap[n]
    BY <1>1, NodeOf DEF Live, Here
  <1> HIDE DEF n
  <1>3. /\ heap' = heap => Sets(n, heap[n].nnOutput, heap[n].state, heap[n].visits)
        /\ \A v : heap' = [heap EXCEPT ![n].nnOutput = v] => Sets(n, v, heap[n].state, heap[n].visits)
        /\ \A v : heap' = [heap EXCEPT ![n].state = v] => Sets(n, heap[n].nnOutput, v, heap[n].visits)
        /\ \A v : heap' = [heap EXCEPT ![n].visits = v] => Sets(n, heap[n].nnOutput, heap[n].state, v)
    BY <1>2, SetsOne
  <1>4. ASSUME heap' = [heap EXCEPT ![n].visits = @ + 1] PROVE Sets(n, heap[n].nnOutput, heap[n].state, heap[n].visits + 1)
    <2>1. heap' = [heap EXCEPT ![n].visits = heap[n].visits + 1]
      BY <1>4
    <2> QED
      BY <1>3, <2>1
  <1>5. {"addValue", "claim", "initialize"} \subseteq Places
    BY DEF Places
  <1>6. CASE AddLeaf(t)
    <2>1. /\ Become(t, Returns(t)) /\ heap' = [heap EXCEPT ![n].visits = @ + 1]
          /\ thread[t].at = "visit" /\ thread[t].node # root /\ Here(t).pos \in Leaves
      BY <1>6 DEF AddLeaf, n, At
    <2>2. PICK s : s = Returns(t) /\ Stays(t, s) /\ s.at = "true"
      BY <1>1, <2>1, StartsOver
    <2>3. Evaluates(t, s, heap[n].nnOutput, heap[n].state, heap[n].visits + 1)
      BY <1>2, <2>1, <2>2 DEF Evaluates
    <2> QED
      BY <1>1, <1>4, <2>1, <2>2, <2>3 DEF n
  <1>7. CASE storeNNOutputIfNull(t)
    <2>1. CASE Here(t).nnOutput
      <3>1. /\ Become(t, GivesUp(t)) /\ heap' = heap /\ thread[t].at = "evaluate"
        BY <1>7, <2>1 DEF storeNNOutputIfNull, At
      <3>2. PICK s : s = GivesUp(t) /\ Stays(t, s) /\ s.at = "false"
        BY <1>1, <3>1, StartsOver
      <3>3. Evaluates(t, s, heap[n].nnOutput, heap[n].state, heap[n].visits)
        BY <1>2, <2>1, <3>1, <3>2 DEF Evaluates
      <3> QED
        BY <1>1, <1>3, <3>1, <3>2, <3>3 DEF n
    <2>2. CASE ~Here(t).nnOutput
      <3>1. /\ Become(t, [thread[t] EXCEPT !.at = "addValue"]) /\ heap' = [heap EXCEPT ![n].nnOutput = TRUE]
            /\ thread[t].at = "evaluate"
        BY <1>7, <2>2 DEF storeNNOutputIfNull, At, n
      <3>2. PICK s : Stays(t, s) /\ s.at = "addValue"
        BY <1>1, <1>5, <3>1, GoesOn
      <3>3. Evaluates(t, s, TRUE, heap[n].state, heap[n].visits)
        BY <1>2, <2>2, <3>1, <3>2 DEF Evaluates
      <3> QED
        BY <1>1, <1>3, <3>1, <3>2, <3>3 DEF n
    <2> QED
      BY <2>1, <2>2
  <1>8. CASE addCurrentNNOutputAsLeafValue(t)
    <2>1. /\ Become(t, [thread[t] EXCEPT !.at = "claim"]) /\ heap' = [heap EXCEPT ![n].visits = @ + 1]
          /\ thread[t].at = "addValue"
      BY <1>8 DEF addCurrentNNOutputAsLeafValue, At, n
    <2>2. PICK s : Stays(t, s) /\ s.at = "claim"
      BY <1>1, <1>5, <2>1, GoesOn
    <2>3. Evaluates(t, s, heap[n].nnOutput, heap[n].state, heap[n].visits + 1)
      BY <1>2, <2>1, <2>2 DEF Evaluates
    <2> QED
      BY <1>1, <1>4, <2>1, <2>2, <2>3 DEF n
  <1>9. CASE claimEvaluating(t)
    <2>1. CASE Here(t).state = UNEVALUATED
      <3>1. /\ Become(t, [thread[t] EXCEPT !.at = "initialize"]) /\ heap' = [heap EXCEPT ![n].state = EVALUATING]
            /\ thread[t].at = "claim"
        BY <1>9, <2>1 DEF claimEvaluating, At, n
      <3>2. PICK s : Stays(t, s) /\ s.at = "initialize"
        BY <1>1, <1>5, <3>1, GoesOn
      <3>3. Evaluates(t, s, heap[n].nnOutput, EVALUATING, heap[n].visits)
        BY <1>2, <2>1, <3>1, <3>2 DEF Evaluates
      <3> QED
        BY <1>1, <1>3, <3>1, <3>2, <3>3 DEF n
    <2>2. CASE Here(t).state # UNEVALUATED
      <3>1. /\ Become(t, GivesUp(t)) /\ heap' = heap /\ thread[t].at = "claim"
        BY <1>9, <2>2 DEF claimEvaluating, At
      <3>2. PICK s : s = GivesUp(t) /\ Stays(t, s) /\ s.at = "false"
        BY <1>1, <3>1, StartsOver
      <3>3. Evaluates(t, s, heap[n].nnOutput, heap[n].state, heap[n].visits)
        BY <1>2, <2>2, <3>1, <3>2 DEF Evaluates
      <3> QED
        BY <1>1, <1>3, <3>1, <3>2, <3>3 DEF n
    <2> QED
      BY <2>1, <2>2
  <1>10. CASE initializeChildren(t)
    <2>1. /\ Become(t, Returns(t)) /\ heap' = [heap EXCEPT ![n].state = EXPANDED0] /\ thread[t].at = "initialize"
      BY <1>10 DEF initializeChildren, n, At
    <2>2. PICK s : s = Returns(t) /\ Stays(t, s) /\ s.at = "true"
      BY <1>1, <2>1, StartsOver
    <2>3. Evaluates(t, s, heap[n].nnOutput, EXPANDED0, heap[n].visits)
      BY <1>2, <2>1, <2>2 DEF Evaluates
    <2> QED
      BY <1>1, <1>3, <2>1, <2>2, <2>3 DEF n
  <1>11. CASE SelectNothing(t)
    <2>1. /\ Become(t, Returns(t)) /\ heap' = [heap EXCEPT ![n].visits = @ + 1] /\ thread[t].at = "select"
          /\ Found(t) = {} /\ NewMoves(t) = {}
      BY <1>11 DEF SelectNothing, n, At
    <2>2. PICK s : s = Returns(t) /\ Stays(t, s) /\ s.at = "true"
      BY <1>1, <2>1, StartsOver
    <2>3. Evaluates(t, s, heap[n].nnOutput, heap[n].state, heap[n].visits + 1)
      BY <1>2, <2>1, <2>2 DEF Evaluates
    <2> QED
      BY <1>1, <1>4, <2>1, <2>2, <2>3 DEF n
  <1> QED
    BY <1>6, <1>7, <1>8, <1>9, <1>10, <1>11 DEF EvaluateStep

LEMMA NothingFound ==
  ASSUME TypeOK, TreeInv, NEW t \in Threads, thread[t].at = "select", Found(t) = {}, NewMoves(t) = {}
  PROVE  Here(t).state >= EXPANDED0 /\ Children(thread[t].node) = <<>> /\ MovesOf(thread[t].node) = {}
  <1>1. OnTree(t)
    BY DEF OnTree, OffTree
  <1>2. /\ EXPANDED0 <= thread[t].state /\ thread[t].state <= Here(t).state
        /\ Here(t).state \in Int /\ thread[t].state \in UNEVALUATED .. EXPANDED2 /\ thread[t].state \in Int
        /\ thread[t].node \in Live
    BY <1>1, NodeOf, ThreadFields DEF StateInv, Live
  <1>3. getChildrenCapacity(thread[t].state) \in Nat /\ getChildrenCapacity(thread[t].state) >= 1
    BY <1>2, CapacityGrows DEF UNEVALUATED, EXPANDED0, EXPANDED2
  <1>4. heap[thread[t].node].children = <<>>
    <2>1. /\ Here(t).children \in Seq(Slot)
          /\ Slots(thread[t].node) = 1 .. Len(heap[thread[t].node].children)
          /\ Len(heap[thread[t].node].children) \in Nat
      BY <1>1, NodeOf, NodeFields DEF Here, Slot, Slots
    <2>2. 1 \notin Slots(thread[t].node)
      BY <1>3 DEF Found
    <2> QED
      BY <2>1, <2>2 DEF Here
  <1>5. MovesOf(thread[t].node) = {}
    BY DEF NewMoves, MovesOf, Here
  <1> QED
    BY <1>2, <1>4, <1>5 DEF EXPANDED0, Children

LEMMA EvaluateBook ==
  ASSUME TypeOK, TreeInv, BookInv, NEW t \in Threads, EvaluateStep(t)
  PROVE  BookInv'
  <1>5. PICK n : thread[t].node = n
    OBVIOUS
  <1>1. thread[t].at \in {"visit", "evaluate", "addValue", "claim", "initialize", "select"}
    BY EvaluateDoes
  <1>2. PICK s, o, r, v : Stays(t, s) /\ Sets(n, o, r, v) /\ Evaluates(t, s, o, r, v)
    BY <1>5, EvaluateDoes
  <1>3. /\ n \in Live /\ n \in Nodes /\ Here(t) = heap[n] /\ heap[n].visits \in Nat /\ heap[n].state \in Int
        /\ OnTree(t)
    BY <1>2, <1>5, NodeOf DEF Live, Here, Stays
  <1>4. Evaluated(n) /\ Updated(n) /\ Expanding(t)
    BY <1>3 DEF BookInv, Balanced
  <1>6. Moved(t, s, n) /\ s.node = n
    BY <1>2, <1>5, StakesMove DEF Stays, Goes
  <1>7. /\ heap'[n].nnOutput = o /\ heap'[n].state = r /\ heap'[n].visits = v /\ heap'[n].children = heap[n].children
        /\ LeafNode(n)' = LeafNode(n)
        /\ Counted(n)' => r >= EXPANDED0 /\ (Children(n) # <<>> \/ MovesOf(n) # {})
    <2>1. root' = root /\ rootPos' = rootPos
      BY <1>2 DEF Stays, Goes
    <2> QED
      BY <1>2, <2>1 DEF Sets, LeafNode, Counted, Children, MovesOf
  <1>8. EvaluatorsOf(n)' = Joins(EvaluatorsOf(n), t, s.at \in Evaluators)
    BY <1>6 DEF Moved
  <1>9. thread'[t] = s /\ \A u \in Threads \ {t} : thread'[u] = thread[u]
    BY <1>6 DEF Moved
  <1>10. t \in EvaluatorsOf(n) <=> thread[t].at \in Evaluators
    BY <1>5 DEF EvaluatorsOf
  <1>11. EvaluatorsOf(n) \subseteq Threads
    BY DEF EvaluatorsOf
  <1>12. ASSUME v \in Nat, heap[n].visits > 0 => v > 0, s.at \in Evaluators \cup {"true", "false"},
                heap[n].state >= EXPANDED0 => r >= EXPANDED0,
                Counted(n)' => \/ heap[n].state >= EXPANDED0 /\ v = heap[n].visits
                               \/ ~(heap[n].state >= EXPANDED0) /\ v = 1,
                Evaluated(n)', s.at = "true" => v > 0, s.at \in Evaluators => ~LeafNode(n)
         PROVE  BookInv'
    <2>1. s.at \notin Updating \cup {"update"} /\ thread[t].at \notin Updating \cup {"update"}
      BY <1>1, <1>12 DEF Updating, Evaluators
    <2>2. Expanding(t)'
      BY <1>6, <1>7, <1>9, <1>12 DEF Expanding
    <2> QED
      BY <1>2, <1>5, <1>12, <2>1, <2>2, OwnNode
  <1>13. CASE thread[t].at = "visit"
    <2>1. /\ n # root /\ heap[n].pos \in Leaves /\ s.at = "true"
          /\ o = heap[n].nnOutput /\ r = heap[n].state /\ v = heap[n].visits + 1
      BY <1>2, <1>3, <1>5, <1>13 DEF Evaluates
    <2>2. LeafNode(n)
      <3>1. InTable(n)
        <4>1. thread[t].path # <<>>
          BY <1>3, <1>5, <2>1, NodeOf DEF PathInv
        <4> QED
          BY <1>3, <1>5, <4>1, CallerOf
      <3> QED
        BY <2>1, <3>1 DEF LeafNode, InTable
    <2>3. ~heap[n].nnOutput /\ heap[n].state = UNEVALUATED /\ EvaluatorsOf(n) = {}
      BY <1>4, <2>2 DEF Evaluated
    <2>4. EvaluatorsOf(n)' = {}
      BY <1>8, <2>1, <2>3 DEF Joins, Evaluators
    <2>5. Evaluated(n)'
      BY <1>7, <2>1, <2>2, <2>3, <2>4 DEF Evaluated
    <2> QED
      BY <1>3, <1>7, <1>12, <2>1, <2>3, <2>5 DEF Evaluators, UNEVALUATED, EXPANDED0
  <1>14. CASE thread[t].at = "evaluate" /\ heap[n].nnOutput
    <2>1. s.at = "false" /\ o = heap[n].nnOutput /\ r = heap[n].state /\ v = heap[n].visits
      BY <1>2, <1>3, <1>5, <1>14 DEF Evaluates
    <2>2. EvaluatorsOf(n)' = EvaluatorsOf(n) /\ t \notin EvaluatorsOf(n)
      BY <1>8, <1>10, <1>14, <2>1 DEF Joins, Evaluators
    <2>3. \A u \in EvaluatorsOf(n) : thread'[u] = thread[u]
      BY <1>9, <1>11, <2>2
    <2>4. Evaluated(n)'
      BY <1>4, <1>7, <2>1, <2>2, <2>3 DEF Evaluated
    <2> QED
      BY <1>3, <1>7, <1>12, <2>1, <2>4 DEF Evaluators, EXPANDED0
  <1>15. CASE thread[t].at = "evaluate" /\ ~heap[n].nnOutput
    <2>1. s.at = "addValue" /\ o = TRUE /\ r = heap[n].state /\ v = heap[n].visits
      BY <1>2, <1>3, <1>5, <1>15 DEF Evaluates
    <2>2. ~LeafNode(n)
      BY <1>4, <1>3, <1>5, <1>15 DEF Expanding
    <2>3. heap[n].state = UNEVALUATED /\ heap[n].visits = 0 /\ EvaluatorsOf(n) = {}
      BY <1>4, <1>15, <2>2 DEF Evaluated
    <2>4. EvaluatorsOf(n)' = {t}
      BY <1>8, <2>1, <2>3 DEF Joins, Evaluators
    <2>5. Evaluated(n)'
      BY <1>7, <1>9, <2>1, <2>2, <2>3, <2>4 DEF Evaluated
    <2> QED
      BY <1>3, <1>7, <1>12, <2>1, <2>2, <2>3, <2>5 DEF Evaluators, UNEVALUATED, EXPANDED0
  <1>16. CASE thread[t].at = "addValue"
    <2>1. s.at = "claim" /\ o = heap[n].nnOutput /\ r = heap[n].state /\ v = heap[n].visits + 1
      BY <1>2, <1>3, <1>5, <1>16 DEF Evaluates
    <2>2. heap[n].nnOutput /\ heap[n].state = UNEVALUATED /\ heap[n].visits = 0 /\ EvaluatorsOf(n) = {t}
      BY <1>4, <1>10, <1>16 DEF Evaluated, Evaluators
    <2>3. EvaluatorsOf(n)' = {t}
      BY <1>8, <2>1, <2>2 DEF Joins, Evaluators
    <2>4. ~LeafNode(n)
      BY <1>4, <2>2 DEF Evaluated
    <2>5. Evaluated(n)'
      BY <1>7, <1>9, <2>1, <2>2, <2>3, <2>4 DEF Evaluated
    <2> QED
      BY <1>3, <1>7, <1>12, <2>1, <2>2, <2>4, <2>5 DEF Evaluators, UNEVALUATED, EXPANDED0
  <1>17. CASE thread[t].at = "claim"
    <2>1. heap[n].nnOutput /\ heap[n].state = UNEVALUATED /\ heap[n].visits = 1 /\ EvaluatorsOf(n) = {t}
      BY <1>4, <1>10, <1>17 DEF Evaluated, Evaluators
    <2>2. s.at = "initialize" /\ o = heap[n].nnOutput /\ r = EVALUATING /\ v = heap[n].visits
      BY <1>2, <1>3, <1>5, <1>17, <2>1 DEF Evaluates
    <2>3. EvaluatorsOf(n)' = {t}
      BY <1>8, <2>1, <2>2 DEF Joins, Evaluators
    <2>4. ~LeafNode(n)
      BY <1>4, <2>1 DEF Evaluated
    <2>5. Evaluated(n)'
      BY <1>7, <1>9, <2>1, <2>2, <2>3, <2>4 DEF Evaluated
    <2> QED
      BY <1>3, <1>7, <1>12, <2>1, <2>2, <2>4, <2>5 DEF Evaluators, UNEVALUATED, EVALUATING, EXPANDED0
  <1>18. CASE thread[t].at = "initialize"
    <2>1. heap[n].nnOutput /\ heap[n].state = EVALUATING /\ heap[n].visits = 1 /\ EvaluatorsOf(n) = {t}
      BY <1>4, <1>10, <1>18 DEF Evaluated, Evaluators
    <2>2. s.at = "true" /\ o = heap[n].nnOutput /\ r = EXPANDED0 /\ v = heap[n].visits
      BY <1>2, <1>3, <1>5, <1>18, <2>1 DEF Evaluates
    <2>3. EvaluatorsOf(n)' = {}
      BY <1>8, <2>1, <2>2 DEF Joins, Evaluators
    <2>4. ~LeafNode(n)
      BY <1>4, <2>1 DEF Evaluated
    <2>5. Evaluated(n)'
      BY <1>7, <2>1, <2>2, <2>3, <2>4 DEF Evaluated, EXPANDED0
    <2> QED
      BY <1>3, <1>7, <1>12, <2>1, <2>2, <2>4, <2>5 DEF Evaluators, UNEVALUATED, EVALUATING, EXPANDED0
  <1>19. CASE thread[t].at = "select"
    <2>1. /\ Found(t) = {} /\ NewMoves(t) = {} /\ s.at = "true"
          /\ o = heap[n].nnOutput /\ r = heap[n].state /\ v = heap[n].visits + 1
      BY <1>2, <1>3, <1>5, <1>19 DEF Evaluates
    <2>2. heap[n].state >= EXPANDED0 /\ Children(n) = <<>> /\ MovesOf(n) = {}
      BY <1>3, <1>5, <1>19, <2>1, NothingFound
    <2>3. EvaluatorsOf(n) = {} /\ heap[n].nnOutput /\ heap[n].visits > 0
      BY <1>4, <2>2 DEF Evaluated, UNEVALUATED, EVALUATING, EXPANDED0
    <2>4. EvaluatorsOf(n)' = {}
      BY <1>8, <2>1, <2>3 DEF Joins, Evaluators
    <2>5. ~LeafNode(n)
      BY <1>4, <2>3 DEF Evaluated
    <2>6. Evaluated(n)'
      BY <1>3, <1>7, <2>1, <2>2, <2>3, <2>4, <2>5 DEF Evaluated, EXPANDED0
    <2> QED
      BY <1>3, <1>7, <1>12, <2>1, <2>2, <2>5, <2>6 DEF Evaluators
  <1> QED
    BY <1>1, <1>13, <1>14, <1>15, <1>16, <1>17, <1>18, <1>19

LEMMA LoseOnly ==
  ASSUME TypeOK, NEW c \in Live, NEW k \in Int, Lose(c, k)
  PROVE  OnlyLosses
  <1>1. heap[c].virtualLosses \in Int
    BY LiveNode, SameHeap, NodeFields DEF Live
  <1>2. heap[c].virtualLosses + k \in Int
    BY <1>1
  <1> QED
    BY <1>2, LossesOnly DEF Lose

LEMMA SelectBook ==
  ASSUME TypeOK, TreeInv, BookInv, NEW t \in Threads, SelectChild(t) \/ SelectNewMove(t)
  PROVE  BookInv'
  <1>1. thread[t].at = "select" /\ OnlyLosses /\ \E s : Stays(t, s) /\ s.at \in {"edge", "allocate", "full"}
    <2>1. CASE SelectChild(t)
      <3>1. PICK c \in Live : Lose(c, 1) /\ \E s : Stays(t, s) /\ s.at = "edge" /\ s.child = c
        BY <2>1, SelectChildDoes
      <3>2. OnlyLosses
        BY <3>1, LoseOnly
      <3> QED
        BY <2>1, <3>1, <3>2, SelectChildDoes
    <2>2. CASE SelectNewMove(t)
      BY <2>2, SelectNewMoveDoes, LossesOnly
    <2> QED
      BY <2>1, <2>2
  <1>2. PICK s : Stays(t, s) /\ s.at \in {"edge", "allocate", "full"}
    BY <1>1
  <1>3. /\ phase = "search" /\ UNCHANGED <<root, oldRoot, rootPos>> /\ OnTree(t) /\ s.node = thread[t].node
        /\ thread' = [thread EXCEPT ![t] = s]
    BY <1>2 DEF Stays, Goes
  <1>4. thread[t].at \notin Staked /\ s.at \notin Staked \cup {"true"} /\ ~LeafNode(thread[t].node)
    BY <1>1, <1>2, <1>3, NotLeaf DEF Staked, Evaluators, Updating
  <1> QED
    BY <1>1, <1>3, <1>4, QuietStep

LEMMA GrowBook ==
  ASSUME TypeOK, TreeInv, BookInv, NEW t \in Threads, maybeExpandChildrenCapacity(t) \/ growChildren(t)
  PROVE  BookInv'
  <1>1. PICK n : n = thread[t].node
    OBVIOUS
  <1>2. /\ thread[t].at \in {"full", "grow"} /\ n \in Live
        /\ heap' = heap \/ \E r \in Int : /\ Here(t).state >= EXPANDED0 /\ r >= EXPANDED0
                                           /\ OnlyState(n, r)
        /\ \E s : Stays(t, s) /\ s.at \in {"select", "grow", "allocate"}
    BY <1>1, GrowDoes
  <1>3. PICK s : Stays(t, s) /\ s.at \in {"select", "grow", "allocate"}
    BY <1>2
  <1>4. /\ phase = "search" /\ UNCHANGED <<root, oldRoot, rootPos>> /\ OnTree(t) /\ s.node = n
        /\ thread' = [thread EXCEPT ![t] = s]
    BY <1>1, <1>3 DEF Stays, Goes
  <1>5. thread[t].at \notin Staked /\ s.at \notin Staked \cup {"true"} /\ ~LeafNode(n)
    BY <1>1, <1>2, <1>3, <1>4, NotLeaf DEF Staked, Evaluators, Updating
  <1>6. CASE heap' = heap
    <2>1. OnlyLosses
      BY <1>6, LossesOnly
    <2> QED
      BY <1>1, <1>4, <1>5, <2>1, QuietStep
  <1>7. CASE heap' # heap
    <2>1. PICK r \in Int : heap[n].state >= EXPANDED0 /\ r >= EXPANDED0 /\ OnlyState(n, r)
      BY <1>1, <1>2, <1>7 DEF Here
    <2>2. SameBook(n, n)
      BY <1>4, <2>1 DEF OnlyState, SameExceptState, SameBook, LeafNode, Edges, Counted, Children, MovesOf
    <2>3. SameStakes(n, n)
      BY <1>4, <1>5, StakesKeep
    <2>4. Balanced(n)'
      BY <1>2, <2>2, <2>3, BalanceKeeps DEF BookInv
    <2>5. \A m \in Live \ {n} : heap'[m] = heap[m]
      BY <2>1 DEF OnlyState, Live
    <2>6. /\ heap'[n].visits = heap[n].visits /\ heap'[n].children = heap[n].children /\ heap'[n].live
          /\ heap'[n].key = heap[n].key /\ heap'[n].pos = heap[n].pos
      BY <1>2, <2>1 DEF OnlyState, SameExceptState, Live
    <2>7. Visited(n)'
      <3>1. \A m \in Live : heap[m].visits > 0 => heap'[m].visits > 0
        BY <2>5, <2>6
      <3>2. Visited(n)
        BY <1>2 DEF BookInv
      <3> QED
        BY <1>2, <2>6, <3>1, <3>2, VisitedKeeps
    <2>8. \A m \in Live \ {n} : SameButLosses(heap[m], heap'[m])
      BY <2>5 DEF SameButLosses
    <2>9. Live' = Live
      BY <1>2, <2>1 DEF OnlyState, SameExceptState, Live
    <2>10. Expanding(t)'
      <3>1. thread'[t] = s
        BY <1>4 DEF TypeOK
      <3> QED
        BY <1>4, <1>5, <2>6, <3>1 DEF Expanding, LeafNode
    <2>11. /\ n \in Live' /\ Live \subseteq Live' /\ Live' \subseteq Live \cup {n}
           /\ thread[t].at \in Staked => thread[t].node = n
           /\ s.at \in Staked => s.node = n
      BY <1>2, <1>5, <2>9
    <2>12. n \in Live => /\ heap[n].visits > 0 => heap'[n].visits > 0
                         /\ heap'[n].key = heap[n].key /\ heap'[n].pos = heap[n].pos
      BY <2>6
    <2> QED
      BY <1>4, <2>4, <2>7, <2>8, <2>10, <2>11, <2>12, OneAccount
  <1> QED
    BY <1>6, <1>7

(* A node as new has its account in order. *)
LEMMA FreshAccount ==
  ASSUME NEW n, ~heap'[n].nnOutput, heap'[n].state = UNEVALUATED, heap'[n].children = <<>>, heap'[n].visits = 0,
         heap'[n].weight = 0, heap'[n].dirtyCounter = 0, EvaluatorsOf(n)' = {}, UpdatesOf(n)' = {}, UpdatersOf(n)' = {}
  PROVE  Balanced(n)' /\ Visited(n)'
  <1>1. Edges(n)' = 0
    BY NoEdgesIn DEF Edges
  <1>2. Slots(n)' = {}
    BY DEF Slots
  <1>3. Evaluated(n)' /\ Updated(n)' /\ Weighed(n)' /\ Added(n)'
    BY <1>1 DEF Evaluated, Updated, Weighed, Added, Counted, UNEVALUATED, EXPANDED0
  <1> QED
    BY <1>2, <1>3 DEF Balanced, Visited

LEMMA AllocateBook ==
  ASSUME TypeOK, TreeInv, BookInv, NEW t \in Threads, allocateOrFindNode(t)
  PROVE  BookInv'
  <1>1. thread[t].at = "allocate"
    BY AllocateDoes
  <1>2. PICK c \in Nodes :
          /\ \E s : Stays(t, s) /\ s.at = "insert" /\ s.child = c
          /\ \/ InTable(c) /\ Lose(c, 1)
             \/ /\ c \notin Live /\ \A m \in Nodes \ {c} : heap'[m] = heap[m]
                /\ heap'[c].live /\ heap'[c].key # RootKey /\ ~heap'[c].nnOutput /\ heap'[c].children = <<>>
                /\ heap'[c].state = UNEVALUATED /\ heap'[c].visits = 0 /\ heap'[c].weight = 0
                /\ heap'[c].dirtyCounter = 0 /\ heap'[c].virtualLosses = 1
    BY AllocateDoes
  <1>3. PICK s : Stays(t, s) /\ s.at = "insert"
    BY <1>2
  <1>4. /\ phase = "search" /\ UNCHANGED <<root, oldRoot, rootPos>> /\ OnTree(t) /\ s.node = thread[t].node
        /\ thread' = [thread EXCEPT ![t] = s]
    BY <1>3 DEF Stays, Goes
  <1>5. thread[t].at \notin Staked /\ s.at \notin Staked \cup {"true"} /\ ~LeafNode(thread[t].node)
    BY <1>1, <1>3, <1>4, NotLeaf DEF Staked, Evaluators, Updating
  <1>6. CASE InTable(c) /\ Lose(c, 1)
    <2>1. OnlyLosses
      BY <1>6, LoseOnly DEF InTable
    <2> QED
      BY <1>4, <1>5, <2>1, QuietStep
  <1>7. CASE /\ c \notin Live /\ \A m \in Nodes \ {c} : heap'[m] = heap[m]
             /\ heap'[c].live /\ heap'[c].key # RootKey /\ ~heap'[c].nnOutput /\ heap'[c].children = <<>>
             /\ heap'[c].state = UNEVALUATED /\ heap'[c].visits = 0 /\ heap'[c].weight = 0
             /\ heap'[c].dirtyCounter = 0 /\ heap'[c].virtualLosses = 1
    <2>1. \A u \in Threads : OnTree(u) => thread[u].node # c
      BY <1>7, NodeOf DEF Live
    <2>2. \A u \in Threads : thread'[u].at \in Staked => thread'[u].node # c
      <3>1. thread'[t] = s /\ \A u \in Threads \ {t} : thread'[u] = thread[u]
        BY <1>4 DEF TypeOK
      <3> QED
        BY <1>5, <2>1, <3>1 DEF OnTree, OffTree, Staked, Evaluators, Updating
    <2>3. EvaluatorsOf(c)' = {} /\ UpdatesOf(c)' = {} /\ UpdatersOf(c)' = {}
      BY <2>2 DEF EvaluatorsOf, UpdatesOf, UpdatersOf, Staked
    <2>4. Balanced(c)' /\ Visited(c)'
      BY <1>7, <2>3, FreshAccount
    <2>5. \A m \in Live \ {c} : SameButLosses(heap[m], heap'[m])
      BY <1>7 DEF Live, SameButLosses
    <2>6. Expanding(t)'
      <3>1. thread'[t] = s /\ heap'[thread[t].node] = heap[thread[t].node]
        BY <1>4, <1>7, <2>1, NodeOf DEF TypeOK
      <3> QED
        BY <1>4, <1>5, <3>1 DEF Expanding, LeafNode
    <2>7. c \in Live' /\ Live \subseteq Live' /\ Live' \subseteq Live \cup {c}
      BY <1>7 DEF Live
    <2> QED
      BY <1>4, <1>5, <1>7, <2>4, <2>5, <2>6, <2>7, OneAccount
  <1> QED
    BY <1>2, <1>6, <1>7

LEMMA EdgesTotalIn ==
  ASSUME NEW c \in Seq(Slot), NEW S
  PROVE  /\ EdgesIn(c) = Total([i \in DOMAIN c |-> c[i].edgeVisits], DOMAIN c)
         /\ IsFiniteSet(DOMAIN c) /\ DOMAIN c = 1 .. Len(c) /\ Len(c) \in Nat
         /\ \A i \in DOMAIN c : c[i].edgeVisits \in Nat
  <1>1. EdgesIn(c) = Total([i \in DOMAIN c |-> c[i].edgeVisits], DOMAIN c)
    BY DEF EdgesIn, Total, MapThenSumSet, MapThenFoldSet
  <1>2. DOMAIN c = 1 .. Len(c) /\ Len(c) \in Nat
    OBVIOUS
  <1>3. IsFiniteSet(DOMAIN c)
    BY <1>2, FS_Interval
  <1>4. ASSUME NEW i \in DOMAIN c PROVE c[i].edgeVisits \in Nat
    <2>1. c[i] \in Slot
      BY ElementIn
    <2> QED
      BY <2>1 DEF Slot
  <1> QED
    BY <1>1, <1>2, <1>3, <1>4

LEMMA EdgesAppend ==
  ASSUME NEW c \in Seq(Slot), NEW slot \in Slot, slot.edgeVisits = 0
  PROVE  EdgesIn(Append(c, slot)) = EdgesIn(c)
  <1> DEFINE d == Append(c, slot)
             f == [i \in DOMAIN c |-> c[i].edgeVisits]
             g == [i \in DOMAIN d |-> d[i].edgeVisits]
  <1>1. /\ d \in Seq(Slot) /\ DOMAIN d = 1 .. Len(c) + 1 /\ Len(c) \in Nat /\ DOMAIN c = 1 .. Len(c)
        /\ \A i \in DOMAIN c : d[i] = c[i]
        /\ d[Len(c) + 1] = slot
    OBVIOUS
  <1> HIDE DEF d
  <1>2. /\ EdgesIn(c) = Total(f, DOMAIN c) /\ EdgesIn(d) = Total(g, DOMAIN d) /\ IsFiniteSet(DOMAIN c) /\ IsFiniteSet(DOMAIN d)
        /\ \A i \in DOMAIN c : c[i].edgeVisits \in Nat
        /\ \A i \in DOMAIN d : d[i].edgeVisits \in Nat
    BY <1>1, EdgesTotalIn
  <1>3. /\ \A i \in DOMAIN d : g[i] \in Nat
        /\ \A i \in DOMAIN c : f[i] = g[i]
        /\ \A i \in DOMAIN d \ DOMAIN c : g[i] = 0
        /\ DOMAIN c \subseteq DOMAIN d
    BY <1>1, <1>2
  <1> HIDE DEF f, g
  <1>4. Total(g, DOMAIN c) = Total(g, DOMAIN d)
    BY <1>2, <1>3, TotalWithZeros
  <1>5. Total(f, DOMAIN c) = Total(g, DOMAIN c)
    BY <1>2, <1>3, TotalSame
  <1> QED
    BY <1>2, <1>4, <1>5 DEF d

LEMMA EdgesBump ==
  ASSUME NEW c \in Seq(Slot), NEW i \in DOMAIN c, NEW d \in Seq(Slot), DOMAIN d = DOMAIN c,
         d[i].edgeVisits = c[i].edgeVisits + 1, \A j \in DOMAIN c \ {i} : d[j].edgeVisits = c[j].edgeVisits
  PROVE  EdgesIn(d) = EdgesIn(c) + 1
  <1> DEFINE f == [j \in DOMAIN c |-> c[j].edgeVisits]
             g == [j \in DOMAIN d |-> d[j].edgeVisits]
  <1>1. /\ EdgesIn(c) = Total(f, DOMAIN c) /\ EdgesIn(d) = Total(g, DOMAIN d) /\ IsFiniteSet(DOMAIN c)
        /\ \A j \in DOMAIN c : c[j].edgeVisits \in Nat
    BY EdgesTotalIn
  <1>2. /\ \A j \in DOMAIN c : f[j] \in Nat
        /\ g[i] = f[i] + 1
        /\ \A j \in DOMAIN c \ {i} : g[j] = f[j]
    BY <1>1
  <1> HIDE DEF f, g
  <1>3. Total(g, DOMAIN c) = Total(f, DOMAIN c) + 1
    BY <1>1, <1>2, TotalBump
  <1> QED
    BY <1>1, <1>3

(* A node with children was evaluated. *)
LEMMA ParentVisited ==
  ASSUME TypeOK, TreeInv, BookInv, NEW n \in Live, NEW i \in DOMAIN heap[n].children
  PROVE  heap[n].state >= EXPANDED0 /\ heap[n].visits > 0 /\ ~LeafNode(n)
  <1>1. heap[n].state \in Int
    BY LiveNode, SameHeap, NodeFields DEF Live
  <1>2. heap[n].state >= EXPANDED0
    <2>1. CASE heap[n].state < EXPANDED0
      <3>1. heap[n].children = <<>>
        BY <2>1, NoEdges DEF Children
      <3> QED
        BY <3>1
    <2> QED
      BY <1>1, <2>1 DEF EXPANDED0
  <1>3. Evaluated(n)
    BY DEF BookInv, Balanced
  <1>4. EvaluatorsOf(n) = {} /\ heap[n].nnOutput
    BY <1>2, <1>3 DEF Evaluated, UNEVALUATED, EVALUATING, EXPANDED0
  <1> QED
    BY <1>2, <1>3, <1>4 DEF Evaluated

Bumped(n, i) ==
  LET x == heap[n]
      y == heap'[n]
  IN  /\ \A m \in Nodes \ {n} : heap'[m] = heap[m]
      /\ y.live = x.live /\ y.key = x.key /\ y.pos = x.pos /\ y.nnOutput = x.nnOutput /\ y.state = x.state
      /\ y.visits = x.visits /\ y.weight = x.weight /\ y.dirtyCounter = x.dirtyCounter
      /\ y.virtualLosses = x.virtualLosses
      /\ x.children \in Seq(Slot) /\ y.children \in Seq(Slot) /\ DOMAIN y.children = DOMAIN x.children
      /\ y.children[i].edgeVisits = x.children[i].edgeVisits + 1
      /\ \A j \in DOMAIN x.children \ {i} : y.children[j].edgeVisits = x.children[j].edgeVisits
      /\ \A j \in DOMAIN x.children : y.children[j].node = x.children[j].node

LEMMA EdgeBumps ==
  ASSUME TypeOK, NEW n, NEW i, OneEdge(n, i)
  PROVE  Bumped(n, i)
  <1>1. heap[n] \in SearchNodes /\ n \in Nodes /\ heap \in Heaps /\ i \in DOMAIN heap[n].children
    BY LiveNode, SameHeap DEF Live, OneEdge
  <1>2. PICK x \in SearchNodes : x = heap[n]
    BY <1>1
  <1>3. PICK c \in Seq(Slot) : c = x.children /\ i \in DOMAIN c
    BY <1>1, <1>2 DEF SearchNodes, Slot
  <1>4. PICK z \in Slot : z = c[i]
    BY <1>3, ElementIn
  <1>5. PICK w \in Slot : /\ w = [z EXCEPT !.edgeVisits = z.edgeVisits + 1]
                          /\ w.node = z.node /\ w.edgeVisits = z.edgeVisits + 1
    <2> DEFINE w == [z EXCEPT !.edgeVisits = z.edgeVisits + 1]
    <2>1. w \in Slot /\ w.node = z.node /\ w.edgeVisits = z.edgeVisits + 1
      BY DEF Slot
    <2> QED
      BY <2>1
  <1>6. PICK d \in Seq(Slot) : /\ d = [c EXCEPT ![i] = w] /\ DOMAIN d = DOMAIN c /\ d[i] = w
                               /\ \A j \in DOMAIN c \ {i} : d[j] = c[j]
    <2>1. i \in 1 .. Len(c) /\ Len(c) \in Nat
      BY <1>3
    <2> DEFINE d == [c EXCEPT ![i] = w]
    <2>2. d \in Seq(Slot) /\ DOMAIN d = DOMAIN c /\ d[i] = w /\ \A j \in DOMAIN c \ {i} : d[j] = c[j]
      BY <2>1
    <2> QED
      BY <2>2
  <1>7. heap' = [heap EXCEPT ![n] = [x EXCEPT !.children = d]]
    BY <1>2, <1>3, <1>4, <1>5, <1>6 DEF OneEdge
  <1>8. heap'[n] = [x EXCEPT !.children = d] /\ \A m \in Nodes \ {n} : heap'[m] = heap[m]
    BY <1>1, <1>7 DEF Heaps
  <1>9. PICK y : y = heap'[n]
    OBVIOUS
  <1>10. /\ y.live = x.live /\ y.key = x.key /\ y.pos = x.pos /\ y.nnOutput = x.nnOutput /\ y.state = x.state
         /\ y.visits = x.visits /\ y.weight = x.weight /\ y.dirtyCounter = x.dirtyCounter
         /\ y.virtualLosses = x.virtualLosses /\ y.children = d
    BY <1>8, <1>9 DEF SearchNodes
  <1>11. /\ d[i].edgeVisits = c[i].edgeVisits + 1
         /\ \A j \in DOMAIN c \ {i} : d[j].edgeVisits = c[j].edgeVisits
         /\ \A j \in DOMAIN c : d[j].node = c[j].node
    BY <1>4, <1>5, <1>6
  <1> QED
    BY <1>2, <1>3, <1>6, <1>8, <1>9, <1>10, <1>11 DEF Bumped

LEMMA EdgeBook ==
  ASSUME TypeOK, TreeInv, BookInv, NEW t \in Threads, NEW s, Goes(t, s), NEW n, NEW i, OneEdge(n, i),
         heap[heap[n].children[i].node].visits > 0, s.at = "update", s.node = n, thread[t].at \notin Staked
  PROVE  BookInv'
  <1>1. /\ n \in Live /\ n \in Nodes /\ i \in DOMAIN heap[n].children /\ Bumped(n, i)
        /\ UNCHANGED <<root, oldRoot, rootPos>> /\ thread' = [thread EXCEPT ![t] = s]
    BY EdgeBumps DEF OneEdge, Live, Goes
  <1>2. heap[n].state >= EXPANDED0 /\ ~LeafNode(n)
    BY <1>1, ParentVisited
  <1>3. Edges(n)' = Edges(n) + 1 /\ Edges(n) \in Nat
    BY <1>1, EdgesBump, EdgesInNat DEF Bumped, Edges
  <1>4. /\ heap'[n].live = heap[n].live /\ heap'[n].key = heap[n].key /\ heap'[n].pos = heap[n].pos
        /\ heap'[n].nnOutput = heap[n].nnOutput /\ heap'[n].state = heap[n].state
        /\ heap'[n].visits = heap[n].visits /\ heap'[n].dirtyCounter = heap[n].dirtyCounter
        /\ DOMAIN heap'[n].children = DOMAIN heap[n].children
    BY <1>1 DEF Bumped
  <1>5. Moved(t, s, n)
    BY <1>1, StakesMove
  <1>6. /\ EvaluatorsOf(n)' = EvaluatorsOf(n) /\ UpdatersOf(n)' = UpdatersOf(n)
        /\ UpdatesOf(n)' = UpdatesOf(n) \cup {t} /\ t \notin UpdatesOf(n)
        /\ \A u \in EvaluatorsOf(n) \cup UpdatersOf(n) : thread'[u] = thread[u]
    <2>1. t \notin EvaluatorsOf(n) \cup UpdatersOf(n) \cup UpdatesOf(n)
      BY DEF Staked, EvaluatorsOf, UpdatersOf, UpdatesOf
    <2>2. s.at \notin Evaluators /\ s.at \notin Updating
      BY DEF Evaluators, Updating
    <2> QED
      BY <1>5, <2>1, <2>2 DEF Moved, Joins, EvaluatorsOf, UpdatersOf
  <1>7. Evaluated(n) /\ Updated(n) /\ Added(n) /\ Visited(n)
    BY <1>1 DEF BookInv, Balanced
  <1>8. Evaluated(n)'
    BY <1>1, <1>4, <1>6, <1>7 DEF Evaluated, LeafNode
  <1>9. Updated(n)'
    BY <1>2, <1>4, <1>6, <1>7 DEF Updated
  <1>10. Weighed(n)'
    BY <1>6 DEF Weighed
  <1>11. Added(n)'
    <2>1. IsFiniteSet(UpdatesOf(n))
      BY ThreadsAssumption, FS_Subset DEF UpdatesOf
    <2>2. Cardinality(UpdatesOf(n) \cup {t}) = Cardinality(UpdatesOf(n)) + 1 /\ Cardinality(UpdatesOf(n)) \in Nat
      BY <1>6, <2>1, FS_AddElement, FS_CardinalityType
    <2>3. heap[n].visits \in Nat /\ heap[n].dirtyCounter \in Int
      BY <1>1, LiveNode, SameHeap, NodeFields DEF Live
    <2>4. Seen(n)' = Seen(n) + 1 /\ Seen(n) \in Int
      BY <1>4, <1>6, <2>2, <2>3 DEF Seen
    <2>5. Counted(n)' => Counted(n)
      <3>1. heap[n].children # <<>>
        BY <1>1
      <3> QED
        BY <1>1, <1>2, <3>1 DEF Counted, Children
    <2>6. \A u \in UpdatersOf(n) : thread[u].completed \in Nat
      BY ThreadFields DEF UpdatersOf
    <2> QED
      BY <1>3, <1>6, <1>7, <2>4, <2>5, <2>6 DEF Added
  <1>12. \A m \in Live : heap'[m].visits = heap[m].visits
    BY <1>1, <1>4 DEF Bumped, Live
  <1>13. Visited(n)'
    <2>1. ASSUME NEW j \in Slots(n)', Children(n)'[j].edgeVisits > 0 PROVE heap'[Children(n)'[j].node].visits > 0
      <3>1. j \in Slots(n) /\ Children(n)'[j].node = Children(n)[j].node
        BY <1>1, <1>4 DEF Bumped, Slots, Children
      <3>2. Children(n)[j].node \in Live
        BY <1>1, <3>1, ChildSlot DEF InTable, Children
      <3>3. heap[Children(n)[j].node].visits > 0
        <4>1. CASE j = i
          BY <4>1 DEF Children
        <4>2. CASE j # i
          <5>1. Children(n)'[j].edgeVisits = Children(n)[j].edgeVisits
            BY <1>1, <3>1, <4>2 DEF Bumped, Slots, Children
          <5> QED
            BY <1>7, <2>1, <3>1, <5>1 DEF Visited
        <4> QED
          BY <4>1, <4>2
      <3> QED
        BY <1>12, <3>1, <3>2, <3>3
    <2> QED
      BY <2>1 DEF Visited
  <1>14. \A m \in Live \ {n} : SameButLosses(heap[m], heap'[m])
    BY <1>1 DEF Bumped, SameButLosses, Live
  <1>15. Expanding(t)'
    <2>1. thread'[t] = s
      BY <1>5 DEF Moved
    <2> QED
      BY <1>2, <1>4, <2>1 DEF Expanding, LeafNode
  <1>16. n \in Live' /\ Live \subseteq Live' /\ Live' \subseteq Live \cup {n}
    BY <1>1, <1>4 DEF Bumped, Live
  <1>17. Balanced(n)'
    BY <1>8, <1>9, <1>10, <1>11 DEF Balanced
  <1>18. n \in Live => /\ heap[n].visits > 0 => heap'[n].visits > 0
                       /\ heap'[n].key = heap[n].key /\ heap'[n].pos = heap[n].pos
    BY <1>4
  <1> QED
    BY <1>1, <1>13, <1>14, <1>15, <1>16, <1>17, <1>18, OneAccount

LEMMA InsertBook ==
  ASSUME TypeOK, TreeInv, BookInv, NEW t \in Threads, insertChild(t)
  PROVE  BookInv'
  <1>1. PICK n : n = thread[t].node
    OBVIOUS
  <1>2. /\ thread[t].at = "insert" /\ InTable(thread[t].child)
        /\ \E s : Stays(t, s) /\ s.at \in {"false", "edge"}
    BY InsertDoes
  <1>3. /\ OnTree(t) /\ n \in Live /\ n \in Nodes /\ heap[n] \in SearchNodes /\ heap \in Heaps /\ ChoiceInv(t)
    BY <1>1, <1>2, NodeOf DEF OnTree, OffTree, Live, Here, StateInv, Choosing
  <1>4. ~LeafNode(n) /\ thread[t].at \notin Staked
    BY <1>1, <1>2, <1>3, NotLeaf DEF Staked, Evaluators, Updating
  <1>5. CASE Lose(thread[t].child, -1) /\ \E s : Stays(t, s) /\ s.at = "false"
    <2>1. OnlyLosses
      BY <1>2, <1>5, LoseOnly DEF InTable
    <2>2. PICK s : Stays(t, s) /\ s.at = "false"
      BY <1>5
    <2> QED
      BY <1>4, <2>1, <2>2, GivesUpBook DEF Stays, Goes
  <1>6. CASE /\ \E slot \in Slot : /\ slot.edgeVisits = 0
                                   /\ heap' = [heap EXCEPT ![thread[t].node].children = Append(@, slot)]
             /\ \E s : Stays(t, s) /\ s.at = "edge" /\ s.child = thread[t].child
    <2>1. PICK slot \in Slot : slot.edgeVisits = 0 /\ heap' = [heap EXCEPT ![n].children = Append(@, slot)]
      BY <1>1, <1>6
    <2>2. PICK s : Stays(t, s) /\ s.at = "edge"
      BY <1>6
    <2>3. /\ UNCHANGED <<root, oldRoot, rootPos>> /\ s.node = n /\ thread' = [thread EXCEPT ![t] = s]
      BY <1>1, <2>2 DEF Stays, Goes
    <2>4. PICK x \in SearchNodes : x = heap[n]
      BY <1>3
    <2>5. PICK c \in Seq(Slot) : c = x.children
      BY DEF SearchNodes, Slot
    <2>6. PICK d : d = Append(c, slot)
      OBVIOUS
    <2>7. heap'[n] = [x EXCEPT !.children = d] /\ \A m \in Nodes \ {n} : heap'[m] = heap[m]
      BY <1>3, <2>1, <2>4, <2>5, <2>6 DEF Heaps
    <2>8. PICK y : y = heap'[n]
      OBVIOUS
    <2>9. /\ y.live = x.live /\ y.key = x.key /\ y.pos = x.pos /\ y.nnOutput = x.nnOutput /\ y.state = x.state
          /\ y.visits = x.visits /\ y.weight = x.weight /\ y.dirtyCounter = x.dirtyCounter /\ y.children = d
      BY <2>7, <2>8 DEF SearchNodes
    <2>10. /\ DOMAIN d = 1 .. Len(c) + 1 /\ Len(c) \in Nat /\ DOMAIN c = 1 .. Len(c)
           /\ \A j \in DOMAIN c : d[j] = c[j]
           /\ d[Len(c) + 1] = slot
      BY <2>6
    <2>11. Edges(n)' = Edges(n)
      BY <2>1, <2>4, <2>5, <2>6, <2>8, <2>9, EdgesAppend DEF Edges
    <2>12. Counted(n)' => Counted(n)
      <3>1. MovesOf(n) # {}
        BY <1>1, <1>3 DEF ChoiceInv
      <3> QED
        BY <2>3, <2>4, <2>8, <2>9, <3>1 DEF Counted
    <2>13. SameBook(n, n)
      BY <2>3, <2>4, <2>8, <2>9, <2>11, <2>12 DEF SameBook, LeafNode
    <2>14. s.at \notin Staked \cup {"true"}
      BY <2>2 DEF Staked, Evaluators, Updating
    <2>15. SameStakes(n, n)
      BY <1>4, <2>3, <2>14, StakesKeep
    <2>16. Balanced(n)'
      BY <1>3, <2>13, <2>15, BalanceKeeps DEF BookInv
    <2>17. \A m \in Live : heap'[m].visits = heap[m].visits
      BY <2>4, <2>7, <2>8, <2>9 DEF Live
    <2>18. Visited(n)'
      <3>1. ASSUME NEW j \in Slots(n)', Children(n)'[j].edgeVisits > 0 PROVE heap'[Children(n)'[j].node].visits > 0
        <4>1. d[j].edgeVisits > 0 /\ j \in DOMAIN d /\ Children(n)'[j] = d[j]
          BY <2>8, <2>9, <3>1 DEF Slots, Children
        <4>2. j \in DOMAIN c
          BY <2>1, <2>10, <4>1
        <4>3. d[j] = Children(n)[j] /\ j \in Slots(n)
          BY <2>4, <2>5, <2>10, <4>2 DEF Children, Slots
        <4>4. Children(n)[j].node \in Live
          BY <1>3, <4>3, ChildSlot DEF InTable, Children
        <4>5. heap[Children(n)[j].node].visits > 0
          BY <1>3, <4>1, <4>3 DEF BookInv, Visited
        <4> QED
          BY <2>17, <4>1, <4>3, <4>4, <4>5
      <3> QED
        BY <3>1 DEF Visited
    <2>19. \A m \in Live \ {n} : SameButLosses(heap[m], heap'[m])
      BY <2>7 DEF SameButLosses, Live
    <2>20. Expanding(t)'
      <3>1. thread'[t] = s
        BY <2>3 DEF TypeOK
      <3> QED
        BY <1>4, <2>3, <2>4, <2>8, <2>9, <2>14, <3>1 DEF Expanding, LeafNode
    <2>21. n \in Live' /\ Live \subseteq Live' /\ Live' \subseteq Live \cup {n}
      BY <1>3, <2>4, <2>7, <2>8, <2>9 DEF Live
    <2>22. n \in Live => /\ heap[n].visits > 0 => heap'[n].visits > 0
                         /\ heap'[n].key = heap[n].key /\ heap'[n].pos = heap[n].pos
      BY <2>4, <2>8, <2>9
    <2> QED
      BY <1>4, <2>3, <2>14, <2>16, <2>18, <2>19, <2>20, <2>21, <2>22, OneAccount
  <1> QED
    BY <1>5, <1>6, InsertDoes

LEMMA EndOfEdgeBook ==
  ASSUME TypeOK, TreeInv, BookInv, NEW t \in Threads, maybeCatchUpEdgeVisits(t) \/ EndCycle(t)
  PROVE  BookInv'
  <1>1. PICK n, c, i : n = thread[t].node /\ c = thread[t].child /\ i = thread[t].idx
    OBVIOUS
  <1>2. /\ thread[t].at = "edge" /\ c \in Nodes /\ InTable(c)
        /\ i \in DOMAIN heap[n].children
        /\ heap[n].children[i].node = c
        /\ heap[n].children[i].edgeVisits < heap[c].visits \/ c \in graphPath(t)
        /\ \/ Lose(c, -1) /\ \E s : Stays(t, s) /\ s.at = "false"
           \/ OneEdge(n, i) /\ \E s : Stays(t, s) /\ s.at = "update" /\ s.child = c
    BY <1>1, EdgeDoes
  <1>3. thread[t].at \notin Staked /\ OnTree(t)
    BY <1>2 DEF Staked, Evaluators, Updating, OnTree, OffTree
  <1>4. CASE Lose(c, -1) /\ \E s : Stays(t, s) /\ s.at = "false"
    <2>1. OnlyLosses
      BY <1>2, <1>4, LoseOnly DEF InTable
    <2>2. PICK s : Stays(t, s) /\ s.at = "false"
      BY <1>4
    <2> QED
      BY <1>3, <2>1, <2>2, GivesUpBook DEF Stays, Goes
  <1>5. CASE OneEdge(n, i) /\ \E s : Stays(t, s) /\ s.at = "update" /\ s.child = c
    <2>1. PICK s : Stays(t, s) /\ s.at = "update"
      BY <1>5
    <2>2. heap[c].visits > 0
      <3>1. CASE heap[n].children[i].edgeVisits < heap[c].visits
        <4>1. n \in Live
          BY <1>5 DEF OneEdge
        <4>2. heap[n].children \in Seq(Slot) /\ heap[c].visits \in Nat
          BY <1>2, <4>1, LiveNode, SameHeap, NodeFields, TableNode DEF Live, Slot
        <4>3. heap[n].children[i] \in Slot
          BY <1>2, <4>2, ElementIn
        <4>4. heap[n].children[i].edgeVisits \in Nat
          BY <4>3 DEF Slot
        <4> QED
          BY <3>1, <4>2, <4>4
      <3>2. CASE c = n
        <4>1. n \in Live
          BY <1>5 DEF OneEdge
        <4> QED
          BY <1>2, <3>2, <4>1, ParentVisited
      <3>3. CASE \E j \in DOMAIN thread[t].path : c = thread[t].path[j].node
        <4>1. PICK j \in DOMAIN thread[t].path : c = thread[t].path[j].node
          BY <3>3
        <4>2. c \in Live /\ thread[t].path[j].idx \in DOMAIN heap[c].children
          BY <1>3, <4>1, NodeOf DEF PathInv, Slots
        <4> QED
          BY <4>2, ParentVisited
      <3> QED
        BY <1>1, <1>2, <3>1, <3>2, <3>3 DEF graphPath
    <2>3. Goes(t, s) /\ s.node = n
      BY <1>1, <2>1 DEF Stays
    <2> QED
      BY <1>2, <1>3, <1>5, <2>1, <2>2, <2>3, EdgeBook
  <1> QED
    BY <1>2, <1>4, <1>5

LEMMA PushBook ==
  ASSUME TypeOK, TreeInv, BookInv, NEW t \in Threads, Descend(t)
  PROVE  BookInv'
  <1>1. /\ heap' = heap /\ thread[t].at = "edge"
        /\ \E s, frame : /\ Goes(t, s) /\ s.at = "visit" /\ s.node = thread[t].child
                         /\ frame \in Frame /\ frame.node = thread[t].node
                         /\ s.path = Append(thread[t].path, frame)
    BY PushDoes
  <1>2. PICK s : Goes(t, s) /\ s.at = "visit"
    BY <1>1
  <1>3. thread[t].at \notin Staked /\ OnlyLosses
    BY <1>1, LossesOnly DEF Staked, Evaluators, Updating
  <1> QED
    BY <1>2, <1>3, QuietStep DEF Goes

LEMMA ReturnBook ==
  ASSUME TypeOK, TreeInv, BookInv, NEW t \in Threads, ReturnTrue(t) \/ ReturnFalse(t)
  PROVE  BookInv'
  <1>1. PICK n, c, i : n = Caller(t).node /\ c = thread[t].node /\ i = Caller(t).idx
    OBVIOUS
  <1>2. /\ thread[t].at \in {"true", "false"} /\ InTable(c) /\ n \in Live /\ i \in DOMAIN heap[n].children
        /\ heap[n].children[i].node = c
        /\ \E s : /\ Goes(t, s) /\ s.node = n
                  /\ \/ Lose(c, -1) /\ s.at = "false"
                     \/ OneEdge(n, i) /\ s.at = "update" /\ thread[t].at = "true"
    BY <1>1, ReturnDoes
  <1>3. PICK s : /\ Goes(t, s) /\ s.node = n
                 /\ \/ Lose(c, -1) /\ s.at = "false"
                    \/ OneEdge(n, i) /\ s.at = "update" /\ thread[t].at = "true"
    BY <1>2
  <1>4. thread[t].at \notin Staked
    BY <1>2 DEF Staked, Evaluators, Updating
  <1>5. CASE Lose(c, -1) /\ s.at = "false"
    <2>1. OnlyLosses
      BY <1>2, <1>5, LoseOnly DEF InTable
    <2> QED
      BY <1>3, <1>4, <1>5, <2>1, GivesUpBook DEF Goes
  <1>6. CASE OneEdge(n, i) /\ s.at = "update" /\ thread[t].at = "true"
    <2>1. heap[c].visits > 0
      BY <1>1, <1>6 DEF BookInv, Expanding
    <2> QED
      BY <1>2, <1>3, <1>4, <1>6, <2>1, EdgeBook
  <1> QED
    BY <1>3, <1>5, <1>6

(* The numbers of one node are set, and the nodes of a set lose a virtual  *)
(* loss.                                                                   *)
SameBones(x, y) ==
  y.live = x.live /\ y.key = x.key /\ y.pos = x.pos /\ y.nnOutput = x.nnOutput /\ y.state = x.state /\ y.children = x.children
Tallies(n, w, v, d, S) ==
  /\ \A m \in Nodes \ {n} : SameButLosses(heap[m], heap'[m])
  /\ SameBones(heap[n], heap'[n])
  /\ heap'[n].weight = w /\ heap'[n].visits = v /\ heap'[n].dirtyCounter = d
  /\ \A m \in Live : heap'[m].virtualLosses = IF m \in S THEN heap[m].virtualLosses - 1 ELSE heap[m].virtualLosses

LEMMA WeighHeap ==
  ASSUME TypeOK, NEW n \in Live, NEW w, NEW k,
         heap' = [heap EXCEPT ![n].weight = w, ![n].visits = @ + k]
  PROVE  Tallies(n, w, heap[n].visits + k, heap[n].dirtyCounter, {})
  <1>1. heap[n] \in SearchNodes /\ n \in Nodes /\ heap \in Heaps
    BY LiveNode, SameHeap DEF Live
  <1>2. PICK x \in SearchNodes : x = heap[n]
    BY <1>1
  <1>3. heap'[n] = [x EXCEPT !.weight = w, !.visits = @ + k] /\ \A m \in Nodes \ {n} : heap'[m] = heap[m]
    BY <1>1, <1>2 DEF Heaps
  <1>4. PICK y : y = heap'[n] /\ y = [x EXCEPT !.weight = w, !.visits = @ + k]
    BY <1>3
  <1>5. /\ SameBones(x, y) /\ y.weight = w /\ y.visits = x.visits + k /\ y.dirtyCounter = x.dirtyCounter
        /\ y.virtualLosses = x.virtualLosses
    BY <1>4, ZenonT(60) DEF SearchNodes, SameBones
  <1>6. \A m \in Nodes \ {n} : SameButLosses(heap[m], heap'[m])
    BY <1>3 DEF SameButLosses
  <1>7. \A m \in Live : heap'[m].virtualLosses = heap[m].virtualLosses
    BY <1>2, <1>3, <1>4, <1>5 DEF Live
  <1> QED
    BY <1>2, <1>4, <1>5, <1>6, <1>7 DEF Tallies

LEMMA SameTallies ==
  ASSUME NEW n \in Live, heap' = heap
  PROVE  Tallies(n, heap[n].weight, heap[n].visits, heap[n].dirtyCounter, {})
  BY DEF Tallies, SameButLosses, SameBones

LEMMA DirtyHeap ==
  ASSUME TypeOK, NEW n \in Live, NEW d, NEW g, g = [heap EXCEPT ![n].dirtyCounter = d]
  PROVE  /\ heap' = g => Tallies(n, heap[n].weight, heap[n].visits, d, {})
         /\ \A c \in Live : heap' = [g EXCEPT ![c].virtualLosses = @ - 1] =>
              Tallies(n, heap[n].weight, heap[n].visits, d, {c})
  <1>1. heap[n] \in SearchNodes /\ n \in Nodes /\ heap \in Heaps
    BY LiveNode, SameHeap DEF Live
  <1>2. PICK x \in SearchNodes : x = heap[n]
    BY <1>1
  <1>3. g[n] = [x EXCEPT !.dirtyCounter = d] /\ (\A m \in Nodes \ {n} : g[m] = heap[m]) /\ DOMAIN g = Nodes
        /\ g = [m \in Nodes |-> g[m]]
    BY <1>1, <1>2 DEF Heaps
  <1>4. PICK y : y = g[n] /\ y = [x EXCEPT !.dirtyCounter = d]
    BY <1>3
  <1>5. /\ SameBones(x, y) /\ y.weight = x.weight /\ y.visits = x.visits /\ y.dirtyCounter = d
        /\ y.virtualLosses = x.virtualLosses
    BY <1>4 DEF SearchNodes, SameBones
  <1>6. heap' = g => Tallies(n, heap[n].weight, heap[n].visits, d, {})
    BY <1>2, <1>3, <1>4, <1>5 DEF Tallies, SameButLosses, Live
  <1>7. ASSUME NEW c \in Live, heap' = [g EXCEPT ![c].virtualLosses = @ - 1]
        PROVE  Tallies(n, heap[n].weight, heap[n].visits, d, {c})
    <2>1. c \in Nodes /\ heap[c] \in SearchNodes
      BY <1>1, LiveNode DEF Live
    <2>2. PICK k : k = heap[c].virtualLosses - 1
      OBVIOUS
    <2>3. g[c].virtualLosses = heap[c].virtualLosses
      BY <1>2, <1>3, <1>4, <1>5, <2>1
    <2>4. heap'[c] = [g[c] EXCEPT !.virtualLosses = k] /\ \A m \in Nodes \ {c} : heap'[m] = g[m]
      BY <1>3, <1>7, <2>1, <2>2, <2>3
    <2>5. PICK z : z = g[c] /\ (z \in SearchNodes \/ z = [x EXCEPT !.dirtyCounter = d])
      BY <1>3, <2>1
    <2>6. PICK a : a = heap'[c] /\ a = [z EXCEPT !.virtualLosses = k]
      BY <2>4, <2>5
    <2>7. /\ SameBones(z, a) /\ a.weight = z.weight /\ a.visits = z.visits /\ a.dirtyCounter = z.dirtyCounter
          /\ a.virtualLosses = k
      <3>1. CASE z \in SearchNodes
        BY <2>6, <3>1 DEF SearchNodes, SameBones
      <3>2. CASE z = [x EXCEPT !.dirtyCounter = d]
        BY <2>6, <3>2 DEF SearchNodes, SameBones
      <3> QED
        BY <2>5, <3>1, <3>2
    <2>8. \A m \in Nodes \ {n} : SameButLosses(heap[m], heap'[m])
      <3>1. ASSUME NEW m \in Nodes \ {n}, m # c PROVE SameButLosses(heap[m], heap'[m])
        BY <1>3, <2>4, <3>1 DEF SameButLosses
      <3>2. ASSUME c # n PROVE SameButLosses(heap[c], heap'[c])
        <4>1. z = heap[c] /\ a = heap'[c]
          BY <1>3, <2>1, <2>5, <2>6, <3>2
        <4> QED
          BY <2>7, <4>1 DEF SameButLosses, SameBones
      <3> QED
        BY <3>1, <3>2
    <2>9. /\ SameBones(heap[n], heap'[n]) /\ heap'[n].weight = heap[n].weight /\ heap'[n].visits = heap[n].visits
          /\ heap'[n].dirtyCounter = d
      <3>1. CASE n = c
        <4>1. heap[n] = x /\ heap'[n] = a /\ z = y
          BY <1>2, <1>4, <2>5, <2>6, <3>1
        <4> QED
          BY <1>5, <2>7, <4>1 DEF SameBones
      <3>2. CASE n # c
        BY <1>1, <1>2, <1>4, <1>5, <2>4, <3>2
      <3> QED
        BY <3>1, <3>2
    <2>10. ASSUME NEW m \in Live
           PROVE  heap'[m].virtualLosses = IF m \in {c} THEN heap[m].virtualLosses - 1 ELSE heap[m].virtualLosses
      <3>1. CASE m = c
        BY <2>2, <2>6, <2>7, <3>1
      <3>2. CASE m # c /\ m = n
        BY <1>1, <1>2, <1>4, <1>5, <2>4, <3>2
      <3>3. CASE m # c /\ m # n
        BY <1>3, <2>4, <3>3 DEF Live
      <3> QED
        BY <3>1, <3>2, <3>3
    <2> QED
      BY <2>8, <2>9, <2>10 DEF Tallies
  <1> QED
    BY <1>6, <1>7

(* What a step does that updates a node. *)
GoodEdges(t) ==
  EdgeVisits(thread[t].node, {i \in Slots(thread[t].node) : heap[Here(t).children[i].node].visits > 0})
Updates(t, s, w, v, d, S) ==
  \/ /\ thread[t].at = "update" /\ Here(t).dirtyCounter > 0 /\ s.at = "true" /\ S = {thread[t].child}
     /\ w = Here(t).weight /\ v = Here(t).visits /\ d = Here(t).dirtyCounter + 1
  \/ /\ thread[t].at = "update" /\ ~(Here(t).dirtyCounter > 0) /\ s.at = "recompute" /\ S = {}
     /\ w = Here(t).weight /\ v = Here(t).visits /\ d = Here(t).dirtyCounter + 1 /\ s.completed = 1
  \/ /\ thread[t].at = "recompute" /\ s.at = "write" /\ S = {}
     /\ w = Here(t).weight /\ v = Here(t).visits /\ d = Here(t).dirtyCounter
     /\ s.completed = thread[t].completed /\ s.edges = GoodEdges(t)
  \/ /\ thread[t].at = "write" /\ s.at = "undirty" /\ S = {}
     /\ w = thread[t].edges /\ v = Here(t).visits + thread[t].completed /\ d = Here(t).dirtyCounter
     /\ s.completed = thread[t].completed
  \/ /\ thread[t].at = "undirty" /\ d <= 0 /\ s.at = "true" /\ S = {thread[t].child}
     /\ w = Here(t).weight /\ v = Here(t).visits /\ d = Here(t).dirtyCounter - thread[t].completed
  \/ /\ thread[t].at = "undirty" /\ ~(d <= 0) /\ s.at = "recompute" /\ S = {}
     /\ w = Here(t).weight /\ v = Here(t).visits /\ d = Here(t).dirtyCounter - thread[t].completed
     /\ s.completed = d
Completes(t, a, k) == thread' = [thread EXCEPT ![t] = [thread[t] EXCEPT !.at = a, !.completed = k]]
UpdateStep(t) == updateStatsAfterPlayout(t) \/ readChildren(t) \/ writeStats(t) \/ undirty(t)

LEMMA UpdateDoes ==
  ASSUME TypeOK, TreeInv, NEW t \in Threads, UpdateStep(t)
  PROVE  /\ thread[t].at \in Updating \cup {"update"} /\ InTable(thread[t].child) /\ thread[t].child \in Nodes
         /\ \E s, w, v, d, S :
              /\ Stays(t, s) /\ Tallies(thread[t].node, w, v, d, S) /\ Updates(t, s, w, v, d, S)
              /\ s.at # "true" => s.child = thread[t].child
  <1>1. /\ phase = "search" /\ UNCHANGED <<root, oldRoot, rootPos>> /\ OnTree(t)
        /\ thread[t].at \in Updating \cup {"update"}
    <2>1. SearchStep(t)
      BY DEF UpdateStep, SearchStep
    <2> QED
      BY <2>1, SearchFrame DEF UpdateStep, updateStatsAfterPlayout, readChildren, writeStats, undirty, At, OnTree, OffTree,
                               Updating
  <1>2. PICK n, c : n = thread[t].node /\ c = thread[t].child
    OBVIOUS
  <1>3. n \in Live /\ Here(t) = heap[n] /\ InTable(c) /\ c \in Nodes /\ c \in Live
    BY <1>1, <1>2, NodeOf, TableNode DEF Live, Here, ChildInv, InTable
  <1>4. TypeOK'
    BY UpdateTree DEF UpdateStep
  <1>5. PICK x \in Playouts : x = thread[t]
    BY ThreadRecord
  <1>6. ASSUME NEW s, thread' = [thread EXCEPT ![t] = s], s.node = x.node, s.path = x.path
        PROVE  Stays(t, s)
    <2>1. thread'[t] = s
      BY <1>6 DEF TypeOK
    <2>2. s \in Playouts
      BY <1>4, <2>1 DEF TypeOK
    <2> QED
      BY <1>1, <1>5, <1>6, <2>2 DEF Stays, Goes
  <1>7. ASSUME NEW d, heap' = DoneWithChild([heap EXCEPT ![n].dirtyCounter = d], t)
        PROVE  Tallies(n, heap[n].weight, heap[n].visits, d, {c})
    <2>1. PICK g : g = [heap EXCEPT ![n].dirtyCounter = d]
      OBVIOUS
    <2>2. heap' = [g EXCEPT ![c].virtualLosses = @ - 1]
      BY <1>2, <1>7, <2>1 DEF DoneWithChild
    <2> QED
      BY <1>3, <2>1, <2>2, DirtyHeap
  <1>8. ASSUME NEW d, heap' = [heap EXCEPT ![n].dirtyCounter = d]
        PROVE  Tallies(n, heap[n].weight, heap[n].visits, d, {})
    BY <1>3, <1>8, DirtyHeap
  <1>9. ASSUME NEW a, NEW k, Completes(t, a, k)
        PROVE  \E s : Stays(t, s) /\ s.at = a /\ s.completed = k /\ s.child = c
    <2> DEFINE s == [x EXCEPT !.at = a, !.completed = k]
    <2>1. s.at = a /\ s.completed = k /\ s.node = x.node /\ s.path = x.path /\ s.child = x.child
      BY DEF Playouts
    <2>2. thread' = [thread EXCEPT ![t] = s]
      BY <1>5, <1>9 DEF Completes
    <2> HIDE DEF s
    <2>3. Stays(t, s)
      BY <1>6, <2>1, <2>2
    <2> QED
      BY <1>2, <1>5, <2>1, <2>3
  <1>10. CASE updateStatsAfterPlayout(t)
    <2>1. PICK d : d = heap[n].dirtyCounter + 1
      OBVIOUS
    <2>2. CASE heap[n].dirtyCounter > 0
      <3>1. Become(t, Returns(t)) /\ heap' = DoneWithChild([heap EXCEPT ![n].dirtyCounter = d], t) /\ thread[t].at = "update"
        BY <1>2, <1>3, <1>10, <2>1, <2>2 DEF updateStatsAfterPlayout, At
      <3>2. PICK s : s = Returns(t) /\ Stays(t, s) /\ s.at = "true"
        BY <1>1, <3>1, StartsOver
      <3>3. Tallies(n, heap[n].weight, heap[n].visits, d, {c})
        BY <1>7, <3>1
      <3>4. Updates(t, s, heap[n].weight, heap[n].visits, d, {c})
        BY <1>2, <1>3, <2>1, <2>2, <3>1, <3>2 DEF Updates
      <3> QED
        BY <1>1, <1>2, <1>3, <3>2, <3>3, <3>4
    <2>3. CASE ~(heap[n].dirtyCounter > 0)
      <3>1. /\ thread' = [thread EXCEPT ![t] = [thread[t] EXCEPT !.at = "recompute", !.completed = 1]]
            /\ heap' = [heap EXCEPT ![n].dirtyCounter = d] /\ thread[t].at = "update"
        BY <1>2, <1>3, <1>10, <2>1, <2>3 DEF updateStatsAfterPlayout, At, Become
      <3>2. PICK s : Stays(t, s) /\ s.at = "recompute" /\ s.completed = 1 /\ s.child = c
        <4>1. Completes(t, "recompute", 1)
          BY <3>1 DEF Completes
        <4> QED
          BY <1>9, <4>1
      <3>3. Tallies(n, heap[n].weight, heap[n].visits, d, {})
        BY <1>8, <3>1
      <3>4. Updates(t, s, heap[n].weight, heap[n].visits, d, {})
        BY <1>2, <1>3, <2>1, <2>3, <3>1, <3>2 DEF Updates
      <3> QED
        BY <1>1, <1>2, <1>3, <3>2, <3>3, <3>4
    <2> QED
      BY <2>2, <2>3
  <1>11. CASE readChildren(t)
    <2>1. heap' = heap /\ thread[t].at = "recompute"
      BY <1>11 DEF readChildren, OnlyThread, At
    <2>2. PICK e : e = GoodEdges(t)
      OBVIOUS
    <2>3. thread' = [thread EXCEPT ![t] = [thread[t] EXCEPT !.at = "write", !.edges = e]]
      BY <1>11, <2>2 DEF readChildren, Become, GoodEdges
    <2> DEFINE s == [x EXCEPT !.at = "write", !.edges = e]
    <2>4. s.at = "write" /\ s.completed = x.completed /\ s.edges = e /\ s.node = x.node /\ s.path = x.path /\ s.child = x.child
      BY DEF Playouts
    <2>5. thread' = [thread EXCEPT ![t] = s]
      BY <1>5, <2>3
    <2> HIDE DEF s
    <2>6. Stays(t, s)
      BY <1>6, <2>4, <2>5
    <2>7. Tallies(n, heap[n].weight, heap[n].visits, heap[n].dirtyCounter, {})
      BY <1>3, <2>1, SameTallies
    <2>8. Updates(t, s, heap[n].weight, heap[n].visits, heap[n].dirtyCounter, {})
      BY <1>3, <1>5, <2>1, <2>2, <2>4 DEF Updates
    <2> QED
      BY <1>1, <1>2, <1>3, <1>5, <2>4, <2>6, <2>7, <2>8
  <1>12. CASE writeStats(t)
    <2>1. /\ Become(t, [thread[t] EXCEPT !.at = "undirty"]) /\ thread[t].at = "write"
          /\ heap' = [heap EXCEPT ![n].weight = thread[t].edges, ![n].visits = @ + thread[t].completed]
      BY <1>2, <1>12 DEF writeStats, At
    <2> DEFINE s == [x EXCEPT !.at = "undirty"]
    <2>2. s.at = "undirty" /\ s.completed = x.completed /\ s.node = x.node /\ s.path = x.path /\ s.child = x.child
      BY DEF Playouts
    <2>3. thread' = [thread EXCEPT ![t] = s]
      BY <1>5, <2>1 DEF Become
    <2> HIDE DEF s
    <2>4. Stays(t, s)
      BY <1>6, <2>2, <2>3
    <2>5. Tallies(n, thread[t].edges, heap[n].visits + thread[t].completed, heap[n].dirtyCounter, {})
      BY <1>3, <2>1, WeighHeap
    <2>6. Updates(t, s, thread[t].edges, heap[n].visits + thread[t].completed, heap[n].dirtyCounter, {})
      BY <1>3, <1>5, <2>1, <2>2 DEF Updates
    <2> QED
      BY <1>1, <1>2, <1>3, <1>5, <2>2, <2>4, <2>5, <2>6
  <1>13. CASE undirty(t)
    <2>1. PICK d : d = heap[n].dirtyCounter - thread[t].completed
      OBVIOUS
    <2>2. CASE d <= 0
      <3>1. Become(t, Returns(t)) /\ heap' = DoneWithChild([heap EXCEPT ![n].dirtyCounter = d], t) /\ thread[t].at = "undirty"
        BY <1>2, <1>3, <1>13, <2>1, <2>2 DEF undirty, At
      <3>2. PICK s : s = Returns(t) /\ Stays(t, s) /\ s.at = "true"
        BY <1>1, <3>1, StartsOver
      <3>3. Tallies(n, heap[n].weight, heap[n].visits, d, {c})
        BY <1>7, <3>1
      <3>4. Updates(t, s, heap[n].weight, heap[n].visits, d, {c})
        BY <1>2, <1>3, <2>1, <2>2, <3>1, <3>2 DEF Updates
      <3> QED
        BY <1>1, <1>2, <1>3, <3>2, <3>3, <3>4
    <2>3. CASE ~(d <= 0)
      <3>1. /\ thread' = [thread EXCEPT ![t] = [thread[t] EXCEPT !.at = "recompute", !.completed = d]]
            /\ heap' = [heap EXCEPT ![n].dirtyCounter = d] /\ thread[t].at = "undirty"
        BY <1>2, <1>3, <1>13, <2>1, <2>3 DEF undirty, At, Become
      <3>2. PICK s : Stays(t, s) /\ s.at = "recompute" /\ s.completed = d /\ s.child = c
        <4>1. Completes(t, "recompute", d)
          BY <3>1 DEF Completes
        <4> QED
          BY <1>9, <4>1
      <3>3. Tallies(n, heap[n].weight, heap[n].visits, d, {})
        BY <1>8, <3>1
      <3>4. Updates(t, s, heap[n].weight, heap[n].visits, d, {})
        BY <1>2, <1>3, <2>1, <2>3, <3>1, <3>2 DEF Updates
      <3> QED
        BY <1>1, <1>2, <1>3, <3>2, <3>3, <3>4
    <2> QED
      BY <2>2, <2>3
  <1> QED
    BY <1>10, <1>11, <1>12, <1>13 DEF UpdateStep

(* The edges to the children that are visited make up all visits. *)
LEMMA GoodEdgesAll ==
  ASSUME TypeOK, NEW n \in Live, NEW good \in SUBSET Slots(n),
         \A i \in Slots(n) \ good : ~(heap[n].children[i].edgeVisits > 0)
  PROVE  EdgeVisits(n, good) = Edges(n) /\ Edges(n) \in Nat
  <1>1. PICK c \in Seq(Slot) : c = heap[n].children
    BY LiveNode, SameHeap, NodeFields DEF Live, Slot
  <1> DEFINE f == [i \in DOMAIN c |-> c[i].edgeVisits]
             g == [i \in good |-> c[i].edgeVisits]
  <1>2. /\ EdgesIn(c) = Total(f, DOMAIN c) /\ IsFiniteSet(DOMAIN c) /\ Slots(n) = DOMAIN c
        /\ \A i \in DOMAIN c : c[i].edgeVisits \in Nat
    BY <1>1, EdgesTotalIn DEF Slots
  <1>3. EdgeVisits(n, good) = Total(g, good)
    BY <1>1, EdgesTotal
  <1>4. /\ \A i \in DOMAIN c : f[i] \in Nat
        /\ \A i \in DOMAIN c \ good : f[i] = 0
        /\ good \in SUBSET DOMAIN c
        /\ \A i \in good : g[i] = f[i]
    BY <1>1, <1>2
  <1>5. IsFiniteSet(good)
    BY <1>2, <1>4, FS_Subset
  <1> HIDE DEF f, g
  <1>6. Total(f, good) = Total(f, DOMAIN c)
    BY <1>2, <1>4, TotalWithZeros
  <1>7. Total(g, good) = Total(f, good)
    BY <1>4, <1>5, TotalSame
  <1>8. Edges(n) \in Nat
    BY <1>1, EdgesInNat DEF Edges
  <1> QED
    BY <1>1, <1>2, <1>3, <1>6, <1>7, <1>8 DEF Edges

LEMMA UpdateBook ==
  ASSUME TypeOK, TreeInv, BookInv, NEW t \in Threads, UpdateStep(t)
  PROVE  BookInv'
  <1>1. thread[t].at \in Updating \cup {"update"} /\ InTable(thread[t].child)
    BY UpdateDoes
  <1>2. PICK n, k, e : n = thread[t].node /\ k = thread[t].completed /\ e = thread[t].edges
    OBVIOUS
  <1>3. PICK s, w, v, d, S : Stays(t, s) /\ Tallies(n, w, v, d, S) /\ Updates(t, s, w, v, d, S)
    BY <1>2, UpdateDoes
  <1>4. /\ n \in Live /\ n \in Nodes /\ Here(t) = heap[n] /\ heap[n].visits \in Nat /\ heap[n].dirtyCounter \in Int
        /\ OnTree(t) /\ k \in Nat /\ e \in Nat /\ s \in Playouts
        /\ UNCHANGED <<root, oldRoot, rootPos>> /\ s.node = n /\ thread' = [thread EXCEPT ![t] = s]
    BY <1>2, <1>3, NodeOf, ThreadFields DEF Live, Here, Stays, Goes
  <1>5. Evaluated(n) /\ Updated(n) /\ Weighed(n) /\ Added(n) /\ Visited(n)
    BY <1>4 DEF BookInv, Balanced
  <1>6. Moved(t, s, n)
    BY <1>4, StakesMove
  <1>7. PICK x, z : x = heap[n] /\ z = heap'[n]
    OBVIOUS
  <1>8. /\ z.live = x.live /\ z.key = x.key /\ z.pos = x.pos /\ z.nnOutput = x.nnOutput /\ z.state = x.state
        /\ z.children = x.children /\ z.weight = w /\ z.visits = v /\ z.dirtyCounter = d
    BY <1>3, <1>7 DEF Tallies, SameBones
  <1>9. Edges(n)' = Edges(n) /\ Edges(n) \in Nat
    <2>1. Slots(n) \in SUBSET Slots(n)
      OBVIOUS
    <2> QED
      BY <1>4, <1>7, <1>8, <2>1, GoodEdgesAll DEF Edges
  <1>10. t \in UpdatesOf(n) \cup UpdatersOf(n) /\ (t \in UpdatesOf(n) <=> thread[t].at = "update")
         /\ (t \in UpdatersOf(n) <=> thread[t].at \in Updating)
    BY <1>1, <1>2 DEF UpdatesOf, UpdatersOf
  <1>11. x.state >= EXPANDED0
    BY <1>5, <1>7, <1>10 DEF Updated
  <1>12. EvaluatorsOf(n) = {} /\ x.nnOutput /\ x.visits > 0 /\ ~LeafNode(n)
    BY <1>5, <1>7, <1>11 DEF Evaluated, UNEVALUATED, EVALUATING, EXPANDED0
  <1>13. EvaluatorsOf(n)' = {}
    <2>1. s.at \notin Evaluators
      BY <1>3 DEF Updates, Evaluators
    <2> QED
      BY <1>6, <1>12, <2>1 DEF Moved, Joins
  <1>14. LeafNode(n)' = LeafNode(n) /\ Counted(n)' = Counted(n) /\ Visited(n) = Visited(n)
    BY <1>4, <1>7, <1>8 DEF LeafNode, Counted, Children, MovesOf
  <1>15. v \in Nat /\ v >= x.visits
    BY <1>2, <1>3, <1>4, <1>7 DEF Updates
  <1>16. Evaluated(n)'
    BY <1>4, <1>7, <1>8, <1>11, <1>12, <1>13, <1>14, <1>15 DEF Evaluated, EXPANDED0
  <1>17. PICK U, V : U = UpdatesOf(n) /\ V = UpdatersOf(n)
    OBVIOUS
  <1>18. /\ UpdatesOf(n)' = Joins(U, t, s.at = "update") /\ UpdatersOf(n)' = Joins(V, t, s.at \in Updating)
         /\ thread'[t] = s /\ \A u \in Threads \ {t} : thread'[u] = thread[u]
    BY <1>4, <1>6, <1>17 DEF Moved
  <1>19. U \subseteq Threads /\ V \subseteq Threads /\ s.at # "update"
    BY <1>3, <1>17 DEF Updates, UpdatesOf, UpdatersOf
  <1>20. IsFiniteSet(U) /\ Cardinality(U) \in Nat
    BY <1>19, ThreadsAssumption, FS_Subset, FS_CardinalityType
  <1>21. Updated(n)' /\ Weighed(n)' /\ Added(n)'
    <2>1. CASE thread[t].at = "update"
      <3>1. t \in U /\ t \notin V /\ Cardinality(U \ {t}) = Cardinality(U) - 1 /\ UpdatesOf(n)' = U \ {t}
        <4>1. t \in U /\ t \notin V
          BY <1>10, <1>17, <2>1 DEF Updating
        <4>2. Cardinality(U \ {t}) = Cardinality(U) - 1
          BY <1>20, <4>1, FS_RemoveElement
        <4> QED
          BY <1>18, <1>19, <4>1, <4>2 DEF Joins
      <3>2. d = x.dirtyCounter + 1 /\ v = x.visits /\ w = x.weight
        BY <1>3, <1>4, <1>7, <2>1 DEF Updates, Updating
      <3>3. Seen(n)' = Seen(n)
        BY <1>4, <1>7, <1>8, <1>17, <1>20, <3>1, <3>2 DEF Seen
      <3>4. CASE x.dirtyCounter > 0
        <4>1. s.at = "true"
          BY <1>3, <1>4, <1>7, <2>1, <3>4 DEF Updates, Updating
        <4>2. UpdatersOf(n)' = V /\ \A u \in V : thread'[u] = thread[u]
          BY <1>18, <1>19, <3>1, <4>1 DEF Joins, Updating
        <4>3. V # {} /\ \A u \in V : thread[u].completed \in 1 .. x.dirtyCounter
          BY <1>5, <1>7, <1>17, <3>4 DEF Updated
        <4>4. Updated(n)'
          BY <1>4, <1>5, <1>7, <1>8, <1>11, <1>17, <3>2, <4>2, <4>3 DEF Updated
        <4>5. Weighed(n)'
          BY <1>4, <1>7, <1>8, <3>2, <4>2, <4>3 DEF Weighed
        <4>6. Added(n)'
          BY <1>5, <1>9, <1>14, <1>17, <3>3, <4>2 DEF Added
        <4> QED
          BY <4>4, <4>5, <4>6
      <3>5. CASE ~(x.dirtyCounter > 0)
        <4>1. s.at = "recompute" /\ s.completed = 1
          BY <1>3, <1>4, <1>7, <2>1, <3>5 DEF Updates, Updating
        <4>2. V = {} /\ x.dirtyCounter = 0
          BY <1>4, <1>5, <1>7, <1>17, <3>5 DEF Updated
        <4>3. UpdatersOf(n)' = {t}
          BY <1>18, <4>1, <4>2 DEF Joins, Updating
        <4>4. Updated(n)'
          BY <1>7, <1>8, <1>11, <1>18, <3>2, <4>1, <4>2, <4>3 DEF Updated
        <4>5. Weighed(n)'
          BY <1>18, <4>1, <4>3 DEF Weighed
        <4>6. Added(n)'
          BY <1>5, <1>9, <1>14, <1>17, <1>18, <3>3, <4>1, <4>2, <4>3 DEF Added
        <4> QED
          BY <4>4, <4>5, <4>6
      <3> QED
        BY <3>4, <3>5
    <2>2. CASE thread[t].at \in Updating
      <3>1. V = {t} /\ UpdatesOf(n)' = U /\ k \in 1 .. x.dirtyCounter
        <4>1. t \in V /\ t \notin U
          BY <1>10, <1>17, <2>2 DEF Updating
        <4>2. V = {t} /\ k \in 1 .. x.dirtyCounter
          BY <1>2, <1>5, <1>7, <1>17, <4>1 DEF Updated
        <4> QED
          BY <1>18, <1>19, <4>1, <4>2 DEF Joins
      <3>2. CASE thread[t].at = "recompute"
        <4>1. /\ s.at = "write" /\ w = x.weight /\ v = x.visits /\ d = x.dirtyCounter /\ s.completed = k
              /\ s.edges = GoodEdges(t)
          BY <1>2, <1>3, <1>4, <1>7, <3>2, SMTT(30) DEF Updates
        <4>2. s.edges = Edges(n)
          <5>1. PICK good \in SUBSET Slots(n) : good = {i \in Slots(n) : heap[heap[n].children[i].node].visits > 0}
            OBVIOUS
          <5>2. \A i \in Slots(n) \ good : ~(heap[n].children[i].edgeVisits > 0)
            BY <1>5, <5>1 DEF Visited, Children
          <5>3. EdgeVisits(n, good) = Edges(n)
            BY <1>4, <5>2, GoodEdgesAll
          <5> QED
            BY <1>2, <1>4, <4>1, <5>1, <5>3, Zenon DEF GoodEdges
        <4>3. UpdatersOf(n)' = {t}
          BY <1>18, <3>1, <4>1 DEF Joins, Updating
        <4>4. Updated(n)'
          BY <1>7, <1>8, <1>11, <1>18, <3>1, <4>1, <4>3 DEF Updated
        <4>5. Weighed(n)'
          BY <1>9, <1>18, <4>1, <4>2, <4>3 DEF Weighed
        <4>6. Added(n)'
          <5>1. Seen(n)' = Seen(n)
            BY <1>7, <1>8, <1>17, <3>1, <4>1 DEF Seen
          <5>2. Counted(n) => Seen(n) = 1 + Edges(n)
            BY <1>5, <1>17, <3>1, <3>2 DEF Added
          <5> QED
            BY <1>9, <1>14, <1>18, <4>1, <4>3, <5>1, <5>2 DEF Added
        <4> QED
          BY <4>4, <4>5, <4>6
      <3>3. CASE thread[t].at = "write"
        <4>1. /\ s.at = "undirty" /\ w = e /\ v = x.visits + k /\ d = x.dirtyCounter /\ s.completed = k
          BY <1>2, <1>3, <1>4, <1>7, <3>3 DEF Updates
        <4>2. UpdatersOf(n)' = {t}
          BY <1>18, <3>1, <4>1 DEF Joins, Updating
        <4>3. Updated(n)'
          BY <1>7, <1>8, <1>11, <1>18, <3>1, <4>1, <4>2 DEF Updated
        <4>4. Weighed(n)'
          <5>1. U = {} /\ k = x.dirtyCounter => e = Edges(n)
            BY <1>2, <1>5, <1>7, <1>17, <3>1, <3>3 DEF Weighed
          <5> QED
            BY <1>7, <1>8, <1>9, <1>18, <3>1, <4>1, <4>2, <5>1 DEF Weighed
        <4>5. Added(n)'
          <5>1. Seen(n)' = Seen(n) + k
            BY <1>4, <1>7, <1>8, <1>17, <1>20, <3>1, <4>1 DEF Seen
          <5>2. Counted(n) => Seen(n) = 1 + Edges(n)
            BY <1>5, <1>17, <3>1, <3>3 DEF Added
          <5> QED
            BY <1>9, <1>14, <1>18, <4>1, <4>2, <5>1, <5>2 DEF Added
        <4> QED
          BY <4>3, <4>4, <4>5
      <3>4. CASE thread[t].at = "undirty"
        <4>1. w = x.weight /\ v = x.visits /\ d = x.dirtyCounter - k
          BY <1>2, <1>3, <1>4, <1>7, <3>4 DEF Updates
        <4>2. Seen(n)' = Seen(n) - k /\ Seen(n) \in Int
          BY <1>4, <1>7, <1>8, <1>17, <1>20, <3>1, <4>1 DEF Seen
        <4>3. Counted(n) => Seen(n) = 1 + Edges(n) + k
          BY <1>2, <1>5, <1>17, <3>1, <3>4 DEF Added
        <4>4. CASE d <= 0
          <5>1. s.at = "true" /\ d = 0 /\ k = x.dirtyCounter
            BY <1>3, <1>4, <1>7, <3>1, <3>4, <4>1, <4>4 DEF Updates
          <5>2. UpdatersOf(n)' = {}
            BY <1>18, <3>1, <5>1 DEF Joins, Updating
          <5>3. Updated(n)'
            BY <1>7, <1>8, <1>11, <5>1, <5>2 DEF Updated
          <5>4. Weighed(n)'
            <6>1. U = {} => x.weight = Edges(n)
              BY <1>2, <1>5, <1>7, <1>17, <3>1, <3>4, <5>1 DEF Weighed
            <6> QED
              BY <1>7, <1>8, <1>9, <3>1, <4>1, <5>2, <6>1 DEF Weighed
          <5>5. Added(n)'
            BY <1>4, <1>9, <1>14, <4>2, <4>3, <5>2 DEF Added
          <5> QED
            BY <5>3, <5>4, <5>5
        <4>5. CASE ~(d <= 0)
          <5>1. s.at = "recompute" /\ s.completed = d
            BY <1>3, <1>4, <1>7, <3>1, <3>4, <4>1, <4>5 DEF Updates
          <5>2. UpdatersOf(n)' = {t}
            BY <1>18, <3>1, <5>1 DEF Joins, Updating
          <5>3. Updated(n)'
            BY <1>4, <1>7, <1>8, <1>11, <1>18, <3>1, <4>1, <4>5, <5>1, <5>2 DEF Updated
          <5>4. Weighed(n)'
            BY <1>18, <5>1, <5>2 DEF Weighed
          <5>5. Added(n)'
            BY <1>4, <1>9, <1>14, <1>18, <4>2, <4>3, <5>1, <5>2 DEF Added
          <5> QED
            BY <5>3, <5>4, <5>5
        <4> QED
          BY <4>4, <4>5
      <3> QED
        BY <2>2, <3>2, <3>3, <3>4 DEF Updating
    <2> QED
      BY <1>1, <2>1, <2>2
  <1>22. Balanced(n)'
    BY <1>16, <1>21 DEF Balanced
  <1>23. \A m \in Live \ {n} : SameButLosses(heap[m], heap'[m])
    BY <1>3 DEF Tallies, Live
  <1>24. Visited(n)'
    <2>1. \A m \in Live : heap[m].visits > 0 => heap'[m].visits > 0
      BY <1>4, <1>7, <1>8, <1>15, <1>23 DEF SameButLosses
    <2> QED
      BY <1>4, <1>5, <1>7, <1>8, <2>1, VisitedKeeps
  <1>25. Expanding(t)'
    BY <1>4, <1>7, <1>8, <1>12, <1>14, <1>15, <1>18 DEF Expanding
  <1>26. n \in Live' /\ Live \subseteq Live' /\ Live' \subseteq Live \cup {n}
    BY <1>3, <1>4, <1>7, <1>8 DEF Tallies, SameButLosses, Live
  <1>27. n \in Live => /\ heap[n].visits > 0 => heap'[n].visits > 0
                       /\ heap'[n].key = heap[n].key /\ heap'[n].pos = heap[n].pos
    BY <1>4, <1>7, <1>8, <1>15
  <1>28. (thread[t].at \in Staked => thread[t].node = n) /\ (s.at \in Staked => s.node = n)
    BY <1>2, <1>4
  <1> QED
    BY <1>4, <1>22, <1>23, <1>24, <1>25, <1>26, <1>27, <1>28, OneAccount

(* Every step of a search thread keeps the books. *)
LEMMA SearchStepBook ==
  ASSUME TypeOK, TreeInv, BookInv, NEW t \in Threads, SearchStep(t)
  PROVE  BookInv'
  BY LoopBook, EvaluateBook, DescendBook, SelectBook, GrowBook, AllocateBook, InsertBook, EndOfEdgeBook, PushBook,
     ReturnBook, UpdateBook
  DEF SearchStep, EvaluateStep, UpdateStep

(* The steps of the user's thread: nobody is at work on a node.            *)
NobodyOn == \A t \in Threads : thread[t].at \in OffTree

LEMMA NoStakes ==
  ASSUME NobodyOn, NEW n
  PROVE  EvaluatorsOf(n) = {} /\ UpdatesOf(n) = {} /\ UpdatersOf(n) = {}
  BY DEF NobodyOn, OffTree, EvaluatorsOf, UpdatesOf, UpdatersOf, Evaluators, Updating

LEMMA NoStakesAfter ==
  ASSUME NobodyOn', NEW n
  PROVE  EvaluatorsOf(n)' = {} /\ UpdatesOf(n)' = {} /\ UpdatersOf(n)' = {}
  BY DEF NobodyOn, OffTree, EvaluatorsOf, UpdatesOf, UpdatersOf, Evaluators, Updating

LEMMA UserBook ==
  ASSUME BookInv, NobodyOn, NobodyOn',
         \A n \in Live' : (Balanced(n)' \/ \E m \in Live : SameBook(m, n)) /\ Visited(n)'
  PROVE  BookInv'
  <1>1. ASSUME NEW n \in Live', NEW m \in Live, SameBook(m, n) PROVE Balanced(n)'
    <2>1. SameStakes(m, n)
      BY NoStakes, NoStakesAfter DEF SameStakes
    <2>2. Balanced(m)
      BY DEF BookInv
    <2> QED
      BY <1>1, <2>1, <2>2, BalanceKeeps
  <1>2. ASSUME NEW t \in Threads PROVE Expanding(t)'
    BY DEF NobodyOn, Expanding, OnTree, OffTree
  <1> QED
    BY <1>1, <1>2 DEF BookInv

LEMMA SameBooks ==
  ASSUME BookInv, UNCHANGED <<heap, thread, root, oldRoot, rootPos>>
  PROVE  BookInv'
  <1>1. Live' = Live
    BY DEF Live
  <1>2. ASSUME NEW n \in Live PROVE Balanced(n)' /\ Visited(n)'
    <2>1. SameBook(n, n)
      BY BookKeeps DEF SameButLosses
    <2>2. SameStakes(n, n)
      BY DEF SameStakes, EvaluatorsOf, UpdatesOf, UpdatersOf
    <2>3. Balanced(n) /\ Visited(n)
      BY DEF BookInv
    <2>4. Visited(n)'
      BY <2>3 DEF Visited, Slots, Children
    <2> QED
      BY <2>1, <2>2, <2>3, <2>4, BalanceKeeps
  <1>3. ASSUME NEW t \in Threads PROVE Expanding(t)'
    <2>1. Expanding(t)
      BY DEF BookInv
    <2> QED
      BY <2>1 DEF Expanding, OnTree, LeafNode
  <1> QED
    BY <1>1, <1>2, <1>3 DEF BookInv

LEMMA FilterBook ==
  ASSUME TypeOK, TreeInv, BookInv, NobodyOn, NobodyOn', phase = "idle", root # NoNode,
         NEW good \in SUBSET Slots(root), good # Slots(root), FilterRoot(good), UNCHANGED <<root, oldRoot, rootPos>>
  PROVE  BookInv'
  <1>0. PICK order : \E k \in Nat, d \in Seq(Slot), y \in SearchNodes : Filtered(k, order, d, y)
    BY FilterDoes
  <1>1. PICK k \in Nat, d \in Seq(Slot), y \in SearchNodes : Filtered(k, order, d, y)
    BY <1>0
  <1>2. root \in Nodes /\ root \in Live /\ heap \in Heaps /\ heap[root].key = RootKey
    BY SameHeap DEF TreeInv, RootInv, TypeOK, Live
  <1>3. heap'[root] = y /\ \A n \in Nodes \ {root} : heap'[n] = heap[n]
    BY <1>1, <1>2 DEF Filtered, Heaps
  <1>4. Live' = Live /\ \A n \in Live : n # root => heap'[n] = heap[n]
    BY <1>1, <1>2, <1>3 DEF Live, Filtered
  <1>5. heap[root].nnOutput /\ heap[root].dirtyCounter = 0
    <2>1. PICK i \in Slots(root) : i \notin good
      OBVIOUS
    <2>2. heap[root].state >= EXPANDED0
      BY <1>2, <2>1, ParentVisited DEF Slots
    <2>3. Evaluated(root) /\ Updated(root)
      BY <1>2 DEF BookInv, Balanced
    <2> QED
      BY <2>2, <2>3, NoStakes DEF Evaluated, Updated, UNEVALUATED, EXPANDED0
  <1>6. Balanced(root)'
    <2>1. EvaluatorsOf(root)' = {} /\ UpdatesOf(root)' = {} /\ UpdatersOf(root)' = {}
      BY NoStakesAfter
    <2>2. /\ heap'[root].nnOutput /\ heap'[root].dirtyCounter = 0 /\ heap'[root].state >= EXPANDED0
          /\ heap'[root].key = RootKey /\ Edges(root)' = EdgesIn(d) /\ EdgesIn(d) \in Nat
          /\ heap'[root].visits = EdgesIn(d) + 1 /\ heap'[root].weight = EdgesIn(d)
      <3>1. root' = root
        OBVIOUS
      <3> QED
        BY <1>1, <1>2, <1>3, <1>5, <3>1 DEF Filtered, Edges
    <2>3. root' = root
      OBVIOUS
    <2>4. Evaluated(root)' /\ Updated(root)' /\ Weighed(root)'
      BY <2>1, <2>2, <2>3 DEF Evaluated, Updated, Weighed, LeafNode
    <2>5. Seen(root)' = 1 + Edges(root)'
      <3>1. Cardinality({}) = 0
        BY FS_EmptySet
      <3> QED
        BY <2>1, <2>2, <2>3, <3>1 DEF Seen
    <2>6. Added(root)'
      BY <2>1, <2>3, <2>5 DEF Added
    <2> QED
      BY <2>4, <2>6 DEF Balanced
  <1>7. \A m \in Live : heap[m].visits > 0 => heap'[m].visits > 0
    BY <1>1, <1>3, <1>4 DEF Filtered
  <1>8. ASSUME NEW n \in Live, n # root PROVE SameBook(n, n) /\ Visited(n)'
    <2>1. SameBook(n, n)
      BY <1>4, <1>8, BookKeeps DEF SameButLosses
    <2>2. Visited(n) /\ heap'[n].children = heap[n].children
      BY <1>4, <1>8 DEF BookInv
    <2> QED
      BY <1>7, <2>1, <2>2, VisitedKeeps
  <1>9. Visited(root)'
    <2>1. ASSUME NEW i \in 1 .. k, d[i].edgeVisits > 0 PROVE heap'[d[i].node].visits > 0
      <3>1. order[i] \in Slots(root) /\ d[i] = Children(root)[order[i]]
        BY <1>1 DEF Filtered, Children
      <3>2. heap[d[i].node].visits > 0
        BY <1>2, <2>1, <3>1 DEF BookInv, Visited
      <3>3. d[i].node \in Live
        BY <1>2, <3>1, ChildSlot DEF InTable, Children
      <3> QED
        BY <1>7, <3>2, <3>3
    <2>2. root' = root /\ Children(root)' = d /\ Slots(root)' = 1 .. k
      BY <1>1, <1>3 DEF Filtered, Children, Slots
    <2> QED
      BY <2>1, <2>2 DEF Visited
  <1>10. ASSUME NEW n \in Live' PROVE (Balanced(n)' \/ \E m \in Live : SameBook(m, n)) /\ Visited(n)'
    <2>1. CASE n = root
      <3>1. root' = root
        OBVIOUS
      <3> QED
        BY <1>6, <1>9, <2>1, <3>1
    <2>2. CASE n # root
      BY <1>4, <1>8, <2>2
    <2> QED
      BY <2>1, <2>2
  <1> QED
    BY <1>10, UserBook

LEMMA BeginSearchBook ==
  ASSUME TypeOK, TreeInv, BookInv, beginSearch
  PROVE  BookInv'
  <1>1. phase = "idle" /\ oldRoot = NoNode /\ UNCHANGED <<oldRoot, rootPos>> /\ heap \in Heaps /\ rootPos \in Positions
    BY SameHeap DEF beginSearch, TreeInv, PhaseInv, TypeOK
  <1>2. NobodyOn
    BY <1>1, NoThreads DEF NobodyOn, OffTree
  <1>3. ASSUME StartThreads PROVE NobodyOn'
    BY <1>3, StartedThreads DEF NobodyOn, OffTree
  <1>4. CASE root = NoNode
    <2>1. HeapHasRoom /\ StartThreads /\ root' = Address /\ heap' = [heap EXCEPT ![Address] = SearchNode(RootKey, rootPos)]
      BY <1>4 DEF beginSearch
    <2>2. PICK a \in Nodes : a = Address /\ a \notin Live
      BY <2>1, RoomForNode
    <2>3. /\ heap'[a] = SearchNode(RootKey, rootPos) /\ \A k \in Nodes \ {a} : heap'[k] = heap[k]
          /\ root' = a
      BY <1>1, <2>1, <2>2 DEF Heaps
    <2>4. Live' = Live \cup {a} /\ \A k \in Live : heap'[k] = heap[k]
      BY <2>2, <2>3 DEF Live, SearchNode
    <2>5. Balanced(a)' /\ Visited(a)'
      <3>1. EvaluatorsOf(a)' = {} /\ UpdatesOf(a)' = {} /\ UpdatersOf(a)' = {}
        BY <1>3, <2>1, NoStakesAfter
      <3>2. /\ ~heap'[a].nnOutput /\ heap'[a].state = UNEVALUATED /\ heap'[a].children = <<>> /\ heap'[a].visits = 0
            /\ heap'[a].weight = 0 /\ heap'[a].dirtyCounter = 0
        BY <2>3 DEF SearchNode
      <3> QED
        BY <3>1, <3>2, FreshAccount
    <2>6. ASSUME NEW n \in Live PROVE SameBook(n, n) /\ Visited(n)'
      <3>1. heap'[n] = heap[n] /\ n # root /\ n # root'
        BY <1>4, <2>2, <2>3, <2>4 DEF Live, Nodes, NoNode
      <3>2. SameBook(n, n)
        BY <1>1, <3>1 DEF SameBook, LeafNode, Edges, Counted, Children, MovesOf
      <3>3. Visited(n)
        BY DEF BookInv
      <3> QED
        BY <2>4, <3>1, <3>2, <3>3, VisitedKeeps
    <2> QED
      BY <1>2, <1>3, <2>1, <2>4, <2>5, <2>6, UserBook
  <1>5. CASE root # NoNode
    <2> DEFINE good == {i \in Slots(root) : heap[root].children[i].move \in RootMoves[rootPos]}
    <2>1. /\ root' = root /\ good \in SUBSET Slots(root)
          /\ IF good = Slots(root)
             THEN StartThreads /\ UNCHANGED <<heap, markVars>>
             ELSE FilterRoot(good) /\ StartWalk /\ UNCHANGED <<playouts, shouldStopNow, thread>>
      BY <1>5 DEF beginSearch
    <2> HIDE DEF good
    <2>2. CASE good = Slots(root)
      <3>1. heap' = heap /\ NobodyOn'
        BY <1>3, <2>1, <2>2
      <3>2. Live' = Live
        BY <3>1 DEF Live
      <3>3. ASSUME NEW n \in Live PROVE SameBook(n, n) /\ Visited(n)'
        <4>1. SameBook(n, n)
          BY <1>1, <2>1, <3>1, BookKeeps DEF SameButLosses
        <4>2. Visited(n)
          BY DEF BookInv
        <4> QED
          BY <3>1, <4>1, <4>2 DEF Visited, Slots, Children
      <3> QED
        BY <1>2, <3>1, <3>2, <3>3, UserBook
    <2>3. CASE good # Slots(root)
      <3>1. FilterRoot(good) /\ UNCHANGED thread
        BY <2>1, <2>3
      <3>2. NobodyOn'
        BY <1>2, <3>1 DEF NobodyOn
      <3> QED
        BY <1>1, <1>2, <1>5, <2>1, <2>3, <3>1, <3>2, FilterBook
    <2> QED
      BY <2>2, <2>3
  <1> QED
    BY <1>4, <1>5

LEMMA PromoteBook ==
  ASSUME TypeOK, TreeInv, BookInv, phase = "idle", UNCHANGED thread, rootPos \in Positions, rootPos' \in Positions,
         root \in Live, NEW c \in Live, heap[c].key # RootKey, heap[c].nnOutput,
         heap[c].pos = rootPos', promote(c)
  PROVE  BookInv'
  <1>1. oldRoot = NoNode /\ heap \in Heaps /\ heap[root].key = RootKey
    BY SameHeap DEF TreeInv, PhaseInv, RootInv, Live, Nodes, NoNode
  <1>2. NobodyOn
    BY NoThreads DEF NobodyOn, OffTree
  <1>3. NobodyOn'
    BY <1>2 DEF NobodyOn
  <1>4. HeapHasRoom /\ heap' = [heap EXCEPT ![Address] = [heap[c] EXCEPT !.key = RootKey]]
        /\ root' = Address /\ oldRoot' = root
    BY DEF promote
  <1>5. PICK a \in Nodes : a = Address /\ a \notin Live
    BY <1>4, RoomForNode
  <1>6. heap'[a] = [heap[c] EXCEPT !.key = RootKey] /\ \A k \in Nodes \ {a} : heap'[k] = heap[k]
    BY <1>1, <1>4, <1>5 DEF Heaps
  <1>7. PICK x \in SearchNodes : x = heap[c]
    BY <1>1, LiveNode DEF Live
  <1>8. /\ heap'[a].key = RootKey /\ heap'[a].live = x.live /\ heap'[a].pos = x.pos /\ heap'[a].nnOutput = x.nnOutput
        /\ heap'[a].state = x.state /\ heap'[a].children = x.children /\ heap'[a].visits = x.visits
        /\ heap'[a].weight = x.weight /\ heap'[a].dirtyCounter = x.dirtyCounter
    BY <1>6, <1>7 DEF SearchNodes
  <1>9. Live' = Live \cup {a} /\ \A k \in Live : heap'[k] = heap[k]
    <2>1. x.live
      BY NodeFields
    <2> QED
      BY <1>5, <1>6, <1>8, <2>1, ZenonT(60) DEF Live
  <1>10. SameBook(c, a)
    <2>1. ~LeafNode(c)
      BY DEF BookInv, Balanced, Evaluated
    <2>2. ~LeafNode(a)'
      BY <1>4, <1>5, <1>8 DEF LeafNode
    <2>3. Edges(a)' = Edges(c)
      BY <1>5, <1>7, <1>8 DEF Edges
    <2>4. MovesOf(a)' \subseteq MovesOf(c)
      <3>1. MovesOf(a)' = RootMoves[rootPos']
        BY <1>4, <1>5 DEF MovesOf
      <3>2. MovesOf(c) = DOMAIN Play[rootPos']
        BY <1>1 DEF MovesOf
      <3> QED
        BY <3>1, <3>2, GameAssumption
    <2>5. c # oldRoot
      BY <1>1 DEF Live, Nodes, NoNode
    <2>6. Counted(a)' => Counted(c)
      BY <1>7, <1>8, <2>4, <2>5 DEF Counted, Children
    <2> QED
      <3>1. LeafNode(a)' = LeafNode(c)
        BY <2>1, <2>2 DEF LeafNode
      <3> QED
        BY <1>7, <1>8, <2>3, <2>6, <3>1 DEF SameBook
  <1>11. ASSUME NEW n \in Live PROVE SameBook(n, n)
    <2>1. heap'[n] = heap[n] /\ n # root'
      BY <1>4, <1>5, <1>9
    <2>2. Counted(n)' => Counted(n)
      <3>1. CASE n = root
        BY <1>4, <3>1 DEF Counted
      <3>2. CASE n # root
        <4>1. MovesOf(n)' = MovesOf(n) /\ n # oldRoot
          BY <1>1, <2>1, <3>2 DEF MovesOf, Live, Nodes, NoNode
        <4> QED
          BY <2>1, <4>1 DEF Counted, Children
      <3> QED
        BY <3>1, <3>2
    <2> QED
      BY <2>1, <2>2 DEF SameBook, LeafNode, Edges
  <1>12. ASSUME NEW n \in Live PROVE Visited(n)'
    <2>1. Visited(n)
      BY DEF BookInv
    <2> QED
      BY <1>9, <2>1, VisitedKeeps
  <1>13. Visited(a)'
    <2>1. ASSUME NEW i \in DOMAIN x.children, x.children[i].edgeVisits > 0 PROVE heap'[x.children[i].node].visits > 0
      <3>1. i \in Slots(c) /\ x.children[i] = Children(c)[i]
        BY <1>7 DEF Slots, Children
      <3>2. heap[x.children[i].node].visits > 0
        BY <2>1, <3>1 DEF BookInv, Visited
      <3>3. x.children[i].node \in Live
        BY <3>1, ChildSlot DEF InTable, Children
      <3> QED
        BY <1>9, <3>2, <3>3
    <2> QED
      BY <1>8, <2>1 DEF Visited, Slots, Children
  <1> QED
    BY <1>2, <1>3, <1>9, <1>10, <1>11, <1>12, <1>13, UserBook

LEMMA MakeMoveBook ==
  ASSUME TypeOK, TreeInv, BookInv, NEW m \in DOMAIN Play[rootPos], makeMove(m)
  PROVE  BookInv'
  <1>1. /\ phase = "idle" /\ UNCHANGED thread /\ rootPos \in Positions
        /\ rootPos' = Play[rootPos][m] /\ rootPos' \in Positions
    BY GameAssumption DEF makeMove, TypeOK
  <1>2. CASE clearSearch
    <2>1. Live' = {}
      BY <1>2 DEF clearSearch, Live, Free
    <2>2. NobodyOn /\ NobodyOn'
      BY <1>1, NoThreads DEF NobodyOn, OffTree
    <2> QED
      BY <2>1, <2>2, UserBook
  <1>3. CASE ~clearSearch
    <2>1. /\ root \in Live
          /\ \E c \in Live : /\ heap[c].key # RootKey /\ heap[c].nnOutput
                             /\ heap[c].pos = Play[rootPos][m] /\ promote(c)
      BY <1>3, PlayedChild
    <2> QED
      BY <1>1, <2>1, PromoteBook
  <1> QED
    BY <1>2, <1>3, SMTT(30)

LEMMA EndSearchBook ==
  ASSUME TypeOK, TreeInv, BookInv, EndSearch
  PROVE  BookInv'
  <1>1. UNCHANGED <<heap, root, oldRoot, rootPos>> /\ NobodyOn /\ thread' = [t \in Threads |-> NoPlayout]
    BY DEF EndSearch, NobodyOn, OffTree
  <1>2. NobodyOn'
    BY <1>1 DEF NobodyOn, OffTree, NoPlayout
  <1>3. Live' = Live
    BY <1>1 DEF Live
  <1>4. ASSUME NEW n \in Live PROVE SameBook(n, n) /\ Visited(n)'
    <2>1. SameBook(n, n)
      BY <1>1, BookKeeps DEF SameButLosses
    <2>2. Visited(n)
      BY DEF BookInv
    <2> QED
      BY <1>1, <2>1, <2>2 DEF Visited, Slots, Children
  <1> QED
    BY <1>1, <1>2, <1>3, <1>4, UserBook

LEMMA SweepBook ==
  ASSUME TypeOK, TreeInv, BookInv, Sweep
  PROVE  BookInv'
  <1>1. /\ Live' \subseteq Live /\ oldRoot \notin Live' /\ \A n \in Live' : heap'[n] = heap[n]
        /\ \A n \in Live' : \A i \in DOMAIN heap[n].children : heap[n].children[i].node \in Live'
    BY SweepKeeps
  <1>2. phase = "mark" /\ UNCHANGED <<root, rootPos>>
    BY DEF Sweep
  <1>3. NobodyOn
    BY <1>2, NoThreads DEF NobodyOn, OffTree
  <1>4. NobodyOn'
    <2>1. CASE StartThreads
      BY <2>1, StartedThreads DEF NobodyOn, OffTree
    <2>2. CASE ~StartThreads
      <3>1. UNCHANGED thread
        BY <2>2 DEF Sweep
      <3> QED
        BY <1>3, <3>1 DEF NobodyOn
    <2> QED
      BY <2>1, <2>2
  <1>5. ASSUME NEW n \in Live' PROVE SameBook(n, n)
    <2>1. heap'[n] = heap[n] /\ n # oldRoot
      BY <1>1
    <2> QED
      BY <1>2, <2>1 DEF SameBook, LeafNode, Edges, Counted, Children, MovesOf
  <1>6. ASSUME NEW n \in Live' PROVE Visited(n)'
    <2>1. Visited(n) /\ heap'[n] = heap[n]
      BY <1>1 DEF BookInv
    <2>2. ASSUME NEW i \in DOMAIN heap[n].children PROVE heap'[heap[n].children[i].node] = heap[heap[n].children[i].node]
      BY <1>1
    <2> QED
      BY <2>1, <2>2 DEF Visited, Slots, Children
  <1> QED
    BY <1>1, <1>3, <1>4, <1>5, <1>6, UserBook

LEMMA NextBook ==
  ASSUME TypeOK, TreeInv, BookInv, [Next]_vars
  PROVE  BookInv'
  <1>1. ASSUME NEW t \in Threads, WalkStep(t) PROVE BookInv'
    BY <1>1, SameBooks DEF WalkStep, WalkChild, WalkDone, userVars
  <1>2. CASE UNCHANGED vars
    BY <1>2, SameBooks DEF vars
  <1> QED
    BY <1>1, <1>2, SearchStepBook, BeginSearchBook, EndSearchBook, SweepBook, MakeMoveBook DEF Next

-----------------------------------------------------------------------------
(* Virtual losses: a node has one for every thread below it, and for every *)
(* thread that has chosen it as the child to visit or to update with.      *)

WithChild == Updating \cup {"insert", "edge", "update"}
InPath(x, n) == x.at \notin OffTree /\ n # root /\ (n = x.node \/ \E i \in DOMAIN x.path : n = x.path[i].node)
HasChild(x, n) == x.at \in WithChild /\ x.child = n
PathHolders(n) == {t \in Threads : InPath(thread[t], n)}
ChildHolders(n) == {t \in Threads : HasChild(thread[t], n)}
Held(n) == heap[n].virtualLosses = Cardinality(PathHolders(n)) + Cardinality(ChildHolders(n))

(* No thread visits a node twice in a playout. *)
Distinct(x) ==
  x.at \notin OffTree =>
    \A i \in DOMAIN x.path :
      /\ x.path[i].node # x.node
      /\ \A j \in DOMAIN x.path : i # j => x.path[i].node # x.path[j].node
LossInv == (\A n \in Live : Held(n)) /\ \A t \in Threads : Distinct(thread[t])

(* What one thread owes a node. *)
One(b) == IF b THEN 1 ELSE 0
Owed(x, n) == One(InPath(x, n)) + One(HasChild(x, n))
Loss(n) == IF n \in Live THEN heap[n].virtualLosses ELSE 0
Pays(t, s) == \A n \in Live' : heap'[n].virtualLosses = Loss(n) + Owed(s, n) - Owed(thread[t], n)

LEMMA OneMember ==
  ASSUME NEW S, IsFiniteSet(S), NEW R, NEW t, S \ {t} = R \ {t}
  PROVE  /\ Cardinality(S) \in Nat /\ Cardinality(R) \in Nat
         /\ Cardinality(R) = Cardinality(S) - One(t \in S) + One(t \in R)
  <1> DEFINE Q == S \ {t}
  <1>1. IsFiniteSet(Q) /\ t \notin Q
    BY FS_RemoveElement
  <1>2. PICK q \in Nat : q = Cardinality(Q)
    BY <1>1, FS_CardinalityType
  <1>3. Cardinality(Q \cup {t}) = q + 1
    BY <1>1, <1>2, FS_AddElement
  <1>4. (t \in S => S = Q \cup {t}) /\ (t \notin S => S = Q) /\ (t \in R => R = Q \cup {t}) /\ (t \notin R => R = Q)
    OBVIOUS
  <1> HIDE DEF Q
  <1>5. (t \in S => Cardinality(S) = q + 1) /\ (t \notin S => Cardinality(S) = q)
    BY <1>2, <1>3, <1>4
  <1>6. (t \in R => Cardinality(R) = q + 1) /\ (t \notin R => Cardinality(R) = q)
    BY <1>2, <1>3, <1>4
  <1> QED
    BY <1>5, <1>6 DEF One

LEMMA HoldersMove ==
  ASSUME TypeOK, UNCHANGED root, NEW t \in Threads, NEW s, thread' = [thread EXCEPT ![t] = s], NEW n
  PROVE  /\ Cardinality(PathHolders(n)) \in Nat /\ Cardinality(ChildHolders(n)) \in Nat
         /\ Cardinality(PathHolders(n)') + Cardinality(ChildHolders(n)')
              = Cardinality(PathHolders(n)) + Cardinality(ChildHolders(n)) + Owed(s, n) - Owed(thread[t], n)
  <1>1. thread'[t] = s /\ \A u \in Threads \ {t} : thread'[u] = thread[u]
    BY DEF TypeOK
  <1>2. PICK P, C, P1, C1 : P = PathHolders(n) /\ C = ChildHolders(n) /\ P1 = PathHolders(n)' /\ C1 = ChildHolders(n)'
    OBVIOUS
  <1>3. P \ {t} = P1 \ {t} /\ (t \in P <=> InPath(thread[t], n)) /\ (t \in P1 <=> InPath(s, n))
    BY <1>1, <1>2 DEF PathHolders, InPath
  <1>4. C \ {t} = C1 \ {t} /\ (t \in C <=> HasChild(thread[t], n)) /\ (t \in C1 <=> HasChild(s, n))
    BY <1>1, <1>2 DEF ChildHolders, HasChild
  <1>5. IsFiniteSet(P) /\ IsFiniteSet(C)
    <2>1. P \subseteq Threads /\ C \subseteq Threads
      BY <1>2 DEF PathHolders, ChildHolders
    <2> QED
      BY <2>1, ThreadsAssumption, FS_Subset
  <1>6. /\ Cardinality(P) \in Nat /\ Cardinality(P1) \in Nat
        /\ Cardinality(P1) = Cardinality(P) - One(t \in P) + One(t \in P1)
    BY <1>3, <1>5, OneMember
  <1>7. /\ Cardinality(C) \in Nat /\ Cardinality(C1) \in Nat
        /\ Cardinality(C1) = Cardinality(C) - One(t \in C) + One(t \in C1)
    BY <1>4, <1>5, OneMember
  <1>8. One(t \in P) = One(InPath(thread[t], n)) /\ One(t \in P1) = One(InPath(s, n))
    BY <1>3 DEF One
  <1>9. One(t \in C) = One(HasChild(thread[t], n)) /\ One(t \in C1) = One(HasChild(s, n))
    BY <1>4 DEF One
  <1>10. One(InPath(thread[t], n)) \in Nat /\ One(InPath(s, n)) \in Nat /\ One(HasChild(thread[t], n)) \in Nat
         /\ One(HasChild(s, n)) \in Nat
    BY DEF One
  <1> QED
    BY <1>2, <1>6, <1>7, <1>8, <1>9, <1>10 DEF Owed

(* A node that a thread holds is there. *)
LEMMA HeldIsLive ==
  ASSUME TypeOK, TreeInv, NEW t \in Threads, NEW n, InPath(thread[t], n) \/ HasChild(thread[t], n)
  PROVE  n \in Live
  <1>1. OnTree(t)
    BY DEF InPath, HasChild, WithChild, Updating, OnTree, OffTree
  <1>2. PathInv(t) /\ ChildInv(t)
    BY <1>1, NodeOf
  <1>3. CASE InPath(thread[t], n)
    BY <1>2, <1>3 DEF InPath, PathInv
  <1>4. CASE HasChild(thread[t], n) /\ thread[t].at = "edge"
    BY <1>4, EdgeChild DEF HasChild, InTable
  <1>5. CASE HasChild(thread[t], n) /\ thread[t].at # "edge"
    BY <1>2, <1>5 DEF HasChild, ChildInv, WithChild, InTable
  <1> QED
    BY <1>3, <1>4, <1>5

LEMMA LossMoves ==
  ASSUME TypeOK, TreeInv, LossInv, NEW t \in Threads, NEW s, Goes(t, s), Distinct(s), Pays(t, s)
  PROVE  LossInv'
  <1>1. UNCHANGED root /\ thread' = [thread EXCEPT ![t] = s] /\ thread'[t] = s /\ \A u \in Threads \ {t} : thread'[u] = thread[u]
    BY DEF Goes, TypeOK
  <1>2. ASSUME NEW n \in Live' PROVE Held(n)'
    <2>1. PICK p, c, p1, c1 : /\ p = Cardinality(PathHolders(n)) /\ c = Cardinality(ChildHolders(n))
                              /\ p1 = Cardinality(PathHolders(n)') /\ c1 = Cardinality(ChildHolders(n)')
      OBVIOUS
    <2>2. p \in Nat /\ c \in Nat /\ p1 + c1 = p + c + Owed(s, n) - Owed(thread[t], n)
      BY <1>1, <2>1, HoldersMove
    <2>3. Loss(n) = p + c
      <3>1. CASE n \in Live
        BY <2>1, <3>1 DEF LossInv, Held, Loss
      <3>2. CASE n \notin Live
        <4>1. PathHolders(n) = {} /\ ChildHolders(n) = {}
          BY <3>2, HeldIsLive DEF PathHolders, ChildHolders
        <4>2. p = 0 /\ c = 0
          BY <2>1, <4>1, FS_EmptySet
        <4> QED
          BY <3>2, <4>2 DEF Loss
      <3> QED
        BY <3>1, <3>2
    <2>4. heap'[n].virtualLosses = Loss(n) + Owed(s, n) - Owed(thread[t], n)
      BY DEF Pays
    <2>5. heap'[n].virtualLosses = p1 + c1
      BY <2>2, <2>3, <2>4
    <2> QED
      BY <2>1, <2>5 DEF Held
  <1>3. ASSUME NEW u \in Threads PROVE Distinct(thread[u])'
    <2>1. CASE u = t
      BY <1>1, <2>1 DEF Distinct
    <2>2. CASE u # t
      <3>1. thread'[u] = thread[u] /\ Distinct(thread[u])
        BY <1>1, <2>2 DEF LossInv
      <3> QED
        BY <3>1 DEF Distinct
    <2> QED
      BY <2>1, <2>2
  <1> QED
    BY <1>2, <1>3 DEF LossInv

SameLosses == Live' = Live /\ \A n \in Live : heap'[n].virtualLosses = heap[n].virtualLosses

LEMMA LoseOne ==
  ASSUME TypeOK, NEW c \in Live, NEW k \in Int, Lose(c, k)
  PROVE  /\ Live' = Live
         /\ \A n \in Live : /\ heap[n].virtualLosses \in Int
                            /\ heap'[n].virtualLosses = heap[n].virtualLosses + IF n = c THEN k ELSE 0
  <1>1. PICK v \in Int : v = heap[c].virtualLosses + k /\ heap' = [heap EXCEPT ![c].virtualLosses = v]
    <2>1. heap[c].virtualLosses \in Int
      BY LiveNode, SameHeap, NodeFields DEF Live
    <2>2. heap[c].virtualLosses + k \in Int
      BY <2>1
    <2>3. heap' = [heap EXCEPT ![c].virtualLosses = heap[c].virtualLosses + k]
      BY DEF Lose
    <2> QED
      BY <2>2, <2>3
  <1>2. Live' = Live
    BY <1>1, LossesOnly
  <1>3. heap \in Heaps /\ c \in Nodes /\ heap[c] \in SearchNodes
    BY LiveNode, SameHeap DEF Live
  <1>4. heap'[c] = [heap[c] EXCEPT !.virtualLosses = v] /\ \A n \in Live : n # c => heap'[n] = heap[n]
    BY <1>1, <1>3 DEF Heaps, Live
  <1>5. heap'[c].virtualLosses = v
    BY <1>3, <1>4 DEF SearchNodes
  <1>6. ASSUME NEW n \in Live PROVE heap[n].virtualLosses \in Int
    BY LiveNode, SameHeap, NodeFields DEF Live
  <1> QED
    BY <1>1, <1>2, <1>4, <1>5, <1>6

LEMMA LossTypes ==
  ASSUME TypeOK, NEW n
  PROVE  Loss(n) \in Int /\ (n \in Live => Loss(n) = heap[n].virtualLosses /\ heap[n].virtualLosses \in Int)
  <1>1. n \in Live => heap[n].virtualLosses \in Int
    BY LiveNode, SameHeap, NodeFields DEF Live
  <1> QED
    BY <1>1 DEF Loss

(* A thread that stays where it is keeps its path. *)
LEMMA StayLosses ==
  ASSUME TypeOK, TreeInv, LossInv, NEW t \in Threads, NEW s, Stays(t, s), s.at \notin OffTree,
         \A n \in Live' : heap'[n].virtualLosses = Loss(n) + One(HasChild(s, n)) - One(HasChild(thread[t], n))
  PROVE  LossInv'
  <1>1. Goes(t, s) /\ OnTree(t) /\ s.node = thread[t].node /\ s.path = thread[t].path
    BY DEF Stays
  <1>2. Distinct(s)
    BY <1>1 DEF LossInv, Distinct, OnTree
  <1>3. ASSUME NEW n \in Live' PROVE heap'[n].virtualLosses = Loss(n) + Owed(s, n) - Owed(thread[t], n)
    <2>1. InPath(s, n) <=> InPath(thread[t], n)
      BY <1>1 DEF InPath, OnTree
    <2>2. PICK p, c, d \in Int : p = One(InPath(s, n)) /\ p = One(InPath(thread[t], n))
                                  /\ c = One(HasChild(s, n)) /\ d = One(HasChild(thread[t], n))
      BY <2>1 DEF One
    <2>3. PICK l \in Int : l = Loss(n)
      BY LossTypes
    <2>4. heap'[n].virtualLosses = l + c - d
      BY <2>2, <2>3
    <2>5. Owed(s, n) = p + c /\ Owed(thread[t], n) = p + d
      BY <2>2 DEF Owed
    <2> QED
      BY <2>2, <2>3, <2>4, <2>5
  <1>4. Pays(t, s)
    BY <1>3 DEF Pays
  <1> QED
    BY <1>1, <1>2, <1>4, LossMoves

LEMMA StayQuiet ==
  ASSUME TypeOK, TreeInv, LossInv, NEW t \in Threads, NEW s, Stays(t, s), s.at \notin OffTree, SameLosses,
         \/ thread[t].at \notin WithChild /\ s.at \notin WithChild
         \/ thread[t].at \in WithChild /\ s.at \in WithChild /\ s.child = thread[t].child
  PROVE  LossInv'
  <1>1. ASSUME NEW n \in Live'
        PROVE  heap'[n].virtualLosses = Loss(n) + One(HasChild(s, n)) - One(HasChild(thread[t], n))
    <2>1. HasChild(s, n) <=> HasChild(thread[t], n)
      BY DEF HasChild
    <2>2. PICK c \in Int : c = One(HasChild(s, n)) /\ c = One(HasChild(thread[t], n))
      BY <2>1 DEF One
    <2>3. heap'[n].virtualLosses = Loss(n) /\ Loss(n) \in Int
      BY LossTypes DEF SameLosses
    <2> QED
      BY <2>2, <2>3
  <1> QED
    BY <1>1, StayLosses

LEMMA StayTakes ==
  ASSUME TypeOK, TreeInv, LossInv, NEW t \in Threads, NEW s, Stays(t, s), thread[t].at \notin WithChild,
         s.at \in WithChild, NEW c \in Live, s.child = c, Lose(c, 1)
  PROVE  LossInv'
  <1>1. ASSUME NEW n \in Live'
        PROVE  heap'[n].virtualLosses = Loss(n) + One(HasChild(s, n)) - One(HasChild(thread[t], n))
    <2>1. /\ heap[n].virtualLosses \in Int /\ Loss(n) = heap[n].virtualLosses
          /\ heap'[n].virtualLosses = heap[n].virtualLosses + IF n = c THEN 1 ELSE 0
      BY LoseOne, LossTypes
    <2>2. One(HasChild(s, n)) = (IF n = c THEN 1 ELSE 0) /\ One(HasChild(thread[t], n)) = 0
      BY DEF HasChild, One
    <2> QED
      BY <2>1, <2>2
  <1>2. s.at \notin OffTree
    BY DEF WithChild, Updating, OffTree
  <1> QED
    BY <1>1, <1>2, StayLosses

LEMMA StayGives ==
  ASSUME TypeOK, TreeInv, LossInv, NEW t \in Threads, NEW s, Stays(t, s), thread[t].at \in WithChild,
         s.at \notin WithChild \cup OffTree, thread[t].child \in Live, Lose(thread[t].child, -1)
  PROVE  LossInv'
  <1>1. ASSUME NEW n \in Live'
        PROVE  heap'[n].virtualLosses = Loss(n) + One(HasChild(s, n)) - One(HasChild(thread[t], n))
    <2>1. /\ heap[n].virtualLosses \in Int /\ Loss(n) = heap[n].virtualLosses
          /\ heap'[n].virtualLosses = heap[n].virtualLosses + IF n = thread[t].child THEN -1 ELSE 0
      BY LoseOne, LossTypes
    <2>2. One(HasChild(s, n)) = 0 /\ One(HasChild(thread[t], n)) = IF n = thread[t].child THEN 1 ELSE 0
      BY DEF HasChild, One
    <2> QED
      BY <2>1, <2>2
  <1> QED
    BY <1>1, StayLosses

LEMMA LoopLoss ==
  ASSUME TypeOK, TreeInv, LossInv, NEW t \in Threads,
         Begin(t) \/ StopSearching(t) \/ FinishPlayout(t) \/ runSinglePlayout(t)
  PROVE  LossInv'
  <1>1. /\ heap' = heap /\ thread[t].at \in {"begin", "top", "true", "false"} /\ thread[t].path = <<>>
        /\ OnTree(t) => thread[t].node = root
    BY LoopDoes
  <1>2. PICK s : /\ Goes(t, s) /\ s.path = <<>> /\ s.at \in {"top", "done", "visit"}
                 /\ s.at = "visit" => s.node = root
    BY LoopDoes
  <1>3. Distinct(s)
    BY <1>2 DEF Distinct
  <1>4. ASSUME NEW n PROVE Owed(s, n) = 0 /\ Owed(thread[t], n) = 0
    <2>1. ~HasChild(s, n) /\ ~HasChild(thread[t], n)
      BY <1>1, <1>2 DEF HasChild, WithChild, Updating
    <2>2. ~InPath(s, n) /\ ~InPath(thread[t], n)
      BY <1>1, <1>2 DEF InPath, OnTree, OffTree
    <2> QED
      BY <2>1, <2>2 DEF Owed, One
  <1>5. ASSUME NEW n \in Live' PROVE heap'[n].virtualLosses = Loss(n) /\ Loss(n) \in Int
    <2>1. n \in Live
      BY <1>1 DEF Live
    <2> QED
      BY <1>1, <2>1, LossTypes
  <1>6. Pays(t, s)
    BY <1>4, <1>5 DEF Pays
  <1> QED
    BY <1>2, <1>3, <1>6, LossMoves

LEMMA QuietLosses ==
  ASSUME TypeOK, heap' = heap
  PROVE  SameLosses
  BY DEF SameLosses, Live

LEMMA DescendLoss ==
  ASSUME TypeOK, TreeInv, LossInv, NEW t \in Threads, playoutDescend(t) \/ SelectNewMove(t)
  PROVE  LossInv'
  <1>1. heap' = heap /\ thread[t].at \in {"visit", "select"}
        /\ \E s : Stays(t, s) /\ s.at \in {"evaluate", "select", "false", "allocate", "full"}
    BY DescendDoes, SelectNewMoveDoes
  <1>2. PICK s : Stays(t, s) /\ s.at \in {"evaluate", "select", "false", "allocate", "full"}
    BY <1>1
  <1>3. thread[t].at \notin WithChild /\ s.at \notin WithChild \cup OffTree
    BY <1>1, <1>2 DEF WithChild, Updating, OffTree
  <1> QED
    BY <1>1, <1>2, <1>3, QuietLosses, StayQuiet

LEMMA EvaluateLoss ==
  ASSUME TypeOK, TreeInv, LossInv, NEW t \in Threads, EvaluateStep(t)
  PROVE  LossInv'
  <1>1. PICK s, o, r, v : Stays(t, s) /\ Sets(thread[t].node, o, r, v) /\ Evaluates(t, s, o, r, v)
    BY EvaluateDoes
  <1>2. thread[t].at \notin WithChild /\ s.at \notin WithChild \cup OffTree
    BY <1>1 DEF WithChild, Updating, OffTree, Evaluates
  <1>3. SameLosses
    BY <1>1 DEF SameLosses, Sets, Live
  <1> QED
    BY <1>1, <1>2, <1>3, StayQuiet

LEMMA SelectLoss ==
  ASSUME TypeOK, TreeInv, LossInv, NEW t \in Threads, SelectChild(t)
  PROVE  LossInv'
  <1>1. thread[t].at = "select"
        /\ \E c \in Live : InTable(c) /\ Lose(c, 1) /\ \E s : Stays(t, s) /\ s.at = "edge" /\ s.child = c
    BY SelectChildDoes
  <1>2. PICK c \in Live : Lose(c, 1) /\ \E s : Stays(t, s) /\ s.at = "edge" /\ s.child = c
    BY <1>1
  <1>3. PICK s : Stays(t, s) /\ s.at = "edge" /\ s.child = c
    BY <1>2
  <1>4. thread[t].at \notin WithChild /\ s.at \in WithChild
    BY <1>1, <1>3 DEF WithChild, Updating
  <1> QED
    BY <1>2, <1>3, <1>4, StayTakes

LEMMA GrowLoss ==
  ASSUME TypeOK, TreeInv, LossInv, NEW t \in Threads, maybeExpandChildrenCapacity(t) \/ growChildren(t)
  PROVE  LossInv'
  <1>1. /\ thread[t].at \in {"full", "grow"} /\ thread[t].node \in Live
        /\ heap' = heap \/ \E r \in Int : OnlyState(thread[t].node, r)
        /\ \E s : Stays(t, s) /\ s.at \in {"select", "grow", "allocate"}
    BY GrowDoes
  <1>2. SameLosses
    <2>1. CASE heap' = heap
      BY <2>1, QuietLosses
    <2>2. CASE \E r \in Int : OnlyState(thread[t].node, r)
      BY <1>1, <2>2 DEF OnlyState, SameExceptState, SameLosses, Live
    <2> QED
      BY <1>1, <2>1, <2>2
  <1>3. PICK s : Stays(t, s) /\ s.at \in {"select", "grow", "allocate"}
    BY <1>1
  <1>4. thread[t].at \notin WithChild /\ s.at \notin WithChild \cup OffTree
    BY <1>1, <1>3 DEF WithChild, Updating, OffTree
  <1> QED
    BY <1>2, <1>3, <1>4, StayQuiet

LEMMA AllocateLoss ==
  ASSUME TypeOK, TreeInv, LossInv, NEW t \in Threads, allocateOrFindNode(t)
  PROVE  LossInv'
  <1>1. thread[t].at = "allocate" /\ thread[t].at \notin WithChild
    BY AllocateDoes DEF WithChild, Updating
  <1>2. PICK c \in Nodes :
          /\ \E s : Stays(t, s) /\ s.at = "insert" /\ s.child = c
          /\ \/ InTable(c) /\ Lose(c, 1)
             \/ /\ c \notin Live /\ \A m \in Nodes \ {c} : heap'[m] = heap[m]
                /\ heap'[c].live /\ heap'[c].virtualLosses = 1
    BY AllocateDoes
  <1>3. PICK s : Stays(t, s) /\ s.at = "insert" /\ s.child = c
    BY <1>2
  <1>4. s.at \in WithChild /\ s.at \notin OffTree
    BY <1>3 DEF WithChild, OffTree
  <1>5. CASE InTable(c) /\ Lose(c, 1)
    BY <1>1, <1>3, <1>4, <1>5, StayTakes DEF InTable
  <1>6. CASE ~(InTable(c) /\ Lose(c, 1))
    <2>1. /\ c \notin Live /\ heap'[c].virtualLosses = 1
          /\ \A m \in Nodes \ {c} : heap'[m] = heap[m]
      BY <1>2, <1>6
    <2>2. ASSUME NEW n \in Live'
          PROVE  heap'[n].virtualLosses = Loss(n) + One(HasChild(s, n)) - One(HasChild(thread[t], n))
      <3>1. One(HasChild(thread[t], n)) = 0 /\ One(HasChild(s, n)) = IF n = c THEN 1 ELSE 0
        BY <1>1, <1>3, <1>4 DEF HasChild, One
      <3>2. heap'[n].virtualLosses = IF n = c THEN 1 ELSE heap[n].virtualLosses
        BY <2>1 DEF Live
      <3>3. Loss(n) \in Int /\ Loss(n) = IF n = c THEN 0 ELSE heap[n].virtualLosses
        <4>1. n # c => n \in Live
          BY <2>1, SMTT(30) DEF Live
        <4> QED
          BY <2>1, <4>1, LossTypes DEF Loss
      <3> QED
        BY <3>1, <3>2, <3>3
    <2> QED
      BY <1>3, <1>4, <2>2, StayLosses
  <1> QED
    BY <1>5, <1>6

LEMMA InsertLoss ==
  ASSUME TypeOK, TreeInv, LossInv, NEW t \in Threads, insertChild(t)
  PROVE  LossInv'
  <1>1. /\ thread[t].at = "insert" /\ thread[t].at \in WithChild /\ thread[t].child \in Live
        /\ \/ Lose(thread[t].child, -1) /\ \E s : Stays(t, s) /\ s.at = "false"
           \/ /\ \E slot \in Slot : heap' = [heap EXCEPT ![thread[t].node].children = Append(@, slot)]
              /\ \E s : Stays(t, s) /\ s.at = "edge" /\ s.child = thread[t].child
    BY InsertDoes DEF InTable, WithChild
  <1>2. CASE Lose(thread[t].child, -1) /\ \E s : Stays(t, s) /\ s.at = "false"
    <2>1. PICK s : Stays(t, s) /\ s.at = "false"
      BY <1>2
    <2>2. s.at \notin WithChild \cup OffTree
      BY <2>1 DEF WithChild, Updating, OffTree
    <2> QED
      BY <1>1, <1>2, <2>1, <2>2, StayGives
  <1>3. CASE /\ \E slot \in Slot : heap' = [heap EXCEPT ![thread[t].node].children = Append(@, slot)]
             /\ \E s : Stays(t, s) /\ s.at = "edge" /\ s.child = thread[t].child
    <2>1. PICK s : Stays(t, s) /\ s.at = "edge" /\ s.child = thread[t].child
      BY <1>3
    <2>2. s.at \in WithChild /\ s.at \notin OffTree
      BY <2>1 DEF WithChild, OffTree
    <2>3. PICK n, q : n = thread[t].node /\ heap' = [heap EXCEPT ![n].children = q]
      BY <1>3
    <2>4. n \in Live /\ n \in Nodes /\ heap[n] \in SearchNodes /\ heap \in Heaps
      BY <2>1, <2>3, NodeOf DEF Stays, Live, Here
    <2>5. heap'[n] = [heap[n] EXCEPT !.children = q] /\ \A m \in Nodes \ {n} : heap'[m] = heap[m]
      BY <2>3, <2>4 DEF Heaps
    <2>6. heap'[n].live = heap[n].live /\ heap'[n].virtualLosses = heap[n].virtualLosses
      BY <2>4, <2>5 DEF SearchNodes
    <2>7. SameLosses
      BY <2>5, <2>6 DEF SameLosses, Live
    <2> QED
      BY <1>1, <2>1, <2>2, <2>7, StayQuiet
  <1> QED
    BY <1>1, <1>2, <1>3

LEMMA EdgeLosses ==
  ASSUME TypeOK, NEW n, NEW i, OneEdge(n, i)
  PROVE  SameLosses
  <1>1. Bumped(n, i)
    BY EdgeBumps
  <1>2. n \in Live
    BY DEF OneEdge
  <1> QED
    BY <1>1, <1>2 DEF Bumped, SameLosses, Live

LEMMA EndOfEdgeLoss ==
  ASSUME TypeOK, TreeInv, LossInv, NEW t \in Threads, maybeCatchUpEdgeVisits(t) \/ EndCycle(t)
  PROVE  LossInv'
  <1>1. /\ thread[t].at = "edge" /\ thread[t].at \in WithChild /\ thread[t].child \in Live
        /\ \/ Lose(thread[t].child, -1) /\ \E s : Stays(t, s) /\ s.at = "false"
           \/ /\ OneEdge(thread[t].node, thread[t].idx)
              /\ \E s : Stays(t, s) /\ s.at = "update" /\ s.child = thread[t].child
    BY EdgeDoes DEF InTable, WithChild
  <1>2. CASE Lose(thread[t].child, -1) /\ \E s : Stays(t, s) /\ s.at = "false"
    <2>1. PICK s : Stays(t, s) /\ s.at = "false"
      BY <1>2
    <2>2. s.at \notin WithChild \cup OffTree
      BY <2>1 DEF WithChild, Updating, OffTree
    <2> QED
      BY <1>1, <1>2, <2>1, <2>2, StayGives
  <1>3. CASE /\ OneEdge(thread[t].node, thread[t].idx)
             /\ \E s : Stays(t, s) /\ s.at = "update" /\ s.child = thread[t].child
    <2>1. PICK s : Stays(t, s) /\ s.at = "update" /\ s.child = thread[t].child
      BY <1>3
    <2>2. s.at \in WithChild /\ s.at \notin OffTree
      BY <2>1 DEF WithChild, OffTree
    <2> QED
      BY <1>1, <1>3, <2>1, <2>2, EdgeLosses, StayQuiet
  <1> QED
    BY <1>1, <1>2, <1>3

LEMMA UpdateLoss ==
  ASSUME TypeOK, TreeInv, LossInv, NEW t \in Threads, UpdateStep(t)
  PROVE  LossInv'
  <1>1. /\ thread[t].at \in Updating \cup {"update"} /\ InTable(thread[t].child)
        /\ \E s, w, v, d, S :
             /\ Stays(t, s) /\ Tallies(thread[t].node, w, v, d, S) /\ Updates(t, s, w, v, d, S)
             /\ s.at # "true" => s.child = thread[t].child
    BY UpdateDoes
  <1>2. PICK s, w, v, d, S :
          /\ Stays(t, s) /\ Tallies(thread[t].node, w, v, d, S) /\ Updates(t, s, w, v, d, S)
          /\ s.at # "true" => s.child = thread[t].child
    BY <1>1
  <1>3. thread[t].at \in WithChild /\ s.at \notin OffTree /\ (s.at = "true" <=> s.at \notin WithChild)
        /\ S = IF s.at = "true" THEN {thread[t].child} ELSE {}
    BY <1>1, <1>2 DEF WithChild, Updating, OffTree, Updates
  <1>4. Live' = Live /\ \A m \in Live : heap'[m].virtualLosses = IF m \in S THEN heap[m].virtualLosses - 1
                                                                 ELSE heap[m].virtualLosses
    BY <1>2 DEF Tallies, SameButLosses, SameBones, Live
  <1>5. ASSUME NEW n \in Live'
        PROVE  heap'[n].virtualLosses = Loss(n) + One(HasChild(s, n)) - One(HasChild(thread[t], n))
    <2>1. Loss(n) = heap[n].virtualLosses /\ heap[n].virtualLosses \in Int
      BY <1>4, LossTypes
    <2>2. CASE s.at = "true"
      <3>1. One(HasChild(s, n)) = 0 /\ One(HasChild(thread[t], n)) = IF n \in S THEN 1 ELSE 0
        BY <1>3, <2>2 DEF HasChild, One
      <3> QED
        BY <1>4, <2>1, <3>1
    <2>3. CASE s.at # "true"
      <3>1. HasChild(s, n) <=> HasChild(thread[t], n)
        BY <1>2, <1>3, <2>3 DEF HasChild
      <3>2. PICK c \in Int : c = One(HasChild(s, n)) /\ c = One(HasChild(thread[t], n))
        BY <3>1 DEF One
      <3>3. heap'[n].virtualLosses = heap[n].virtualLosses
        BY <1>3, <1>4, <2>3
      <3> QED
        BY <2>1, <3>2, <3>3
    <2> QED
      BY <2>2, <2>3
  <1> QED
    BY <1>2, <1>3, <1>5, StayLosses

LEMMA NotRoot ==
  ASSUME TypeOK, TreeInv, NEW c, InTable(c)
  PROVE  c # root /\ c \in Live
  BY DEF InTable, TreeInv, RootInv, Live, Nodes, NoNode

(* The visit of a child: what was owed for it is owed for the path. *)
LEMMA PushLoss ==
  ASSUME TypeOK, TreeInv, LossInv, NEW t \in Threads, Descend(t)
  PROVE  LossInv'
  <1>1. /\ heap' = heap /\ thread[t].at = "edge" /\ OnTree(t) /\ InTable(thread[t].child)
        /\ thread[t].child \notin graphPath(t)
    BY PushDoes
  <1>2. PICK p \in Seq(Frame) : p = thread[t].path
    BY PushDoes
  <1>3. PICK s, frame : /\ Goes(t, s) /\ s.at = "visit" /\ s.node = thread[t].child
                        /\ frame \in Frame /\ frame.node = thread[t].node /\ s.path = Append(p, frame)
    BY <1>2, PushDoes
  <1>4. PICK c, n : c = thread[t].child /\ n = thread[t].node
    OBVIOUS
  <1>5. /\ DOMAIN s.path = 1 .. Len(p) + 1 /\ DOMAIN p = 1 .. Len(p) /\ Len(p) \in Nat
        /\ \A i \in 1 .. Len(p) : s.path[i] = p[i]
        /\ s.path[Len(p) + 1].node = n
    BY <1>3, <1>4, AppendIn
  <1>6. c # n /\ \A i \in 1 .. Len(p) : c # p[i].node
    BY <1>1, <1>2, <1>4, <1>5 DEF graphPath
  <1>7. /\ \A i \in 1 .. Len(p) : p[i].node # n
        /\ \A i, j \in 1 .. Len(p) : i # j => p[i].node # p[j].node
    <2>1. Distinct(thread[t])
      BY DEF LossInv
    <2> QED
      BY <1>1, <1>2, <1>4, <1>5, <2>1 DEF Distinct, OnTree
  <1>8. Distinct(s)
    <2>1. \A i \in 1 .. Len(p) + 1 : i \in 1 .. Len(p) \/ i = Len(p) + 1
      BY <1>5
    <2> QED
      BY <1>3, <1>4, <1>5, <1>6, <1>7, <2>1 DEF Distinct
  <1>9. c # root /\ c \in Live
    BY <1>1, <1>4, NotRoot
  <1>10. ASSUME NEW m PROVE Owed(s, m) = Owed(thread[t], m) /\ Owed(s, m) \in Int
    <2>1. InPath(thread[t], m) <=> m # root /\ (m = n \/ \E i \in 1 .. Len(p) : m = p[i].node)
      BY <1>1, <1>2, <1>4, <1>5 DEF InPath, OnTree
    <2>2. InPath(s, m) <=> m # root /\ (m = c \/ m = n \/ \E i \in 1 .. Len(p) : m = p[i].node)
      <3>1. \A i \in 1 .. Len(p) : i \in DOMAIN s.path
        BY <1>5
      <3>2. Len(p) + 1 \in DOMAIN s.path /\ \A i \in DOMAIN s.path : i \in 1 .. Len(p) \/ i = Len(p) + 1
        BY <1>5
      <3>3. (\E i \in DOMAIN s.path : m = s.path[i].node) <=> (m = n \/ \E i \in 1 .. Len(p) : m = p[i].node)
        BY <1>5, <3>1, <3>2
      <3> QED
        BY <1>3, <1>4, <3>3 DEF InPath, OffTree
    <2>3. (HasChild(thread[t], m) <=> m = c) /\ ~HasChild(s, m)
      BY <1>1, <1>3, <1>4 DEF HasChild, WithChild, Updating
    <2>4. CASE m = c
      <3>1. InPath(s, m) /\ ~InPath(thread[t], m)
        BY <1>6, <1>9, <2>1, <2>2, <2>4
      <3> QED
        BY <2>3, <2>4, <3>1 DEF Owed, One
    <2>5. CASE m # c
      <3>1. InPath(s, m) <=> InPath(thread[t], m)
        BY <2>1, <2>2, <2>5
      <3> QED
        BY <2>3, <2>5, <3>1 DEF Owed, One
    <2> QED
      BY <2>4, <2>5
  <1>11. Pays(t, s)
    <2>1. ASSUME NEW m \in Live' PROVE heap'[m].virtualLosses = Loss(m) /\ Loss(m) \in Int
      <3>1. m \in Live
        BY <1>1 DEF Live
      <3> QED
        BY <1>1, <3>1, LossTypes
    <2> QED
      BY <1>10, <2>1 DEF Pays
  <1> QED
    BY <1>3, <1>8, <1>11, LossMoves

(* The return from a visit: what was owed for the path is owed for the     *)
(* child to update with, or is paid.                                       *)
LEMMA ReturnLoss ==
  ASSUME TypeOK, TreeInv, LossInv, NEW t \in Threads, ReturnTrue(t) \/ ReturnFalse(t)
  PROVE  LossInv'
  <1>1. /\ thread[t].at \in {"true", "false"} /\ OnTree(t) /\ InTable(thread[t].node) /\ thread[t].path # <<>>
        /\ thread[t].path \in Seq(Frame)
        /\ \E s : /\ Goes(t, s) /\ s.node = Caller(t).node /\ s.path = Front(thread[t].path)
                  /\ \/ Lose(thread[t].node, -1) /\ s.at = "false"
                     \/ /\ OneEdge(Caller(t).node, Caller(t).idx) /\ s.at = "update" /\ s.child = thread[t].node
    BY ReturnDoes
  <1>2. PICK s : /\ Goes(t, s) /\ s.node = Caller(t).node /\ s.path = Front(thread[t].path)
                 /\ \/ Lose(thread[t].node, -1) /\ s.at = "false"
                    \/ /\ OneEdge(Caller(t).node, Caller(t).idx) /\ s.at = "update" /\ s.child = thread[t].node
    BY <1>1
  <1>3. PICK p \in Seq(Frame) : p = thread[t].path /\ p # <<>>
    BY <1>1
  <1>4. PICK c : c = thread[t].node
    BY SMTT(30)
  <1>5. PICK k \in Nat : Len(p) = k + 1
    <2>1. Len(p) \in Nat /\ Len(p) # 0
      BY <1>3
    <2>2. Len(p) - 1 \in Nat /\ Len(p) = (Len(p) - 1) + 1
      BY <2>1
    <2> QED
      BY <2>2, Zenon
  <1>6. DOMAIN p = 1 .. k + 1 /\ s.node = p[k + 1].node
        /\ DOMAIN s.path = 1 .. k /\ \A i \in 1 .. k : s.path[i] = p[i]
    BY <1>2, <1>3, <1>5 DEF Caller, Last, Front
  <1>7. /\ \A i \in 1 .. k + 1 : p[i].node # c
        /\ \A i, j \in 1 .. k + 1 : i # j => p[i].node # p[j].node
    <2>1. Distinct(thread[t])
      BY DEF LossInv
    <2> QED
      BY <1>1, <1>3, <1>4, <1>6, <2>1 DEF Distinct, OnTree
  <1>8. k + 1 \in 1 .. k + 1 /\ \A i \in 1 .. k : i \in 1 .. k + 1 /\ i # k + 1
    OBVIOUS
  <1>9. Distinct(s)
    BY <1>6, <1>7, <1>8 DEF Distinct
  <1>10. c # root /\ c \in Live
    BY <1>1, <1>4, NotRoot
  <1>11. s.at \notin OffTree
    BY <1>2 DEF OffTree
  <1>12. ASSUME NEW m
         PROVE  /\ (InPath(s, m) <=> m # root /\ \E i \in 1 .. k + 1 : m = p[i].node)
                /\ InPath(thread[t], m) <=> InPath(s, m) \/ m = c
                /\ m = c => ~InPath(s, m)
                /\ ~HasChild(thread[t], m)
    <2>1. (\E i \in 1 .. k + 1 : m = p[i].node) <=> m = p[k + 1].node \/ \E i \in 1 .. k : m = p[i].node
      <3>1. \A i \in 1 .. k + 1 : i \in 1 .. k \/ i = k + 1
        OBVIOUS
      <3> QED
        BY <1>8, <3>1
    <2>2. InPath(s, m) <=> m # root /\ \E i \in 1 .. k + 1 : m = p[i].node
      BY <1>6, <1>11, <2>1 DEF InPath
    <2>3. InPath(thread[t], m) <=> m # root /\ (m = c \/ \E i \in 1 .. k + 1 : m = p[i].node)
      BY <1>1, <1>3, <1>4, <1>6 DEF InPath, OnTree
    <2>4. ~HasChild(thread[t], m)
      BY <1>1 DEF HasChild, WithChild, Updating
    <2> QED
      BY <1>7, <1>10, <2>2, <2>3, <2>4
  <1>13. CASE Lose(c, -1) /\ s.at = "false"
    <2>1. ASSUME NEW m \in Live' PROVE heap'[m].virtualLosses = Loss(m) + Owed(s, m) - Owed(thread[t], m)
      <3>1. m \in Live
        BY <1>10, <1>13, LoseOne
      <3>2. /\ heap[m].virtualLosses \in Int /\ Loss(m) = heap[m].virtualLosses
            /\ heap'[m].virtualLosses = heap[m].virtualLosses + IF m = c THEN -1 ELSE 0
        BY <1>10, <1>13, <3>1, LoseOne, LossTypes
      <3>3. ~HasChild(s, m)
        BY <1>13 DEF HasChild, WithChild, Updating
      <3>4. Owed(s, m) \in Int /\ Owed(thread[t], m) = Owed(s, m) + IF m = c THEN 1 ELSE 0
        BY <1>12, <3>3 DEF Owed, One
      <3> QED
        BY <3>2, <3>4
    <2> QED
      BY <1>2, <1>9, <2>1, LossMoves DEF Pays
  <1>14. CASE OneEdge(Caller(t).node, Caller(t).idx) /\ s.at = "update" /\ s.child = c
    <2>1. SameLosses
      BY <1>14, EdgeLosses
    <2>2. ASSUME NEW m \in Live' PROVE heap'[m].virtualLosses = Loss(m) + Owed(s, m) - Owed(thread[t], m)
      <3>1. heap'[m].virtualLosses = Loss(m) /\ Loss(m) \in Int
        BY <2>1, LossTypes DEF SameLosses
      <3>2. HasChild(s, m) <=> m = c
        BY <1>14 DEF HasChild, WithChild
      <3>3. Owed(s, m) \in Int /\ Owed(thread[t], m) = Owed(s, m)
        BY <1>12, <3>2 DEF Owed, One
      <3> QED
        BY <3>1, <3>3
    <2> QED
      BY <1>2, <1>9, <2>2, LossMoves DEF Pays
  <1> QED
    BY <1>2, <1>4, <1>13, <1>14

LEMMA SearchStepLoss ==
  ASSUME TypeOK, TreeInv, LossInv, NEW t \in Threads, SearchStep(t)
  PROVE  LossInv'
  BY LoopLoss, EvaluateLoss, DescendLoss, SelectLoss, GrowLoss, AllocateLoss, InsertLoss, EndOfEdgeLoss, PushLoss,
     ReturnLoss, UpdateLoss
  DEF SearchStep, EvaluateStep, UpdateStep

(* The user's steps: nobody holds a node. *)
LEMMA NoHolders ==
  ASSUME NobodyOn, NEW n
  PROVE  PathHolders(n) = {} /\ ChildHolders(n) = {}
  BY DEF NobodyOn, PathHolders, ChildHolders, InPath, HasChild, WithChild, Updating, OffTree

LEMMA NoHoldersAfter ==
  ASSUME NobodyOn', NEW n
  PROVE  PathHolders(n)' = {} /\ ChildHolders(n)' = {}
  BY DEF NobodyOn, PathHolders, ChildHolders, InPath, HasChild, WithChild, Updating, OffTree

LEMMA UserLoss ==
  ASSUME LossInv, NobodyOn, NobodyOn',
         \A n \in Live' : heap'[n].virtualLosses = 0 \/ \E m \in Live : heap'[n].virtualLosses = heap[m].virtualLosses
  PROVE  LossInv'
  <1>1. Cardinality({}) = 0
    BY FS_EmptySet
  <1>2. ASSUME NEW n \in Live' PROVE Held(n)'
    <2>1. \A m \in Live : heap[m].virtualLosses = 0
      BY <1>1, NoHolders DEF LossInv, Held
    <2>2. heap'[n].virtualLosses = 0
      BY <2>1
    <2> QED
      BY <1>1, <2>2, NoHoldersAfter DEF Held
  <1>3. \A t \in Threads : Distinct(thread[t])'
    BY DEF NobodyOn, Distinct
  <1> QED
    BY <1>2, <1>3 DEF LossInv

LEMMA BeginSearchLoss ==
  ASSUME TypeOK, TreeInv, LossInv, beginSearch
  PROVE  LossInv'
  <1>1. phase = "idle" /\ heap \in Heaps
    BY SameHeap DEF beginSearch
  <1>2. NobodyOn
    BY <1>1, NoThreads DEF NobodyOn, OffTree
  <1>3. ASSUME StartThreads PROVE NobodyOn'
    BY <1>3, StartedThreads DEF NobodyOn, OffTree
  <1>4. CASE root = NoNode
    <2>1. HeapHasRoom /\ StartThreads /\ heap' = [heap EXCEPT ![Address] = SearchNode(RootKey, rootPos)]
      BY <1>4 DEF beginSearch
    <2>2. PICK a \in Nodes : a = Address /\ a \notin Live
      BY <2>1, RoomForNode
    <2>3. heap'[a] = SearchNode(RootKey, rootPos) /\ \A k \in Nodes \ {a} : heap'[k] = heap[k]
      BY <1>1, <2>1, <2>2 DEF Heaps
    <2>4. heap'[a].virtualLosses = 0
      BY <2>3 DEF SearchNode
    <2>5. \A n \in Live' : n # a => n \in Live /\ heap'[n] = heap[n]
      BY <2>3 DEF Live
    <2> QED
      BY <1>2, <1>3, <2>1, <2>4, <2>5, UserLoss
  <1>5. CASE root # NoNode
    <2> DEFINE good == {i \in Slots(root) : heap[root].children[i].move \in RootMoves[rootPos]}
    <2>1. /\ good \in SUBSET Slots(root)
          /\ IF good = Slots(root)
             THEN StartThreads /\ UNCHANGED <<heap, markVars>>
             ELSE FilterRoot(good) /\ StartWalk /\ UNCHANGED <<playouts, shouldStopNow, thread>>
      BY <1>5 DEF beginSearch
    <2> HIDE DEF good
    <2>2. CASE good = Slots(root)
      <3>1. heap' = heap /\ NobodyOn'
        BY <1>3, <2>1, <2>2
      <3>2. Live' = Live
        BY <3>1 DEF Live
      <3> QED
        BY <1>2, <3>1, <3>2, UserLoss
    <2>3. CASE good # Slots(root)
      <3>1. FilterRoot(good) /\ UNCHANGED thread
        BY <2>1, <2>3
      <3>2. NobodyOn'
        BY <1>2, <3>1 DEF NobodyOn
      <3>3. PICK order : \E k \in Nat, d \in Seq(Slot), y \in SearchNodes : Filtered(k, order, d, y)
        BY <1>1, <1>5, <2>1, <3>1, FilterDoes
      <3>4. PICK k \in Nat, d \in Seq(Slot), y \in SearchNodes : Filtered(k, order, d, y)
        BY <3>3
      <3>5. root \in Live /\ root \in Nodes
        BY <1>5 DEF TreeInv, RootInv, TypeOK, Live
      <3>6. heap'[root] = y /\ \A n \in Nodes \ {root} : heap'[n] = heap[n]
        BY <1>1, <3>4, <3>5 DEF Filtered, Heaps
      <3>7. \A n \in Live' : n \in Live /\ heap'[n].virtualLosses = heap[n].virtualLosses
        BY <3>4, <3>5, <3>6, SMTT(30) DEF Filtered, Live
      <3> QED
        BY <1>2, <3>2, <3>7, UserLoss
    <2> QED
      BY <2>2, <2>3
  <1> QED
    BY <1>4, <1>5

LEMMA MakeMoveLoss ==
  ASSUME TypeOK, TreeInv, LossInv, NEW m \in DOMAIN Play[rootPos], makeMove(m)
  PROVE  LossInv'
  <1>1. phase = "idle" /\ UNCHANGED thread
    BY DEF makeMove
  <1>2. NobodyOn /\ NobodyOn'
    BY <1>1, NoThreads DEF NobodyOn, OffTree
  <1>3. CASE clearSearch
    <2>1. Live' = {}
      BY <1>3 DEF clearSearch, Live, Free
    <2> QED
      BY <1>2, <2>1, UserLoss
  <1>4. CASE ~clearSearch
    <2>1. PICK c \in Live : promote(c)
      BY <1>4, PlayedChild
    <2>2. HeapHasRoom /\ heap' = [heap EXCEPT ![Address] = [heap[c] EXCEPT !.key = RootKey]]
      BY <2>1 DEF promote
    <2>3. PICK a \in Nodes : a = Address
      BY <2>2, RoomForNode
    <2>4. heap'[a] = [heap[c] EXCEPT !.key = RootKey] /\ \A k \in Nodes \ {a} : heap'[k] = heap[k]
      BY <2>2, <2>3, SameHeap DEF Heaps
    <2>5. heap[c] \in SearchNodes
      BY LiveNode, SameHeap DEF Live
    <2>6. heap'[a].virtualLosses = heap[c].virtualLosses
      BY <2>4, <2>5 DEF SearchNodes
    <2>7. \A n \in Live' : n # a => n \in Live /\ heap'[n] = heap[n]
      BY <2>4 DEF Live
    <2> QED
      BY <1>2, <2>6, <2>7, UserLoss
  <1> QED
    BY <1>3, <1>4, SMTT(30)

LEMMA EndSearchLoss ==
  ASSUME TypeOK, TreeInv, LossInv, EndSearch
  PROVE  LossInv'
  <1>1. heap' = heap /\ NobodyOn /\ thread' = [t \in Threads |-> NoPlayout]
    BY DEF EndSearch, NobodyOn, OffTree
  <1>2. NobodyOn'
    BY <1>1 DEF NobodyOn, OffTree, NoPlayout
  <1>3. Live' = Live
    BY <1>1 DEF Live
  <1> QED
    BY <1>1, <1>2, <1>3, UserLoss

LEMMA SweepLoss ==
  ASSUME TypeOK, TreeInv, LossInv, Sweep
  PROVE  LossInv'
  <1>1. Live' \subseteq Live /\ \A n \in Live' : heap'[n] = heap[n]
    BY SweepKeeps
  <1>2. phase = "mark"
    BY DEF Sweep
  <1>3. NobodyOn
    BY <1>2, NoThreads DEF NobodyOn, OffTree
  <1>4. NobodyOn'
    <2>1. CASE StartThreads
      BY <2>1, StartedThreads DEF NobodyOn, OffTree
    <2>2. CASE ~StartThreads
      <3>1. UNCHANGED thread
        BY <2>2 DEF Sweep
      <3> QED
        BY <1>3, <3>1 DEF NobodyOn
    <2> QED
      BY <2>1, <2>2
  <1> QED
    BY <1>1, <1>3, <1>4, UserLoss

LEMMA SameLossInv ==
  ASSUME LossInv, UNCHANGED <<heap, thread, root>>
  PROVE  LossInv'
  <1>1. Live' = Live
    BY DEF Live
  <1>2. ASSUME NEW n \in Live PROVE Held(n)'
    <2>1. PathHolders(n)' = PathHolders(n) /\ ChildHolders(n)' = ChildHolders(n)
      BY DEF PathHolders, ChildHolders, InPath, HasChild
    <2> QED
      BY <2>1 DEF LossInv, Held
  <1>3. ASSUME NEW t \in Threads PROVE Distinct(thread[t])'
    BY DEF LossInv, Distinct
  <1> QED
    BY <1>1, <1>2, <1>3 DEF LossInv

LEMMA NextLoss ==
  ASSUME TypeOK, TreeInv, LossInv, [Next]_vars
  PROVE  LossInv'
  <1>1. ASSUME NEW t \in Threads, WalkStep(t) PROVE LossInv'
    BY <1>1, SameLossInv DEF WalkStep, WalkChild, WalkDone, userVars
  <1>2. CASE UNCHANGED vars
    BY <1>2, SameLossInv DEF vars
  <1> QED
    BY <1>1, <1>2, SearchStepLoss, BeginSearchLoss, EndSearchLoss, SweepLoss, MakeMoveLoss DEF Next

LEMMA InitBooks ==
  ASSUME Init
  PROVE  BookInv /\ LossInv
  <1>1. Live = {}
    BY DEF Init, Live, Free
  <1>2. \A t \in Threads : thread[t].at \in OffTree
    BY DEF Init, NoPlayout, OffTree
  <1>3. \A t \in Threads : Expanding(t) /\ Distinct(thread[t])
    BY <1>2 DEF Expanding, OnTree, OffTree, Distinct
  <1> QED
    BY <1>1, <1>3 DEF BookInv, LossInv

LEMMA BooksClosed ==
  ASSUME TypeOK, TreeInv, BookInv, LossInv
  PROVE  VisitsAddUp
  <1> SUFFICES ASSUME phase = "idle", NEW n \in Live
               PROVE  /\ heap[n].virtualLosses = 0 /\ heap[n].dirtyCounter = 0
                      /\ heap[n].children # <<>> =>
                           /\ heap[n].visits = 1 + EdgeVisits(n, Slots(n))
                           /\ heap[n].weight = EdgeVisits(n, Slots(n))
    BY DEF VisitsAddUp
  <1>1. NobodyOn /\ oldRoot = NoNode
    BY NoThreads DEF NobodyOn, OffTree, TreeInv, PhaseInv
  <1>2. Cardinality({}) = 0
    BY FS_EmptySet
  <1>3. heap[n].virtualLosses = 0
    BY <1>1, <1>2, NoHolders DEF LossInv, Held
  <1>4. EvaluatorsOf(n) = {} /\ UpdatesOf(n) = {} /\ UpdatersOf(n) = {}
    BY <1>1, NoStakes
  <1>5. heap[n].dirtyCounter = 0
    BY <1>4 DEF BookInv, Balanced, Updated
  <1>6. EdgeVisits(n, Slots(n)) = Edges(n) /\ Edges(n) \in Nat /\ heap[n].visits \in Int
    <2>1. Slots(n) \in SUBSET Slots(n) /\ \A i \in Slots(n) \ Slots(n) : ~(heap[n].children[i].edgeVisits > 0)
      OBVIOUS
    <2>2. EdgeVisits(n, Slots(n)) = Edges(n) /\ Edges(n) \in Nat
      BY <2>1, GoodEdgesAll
    <2>3. heap[n].visits \in Int
      <3>1. heap[n] \in SearchNodes
        BY LiveNode, SameHeap DEF Live
      <3>2. heap[n].visits \in Nat
        BY <3>1, NodeFields
      <3> QED
        BY <3>2
    <2> QED
      BY <2>2, <2>3
  <1>7. heap[n].weight = Edges(n)
    BY <1>4 DEF BookInv, Balanced, Weighed
  <1>8. ASSUME heap[n].children # <<>> PROVE heap[n].visits = 1 + Edges(n)
    <2>1. PICK i : i \in DOMAIN heap[n].children
      <3>1. heap[n].children \in Seq(Slot)
        BY LiveNode, SameHeap, NodeFields DEF Live, Slot
      <3>2. 1 \in DOMAIN heap[n].children
        BY <1>8, <3>1
      <3> QED
        BY <3>2
    <2>2. heap[n].state >= EXPANDED0
      BY <2>1, ParentVisited
    <2>3. n # oldRoot
      BY <1>1 DEF Live, Nodes, NoNode
    <2>4. Counted(n)
      BY <1>8, <2>2, <2>3 DEF Counted, Children
    <2>5. Seen(n) = 1 + Edges(n)
      BY <1>4, <2>4 DEF BookInv, Balanced, Added
    <2> QED
      BY <1>2, <1>4, <1>5, <1>6, <2>5 DEF Seen
  <1> QED
    BY <1>3, <1>5, <1>6, <1>7, <1>8

(* While nothing runs the books of the tree are closed, however many       *)
(* threads evaluated, grew and updated its nodes at once, and whatever     *)
(* playouts were given up: no virtual loss is left, no update is owed, and *)
(* every node has its own visit and those of its edges.                    *)
THEOREM TheBooksAreClosed == Spec => []VisitsAddUp
  <1> DEFINE Inv == TypeOK /\ TreeInv /\ BookInv /\ LossInv
  <1>1. Init => Inv
    BY InitTree, InitBooks
  <1>2. Inv /\ [Next]_vars => Inv'
    BY NextTree, NextBook, NextLoss
  <1>3. Inv => VisitsAddUp
    BY BooksClosed
  <1> HIDE DEF Inv
  <1> QED
    BY <1>1, <1>2, <1>3, PTL DEF Spec

-----------------------------------------------------------------------------
(* The sweep keeps what the root reaches, and nothing else. *)

(* Induction on a set of naturals. *)
LEMMA NatSet ==
  ASSUME NEW S, 0 \in S, \A n \in Nat : n \in S => n + 1 \in S
  PROVE  \A n \in Nat : n \in S
  <1> DEFINE T == Nat \ S
  <1>1. ASSUME T # {} PROVE FALSE
    <2>1. PICK m \in T : \A k \in T : ~ (<<k, m>> \in OpToRel(<, Nat))
      BY <1>1, NatLessThanWellFounded, WFMin
    <2>2. m \in Nat /\ m # 0
      OBVIOUS
    <2>3. m - 1 \in Nat /\ m - 1 < m /\ (m - 1) + 1 = m
      BY <2>2
    <2>4. m - 1 \in T
      BY <2>3
    <2>5. <<m - 1, m>> \in OpToRel(<, Nat)
      BY <2>2, <2>3 DEF OpToRel
    <2> QED BY <2>1, <2>4, <2>5
  <1> QED BY <1>1

(* The nodes that k steps from the root lead to at most, without recursion: *)
(* where a walk of k steps can end, if it may also stay where it is.       *)
StepsTo(n) == {n} \cup ChildrenOf(n)
IsWalk(p, k) == p[0] = root /\ \A i \in 0 .. k - 1 : p[i + 1] \in StepsTo(p[i])
EndOfWalk(n, k) == \E p \in [0 .. k -> Live] : IsWalk(p, k) /\ p[k] = n
EndsOf(k) == {n \in Live : EndOfWalk(n, k)}

LEMMA EndsNext ==
  ASSUME NEW k \in Nat, \A n \in Live : ChildrenOf(n) \subseteq Live
  PROVE  EndsOf(k + 1) = EndsOf(k) \cup UNION {ChildrenOf(n) : n \in EndsOf(k)}
  <1>1. ASSUME NEW n \in EndsOf(k + 1) PROVE n \in EndsOf(k) \cup UNION {ChildrenOf(m) : m \in EndsOf(k)}
    <2>1. PICK p \in [0 .. k + 1 -> Live] : IsWalk(p, k + 1) /\ p[k + 1] = n
      BY <1>1 DEF EndsOf, EndOfWalk
    <2> DEFINE q == [i \in 0 .. k |-> p[i]]
    <2>2. q \in [0 .. k -> Live] /\ q[k] = p[k] /\ p[k] \in Live
      OBVIOUS
    <2>3. p[0] = root /\ \A i \in 0 .. k : p[i + 1] \in StepsTo(p[i])
      BY <2>1 DEF IsWalk
    <2>4. IsWalk(q, k)
      <3>1. q[0] = root
        BY <2>3
      <3>2. ASSUME NEW i \in 0 .. k - 1 PROVE q[i + 1] \in StepsTo(q[i])
        <4>1. i \in 0 .. k /\ i + 1 \in 0 .. k
          OBVIOUS
        <4> QED
          BY <2>3, <4>1
      <3> QED
        BY <3>1, <3>2 DEF IsWalk
    <2>5. p[k] \in EndsOf(k)
      BY <2>2, <2>4 DEF EndsOf, EndOfWalk
    <2>6. n \in StepsTo(p[k])
      BY <2>1, <2>3
    <2> QED
      BY <2>5, <2>6 DEF StepsTo
  <1>2. ASSUME NEW m \in EndsOf(k), NEW n \in StepsTo(m) PROVE n \in EndsOf(k + 1)
    <2>1. PICK p \in [0 .. k -> Live] : IsWalk(p, k) /\ p[k] = m
      BY <1>2 DEF EndsOf, EndOfWalk
    <2>2. n \in Live
      BY <1>2 DEF EndsOf, StepsTo
    <2> DEFINE q == [i \in 0 .. k + 1 |-> IF i = k + 1 THEN n ELSE p[i]]
    <2>3. q \in [0 .. k + 1 -> Live] /\ q[k + 1] = n /\ \A i \in 0 .. k : q[i] = p[i]
      BY <2>2
    <2>4. q[0] = root
      BY <2>1, <2>3 DEF IsWalk
    <2>5. ASSUME NEW i \in 0 .. k PROVE q[i + 1] \in StepsTo(q[i])
      <3>1. CASE i = k
        BY <1>2, <2>1, <2>3, <3>1
      <3>2. CASE i # k
        <4>1. i \in 0 .. k - 1 /\ i + 1 \in 0 .. k
          BY <3>2
        <4>2. p[i + 1] \in StepsTo(p[i])
          BY <2>1, <4>1 DEF IsWalk
        <4> QED
          BY <2>3, <4>1, <4>2
      <3> QED
        BY <3>1, <3>2
    <2>6. IsWalk(q, k + 1)
      BY <2>4, <2>5 DEF IsWalk
    <2> QED
      BY <2>2, <2>3, <2>6 DEF EndsOf, EndOfWalk
  <1> QED
    BY <1>1, <1>2 DEF StepsTo

(* So what Reached is defined by has a solution. *)
LEMMA ReachedIs ==
  ASSUME root \in Live, \A n \in Live : ChildrenOf(n) \subseteq Live
  PROVE  /\ Reached[0] = {root}
         /\ \A k \in Nat : Reached[k + 1] = Reached[k] \cup UNION {ChildrenOf(n) : n \in Reached[k]}
  <1> DEFINE From(f) == [k \in Nat |-> IF k = 0 THEN {root} ELSE f[k - 1] \cup UNION {ChildrenOf(n) : n \in f[k - 1]}]
             F == [k \in Nat |-> EndsOf(k)]
  <1>1. EndsOf(0) = {root}
    <2>1. ASSUME NEW n \in EndsOf(0) PROVE n = root
      BY <2>1 DEF EndsOf, EndOfWalk, IsWalk
    <2> DEFINE p == [i \in 0 .. 0 |-> root]
    <2>2. p \in [0 .. 0 -> Live] /\ IsWalk(p, 0) /\ p[0] = root
      BY DEF IsWalk
    <2>3. root \in EndsOf(0)
      BY <2>2 DEF EndsOf, EndOfWalk
    <2> QED
      BY <2>1, <2>3
  <1>2. F = From(F)
    <2>1. ASSUME NEW k \in Nat
          PROVE  F[k] = IF k = 0 THEN {root} ELSE F[k - 1] \cup UNION {ChildrenOf(n) : n \in F[k - 1]}
      <3>1. CASE k = 0
        BY <1>1, <3>1
      <3>2. CASE k # 0
        <4>1. k - 1 \in Nat /\ (k - 1) + 1 = k
          BY <3>2
        <4>2. EndsOf(k) = EndsOf(k - 1) \cup UNION {ChildrenOf(n) : n \in EndsOf(k - 1)}
          BY <4>1, EndsNext
        <4>3. F[k] = EndsOf(k) /\ F[k - 1] = EndsOf(k - 1)
          BY <4>1
        <4> QED
          BY <3>2, <4>2, <4>3, Zenon
      <3> QED
        BY <3>1, <3>2
    <2> HIDE DEF F
    <2>2. F = [k \in Nat |-> F[k]]
      BY DEF F
    <2> QED
      BY <2>1, <2>2, Zenon
  <1>3. Reached = From(Reached)
    <2> HIDE DEF F
    <2>1. \E f : f = From(f)
      BY <1>2
    <2> QED
      BY <2>1, Zenon DEF Reached
  <1>4. ASSUME NEW k \in Nat
        PROVE  Reached[k] = IF k = 0 THEN {root} ELSE Reached[k - 1] \cup UNION {ChildrenOf(n) : n \in Reached[k - 1]}
    BY <1>3, Zenon
  <1>5. Reached[0] = {root}
    BY <1>4
  <1>6. ASSUME NEW k \in Nat PROVE Reached[k + 1] = Reached[k] \cup UNION {ChildrenOf(n) : n \in Reached[k]}
    <2>1. k + 1 \in Nat /\ k + 1 # 0 /\ (k + 1) - 1 = k
      OBVIOUS
    <2>2. Reached[k + 1] = Reached[(k + 1) - 1] \cup UNION {ChildrenOf(n) : n \in Reached[(k + 1) - 1]}
      BY <1>4, <2>1
    <2> QED
      BY <2>1, <2>2
  <1> QED
    BY <1>5, <1>6

(* Each number of steps reaches a node more until it reaches all, and there *)
(* are MaxNodes nodes.                                                     *)
LEMMA ReachedClosed ==
  ASSUME root \in Live, \A n \in Live : ChildrenOf(n) \subseteq Live
  PROVE  Reached[MaxNodes] \in SUBSET Live /\ Closed(Reached[MaxNodes])
  <1> DEFINE Grown(k) == /\ Reached[k] \in SUBSET Live /\ root \in Reached[k]
                         /\ Closed(Reached[k]) \/ Cardinality(Reached[k]) > k
             S == {k \in Nat : Grown(k)}
  <1>1. IsFiniteSet(Nodes) /\ Cardinality(Nodes) = MaxNodes /\ Live \subseteq Nodes /\ MaxNodes \in Nat
    <2>1. MaxNodes \in Nat
      BY BoundAssumption
    <2> QED
      BY <2>1, FS_Interval DEF Nodes, Live
  <1>2. ASSUME NEW T \in SUBSET Live
        PROVE  IsFiniteSet(T) /\ Cardinality(T) \in Nat /\ Cardinality(T) <= MaxNodes
    <2>1. T \in SUBSET Nodes
      BY <1>1
    <2> QED
      BY <1>1, <2>1, FS_Subset, FS_CardinalityType
  <1>3. 0 \in S
    <2>1. Reached[0] = {root}
      BY ReachedIs
    <2>2. Cardinality({root}) = 1
      BY FS_Singleton
    <2> QED
      BY <2>1, <2>2
  <1>4. ASSUME NEW k \in Nat, k \in S PROVE k + 1 \in S
    <2>1. PICK R, T : R = Reached[k] /\ T = Reached[k + 1]
      OBVIOUS
    <2>2. R \in SUBSET Live /\ root \in R /\ (Closed(R) \/ Cardinality(R) > k)
      BY <1>4, <2>1
    <2>3. T = R \cup UNION {ChildrenOf(n) : n \in R}
      BY <2>1, ReachedIs
    <2>4. T \in SUBSET Live /\ root \in T
      BY <2>2, <2>3
    <2>5. CASE Closed(R)
      <3>1. T = R
        BY <2>3, <2>5 DEF Closed
      <3>2. Reached[k + 1] = R
        BY <2>1, <3>1
      <3>3. Grown(k + 1)
        <4> HIDE DEF Closed
        <4> QED
          BY <2>2, <2>5, <3>2
      <3> QED
        BY <3>3
    <2>6. CASE ~Closed(R)
      <3>1. PICK n \in R : ~(ChildrenOf(n) \subseteq R)
        BY <2>2, <2>6 DEF Closed
      <3>2. R \in SUBSET T /\ R # T
        BY <2>3, <3>1
      <3>3. /\ Cardinality(R) \in Nat /\ Cardinality(T) \in Nat
            /\ Cardinality(R) <= Cardinality(T) /\ Cardinality(R) # Cardinality(T)
        BY <1>2, <2>2, <2>4, <3>2, FS_Subset
      <3>4. Cardinality(T) > k + 1
        BY <2>2, <2>6, <3>3
      <3> QED
        BY <2>1, <2>4, <3>4
    <2> QED
      BY <2>5, <2>6
  <1>5. MaxNodes \in S
    <2> HIDE DEF S
    <2> QED
      BY <1>1, <1>3, <1>4, NatSet
  <1>6. Cardinality(Reached[MaxNodes]) \in Nat /\ Cardinality(Reached[MaxNodes]) <= MaxNodes
    BY <1>2, <1>5
  <1> QED
    BY <1>1, <1>5, <1>6

(* The walks find only what the root reaches: every closed set of nodes    *)
(* around the root has it.                                                 *)
FoundIn(S) ==
  /\ marked \subseteq S
  /\ \A t \in Threads : \A i \in DOMAIN walk[t] :
       walk[t][i].todo \subseteq S /\ (walk[t][i].node # NoNode => walk[t][i].node \in S)
FoundInv == phase = "mark" => \A S \in SUBSET Live : Closed(S) => FoundIn(S)

LEMMA StartedFound ==
  ASSUME StartWalk
  PROVE  FoundInv'
  <1>0. PICK r : r = root'
    OBVIOUS
  <1> DEFINE f == [node |-> NoNode, todo |-> {r}]
  <1>1. f.node = NoNode /\ f.todo = {r}
    OBVIOUS
  <1>2. walk' = [t \in Threads |-> <<f>>] /\ marked' = {}
    BY <1>0 DEF StartWalk
  <1> HIDE DEF f
  <1>3. \A t \in Threads : \A i \in DOMAIN walk'[t] : walk'[t][i] = f
    BY <1>2
  <1> QED
    BY <1>0, <1>1, <1>2, <1>3 DEF FoundInv, FoundIn, Closed

LEMMA WalkFound ==
  ASSUME TypeOK, TreeInv, FoundInv, NEW t \in Threads, WalkStep(t)
  PROVE  FoundInv'
  <1>1. /\ phase = "mark" /\ walk[t] # <<>> /\ Live' = Live /\ root' = root
        /\ \A n : ChildrenOf(n)' = ChildrenOf(n)
    BY DEF WalkStep, WalkChild, WalkDone, userVars, Live, ChildrenOf, Slots
  <1> SUFFICES ASSUME NEW S \in SUBSET Live, Closed(S) PROVE FoundIn(S)'
    BY <1>1 DEF FoundInv, Closed
  <1>2. FoundIn(S)
    BY <1>1 DEF FoundInv
  <1>3. PICK w \in Seq(WalkFrame), k \in Nat, f \in WalkFrame :
          /\ w = walk[t] /\ k = Len(w) /\ k \in DOMAIN w /\ DOMAIN w = 1 .. k /\ f = w[k] /\ f = Last(walk[t])
    BY <1>1, TopFrame
  <1>4. f.todo \subseteq S /\ (f.node # NoNode => f.node \in S)
    BY <1>2, <1>3 DEF FoundIn
  <1> DEFINE Good(e) == e.todo \subseteq S /\ (e.node # NoNode => e.node \in S)
  <1>5. ASSUME NEW v, walk' = [walk EXCEPT ![t] = v], \A i \in DOMAIN v : Good(v[i]), marked' \subseteq S
        PROVE  FoundIn(S)'
    <2>1. \A u \in Threads : walk'[u] = IF u = t THEN v ELSE walk[u]
      BY <1>5 DEF TypeOK
    <2>2. ASSUME NEW u \in Threads, NEW i \in DOMAIN walk'[u] PROVE Good(walk'[u][i])
      <3>1. CASE u = t
        BY <1>5, <2>1, <2>2, <3>1
      <3>2. CASE u # t
        BY <1>2, <2>1, <2>2, <3>2 DEF FoundIn
      <3> QED
        BY <3>1, <3>2
    <2> QED
      BY <1>5, <2>2 DEF FoundIn
  <1>6. CASE WalkDone(t)
    <2>1. marked' = marked \cup ({f.node} \ {NoNode}) /\ walk' = [walk EXCEPT ![t] = Front(w)]
      BY <1>3, <1>6 DEF WalkDone
    <2>2. DOMAIN Front(w) = 1 .. k - 1 /\ \A i \in 1 .. k - 1 : Front(w)[i] = w[i]
      BY <1>3 DEF Front
    <2>3. \A i \in DOMAIN Front(w) : Good(Front(w)[i])
      BY <1>2, <1>3, <2>2 DEF FoundIn
    <2> QED
      BY <1>2, <1>4, <1>5, <2>1, <2>3 DEF FoundIn
  <1>7. CASE WalkChild(t)
    <2>1. PICK c \in f.todo :
            walk' = [walk EXCEPT ![t] = IF c \in marked \cup NodesOnStack(t) THEN [w EXCEPT ![k].todo = @ \ {c}]
                                        ELSE Append([w EXCEPT ![k].todo = @ \ {c}],
                                                    [node |-> c, todo |-> iterateChildren(c)])]
      BY <1>3, <1>7 DEF WalkChild
    <2>2. c \in S /\ c \in Live
      BY <1>4, <2>1
    <2>3. PICK h \in WalkFrame : h = [f EXCEPT !.todo = @ \ {c}] /\ Good(h)
      <3> DEFINE h == [f EXCEPT !.todo = @ \ {c}]
      <3>1. h \in WalkFrame /\ h.node = f.node /\ h.todo = f.todo \ {c}
        BY DEF WalkFrame
      <3>2. Good(h)
        BY <1>4, <3>1
      <3> QED
        BY <3>1, <3>2
    <2> DEFINE rest == [w EXCEPT ![k] = h]
    <2>4. rest = [w EXCEPT ![k].todo = @ \ {c}]
      BY <1>3, <2>3
    <2>5. /\ rest \in Seq(WalkFrame) /\ DOMAIN rest = 1 .. k /\ Len(rest) = k
          /\ \A i \in 1 .. k : rest[i] = IF i = k THEN h ELSE w[i]
      BY <1>3
    <2> HIDE DEF rest
    <2>6. \A i \in 1 .. k : Good(rest[i])
      BY <1>2, <1>3, <2>3, <2>5 DEF FoundIn
    <2>7. PICK g \in WalkFrame : g = [node |-> c, todo |-> iterateChildren(c)] /\ Good(g)
      <3>1. PICK todo \in SUBSET Nodes : todo = iterateChildren(c) /\ todo \subseteq S
        BY <2>2, WalksAll DEF Closed
      <3> DEFINE g == [node |-> c, todo |-> todo]
      <3>2. g \in WalkFrame /\ g.node = c /\ g.todo = todo
        BY <2>2 DEF WalkFrame, Live
      <3>3. g = [node |-> c, todo |-> iterateChildren(c)] /\ Good(g)
        BY <2>2, <3>1, <3>2
      <3> QED
        BY <3>2, <3>3
    <2>8. \A i \in DOMAIN Append(rest, g) : Good(Append(rest, g)[i])
      <3>1. /\ DOMAIN Append(rest, g) = 1 .. k + 1 /\ Append(rest, g)[k + 1] = g
            /\ \A i \in 1 .. k : Append(rest, g)[i] = rest[i]
        BY <2>5, AppendIn
      <3>2. \A i \in 1 .. k + 1 : i = k + 1 \/ i \in 1 .. k
        OBVIOUS
      <3> QED
        BY <2>6, <2>7, <3>1, <3>2
    <2>9. marked' \subseteq S
      BY <1>2, <1>7 DEF WalkChild, FoundIn
    <2>10. CASE c \in marked \cup NodesOnStack(t)
      <3>1. walk' = [walk EXCEPT ![t] = rest]
        BY <2>1, <2>4, <2>10
      <3> QED
        BY <1>5, <2>5, <2>6, <2>9, <3>1
    <2>11. CASE c \notin marked \cup NodesOnStack(t)
      <3>1. walk' = [walk EXCEPT ![t] = Append(rest, g)]
        BY <2>1, <2>4, <2>7, <2>11
      <3> QED
        BY <1>5, <2>8, <2>9, <3>1
    <2> QED
      BY <2>10, <2>11
  <1> QED
    BY <1>6, <1>7 DEF WalkStep

LEMMA SearchStepPhase ==
  ASSUME NEW t \in Threads, SearchStep(t)
  PROVE  phase = "search" /\ phase' = "search"
  BY DEF SearchStep, Begin, StopSearching, runSinglePlayout, AddLeaf, playoutDescend, storeNNOutputIfNull,
     addCurrentNNOutputAsLeafValue, claimEvaluating, initializeChildren, SelectChild, SelectNewMove, SelectNothing,
     maybeExpandChildrenCapacity, growChildren, allocateOrFindNode, insertChild, maybeCatchUpEdgeVisits, Descend,
     EndCycle, ReturnTrue, ReturnFalse, FinishPlayout, updateStatsAfterPlayout, readChildren, writeStats, undirty,
     OnlyThread, OnlyTree, At, userVars

LEMMA NextFound ==
  ASSUME TypeOK, TreeInv, FoundInv, [Next]_vars
  PROVE  FoundInv'
  <1>1. CASE beginSearch
    <2>1. StartThreads \/ StartWalk
      BY <1>1 DEF beginSearch
    <2> QED
      BY <2>1, StartedFound DEF StartThreads, FoundInv
  <1>2. CASE EndSearch \/ Sweep
    BY <1>2 DEF EndSearch, Sweep, StartThreads, FoundInv
  <1>3. ASSUME NEW m \in DOMAIN Play[rootPos], makeMove(m) PROVE FoundInv'
    <2>1. phase = "idle" /\ (clearSearch \/ StartWalk)
      BY <1>3 DEF makeMove, promote
    <2> QED
      BY <2>1, StartedFound DEF clearSearch, FoundInv
  <1>4. ASSUME NEW t \in Threads, SearchStep(t) PROVE FoundInv'
    BY <1>4, SearchStepPhase DEF FoundInv
  <1>5. CASE UNCHANGED vars
    BY <1>5 DEF vars, FoundInv, FoundIn, Closed, Live, ChildrenOf, Slots
  <1> QED
    BY <1>1, <1>2, <1>3, <1>4, <1>5, WalkFound DEF Next

LEMMA SweepExact ==
  ASSUME TypeOK, TreeInv, FoundInv, Sweep
  PROVE  {n \in Nodes : heap'[n].live} = Reached[MaxNodes]
  <1>1. phase = "mark" /\ \A t \in Threads : walk[t] = <<>>
    BY DEF Sweep
  <1>2. /\ root \in Live /\ marked \in SUBSET Live /\ Closed(marked)
        /\ \A n \in Live : ChildrenOf(n) \subseteq Live
    BY <1>1, MarkedAll
  <1>3. \A S \in SUBSET Live : Closed(S) => marked \subseteq S
    BY <1>1 DEF FoundInv, FoundIn
  <1>4. marked \subseteq Reached[MaxNodes]
    BY <1>2, <1>3, ReachedClosed
  <1>5. Reached[MaxNodes] \subseteq marked
    <2> DEFINE S == {k \in Nat : Reached[k] \subseteq marked}
    <2>1. 0 \in S
      BY <1>2, ReachedIs DEF Closed
    <2>2. ASSUME NEW k \in Nat, k \in S PROVE k + 1 \in S
      <3>1. Reached[k + 1] = Reached[k] \cup UNION {ChildrenOf(n) : n \in Reached[k]}
        BY <1>2, ReachedIs
      <3> QED
        BY <1>2, <2>2, <3>1 DEF Closed
    <2>3. \A k \in Nat : k \in S
      <3> HIDE DEF S
      <3> QED
        BY <2>1, <2>2, NatSet
    <2> QED
      BY <2>3, BoundAssumption
  <1>6. oldRoot \notin marked
    <2> DEFINE S == {root} \cup {n \in Live : heap[n].key # RootKey}
    <2>1. S \in SUBSET Live /\ Closed(S)
      <3>1. ASSUME NEW n \in Live PROVE ChildrenOf(n) \subseteq S
        BY ChildSlot DEF InTable, ChildrenOf
      <3> QED
        BY <1>2, <3>1 DEF Closed
    <2>2. oldRoot # root /\ (oldRoot # NoNode => heap[oldRoot].key = RootKey)
      BY <1>1 DEF TreeInv, RootInv, PhaseInv
    <2>3. NoNode \notin Live
      BY DEF NoNode, Live, Nodes
    <2> QED
      BY <1>3, <2>1, <2>2, <2>3
  <1>7. Live' = Live \ (Old \cup {oldRoot})
    BY SweepKeeps
  <1>8. ASSUME NEW n \in Live, heap[n].key = RootKey PROVE n \in {root, oldRoot}
    BY <1>8 DEF TreeInv, TableInv
  <1>9. Live' = marked
    BY <1>2, <1>6, <1>7, <1>8 DEF Old, Closed
  <1> QED
    BY <1>4, <1>5, <1>9 DEF Live

(* After a sweep, exactly the nodes that the root reaches are left: mark   *)
(* and sweep, which several threads do together (applyRecursivelyAnyOrder, *)
(* deleteAllOldTableNodes), frees no node that is pointed to and keeps     *)
(* nothing else.                                                           *)
THEOREM SweepsAreExact == Spec => SweepIsExact
  <1> DEFINE Inv == TypeOK /\ TreeInv /\ FoundInv
             Exact == phase = "mark" /\ phase' # "mark" => {n \in Nodes : heap'[n].live} = Reached[MaxNodes]
  <1>1. Init => Inv
    BY InitTree DEF Init, FoundInv
  <1>2. Inv /\ [Next]_vars => Inv'
    BY NextTree, NextFound
  <1>3. Inv /\ [Next]_vars => [Exact]_vars
    <2> SUFFICES ASSUME Inv, Next, phase = "mark", phase' # "mark" PROVE Exact
      OBVIOUS
    <2>1. Sweep
      <3>1. ~beginSearch /\ ~EndSearch /\ \A m : ~makeMove(m)
        BY DEF beginSearch, EndSearch, makeMove
      <3>2. \A t \in Threads : ~SearchStep(t) /\ ~WalkStep(t)
        BY SearchStepPhase DEF WalkStep, WalkChild, WalkDone, userVars
      <3> QED
        BY <3>1, <3>2 DEF Next
    <2> QED
      BY <2>1, SweepExact
  <1> QED
    <2> HIDE DEF Inv
    <2> QED
      BY <1>1, <1>2, <1>3, PTL DEF Spec, SweepIsExact

=============================================================================

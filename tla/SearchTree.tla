----------------------------- MODULE SearchTree -----------------------------
(***************************************************************************)
(* search/search.cpp, searchnode.cpp, searchupdatehelpers.cpp and          *)
(* searchmultithreadhelpers.cpp: the tree that the search threads grow     *)
(* together, one playout after another, the statistics they add to it, and *)
(* the mark and sweep that keeps the part below the move that is played.   *)
(*                                                                         *)
(* A node is an address of a heap.  Its key is the hash it has in the node *)
(* table; the root is not in the table.  Every atomic operation of a       *)
(* thread that another thread can tell apart is a step of its own.  Which  *)
(* child the values favour is left open: any child or new move may be best. *)
(***************************************************************************)
EXTENDS Integers, Sequences, FiniteSets, FiniteSetsExt, SequencesExt

CONSTANTS Threads,
          Positions, Start,     \* the positions of the game, where it starts
          Play,                 \* Play[p] : the legal moves of p -> Positions
          ToMove,               \* ToMove[p] : the player to move
          GraphHash,            \* GraphHash[p] : the hash of p
          RootMoves,            \* RootMoves[p] : the moves searched when p is the root
          Leaves,               \* positions that are over, or solved as a race
          Size,                 \* Size[k] : SIZE0TOTAL, SIZE1TOTAL, SIZE2TOTAL
          Weightless,           \* where playouts that leave no edge visit are made
          MaxNodes,             \* bound: addresses of the heap
          Limits                \* Limits[i] : maxPlayouts of the i-th search

RootKey == "root"             \* not in the table
FreshKey == "fresh"           \* in the table under a random hash

ASSUME ThreadsAssumption == IsFiniteSet(Threads) /\ Threads # {}
ASSUME GameAssumption ==
  /\ Start \in Positions /\ Leaves \subseteq Positions
  /\ \A p \in Positions : /\ RootMoves[p] \subseteq DOMAIN Play[p]
                           /\ \A m \in DOMAIN Play[p] : Play[p][m] \in Positions
ASSUME HashAssumption ==       \* 128 bits: only another player's position may collide
  /\ \A p, q \in Positions : GraphHash[p] = GraphHash[q] /\ ToMove[p] = ToMove[q] => p = q
  /\ \A p \in Positions : GraphHash[p] \notin {RootKey, FreshKey}
ASSUME SizeAssumption ==       \* each array holds more than the one before
  /\ Size \in [1..3 -> Nat \ {0}]
  /\ Size[1] < Size[2] /\ Size[2] < Size[3]
ASSUME BoundAssumption == MaxNodes \in Nat /\ Limits \in Seq(Nat)
ASSUME WeightlessAssumption == Weightless \subseteq {"root", "pla", "opp"}

VARIABLES heap, root, oldRoot, rootPos,
          phase,               \* what the user's thread is doing
          searches,            \* searches begun
          playouts,            \* numPlayoutsShared
          shouldStopNow,
          thread,              \* the state of each search thread
          marked,              \* the nodes whose nodeAge is searchNodeAge
          walk                 \* the stack of each marking thread

vars == <<heap, root, oldRoot, rootPos, phase, searches, playouts, shouldStopNow, thread, marked, walk>>
userVars == <<root, oldRoot, rootPos, phase, searches>>
markVars == <<marked, walk>>

Nodes == 1..MaxNodes
NoNode == 0
UNEVALUATED == 0
EVALUATING == 1
EXPANDED0 == 2
GROWING1 == 3
EXPANDED1 == 4
GROWING2 == 5
EXPANDED2 == 6

getChildrenCapacity(state) ==
  IF state < EXPANDED0 THEN 0
  ELSE IF state < EXPANDED1 THEN Size[1]
  ELSE IF state < EXPANDED2 THEN Size[2]
  ELSE Size[3]

(* children holds [move, node, edgeVisits] slots, filled from the first;   *)
(* weight is the number of edge visits the statistics were last computed   *)
(* from.                                                                   *)
Free == [live |-> FALSE]
SearchNode(key, pos) ==
  [live |-> TRUE, key |-> key, pos |-> pos, state |-> UNEVALUATED, nnOutput |-> FALSE,
   children |-> <<>>, visits |-> 0, weight |-> 0, virtualLosses |-> 0, dirtyCounter |-> 0]

Live == {n \in Nodes : heap[n].live}
HeapHasRoom == Live # Nodes    \* bound
Address == Min(Nodes \ Live)

Slots(n) == DOMAIN heap[n].children
EdgeVisits(n, slots) == MapThenSumSet(LAMBDA i : heap[n].children[i].edgeVisits, slots)

NoPlayout == [at |-> "idle", numPlayouts |-> 0, node |-> NoNode, path |-> <<>>, state |-> 0,
              idx |-> 0, move |-> "none", child |-> NoNode, countEdgeVisit |-> TRUE,
              shouldCount |-> TRUE, completed |-> 0, edges |-> 0]

Init ==
  /\ heap = [n \in Nodes |-> Free]
  /\ root = NoNode /\ oldRoot = NoNode /\ rootPos = Start
  /\ phase = "idle" /\ searches = 0
  /\ playouts = 0 /\ shouldStopNow = FALSE
  /\ thread = [t \in Threads |-> NoPlayout]
  /\ marked = {} /\ walk = [t \in Threads |-> <<>>]

-----------------------------------------------------------------------------
(* The user's thread, which owns the tree while no search runs *)

StartThreads ==
  /\ phase' = "search"
  /\ thread' = [t \in Threads |-> [NoPlayout EXCEPT !.at = "begin"]]
  /\ playouts' = 0 /\ shouldStopNow' = FALSE

(* applyRecursivelyAnyOrder: no node is marked, and every thread is to     *)
(* walk the root.                                                          *)
StartWalk ==
  /\ phase' = "mark"
  /\ marked' = {}
  /\ walk' = [t \in Threads |-> <<[node |-> NoNode, todo |-> {root'}]>>]

CollapsedState(count) ==
  IF count <= Size[1] THEN EXPANDED0 ELSE IF count <= Size[2] THEN EXPANDED1 ELSE EXPANDED2

(* The root children that may be searched at a root are kept, in order.    *)
FilterRoot(good) ==
  \E order \in [1..Cardinality(good) -> good] :
    /\ \A i, j \in DOMAIN order : i < j => order[i] < order[j]
    /\ LET kept == [i \in DOMAIN order |-> heap[root].children[order[i]]]
           edges == MapThenSumSet(LAMBDA i : kept[i].edgeVisits, DOMAIN kept)
       IN heap' = [heap EXCEPT ![root].children = kept, ![root].state = CollapsedState(Len(kept)),
                               ![root].visits = edges + 1, ![root].weight = edges]

beginSearch ==
  /\ phase = "idle" /\ searches < Len(Limits)
  /\ searches' = searches + 1
  /\ IF root = NoNode
     THEN /\ HeapHasRoom
          /\ heap' = [heap EXCEPT ![Address] = SearchNode(RootKey, rootPos)]
          /\ root' = Address
          /\ StartThreads /\ UNCHANGED markVars
     ELSE LET good == {i \in Slots(root) : heap[root].children[i].move \in RootMoves[rootPos]} IN
          /\ root' = root
          /\ IF good = Slots(root)
             THEN StartThreads /\ UNCHANGED <<heap, markVars>>
             ELSE FilterRoot(good) /\ StartWalk /\ UNCHANGED <<playouts, shouldStopNow, thread>>
  /\ UNCHANGED <<oldRoot, rootPos>>

clearSearch ==
  /\ heap' = [n \in Nodes |-> Free]
  /\ root' = NoNode
  /\ UNCHANGED <<oldRoot, phase, markVars>>

(* The child of the move that is played becomes the root: a copy that is   *)
(* not in the table.                                                       *)
promote(child) ==
  /\ HeapHasRoom
  /\ heap' = [heap EXCEPT ![Address] = [heap[child] EXCEPT !.key = RootKey]]
  /\ root' = Address /\ oldRoot' = root
  /\ StartWalk

makeMove(m) ==
  /\ phase = "idle"
  /\ rootPos' = Play[rootPos][m]
  /\ LET played == IF root = NoNode THEN {} ELSE {i \in Slots(root) : heap[root].children[i].move = m}
         child == heap[root].children[Min(played)].node
     IN IF played # {} /\ heap[child].nnOutput THEN promote(child) ELSE clearSearch
  /\ UNCHANGED <<searches, playouts, shouldStopNow, thread>>

(* performTaskWithThreads returns when every thread has left the loop.     *)
EndSearch ==
  /\ phase = "search" /\ \A t \in Threads : thread[t].at = "done"
  /\ phase' = "idle"
  /\ thread' = [t \in Threads |-> NoPlayout]
  /\ playouts' = 0 /\ shouldStopNow' = FALSE
  /\ UNCHANGED <<heap, root, oldRoot, rootPos, searches, markVars>>

-----------------------------------------------------------------------------
(* Mark and sweep *)

NodesOnStack(t) == {walk[t][i].node : i \in DOMAIN walk[t]}
(* Fault: only the first of the children arrays is walked. *)
iterateChildren_FirstArray(n) ==
  {heap[n].children[i].node : i \in Slots(n) \cap 1..Size[1]}
iterateChildren(n) ==
  {heap[n].children[i].node : i \in Slots(n) \cap 1..getChildrenCapacity(heap[n].state)}

(* The next child in the thread's own order: done, on a cycle, or entered. *)
WalkChild(t) ==
  /\ phase = "mark" /\ walk[t] # <<>>
  /\ \E child \in Last(walk[t]).todo :
       LET rest == [walk[t] EXCEPT ![Len(walk[t])].todo = @ \ {child}] IN
       walk' = [walk EXCEPT ![t] =
                  IF child \in marked \cup NodesOnStack(t) THEN rest
                  ELSE Append(rest, [node |-> child, todo |-> iterateChildren(child)])]
  /\ UNCHANGED <<heap, userVars, playouts, shouldStopNow, thread, marked>>

(* All children walked: the exchange of nodeAge. *)
WalkDone(t) ==
  /\ phase = "mark" /\ walk[t] # <<>> /\ Last(walk[t]).todo = {}
  /\ marked' = marked \cup ({Last(walk[t]).node} \ {NoNode})
  /\ walk' = [walk EXCEPT ![t] = Front(@)]
  /\ UNCHANGED <<heap, userVars, playouts, shouldStopNow, thread>>

Old == {n \in Live : heap[n].key # RootKey /\ n \notin marked}

(* deleteAllOldTableNodes; makeMove then deletes the old root, and         *)
(* beginSearch starts the search.                                          *)
Sweep ==
  /\ phase = "mark" /\ \A t \in Threads : walk[t] = <<>>
  /\ heap' = [n \in Nodes |-> IF n \in Old \cup {oldRoot} THEN Free ELSE heap[n]]
  /\ oldRoot' = NoNode /\ marked' = {}
  /\ IF oldRoot = NoNode
     THEN StartThreads
     ELSE phase' = "idle" /\ UNCHANGED <<playouts, shouldStopNow, thread>>
  /\ UNCHANGED <<root, rootPos, searches, walk>>

-----------------------------------------------------------------------------
(* The search threads *)

At(t, at) == phase = "search" /\ thread[t].at = at
Become(t, s) == thread' = [thread EXCEPT ![t] = s]
OnlyThread == UNCHANGED <<heap, userVars, playouts, shouldStopNow, markVars>>
OnlyTree == UNCHANGED <<userVars, playouts, shouldStopNow, markVars>>

Begin(t) ==
  /\ At(t, "begin")
  /\ Become(t, [thread[t] EXCEPT !.at = "top", !.numPlayouts = playouts])
  /\ OnlyThread

(* The limit as this thread knows it, the others' signal, or a stop from   *)
(* outside through shouldStopEarly.                                        *)
StopSearching(t) ==
  /\ At(t, "top")
  /\ shouldStopNow' = TRUE
  /\ Become(t, [thread[t] EXCEPT !.at = "done"])
  /\ UNCHANGED <<heap, userVars, playouts, markVars>>

runSinglePlayout(t) ==
  /\ At(t, "top") /\ thread[t].numPlayouts < Limits[searches] /\ ~shouldStopNow
  /\ Become(t, [thread[t] EXCEPT !.at = "visit", !.node = root])
  /\ OnlyThread

(* The thread at its node, with nothing chosen. *)
AtNode(t, at) ==
  [NoPlayout EXCEPT !.at = at, !.numPlayouts = thread[t].numPlayouts, !.node = thread[t].node,
                    !.path = thread[t].path]
Returns(t) == AtNode(t, "true")
GivesUp(t) == [AtNode(t, "false") EXCEPT !.shouldCount = FALSE]

Here(t) == heap[thread[t].node]

(* The start of playoutDescend at a node: a leaf takes its value; else the *)
(* state of the node is read once.                                         *)
AddLeaf(t) ==
  /\ At(t, "visit") /\ thread[t].node # root /\ Here(t).pos \in Leaves
  /\ heap' = [heap EXCEPT ![thread[t].node].visits = @ + 1]
  /\ Become(t, Returns(t))
  /\ OnlyTree

playoutDescend(t) ==
  /\ At(t, "visit") /\ ~(thread[t].node # root /\ Here(t).pos \in Leaves)
  /\ Become(t, CASE Here(t).state = UNEVALUATED -> [thread[t] EXCEPT !.at = "evaluate"]
                 [] Here(t).state = EVALUATING -> GivesUp(t)
                 [] OTHER -> [AtNode(t, "select") EXCEPT !.state = Here(t).state])
  /\ OnlyThread

(* initNodeNNOutput: every thread asks the net, the first answer is kept.  *)
storeNNOutputIfNull(t) ==
  /\ At(t, "evaluate")
  /\ IF Here(t).nnOutput
     THEN UNCHANGED heap /\ Become(t, GivesUp(t))
     ELSE /\ heap' = [heap EXCEPT ![thread[t].node].nnOutput = TRUE]
          /\ Become(t, [thread[t] EXCEPT !.at = "addValue"])
  /\ OnlyTree

addCurrentNNOutputAsLeafValue(t) ==
  /\ At(t, "addValue")
  /\ heap' = [heap EXCEPT ![thread[t].node].visits = @ + 1]
  /\ Become(t, [thread[t] EXCEPT !.at = "claim"])
  /\ OnlyTree

claimEvaluating(t) ==
  /\ At(t, "claim")
  /\ IF Here(t).state = UNEVALUATED
     THEN /\ heap' = [heap EXCEPT ![thread[t].node].state = EVALUATING]
          /\ Become(t, [thread[t] EXCEPT !.at = "initialize"])
     ELSE UNCHANGED heap /\ Become(t, GivesUp(t))
  /\ OnlyTree

initializeChildren(t) ==
  /\ At(t, "initialize")
  /\ heap' = [heap EXCEPT ![thread[t].node].state = EXPANDED0]
  /\ Become(t, Returns(t))
  /\ OnlyTree

(* selectBestChildToDescend reads the slots that the state it knows has    *)
(* room for, up to the first that is empty.                                *)
Found(t) == Slots(thread[t].node) \cap 1..getChildrenCapacity(thread[t].state)
NewMoves(t) ==
  (IF thread[t].node = root THEN RootMoves[rootPos] ELSE DOMAIN Play[Here(t).pos])
    \ {Here(t).children[i].move : i \in Found(t)}

(* countEdgeVisit, by the probabilities given for the root, for its player *)
(* and for the opponent.                                                   *)
CountKinds(t) ==
  LET where == IF thread[t].node = root THEN "root"
               ELSE IF ToMove[Here(t).pos] = ToMove[rootPos] THEN "pla" ELSE "opp"
  IN IF where \in Weightless THEN BOOLEAN ELSE {TRUE}

(* An existing child: its virtual loss is added. *)
SelectChild(t) ==
  /\ At(t, "select")
  /\ \E i \in Found(t), count \in CountKinds(t) :
       LET child == Here(t).children[i].node IN
       /\ heap' = [heap EXCEPT ![child].virtualLosses = @ + 1]
       /\ Become(t, [AtNode(t, "edge") EXCEPT !.idx = i, !.child = child, !.countEdgeVisit = count])
  /\ OnlyTree

SelectNewMove(t) ==
  /\ At(t, "select")
  /\ \E m \in NewMoves(t), count \in CountKinds(t) :
       LET idx == Cardinality(Found(t)) + 1 IN
       Become(t, [thread[t] EXCEPT !.at = IF idx <= getChildrenCapacity(thread[t].state) THEN "allocate" ELSE "full",
                                   !.idx = idx, !.move = m, !.countEdgeVisit = count])
  /\ OnlyThread

(* Nothing to select: another visit of the same evaluation. *)
SelectNothing(t) ==
  /\ At(t, "select") /\ Found(t) = {} /\ NewMoves(t) = {}
  /\ heap' = [heap EXCEPT ![thread[t].node].visits = @ + 1]
  /\ Become(t, Returns(t))
  /\ OnlyTree

(* Fault: the state is not loaded again after a failure. *)
maybeExpandChildrenCapacity_OldState(t) ==
  /\ At(t, "full")
  /\ LET state == thread[t].state IN
     IF state \in {EXPANDED0, EXPANDED1} /\ Here(t).state = state
     THEN /\ heap' = [heap EXCEPT ![thread[t].node].state = state + 1]
          /\ Become(t, [thread[t] EXCEPT !.at = "grow", !.state = state + 1])
     ELSE UNCHANGED heap /\ Become(t, [AtNode(t, "select") EXCEPT !.state = state])
  /\ OnlyTree

(* maybeExpandChildrenCapacityForNewChild: the compare-exchange, or a new  *)
(* look at the node when another thread grows the children.                *)
maybeExpandChildrenCapacity(t) ==
  /\ At(t, "full")
  /\ LET state == thread[t].state IN
     IF state \in {EXPANDED0, EXPANDED1} /\ Here(t).state = state
     THEN /\ heap' = [heap EXCEPT ![thread[t].node].state = state + 1]
          /\ Become(t, [thread[t] EXCEPT !.at = "grow", !.state = state + 1])
     ELSE UNCHANGED heap /\ Become(t, [AtNode(t, "select") EXCEPT !.state = Here(t).state])
  /\ OnlyTree

growChildren(t) ==
  /\ At(t, "grow")
  /\ heap' = [heap EXCEPT ![thread[t].node].state = @ + 1]
  /\ Become(t, [thread[t] EXCEPT !.at = "allocate", !.state = @ + 1])
  /\ OnlyTree

(* Fault: nextPla is not compared. *)
allocateOrFindNode_AnyPlayer(t) ==
  /\ At(t, "allocate")
  /\ LET pos == Play[Here(t).pos][thread[t].move]
         there == {n \in Live : heap[n].key = GraphHash[pos]}
         child == IF there # {} THEN Min(there) ELSE Address
         node == IF there # {} THEN heap[child] ELSE SearchNode(GraphHash[pos], pos)
     IN /\ heap' = [heap EXCEPT ![child] = [node EXCEPT !.virtualLosses = @ + 1]]
        /\ Become(t, [thread[t] EXCEPT !.at = "insert", !.child = child])
  /\ OnlyTree
(* Fault: the look at the table is not under the mutex of the insertion, *)
(* and misses what another thread is about to use.                       *)
allocateOrFindNode_NoMutex(t) ==
  /\ At(t, "allocate")
  /\ LET pos == Play[Here(t).pos][thread[t].move]
         late == {thread[u].child : u \in {u \in Threads : thread[u].at = "insert"}}
         there == {n \in Live : heap[n].key = GraphHash[pos] /\ ToMove[heap[n].pos] = ToMove[pos]} \ late
         child == IF there # {} THEN Min(there) ELSE Address
         node == IF there # {} THEN heap[child] ELSE SearchNode(GraphHash[pos], pos)
     IN /\ heap' = [heap EXCEPT ![child] = [node EXCEPT !.virtualLosses = @ + 1]]
        /\ Become(t, [thread[t] EXCEPT !.at = "insert", !.child = child])
  /\ OnlyTree

(* Under the mutex of the shard: the node the table has for the position,  *)
(* or a new one, under a random hash when another player's node is there.  *)
allocateOrFindNode(t) ==
  /\ At(t, "allocate")
  /\ LET pos == Play[Here(t).pos][thread[t].move]
         there == {n \in Live : heap[n].key = GraphHash[pos]}
         same == {n \in there : ToMove[heap[n].pos] = ToMove[pos]}
         key == IF there = {} THEN GraphHash[pos] ELSE FreshKey
         child == IF same # {} THEN Min(same) ELSE Address
         node == IF same # {} THEN heap[child] ELSE SearchNode(key, pos)
     IN /\ same # {} \/ HeapHasRoom
        /\ heap' = [heap EXCEPT ![child] = [node EXCEPT !.virtualLosses = @ + 1]]
        /\ Become(t, [thread[t] EXCEPT !.at = "insert", !.child = child])
  /\ OnlyTree

(* Under the node's mutex: the slot, unless another thread has filled it.  *)
insertChild(t) ==
  /\ At(t, "insert")
  /\ IF thread[t].idx \in Slots(thread[t].node)
     THEN /\ heap' = [heap EXCEPT ![thread[t].child].virtualLosses = @ - 1]
          /\ Become(t, GivesUp(t))
     ELSE /\ heap' = [heap EXCEPT ![thread[t].node].children =
                        Append(@, [move |-> thread[t].move, node |-> thread[t].child, edgeVisits |-> 0])]
          /\ Become(t, [thread[t] EXCEPT !.at = "edge", !.move = "none", !.state = 0])
  /\ OnlyTree

AddEdgeVisit(n, i) == heap' = [heap EXCEPT ![n].children[i].edgeVisits = @ + 1]

(* maybeCatchUpEdgeVisits: a child that other parents visited. *)
maybeCatchUpEdgeVisits(t) ==
  /\ At(t, "edge") /\ thread[t].countEdgeVisit
  /\ Here(t).children[thread[t].idx].edgeVisits < heap[thread[t].child].visits
  /\ AddEdgeVisit(thread[t].node, thread[t].idx)
  /\ Become(t, [AtNode(t, "update") EXCEPT !.child = thread[t].child])
  /\ OnlyTree

graphPath(t) == {thread[t].path[i].node : i \in DOMAIN thread[t].path} \cup {thread[t].node}

(* The visits were read too early to catch up, or a leak is wanted: down.  *)
(* The frame that is pushed holds what the caller uses after the call.     *)
Descend(t) ==
  /\ At(t, "edge") /\ thread[t].child \notin graphPath(t)
  /\ LET frame == [node |-> thread[t].node, idx |-> thread[t].idx, count |-> thread[t].countEdgeVisit] IN
     Become(t, [NoPlayout EXCEPT !.at = "visit", !.numPlayouts = thread[t].numPlayouts,
                                 !.node = thread[t].child, !.path = Append(thread[t].path, frame)])
  /\ OnlyThread

(* A cycle ends the playout. *)
EndCycle(t) ==
  /\ At(t, "edge") /\ thread[t].child \in graphPath(t)
  /\ IF thread[t].countEdgeVisit
     THEN /\ AddEdgeVisit(thread[t].node, thread[t].idx)
          /\ Become(t, [AtNode(t, "update") EXCEPT !.child = thread[t].child])
     ELSE /\ heap' = [heap EXCEPT ![thread[t].child].virtualLosses = @ - 1]
          /\ Become(t, AtNode(t, "false"))
  /\ OnlyTree

(* The call on the child returns: what is left of the caller's frame.      *)
Caller(t) == Last(thread[t].path)
InCaller(t, at) ==
  [thread[t] EXCEPT !.at = at, !.node = Caller(t).node, !.path = Front(thread[t].path)]

ReturnTrue(t) ==
  /\ At(t, "true") /\ thread[t].path # <<>> /\ Caller(t).count
  /\ AddEdgeVisit(Caller(t).node, Caller(t).idx)
  /\ Become(t, [InCaller(t, "update") EXCEPT !.child = thread[t].node])
  /\ OnlyTree

ReturnFalse(t) ==
  /\ phase = "search" /\ thread[t].path # <<>>
  /\ thread[t].at = "false" \/ (thread[t].at = "true" /\ ~Caller(t).count)
  /\ heap' = [heap EXCEPT ![thread[t].node].virtualLosses = @ - 1]
  /\ Become(t, InCaller(t, "false"))
  /\ OnlyTree

(* Back in the search loop: only a playout that counts is counted. *)
FinishPlayout(t) ==
  /\ phase = "search" /\ thread[t].path = <<>> /\ thread[t].at \in {"true", "false"}
  /\ LET counted == IF thread[t].shouldCount THEN 1 ELSE 0 IN
     /\ playouts' = playouts + counted
     /\ Become(t, [NoPlayout EXCEPT !.at = "top",
                     !.numPlayouts = IF thread[t].shouldCount THEN playouts + 1 ELSE thread[t].numPlayouts])
  /\ UNCHANGED <<heap, userVars, shouldStopNow, markVars>>

-----------------------------------------------------------------------------
(* updateStatsAfterPlayout: the thread that finds the counter at zero      *)
(* recomputes for all that come meanwhile.                                 *)

DoneWithChild(h, t) == [h EXCEPT ![thread[t].child].virtualLosses = @ - 1]

updateStatsAfterPlayout(t) ==
  /\ At(t, "update")
  /\ LET dirty == [heap EXCEPT ![thread[t].node].dirtyCounter = @ + 1] IN
     IF Here(t).dirtyCounter > 0
     THEN heap' = DoneWithChild(dirty, t) /\ Become(t, Returns(t))
     ELSE heap' = dirty /\ Become(t, [thread[t] EXCEPT !.at = "recompute", !.completed = 1])
  /\ OnlyTree

(* recomputeNodeStats: the children are read ... *)
readChildren(t) ==
  /\ At(t, "recompute")
  /\ LET good == {i \in Slots(thread[t].node) : heap[Here(t).children[i].node].visits > 0} IN
     Become(t, [thread[t] EXCEPT !.at = "write", !.edges = EdgeVisits(thread[t].node, good)])
  /\ OnlyThread

(* ... and the result is written under the statsLock. *)
writeStats(t) ==
  /\ At(t, "write")
  /\ heap' = [heap EXCEPT ![thread[t].node].weight = thread[t].edges,
                          ![thread[t].node].visits = @ + thread[t].completed]
  /\ Become(t, [thread[t] EXCEPT !.at = "undirty"])
  /\ OnlyTree

(* Fault: the updates that came meanwhile are taken as done. *)
undirty_OnePass(t) ==
  /\ At(t, "undirty")
  /\ heap' = DoneWithChild([heap EXCEPT ![thread[t].node].dirtyCounter = 0], t)
  /\ Become(t, Returns(t))
  /\ OnlyTree
undirty(t) ==
  /\ At(t, "undirty")
  /\ LET left == Here(t).dirtyCounter - thread[t].completed
         clean == [heap EXCEPT ![thread[t].node].dirtyCounter = left]
     IN IF left <= 0
        THEN heap' = DoneWithChild(clean, t) /\ Become(t, Returns(t))
        ELSE heap' = clean /\ Become(t, [thread[t] EXCEPT !.at = "recompute", !.completed = left])
  /\ OnlyTree

-----------------------------------------------------------------------------
SearchStep(t) ==
  \/ Begin(t) \/ StopSearching(t) \/ runSinglePlayout(t)
  \/ AddLeaf(t) \/ playoutDescend(t)
  \/ storeNNOutputIfNull(t) \/ addCurrentNNOutputAsLeafValue(t) \/ claimEvaluating(t) \/ initializeChildren(t)
  \/ SelectChild(t) \/ SelectNewMove(t) \/ SelectNothing(t)
  \/ maybeExpandChildrenCapacity(t) \/ growChildren(t) \/ allocateOrFindNode(t) \/ insertChild(t)
  \/ maybeCatchUpEdgeVisits(t) \/ Descend(t) \/ EndCycle(t)
  \/ ReturnTrue(t) \/ ReturnFalse(t) \/ FinishPlayout(t)
  \/ updateStatsAfterPlayout(t) \/ readChildren(t) \/ writeStats(t) \/ undirty(t)

WalkStep(t) == WalkChild(t) \/ WalkDone(t)

Next ==
  \/ beginSearch \/ EndSearch \/ Sweep
  \/ \E m \in DOMAIN Play[rootPos] : makeMove(m)
  \/ \E t \in Threads : SearchStep(t) \/ WalkStep(t)

Fairness ==
  /\ \A t \in Threads : WF_vars(SearchStep(t) \/ WalkStep(t))
  /\ WF_vars(EndSearch \/ Sweep)

Spec == Init /\ [][Next]_vars /\ Fairness

-----------------------------------------------------------------------------
Keys == {GraphHash[p] : p \in Positions} \cup {FreshKey, RootKey}
AllMoves == UNION {DOMAIN Play[p] : p \in Positions}
SearchNodes ==
  [live : {TRUE}, key : Keys, pos : Positions, state : UNEVALUATED..EXPANDED2, nnOutput : BOOLEAN,
   children : Seq([move : AllMoves, node : Nodes, edgeVisits : Nat]), visits : Nat, weight : Nat,
   virtualLosses : Int, dirtyCounter : Int]
Places == {"idle", "begin", "top", "done", "visit", "evaluate", "addValue", "claim", "initialize", "select", "full",
           "grow", "allocate", "insert", "edge", "update", "recompute", "write", "undirty", "true", "false"}
Playouts ==
  [at : Places, numPlayouts : Nat, node : Nodes \cup {NoNode},
   path : Seq([node : Nodes, idx : Nat, count : BOOLEAN]), state : UNEVALUATED..EXPANDED2,
   idx : Nat, move : AllMoves \cup {"none"}, child : Nodes \cup {NoNode}, countEdgeVisit : BOOLEAN,
   shouldCount : BOOLEAN, completed : Nat, edges : Nat]

(* The types: in particular no thread works on a node that is not there,   *)
(* or on a slot that holds no child.                                       *)
TypeOK ==
  /\ heap \in [Nodes -> {Free} \cup SearchNodes]
  /\ root \in Nodes \cup {NoNode} /\ oldRoot \in Nodes \cup {NoNode} /\ rootPos \in Positions
  /\ phase \in {"idle", "search", "mark"} /\ searches \in 0..Len(Limits)
  /\ playouts \in Nat /\ shouldStopNow \in BOOLEAN
  /\ thread \in [Threads -> Playouts]
  /\ marked \subseteq Nodes
  /\ walk \in [Threads -> Seq([node : Nodes \cup {NoNode}, todo : SUBSET Nodes])]

(* A node's children are the positions its moves lead to, each move once,  *)
(* in slots that its state has allocated: whatever threads grow it at once *)
(* and whatever the table hands out (allocateOrFindNode, the lock around   *)
(* the slot, tryExpandingChildrenCapacityAssumeFull).                      *)
ChildrenFollowMoves ==
  \A n \in Live :
    LET children == heap[n].children IN
    /\ Len(children) <= getChildrenCapacity(heap[n].state)
    /\ \A i \in DOMAIN children :
         /\ heap[children[i].node].live
         /\ heap[children[i].node].pos = Play[heap[n].pos][children[i].move]
         /\ \A j \in DOMAIN children \ {i} : children[i].move # children[j].move

(* Paths that meet in a position meet in one node: the table never holds   *)
(* two nodes of one position under its hash.                               *)
OneNodePerPosition ==
  \A n, m \in Live :
    n # m /\ heap[n].key = heap[m].key => heap[n].key \in {FreshKey, RootKey}

(* While nothing runs, the books of the tree are closed: no virtual loss   *)
(* is left, and each node has its own visit and the visits of its edges,   *)
(* all of them seen by the last computation of its statistics, however     *)
(* many threads came to update it at once (updateStatsAfterPlayout).       *)
VisitsAddUp ==
  phase = "idle" =>
    \A n \in Live :
      /\ heap[n].virtualLosses = 0 /\ heap[n].dirtyCounter = 0
      /\ heap[n].children # <<>> =>
           /\ heap[n].visits = 1 + EdgeVisits(n, Slots(n))
           /\ heap[n].weight = EdgeVisits(n, Slots(n))

(* After a sweep the table holds exactly the nodes that the root reaches:  *)
(* nothing that is pointed to was deleted, nothing else was kept.          *)
ChildrenOf(n) == {heap[n].children[i].node : i \in Slots(n)}
Reached[k \in Nat] ==
  IF k = 0 THEN {root} ELSE Reached[k - 1] \cup UNION {ChildrenOf(n) : n \in Reached[k - 1]}
SweepIsExact ==
  [][phase = "mark" /\ phase' # "mark" =>
       {n \in Nodes : heap'[n].live} = Reached[MaxNodes]]_vars

(* A search ends, whatever playouts are given up on the way. *)
SearchEnds == []<>(phase # "search")
=============================================================================

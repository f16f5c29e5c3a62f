# KataQuoridor in TLA+

KataQuoridor is KataGo turned into a Quoridor engine: a game implementation, a
multi-threaded Monte Carlo tree search over it, and programs around the search
(an analysis server, a GTP engine, self-play, a client that contributes games to
a distributed run).  This directory holds TLA+ modules of the parts whose
correctness is a matter of control rather than of numbers, the TLC
configurations that check them on small instances, and proofs, checked by TLAPS,
of what was worth proving for every instance.  Paths below are relative to the
repository; `cpp/` lies under its source root.

## 1. Inventory

| part | code | state | operations | how it interacts |
|---|---|---|---|---|
| Board | `cpp/game/board.{h,cpp}` | grid of colors, pawns, wall bitmaps, wall counts, move number, incremental 128-bit hash, one cached shortest path per player | legality, play, record, undo, mirror, searches | a value; copied by the history, the search threads and the encoders |
| History and rules | `cpp/game/boardhistory.*`, `rules.*` | moves, ring of recent boards, result, positions since the last wall | move (strict, tolerant), komi, resign, cut off, replay | owns no board; called by every player of games |
| Graph hash | `cpp/game/graphhash.cpp` | none | state hash, graph hash, from scratch | key of the search's node table |
| Race solver | `cpp/game/racesolver.*` | values of all pawn races for a fixed wall layout, a cache of them | solve, evaluate, optimal moves | asked by the search of every leaf; self-play finishes solved games with its moves |
| Thread-safe queue | `cpp/core/threadsafequeue.h` | two vectors, head index, closed, readOnly, two condition variables | push, pop, bulk pop, close, read-only | between task and game loops, analysis and write threads, clients and net servers, game and data-write loops |
| Waitable flag, priority mutex, counter, throttle | `cpp/core/threadsafecounter.h`, `prioritymutex.h`, `throttle.h` | a flag or count each, with a mutex and condition variables | set, wait, lock | contribute client, search |
| AsyncBot | `cpp/search/asyncbot.*` | search object, running / killed / stop flags, queued callbacks | set-up calls, genMove, ponder, analyze, stop, kill | a user thread, its own search thread, a callback thread; others may stop or kill it |
| Search tree | `cpp/search/search*.cpp` | node table, children arrays with states, statistics, ages | play out, expand, update, promote, filter, mark and sweep | many search threads on shared atomics; the user's thread between searches |
| Caches | `cpp/search/evalcache.*`, `subtreevaluebiastable.*` | sharded maps | find, update | search threads |
| Net evaluator | `cpp/neuralnet/nneval.*` | query queue, server threads, result cache, counts of evaluations and waiters | evaluate, wait for the next evaluation, serve, spawn, kill | search threads wait for servers, or for each other's evaluations |
| Analysis engine | `cpp/command/analysis.cpp` | open requests, status and focus of each, analysis and write queues | query, terminate, set_focus, shutdown | request loop, one thread and bot per search, write thread |
| Contribute client | `cpp/command/contribute.cpp` | pause flag, stop flags, game queue, task mutex | task, game, pre-download, stop and control loops | five kinds of thread, signals, the user |
| Self-play manager, game playing | `cpp/program/selfplaymanager.*`, `play.*`, `command/selfplay.cpp` | loaded models with reference counts, data queues and write loops; queue of tasks | load, acquire, release, enqueue, clean up, write, shut down | game threads, model loader or task loop, data-write loops, main |
| Text protocols | `cpp/command/gtp.cpp`, `match.cpp`, `gatekeeper.cpp` | that of the parts they drive | | |
| Encoders, backends, training data, book, distributed HTTP client, Python | `cpp/neuralnet/*`, `cpp/dataio`, `cpp/book`, `cpp/distributed`, `python` | numbers, files, sockets | | |

What is hard in this code:

* *redundant state kept incrementally*: hash, cached paths, wall bitmaps and cells,
  repetition windows, graph hash.  Each has an expensive definition from scratch
  that the code never compares it with while it plays;
* *the same rule written twice*: pawn jumps (`isLegalPawnMove`,
  `getLegalPawnDestinations`), distances (`bfsReachable`, `calDistMap`), hashes after
  a move;
* *stops, kills and terminations* that arrive before, during or after what they are
  meant for: `AsyncBot`, the analysis engine, the contribute client;
* *condition variables* notified only at edges (`ThreadSafeQueue`), under different
  locks (`WaitableFlag`, `PriorityMutex`), and shutdowns that join threads waiting on them;
* *lifetimes*: requests freed by one thread while another walks the open ones, models
  of games that cannot be queued, models freed by the loop that writes their last game,
  nodes swept by many threads, a detached control loop;
* *one shared tree*: threads that expand the same node, share a transposed one, grow an array
  under readers, and give a playout up half way, all without a lock around the whole;
* *counts that stand for threads*: tokens for waiters of the net evaluator, acquisitions of a
  model, write loops still active.

`PROJECT.json` lists the hazards one by one, each at its line, with the properties
that would notice it going wrong.

## 2. Modules

| module | models | by |
|---|---|---|
| `Board` | Board as a pure data type | operators on a record with the code's fields |
| `BoardPlay` | a board being played on | state machine: `playMove`, `playMoveRecorded`, `undoLast` |
| `BoardHistory` | BoardHistory as a pure data type | operators; extends `Board` |
| `GamePlay` | a controller of one game | strict and tolerant moves, komi, resignation, cut-off |
| `GraphHash` | two lines of play and their graph hashes | lock-step moves of both lines |
| `ThreadSafeQueue` | the queue and threads that use it | one action per critical section |
| `FifoQueue` | what the queue promises | abstract specification |
| `Contribute` | threads of the contribute client, with `WaitableFlag` and `PriorityMutex` | one action per step between shared accesses |
| `AsyncBot` | one bot: user, search, callback and other threads | one action per critical section |
| `AnalysisEngine` | request loop, analysis threads, write thread, shutdown | one action per access to shared state |
| `RaceSolver` | the retrograde race solver | operators; extends `BoardHistory` |
| `RacePlay` | the solver beside games that are played | properties over `GamePlay` and `RaceSolver` |
| `SearchTree` | search threads, the tree and the user's thread between searches | one action per atomic operation that another thread can tell apart |
| `NNEvaluator` | clients, server threads and the owner | one action per critical section |
| `SelfplayManager` | manager, game threads, write loops, loader or task loop, main, of self-play and of contribute | one action per critical section |
| `BoardProofs`, `ThreadSafeQueueProofs`, `NNEvaluatorProofs`, `AsyncBotProofs`, `ContributeProofs`, `AnalysisEngineProofs`, `SelfplayManagerProofs`, `SearchTreeProofs` | theorems | one module beside each of these components |
| `MC*` | instances for TLC | values of constants, symmetry |

Composition is by layers.  `GamePlay` and `GraphHash` run on `BoardHistory`, which runs on
`Board`, and `RacePlay` sets `RaceSolver` beside `GamePlay`.  `Contribute`, `AnalysisEngine`,
`NNEvaluator` and `SelfplayManager` use queues that are sequences and whose blocking calls are guards;
that is justified by the theorems of `ThreadSafeQueueProofs` (no lost wakeup, FIFO).
`AnalysisEngine` uses bots that are stopped and killed; that a stop or kill ends a search and
that its end is reported once is what `AsyncBot` shows.

### Correspondence

*Board.*  The code fixes a 9 x 9 board on a 17 x 17 grid; the module has `N` pawn cells a side
and writes every bound in terms of it.  A location is a pair of grid coordinates, its
single integer being a bijective encoding.  The Zobrist keys are independent random
128-bit numbers combined by XOR, so a hash is the *set* of its keys and XOR is
symmetric difference: two hashes are equal in the model exactly when they are
equal for all keys.  Collisions are outside the model.  The searches keep the order in which the code tries
directions, because the cached path they return depends on it.

*BoardPlay.*  `playMove` is used when no recorded move is outstanding, as in the code,
where a caller that records takes back what it recorded.  Either player may move at any time,
as the GTP engine and the tests allow.

*BoardHistory, GamePlay.*  Komi, lead and score are half-integers and kept doubled.  `Move`
is the whole of `makeBoardMoveAssumeLegal`: reset of the result, board, history, ring, window,
terminal tests in their order.  The rules are a record (`Rules`), so that one run plays under
several; `GamePlay` begins from any of `Starts`: a board, rules and a number of plies already played, the
last as `FromNewBoard` gives it.  Fields that always mirror another one (approximate turn counts,
`whiteHasMoved`) are left out.

*RaceSolver, RacePlay.*  A state of the race is the side to move with both pawns.  The solver works as the code does,
one threshold of the lead at a time, each a retrograde pass over predecessors with counters; leads are
doubled, and 0 stands for a race that nobody can win.  `genMoves` and `calDistMap` are the
solver's own transcriptions of the pawn rules.  The cache is the table of all solutions a game of the run can ask
for: eviction, its mutexes and its statistics are out, since asking again solves again.
`Table` and `With` only make TLC tabulate or evaluate once.
`GameValue`, the reference, is the minimax value of the game under the rules of `BoardHistory`.

*GraphHash.*  A hash that mixes the previous graph hash with the current state is the
*sequence* of the states, with the code's cut after an irreversible move.

*ThreadSafeQueue.*  A critical section is an action.  Waiting on a condition variable puts the thread
into `waitNotEmpty` or `waitNotFull`; notification and spurious wakeup take it out,
and it then repeats its critical section from the loop test.  `waitPop` is
`waitPopUpToN` with n = 1.  `pushed` and `popped` are history variables.  After `close` the head index is
stale, and only `size` would look at it: every other operation returns first.  Nobody asks
a closed queue for its size, and the model does not either.

*Contribute.*  `WaitableFlag::waitUntilFalse` is two steps, because it reads the flag
before it takes the mutex and does not read again before waiting.  `PriorityMutex` is the
holder, the count of high-priority threads, which rises before the mutex is asked for, and the
sleepers.  What a task is (self-play or rating, its models, its upload) is abstracted to the
branches of the loop: no task, models to download, a failing model, games to push.

*AsyncBot.*  The search is an external actor that ends when it sees the stop flag, or by
itself.  The user thread is the one owner; `stopWithoutWait` and `setKilled` come from
anyone at any time.  `setRootFocus` (`asyncbot.cpp:124`), which does not wait for the search to end, the analysis
engine calls during a search and is part of that module; GTP calls it between searches.

*AnalysisEngine.*  A request is its number in the order of arrival with a status, a focus and a priority.
`status` takes the values of the code's atomic: `IN_QUEUE`, `POPPED`, `TERMINATED` or
the thread that searches.  Every compare-and-swap, exchange and flag write
is a step of its own; `openRequestsMutex` has a holder only while the request
loop walks the open requests.

*SearchTree.*  A node is an address of a heap.  Its state runs through the code's constants from
`UNEVALUATED` to the three children arrays; claims of a state are compare-and-swaps.  `thread[t]` is where a
search thread is and the path it has descended.  Open or abstract:

* which child or new move is best: any may be, so what holds does so whatever the values are;
* 128-bit collisions between positions with the same player to move (`HashAssumption`); those between players,
  which the code treats apart, are in;
* the game graph is given by constants and has shorter cycles than Quoridor;
* the heap has `MaxNodes` addresses: a step that needs a new one is taken only while there is one (`HeapHasRoom`);
* reads of a counter that only grows are one step with what follows them;
* values, focus playouts, forced non-terminal roots, a new evaluation of the root, the human network, evaluation cache,
  bias tables, snapshots of visits and `recursivelyRecomputeStats`;
* a chosen move that turns out to be illegal (`search.cpp:1408`), after which the playout computes the node's
  evaluation anew and counts as made: it needs a collision between positions with
  the same player to move.

`marked` is `nodeAge` compared with the current age, and the path a thread keeps to notice cycles includes the root.  The last
branch of `claimEvaluating`, for a state that is neither unevaluated nor being evaluated, cannot be taken
where it is called.

*NNEvaluator.*  A critical section of `bufferMutex`, a result buffer or a cache slot is a step.  What is computed
of a position is represented by that position, so a buffer that got another's result shows.
`Waiting` are the clients that wait for somebody's evaluation; `numOngoingEvals` counts the queries that are being
pushed (`Pushing`), are in `queryQueue` or are with a server (`Taken`).  Servers are killed only while no client is in a
call, as `benchmark.cpp` and the destructor do, so no client finds `isKilled` set in its wait.  Left out: inputs, symmetries, post-processing, the
copying of owner-map values into a cached result, statistics.  The cache is cleared a slot at a time.

*SelfplayManager.*  `distributed` tells the two programs apart: `command/selfplay.cpp`, where models appear in a directory
and games change to newer ones, and `command/contribute.cpp`, where the task loop loads a
model, acquires it for each game, and the game thread releases it.  The task loops take turns under
`taskLoopMutex` (`Contribute`), so there is one; a task names one model and one manager instead
of two models and a rating manager; models are numbered in the order of their loads, so that `modelDatas` is a set and
`Latest` its largest number; cleaning up models by their age may drop any of the unused ones.  A name that is
loaded twice is an error of the code and does not occur.  Pausing is `Contribute`'s.  A stop in contribute is graceful
(the game is finished) or forced.  Counters that are only reported are left out.  Two defensive branches never run, because
callers hold an acquisition: a push to a queue already read-only, and a release of an unknown model.

Right before some definitions `X` stands a faulty variant, under a comment that begins with `Fault:` and with a name
that adds the mistake, as `Hit_SlotOnly` before `Hit`.  No specification uses them; they serve to show that each property notices a mistake of that kind.

## 3. Runs

All runs are on two workers within five minutes.

| run | what it shows | bounds, and why they are enough |
|---|---|---|
| `board` | `BoardConsistent`, `DerivedDataIsFresh` (hash and cached paths), `WallLegalIffNoFullBlock`, `PawnMovesAgree`, `MirrorIsSymmetry` in every position, and `UndoRestores` | N = 3, two walls each or one for White only, five moves by either player in any order, recorded moves taken back.  A 3 x 3 board has four anchors, so walls touch, cross and extend each other and block corners with two or three walls; pawns are adjacent after one move, so straight and diagonal jumps, jumps at walls and at the edge all occur |
| `game` | `ResultIsOfBoard`, `HistoryIsOfGame` (repetitions, recent boards), `ReplayReproduces`, and for the race solver `RaceIsTheGame`, `FinishKeepsValue` | five moves, one tolerated move, one control call, a ring of three, from starts that differ in walls left, walls placed, komi, plies and rules: repetition and ply limits soon enough to meet a goal, bare races in three layouts with time to repeat, and one race that the limit of plies can cut off.  A repetition takes four moves, a wall before it five, a goal two.  `FinishKeepsValue` meets optimal moves of both kinds, those that keep the value and one that does not (see Remarks) |
| `graph_hash` | `SharedNodesAgree`, `IncrementalIsFromScratch` | two lines of four moves with one wall place: repetitions, walls after transposed moves, and transpositions without a wall |
| `queue` | `NoStrandedThread`, `ImplementsFifo`, `WaitersAreReleased` | three threads, three elements, size one: `forcePush` exceeds the size and a bulk pop of two crosses it, so both edges at which the code notifies are passed and jumped over |
| `contribute` | `GamesAccountedFor`, `TaskLoopsTakeTurns`, `StopIsFinal`, `UnpausedShutdownEnds` | two task loops contend for the mutex, with one game loop, the pre-download loop, one move a game, one game a task (the code has two or more; the theorem `GamesCounted` is for any number), and the commands pause and forcequit and signals.  (The other commands are in the module; typing `resume` as well changes no verdict and doubles the run) |
| `contribute_pause` | the finding below (violation) | one task loop and one game loop |
| `async_bot` | `MoveIsDelivered`, `NoCallbackAfterStop`, `HandOverIsClean` (set-up excludes a running search, the move comes before the end is announced), `StopReturns`, `KilledBotEnds` | three searches: one running, one queued behind it, one after |
| `analysis` | `ExactlyOneFinalReply`, `NoActOnGoneRequest` (no use of a freed request, a stop hits its own search), `FocusIsCurrent` | two bots, two positions in one or two queries, two priorities, two focuses: a bot can finish one request and take the other while a termination of the first is under way |
| `analysis_ends` | `TerminatedIsAnswered`, `QuitEnds` | the same bots and requests with `-quit-without-waiting` and one focus |
| `search_tree` | `ChildrenFollowMoves`, `OneNodePerPosition`, `VisitsAddUp`, `SweepIsExact`, `SearchEnds` | two threads, five positions with a transposition, a cycle, a terminal and a hash shared by two players, arrays of 1, 2, 3 slots, searches of two and one playouts with a move or a filtered root between them: both threads can hold the same node unevaluated, race for its slots, and meet in the transposed node |
| `nn_eval` | `WaitersAreCounted`, `EvaluationIsOwn`, `EveryCallReturns` | two clients, two servers, batches of one or two, two positions in one cache slot, so a query is answered from the cache, evicts another, or misses; the number of servers changes at each spawn |
| `selfplay` | `NothingIsLost`, `ShutdownEnds` | both programs with two game threads, two models, three games and data queues of one: a full queue, a dropped model with games under way, a change of model within a game, a stop at any moment |

### Fairness

Safety runs need none.  Where liveness is checked:

* threads that can run do (weak fairness of each thread's steps): they are
  operating-system threads, and a mutex is handed on when it is free.  In `NNEvaluator` that is all:
  a client that waits for the next evaluation may be overtaken again and again by others that take the token, and
  `EveryCallReturns` promises that its wait ends unless they do so for ever;
* *nothing* is assumed of users and input, of a search reaching its limit (`SearchFinishes`
  in both modules) or of a callback's period elapsing: stops must work without them;
* `SearchTree`: each thread's steps, the end of the search and the sweep; nothing makes the user begin a
  search;
* `SelfplayManager`: weak fairness of each thread, and strong fairness of a game's end: the number of moves of a game is bounded,
  and a game thread that may still change its model goes round a loop until then.  Nothing makes a signal or a model come;
* `Contribute`: strong fairness of main's last step, which needs `controlMutex` between two commands
  of the control loop; the user does not type without pause;
* `AnalysisEngine`: strong fairness of an analysis thread's two uses of `openRequestsMutex`,
  which the request loop holds only while it handles an action and not while it waits for input.

### Finding

`WaitableFlag::waitUntilFalse` (`cpp/core/threadsafecounter.h:95`) can miss the last change of the flag: it
reads the flag, a stop clears it for good and notifies nobody, and it then waits.  In the
contribute client a task, game or pre-download thread can then sleep through a forced quit that came right
after a pause, although `cpp/command/contribute.cpp:690` and `:1488` say that a stop ends all pausing, and main
waits for it at the join.  `UnpausedShutdownEnds` shows that without a pause the shutdown ends.

### Remarks

* `cpp/game/board.h:356` and `cpp/game/board.cpp:1277` explain the wall bitmaps by walls that
  share an arm cell.  Horizontal and vertical arms lie on cells of different parity, and
  `placeFence` never marks one cell for two legal walls (`BoardConsistent`, proved).  The bitmaps are
  still of use: the cells alone do not tell which of two collinear neighbours a centre belongs to
  without looking at the arms.
* Race solver: the lead that `evaluate` gives is the value of the game in every position of the run.  But the moves of
  `optimalMoves` do not all keep it, although `cpp/search/searchresults.cpp:588` says so.  `evaluate` asks that
  `forced`, the plies that the winner needs if the loser stalls, fit in the plies left; the winner then moves by
  `plies`, those of a loser who keeps his loss small, and the fastest move by that measure may allow more stalling.
  The start `Around` of the run `game` shows it.  The walls are gone, one lies in front of White's start, komi
  is -2.5, and ply 11 is a draw.  At ply 8 Black stands on his start, White on the left of the middle row, and Black
  wins by half a point within 3 plies.  His optimal move, to the right corner of his row, wins in 2 if White
  keeps his loss small: White arrives and komi beats him.  White can instead stay away and lose by more, but only
  after 4 plies, and 2 are left before the draw.  What is true, and what
  `FinishKeepsValue` states, is that an optimal move keeps the value exactly if `forced` of the position after it fits in
  the plies left.  With time enough it always does.
* After a move that keeps the value `evaluate` may still decline, because the position just left is then an earlier one of the
  history: with a draw at the second occurrence it vouches for a won race only in the first position after a wall.  A finish in
  self-play goes back to searching there.  `FinishKeepsValue` covers these positions too: in the run repetitions cost no value.

## 4. Proofs

TLAPS checks the theorems for all values of the constants, from the assumptions declared with the constants
only: for the board, that `N` is odd and at least 3 (the pawns start in the middle column), that supplies and
bounds are natural numbers and that handicaps stay within the supply; for games, that they start from boards
in play (`InPlay`, which by `BoardStaysInPlay` is what moves and undos leave) with no pawn on its goal, under
rules with a half-integer komi, a positive limit of plies and no limit of one occurrence, and that the ring of
recent boards has a place; for graph hashes, that two lines are compared; for the queue, that `maxSize` and
the bulk sizes are positive; for the net evaluator, that clients and servers are finite sets, that batches
have a positive size and that each position has a slot; for the bot, that it is searched with a positive
number of times; for the contribute client, that its kinds of threads are finite sets apart from each other
and that there is a game thread; for the analysis engine, that there is an analysis thread and that no bot is
called like a status (in the code, that bot indices are not the negative status codes); for the self-play
manager, that game threads are a finite set that is not empty, that a model may be loaded and that the queue
of finished games holds one; for the search tree, that search threads are a finite set that is not empty
(`cpp/program/setup.cpp:541`), that each children array is larger than the one before
(`cpp/search/searchnode.h:141`), and that hashes of positions tell positions of one player apart and are
neither the hash of the root nor a random one.

*BoardProofs.* All that the runs `board` and `graph_hash` check, and what `game` checks but the race solver,
is proved here for boards of every size. The board's consistency is not inductive by itself as soon as moves
are taken back: what `undo` restores depends on the record. `IInv` therefore says, of every entry of the undo
stack, that its board was consistent, that its record is the record of a legal move on that board, and that
the move leads to the *position* of the next entry up (cells, pawns, walls, supplies; not cached paths or
hash). A played move is shown consistent from four facts: cells of a wall are no pawn cells
(`WallCellsOffPawns`), a legal wall is new (`WallIsNew`), the effect of each update on each field
(`SetStoneEffect`, `MovePawnEffect`, `PlaceWallEffect`), and that the number of walls grows as a supply
shrinks. Taking one back uses that no other wall has its cells (`WallsDetermine`).

What a breadth-first search returns is the heart of the other theorems, and no induction over its recursion is
available. Its folds are therefore unfolded to chains of queues (`VisitsChain`, `ExpandsChain`), along which
an invariant is carried number by number (`NatSet`). A queue of walks to different cells only grows and is
never longer than the N * N pawn cells, so the loop that the model cuts at N * N expansions has expanded
everything, and what is in the queue is closed under steps (`BfsFinds`). Whether a row can be reached is
stated without any walk: every closed set of cells around the start has a cell of the row (`CanReach`); steps
can be taken back, so this is the same from the goal row (`DistMapReaches`). `PathInv`, inductive relative to
`IInv`, says that each cached path, on the board and on those that undo returns to, leads its pawn to its goal
row. With it a wall that crosses no cached path leaves both players a way, which is `WallRuleHolds`.
`GeneratorAgrees` compares the two sets of jump rules direction by direction. That nobody is ever without a
pawn move uses both invariants: a player without one would be shut in with the opponent in cells from which
not both goal rows can be reached, or need two walls that cross. `MirrorKeepsRules` relates the board and its
mirror image by a symmetric relation (`Twins`), so what one allows is shown once.

For `NothingDerivedIsStale` the hash is a set of keys (`HashMembers`) and each update of it is shown to be
that of the position (`HashInv`). Which path a search returns depends on the order of directions, and so on
how the position came about only if the order is not the same each time: `Before` orders paths by length, then
start, then the first direction in which they differ, and a search keeps its queue in this order
(`VisitSorted`, `ExpandSorted`), so that it finds the first of all walks to each cell (`BfsLeast`). The path
it returns is the first of all walks to the goal row, there is one such walk (`FirstIsOne`), and a wall that
does not cut it only takes others away (`FirstStays`): the path that is kept is the path that would be found.
Lengths agree because a walk from the goal row can be walked back. `UndoIsInverse` follows: of a pawn move
undo leaves the opponent's path alone, which no pawn can cut.

Games and graph hashes go on from there: together the invariants of the board are `InPlay`, which every legal
move keeps (`BoardStaysInPlay`), so a board is all that the other specifications need to know of how it came
about. Their formulas are `GameSpec` and `LinesSpec`, so that one module can speak of all three. `GameInv` has a
part for each thing a history keeps: `RecordOf` (its fields agree, and the last position counted is the
current one), `IsEnd` (the result is the one the rules give at this board and ply, or a controller's word on a
game the rules let go on), `PastOf`, `CountedOf` and `RingOf` (boards passed, positions counted, recent
boards), `OneArrived` (in strict play only the last mover can be on the goal). `HistoriesAreOfTheirGames`
rests on `CountedOf`: the positions counted since the last wall are *all* positions of the game with the walls
that are left now, because a wall lowers the supply for good, so clearing the list at a wall forgets no
repetition; and on `SitHashIs`, that the hash of a situation determines position and mover. `RecordsReplay`
needs `Replayable`, which says of *every* valid komi that the recorded moves lead to the same board and course
of the game, and to the end that the rules give under that komi: `setKomi` replaces the komi in mid-game, and
an invariant about the present one would not survive it. Replays are folds; `PlayedNext` unfolds them from the
other end, where a game grows. `ResultsAreOfTheirBoards` follows from `IsEnd` case by case.

`LinesInv` says of each line that its graph hash is a chain of states in step with the positions counted, and
that hashing from scratch along the recorded moves gives the same chain. `IncrementalHashIsFromScratch` is its
last part. `SharedNodesHaveOneFuture`: two lines with one hash have equal chains, hence equal positions
counted, plies and boards, and then every continuation repeats and ends alike; if both have just placed a
wall, one state each is all they have.

*ThreadSafeQueueProofs.* `QueueInv` is `TypeOK /\ NoStrandedThread`, inductive as it stands: a thread sleeps
only while the queue is empty (or full), and the notification at the edge is enough because no push or pop
jumps over that edge unnoticed. `QueueIsFifo` is the refinement of `FifoQueue` with the content read off the
two vectors; its lemmas on concatenation (`StartOfConcat`, `MoreOfConcat`) carry the swap in the middle of a
bulk pop.

*NNEvaluatorProofs.* `NNTypeCorrect` is the type invariant. `WaitersCounted` is about the count of waiters of
`waitForNextNNEvalIfAny`, which three kinds of thread change. The count alone is not inductive: a waiter let
go by a kill would take a token that is not there. `WaitersInv` adds that servers are killed only while no
client is in a call, and that a waiter without a token has an evaluation before it. Each action gets a lemma
that says what it does to the set of waiting clients (unchanged, one more, one fewer), and the cardinality
follows from the theorems on finite sets. `EvaluationOwn` rests on `EvalsInv`: the result that a server puts
in a buffer is computed from what that buffer asked (`ResultsOwn`); a query is at most once in the queue and
at most once with one server, never in both (`PlacesInv`), and `numOngoingEvals` counts the buffers in one of
these places (`EvalsCounted`).

*AsyncBotProofs.* `BotInv` says where each thread of the bot can be while a search runs: the search thread is
past the top of its loop only with a running search, the callback thread lives only between the begin and the
end of its search, whoever was released by the end finds none, and a move that is queued for delivery is that
of the last search, not delivered before. `NoLateCallback` and `MoveDelivered` follow from it; `HandOverClean`
is an action property, proved from `BotInv` one action at a time (`CleanStep`).

*ContributeProofs.* `StopInv` adds to `StopIsFinal` that the flag was cleared for good when the stop was
announced and that main, once it goes on, finds `shouldStop` set. `TaskLoopsTakeTurns` is inductive as it
stands; its count of high-priority threads is carried by two lemmas on cardinality (`OneMore`, `OneFewer`),
one of which each action of the priority mutex is an instance of. `GamesInv` adds to `GamesAccountedFor` that
a game loop ends only when the queue is empty and read-only: without that, a game pushed late would be in
nobody's hands.

*AnalysisEngineProofs.* Five invariants, each resting on the ones before. `OwnInv`: an open request is about
to be queued, queued, or with exactly one thread, and whoever acts under `openRequestsMutex` acts on open
requests; this gives `TypeOK` and the first half of `GoneIsGone`. `StatusInv`: a status that names a bot is
that of the request the bot has claimed, a claimed request never goes back to the queue, and between
`terminateRequest`'s exchange of the status and its `stopWithoutWait` the bot it found is still at that
request, because to leave it the bot needs the mutex; this is the second half. `EndInv`: every open request is
on its way to a thread or with one, threads leave an empty queue behind, and the write queue is closed last.
`AnswerInv`: a request has no reply until it arrives and as long as it is unclaimed, about to be answered by
the request loop, or worked on by a thread, and exactly one after that (at most one if the program quits
without waiting). `OneReply` follows, with replies that wait counted in the write queue (`CountAppend`,
`CountTail`). `FocusInv`: a bot that searches has the focus of its request, or the request loop is between
writing the focus and handing it on. The requests an action works off are taken in the order of their numbers;
that there is a least one (`LeastIn`) follows from well-foundedness of inclusion among finite sets.

*SelfplayManagerProofs.* `SelfplayTypeCorrect` is the type invariant, `NothingLost` that no finished game is
lost and no count of a model goes wrong. Neither is inductive. `ControlInv` says where each thread can be
while the others are where they are: the loader, the write loops, main, whoever waits for the last loop.
`ModelsInv` says that whoever holds an acquisition of a model finds the model loaded, and that each model's
count of games is the number of its holders (`Balance`: one action moves one holder). `LoopsCounted` and
`EndedInv` are the same for the write loops and their end. An acquired model is thus never read-only, so that
its loop is there to write what is pushed. `GamesInv` then says that each finished game is in exactly one
place, its thread's hands, a queue, a loop's hands, or written (`InOnePlace`, `OneMoves`).

*SearchTreeProofs.* `TreeInv` is what the threads may rely on while others work on the same nodes. Most steps
of a thread are judged by what the others can see of them: `GrownTree` says that a heap came from another by
nodes that keep position and key, states that only go up and children that are only appended, and whatever a
thread has found out on its way down (`PathInv`) or has chosen (`StateInv`, `ChildInv`) survives such a step
of any other thread (`PathKeeps`, `StateKeeps`, `ChildKeeps`). What does not survive growth is a choice of the
state: those who evaluate a node or grow its children own its state (`OwnersInv`, `OwnStep`). That a move is
given one slot rests on `ChoiceInv`: a thread that is about to fill a slot has seen all slots before it,
filled once for all, and the slot it fills is the first that is free or it gives up. `OneNodeForAPosition`
needs the mutex of the table for the look and the insertion together. For mark and sweep, `WalkInv` is the
invariant of a depth-first search by several threads: what a marked node leads to is marked or on some
thread's stack, and what a node on a stack leads to is that, or still to be walked; when all stacks are empty,
all that the root reaches is marked, so the sweep frees nothing that is pointed to. `SweepsAreExact` adds that
it keeps nothing else. `FoundInv` says of every closed set of nodes around the root that the walks have found
nothing outside it; what the root reaches (`Reached`, a recursive function whose equation is solved by the
ends of walks of k steps, `EndsNext`) is such a set after as many steps as there are nodes, since each step
short of that adds a node (`ReachedClosed`). The old root is outside because no child has the key of a root.

`TheBooksAreClosed` is about sums that are out of balance as long as anybody searches. `BookInv` says what is
missing meanwhile: a node is evaluated once, by one thread, which gives it its own visit (`Evaluated`); one
thread at a time recomputes it, for updates that `dirtyCounter` counts (`Updated`); once no update is
announced or came meanwhile, its weight is that of its edges (`Weighed`); and its visits, with the updates
announced and counted, are one more than those of its edges (`Added`). A step changes one edge or one thread's
debt, and the accounts of all other nodes are carried over at once (`SameBook`, `SameStakes`). `LossInv`
counts virtual losses: a node has as many as threads with the node in their path or as the child they are
about to enter, which needs that no path visits a node twice. At rest no thread has a path or a debt, so both
are closed. Sums over sets (`TotalStep`, `TotalWithout`) are reasoned about by the smallest set for which a
claim fails, since the induction theorems of the library cannot be used.

The type invariants of all eight are proved and not run.

*Left to TLC.* Liveness under fairness (`WaitersAreReleased`, `UnpausedShutdownEnds`, `StopReturns`,
`KilledBotEnds`, `TerminatedIsAnswered`, `QuitEnds`, `SearchEnds`, `EveryCallReturns`, `ShutdownEnds`); what
the race solver computes (`RaceIsTheGame`, `FinishKeepsValue`), which is an induction over data and over a
recursive operator. Every other property of a passing run is a theorem.

## 5. Not modelled

* Networks, backends, encoders, the values a search computes, the book, training:
  floating-point computations without control of their own.  They are most of the lines of the repository: GPU
  kernels, model files and tuning alone outweigh the modelled parts several times over.
* Parsing, printing, JSON, SGF, files, HTTP: wherever they decide what happens next,
  the outcome is a choice in the model (a task that fails, a query that names several requests).
* Exceptions that end the process, and the warning and version queries of the analysis protocol,
  which touch no shared state except the output queue.
* `cpp/command/gtp.cpp`, `match.cpp`, `gatekeeper.cpp`: loops that drive `AsyncBot`, games and evaluators, whose
  interplay the modules above check; what is theirs is text and statistics.
* What `cpp/program/play.cpp` does within a game (openings, forks, handicaps, training targets): random
  choices and numbers.
* `EvalCache` and the bias tables: maps under a mutex each, whose lost update changes a statistic, and
  `ThreadSafeCounter` and `Throttle`, which the modelled parts do not use.

## 6. Plan

Done, in this order: `Board`, `BoardPlay`, `BoardHistory`, `GamePlay`, `GraphHash`; `ThreadSafeQueue` with
`FifoQueue`; `Contribute`; `AsyncBot`; `AnalysisEngine`; `SearchTree`; `RaceSolver` with `RacePlay`;
`NNEvaluator`; `SelfplayManager`; the proofs above.

To come, if the project grows: a bot as "a search is running or not, and its
move is delivered once" for `AsyncBot` to implement; a server as "each query is answered
once" for `AnalysisEngine`; `recursivelyRecomputeStats` beside the sweep.

Theorems to come: those of the refinements above.

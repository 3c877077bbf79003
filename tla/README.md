# PWSA*: a TLA+ model of the parallel weighted A* searches

The repository implements parallel weighted A* ("PWSA*") on grid maps: workers keep private
frontiers, steal from each other, and share one atomic word (distance and predecessor) and one
flag per vertex. Beside it stand the searches it is compared with. This directory models those
searches, the work stealing beneath them, the heap, the reading of maps, and the two parallel planners
built into the SBPL library, checks them with TLC, and proves with TLAPS, for every graph and any
number of workers, the safety of the work stealing, of the parallel searches that run on it or beside
it, and of the two planners.

## Inventory

| Part | Source | State | Operations | What is hard | What makes it correct |
|---|---|---|---|---|---|
| `parallel_while_pwsa` | `src/src/shared/parallel_while.hpp` | per worker: frontier, mailbox `frontiers[w]`, `requests[w]`, `answers[w]`; `is_done` | block, ask, wait, take, respond, fork, answer, body | three-way races of thief, victim and other thieves; leaving while someone waits | no work lost or duplicated, every request answered, all leave |
| `pwsa_pc`, `pwsa_pcT` (wPWSA\*) | `src/src/pwsa.hpp` | `states[v].gpred`, `states[v].is_expanded` | pop, claim, read distance, relax (load, CAS, insert) | CAS and insertion apart, stale distances, zero-weight arcs | expanded once, none forgotten, predecessors lead to the source |
| `pwsa` (simple_wPWSA\*) | `src/src/pwsa.hpp` | the same | one unguarded exchange | distances grow, losers give up | expanded once, none forgotten |
| `Heap` | `src/src/shared/bin_heap.hpp` | array, `n`, `capacity` | insert, delete_min, split, swap | split copies without sifting | heap order, capacity, minima |
| `Graph`, `LifeGraph` | `src/src/shared/weighted_graph.hpp` | grid, vertices, arcs | load, neighbours, weights, path length | bad characters, borders, asymmetric weights | arcs = touching cells; weights searched = weights measured |
| `wpanre` (wPA\*NRE) | `src/src/wpanre.hpp` | states, one heap, one lock | pop, claim, relax | claim and read of g outside the lock | as `pwsa_pc` |
| `pase` (wPA\*SE) | `src/src/pase.hpp` | states, one multimap, one lock | find_independent, expand | iterators kept across critical sections | claimed vertices are optimal |
| `astar`, `astarT` (wA\*) | `src/src/astar.hpp` | states, one heap | delete_min, expand, relax | heap runs empty | expanded vertices are optimal |
| `Locked`, `SearchResult` | `src/src/shared/search_utils.hpp` | a mutex | action | – | mutual exclusion |
| grid driver | `src/test/grid/src/grid_main.cpp` | parameters | init, run, output | – | – |
| `pwsaPlanner`, `wAStarPlanner` | `src/libsbpl/src/planners/PWSA`, `.../include/sbpl/planners/{pwsaplanner,pwsa,ubvec}.h` | start, goal, a table of lazily created states | set_start, set_goal, replan, getState, GetState, search, GetSearchPath | a table that grows under its readers, states half initialized | pointers stay good, estimates are looked up before they are used, the path reported exists and costs what is said |
| `pARAPlanner` (parallel ARA\*) | `src/libsbpl/src/planners/pARAStar/pARA.cpp` | OPEN, INCONS, states, `being_expanded`, weights, a mutex and two condition variables | thread loop, ImprovePath, getState, UpdateSuccs, Search, replan, destructor | waits without a predicate, shared flags outside the mutex, late wake-ups | nobody waits forever, no improved state is lost, the bound reported holds |
| PASL, PBNF, SBPL's core, ROS packages | vendored directories | – | – | – | – |

`parallel_while_pwsa` calls the search's callbacks `size`, `fork` and `do_work`; the searches call
`for_each_neighbor_of` and the heap; the driver calls `pathlen` on the predecessors a search
leaves behind. `pwsaPlanner` runs its own copy of `pwsa_pc` on a `ubvec` of states that SBPL's
environments fill on demand; `pARAPlanner` starts its threads in the constructor and hands them one
iteration after another through condition variables. The hazards of each part are listed in `PROJECT.json`.

## Modules

| Module | Models | Correspondence |
|---|---|---|
| `ParallelWhile` | the protocol of `parallel_while_pwsa` | one action per load, store or compare-exchange of a shared cell; `pc[w]` is the position in the lambda `b`. The client's body begins at `"body"` and ends at `"loop"` or `"found"`. |
| `WorkItems` | `ParallelWhile` with a generic client | items form a tree; the body takes least items and creates their children |
| `Frontier`, `FrontierPair` | what users of `Heap` rely on | sets of entries; which least entry is returned, and what a split hands over, is open |
| `BinHeap` | `Heap` itself | the array; each swap of a heapify loop is a step; refines `FrontierPair` |
| `SearchGraph` | the problem given to every search | the constants, int addition with wrap-around, the initial states |
| `ShortestPaths` | a reference: arc weights, reachability and true distances | for properties only |
| `SearchTree` | the abstract specification of all searches | `Expand(v)` once per reached vertex; `Relax` strictly lowers a distance through an expanded predecessor, possibly resting on an older and larger g of it |
| `PwsaPc` | `pwsa_pc` | extends `ParallelWhile`; one access to `states` per action |
| `PwsaSimple` | `pwsa` | extends `PwsaPc`, replacing load, exchange and insertion |
| `Wpanre`, `Pase`, `AStar` | the other searches; `AStar` also `wAStar` of the SBPL planners (`sbpl`) | the lock is a variable; critical sections take several steps, one per arc or scanned entry |
| `Grid` | the two graph classes and their constructors | sequential code, hence operators: `readChar` per character, `arcsFrom` per vertex of `populate_neighbors`, `weight_between`; `life` is the class |
| `UbVec` | `ubvec`, and `GetState` on it | one action per plain read or write that another thread can see: pointer test, spin lock, creation, publication, the two halves of the lazy initialization |
| `PwsaPlanner` | `pwsaPlanner`: interface, replan, the search on pointers, the walk over the path | extends `UbVec`; the frontiers are one set of queued ids |
| `ThreadPool` | mutex, `worker_cond`, `main_cond`, `sleeping_threads`, the destructor | a critical section without a wait is one step, except where the text says so (a worker at `"locked"`, main at `"prepare"`); a notified thread (`"woken"`) goes on only when it gets the mutex |
| `PAra` | `pARAPlanner` on `ThreadPool` | one action per critical section, and per access outside the mutex that another thread can see; `UpdateSuccs` takes one step per arc and `prepareNextSearchIteration` one per state of INCONS, both under the mutex |
| `SmallGraphs`, `MC*` | instances | a diamond with a zero-weight cycle, a cut graph, a map loaded by `Grid` (the ring), a fan, a fork, a detour |
| `SearchGraphProofs` | lemmas for all searches: arcs, int arithmetic, the budget of distances, sequences as queues, induction, walks and their lengths, the tree of predecessors | below |
| `ParallelWhileProofs`, `WorkItemsProofs` | proofs about the stealing protocol, for any client and for `WorkItems` | below |
| `PwsaPcProofs`, `WpanreProofs`, `PaseProofs` | proofs about the searches; `PwsaPcProofs` also those of the abstract search | below |
| `PAraProofs`, `PwsaPlannerProofs` | proofs about the planners | below |

Left out of all models: `pebbles` (a statistic), the busy loop simulating expansion time, printing,
and the memo `states[v].h`, whose racing writers all write the same value. Local variables that are
dead are reset, which only merges states. `compare_exchange_weak` fails only when the word differs,
as on the x86 the build targets. `assert` is compiled out, so the models go on where an assertion
fails; that of `parallel_while_pwsa` is the property `SizePositive`, that of `delete_min` is named
among the disagreements below. The answer cells start with any value, because the
code does not initialize them. `steps_since_load_balancing` is capped at `SplitCutoff + 1`: the code
only asks whether it exceeds `split_cutoff`.

## Runs

| Run | Instance | Result |
|---|---|---|
| `stealing` | 3 workers, a root item with 3 children, SplitCutoff 1 | mailboxes are written only for a waiting owner, at most one victim serves a thief, pending items are each in exactly one place; the target is found and everyone leaves |
| `stealing_assert` | the same, SplitCutoff 0 | **violated**: `assert(sz > 0)` |
| `pwsa` | 3 workers, diamond | the safety properties of `pwsa_pc`; it implements `SearchTree`; the destination is found |
| `simple` | 2 workers, destination cut off | no queued vertex is lost, all that is reachable is expanded; each request for work is answered though nothing ends the search |
| `heap` | 2 heaps, 2 priorities, 3 values, initial capacity 2 | heap order and capacity hold between operations, refinement of `FrontierPair` |
| `wpanre` | 3 workers, diamond | each vertex is expanded once and none is lost, `SearchTree` implemented, destination found |
| `pase` | 3 workers, fan of 5 vertices | iterators stay valid, claimed vertices are optimal, `SearchTree` implemented, destination found |
| `astar` | a ring of 8 free cells around an obstacle and one cell behind a wall, every destination, zero and consistent octile estimates, `astar` and `wAStar` | expanded vertices are optimal; a reachable destination is found. The assumptions `MapsLoaded` and `GraphMeasured`, evaluated with this run, load all 3×3 maps of free cells and obstacles: both classes make the graph of touching cells, and `Graph::weight_between` is the weight of the arc |
| `planner` | 2 workers, a fork of 5 vertices, state table of first size 2 | no pointer into the table goes stale or is shared by two ids, `SearchTree` implemented, replan returns, and the path it reports leads from start to goal at a cost of at most g |
| `planner_stale` | the same | **violated**: priorities rest on up-to-date estimates |
| `para` | 3 workers, a detour of 5 vertices, eps 2 then 1 | main is always woken; OPEN and INCONS hold each inconsistent state where it belongs and lose only the one that ends an iteration; parents form a `SearchTree`; replan returns |
| `para_bound` | 2 workers, the same | **violated**: the bound reported |

Bounds. Three workers are the least for a thief, its victim and a third party that interferes with
either. Three children let stolen work be stolen again. The diamond has a vertex that is improved
after it was queued, a vertex that improves while it is being expanded, a vertex that two expanders
relax at once, and two vertices joined by zero-weight arcs in both directions. On the ring the
octile estimates are consistent and too small behind the obstacle, the zero ones (which
`weighted_manhattan` returns) make ties. `SplitCutoff = 1` makes frontiers of two entries
splittable, so stealing happens. An initial heap capacity of 2 stands for 4096, so that growing and
the exact fit of `split` occur. `IntMax` is chosen just above what `DistancesFit` demands (`pase`:
what the priorities demand), so a sum on an unreached vertex wraps. No run uses symmetry: each has a
liveness property or is small. `LOG_MIN_VEC_SIZE = 1` stands for 11: ids 0 to 4 then lie in three
inner arrays, and the fork makes two workers ask at once for ids of the same missing array. The
detour has a state that is improved after its expansion, so INCONS is used and the second weight has
something to do; the state space of `PAra` is finite because eps falls from 2 to 1 and there is one
replan. The time limit is the action `Expire`, possible at any moment, and `return_first_solution`
takes both values.

Fairness. Workers are threads: every worker that has started takes its next step if it can (weak
fairness per worker). PASL surely runs the loop on the calling worker; nothing obliges it to run it
on another one, so only the leader's `Start` is fair. In `Pase` acquiring the mutex is strongly fair:
idle workers hold it for several steps at a time, again and again, but sleep (`hiccup`) and yield in
between. The choice of a random victim needs no fairness: work that nobody steals is done by its
holder. In `PwsaPlanner` the caller is not obliged to call anything; a replan that has begun, and its
workers, go on. In `PAra` main and every worker are weakly fair, which includes that a thread that
wants the mutex gets it in the end (a critical section is one step there). Waits do not wake up
spuriously: the code's waits are not in loops, and a spurious wake-up of main would end an iteration
early, as the late wake-up of `para_bound` does.

### What the violated runs show

`stealing_assert`. The acquire loop of a thief also ends when `is_done` was set; it then swaps its empty
mailbox in and arrives at `assert(sz > 0)` (`parallel_while.hpp:85`) without work, at the end of a
search that succeeded. That is the trace TLC prints, and it exists for every cutoff. The instance takes a
cutoff of 0 (K=0, which the driver accepts), with which the assertion can also fail in the middle of a
search: a frontier of one entry counts as splittable, the split moves nothing, and the thief is told
that work was transferred (`WorkOrDone`, the weaker statement that is proved for positive cutoffs, fails
there too).

`planner_stale`. `initializeSearch` calls `GetState` for goal and start (`pwsaplanner.cpp:153-154`)
before `EnsureHeuristicsUpdated` (157), and `GetState` keeps the first estimate it gets. In the trace a
worker reaches the goal and queues it with the estimate from before the update, under the comment
"ensure heuristics are up-to-date". The start is queued so too. No other state is
(`PlannerStaleOnlyAtEnds`).

`para_bound`. A worker decrements `sleeping_threads` (`pARA.cpp:263`) only when it has the mutex again. After
`notify_all` the first worker back at the top of the loop can therefore bring the count to
`NUM_THREADS` while the others have not begun, and wake main. Main finds the `improve_path_result` of
the previous iteration and reports `eps_satisfied = eps` for an iteration nobody ran: in the trace a
path of cost 8 is called optimal (`eps_satisfied = 1`) where one of cost 7 exists.

### Disagreements that are in the models and not among the runs

* `LifeGraph`: `weight_between(u, v)`, by its comment the "weight of arc (u,v)" (`weighted_graph.hpp:466`),
  charges the row of `u`; the arc searched with charges the row of `v` (`arcsFrom`). `LifeGraph::pathlen`
  asks for the arc from predecessor to vertex, so it adds up other weights than the search, and what is
  printed can exceed g. `PathMeasured` is about the weights of the search. (`Graph::pathlen` asks in the
  other order, which makes no difference there: `GraphMeasured`.)
* A destination that cannot be reached makes `astar` and `wAStar` call `delete_min` on an empty heap
  (`DeleteMinEmpty`), against its `assert(n > 0)` (`bin_heap.hpp:123`). `DestinationFound` is about the others.
* A cell with an unknown character keeps the 0 of `resize` (`readChar`), where the comment on `grid`
  (`weighted_graph.hpp:32`) promises a vertex id or -1: its neighbours get arcs to vertex 0. `MapsLoaded`
  is about maps of known characters and is false with others.
* With an unguarded exchange (`pwsa`) `PathsReachSource` and `PathMeasured` fail on the diamond: two
  workers overwrite each other's predecessors into a cycle, on which `pathlen` does not end. No text of
  the repository promises them for that variant.
* `wAStar` stops when the goal first has a distance, not when it is popped, so its path need not be
  within the weight of the heuristic; no text promises that it is.
* `pARAPlanner`: the state popped when an iteration ends is not put back (`pARA.cpp:480-485`), so it
  is missing in the next one (`OnlyLastIsDropped` allows just that); the comment on `ImprovePath` (449)
  and the tests in `Search` (705, 712) swap the meaning of 0 and 2; with three workers a late worker
  can make replan answer "no solution" for a query that has one; the destructor's `notify_all`
  (241-250) misses a worker that has not yet gone to sleep, and `join` then hangs (the state `Rest`
  stutters in).

## Proofs

Everything here holds for every finite graph, every set of workers and all cutoffs, unless a
hypothesis is named.

### The abstract search

`TreeInvariant` and `TreePathsReachSource` (in `PwsaPcProofs`) prove of the abstract search that
following predecessors ends at the source. The property is
stated without walks: no nonempty set of reached vertices that leaves out the source is closed under
predecessors. Its inductive invariant `TreeOf` (`SearchGraphProofs`, with the lemmas that `Expand` and
`Relax` keep it) adds that every reached vertex hangs on an arc of the
graph with `g(pred) + weight <= g`, that the source is the root, and that expanded vertices are
reached. With weights that may be 0, distances alone do not exclude a cycle; the argument is
that if a relaxation of `v` closed a set, the members of that set that were strictly nearer than `v`
before the step, its new predecessor among them, would already have been closed.

### Induction

The prover cannot instantiate the library's induction theorems. `SearchGraphProofs` proves induction
over the naturals for a set (`Induction`) from the pigeonhole theorem for finite sets: were some `m`
not in `S`, then `k |-> k - 1` would map the members of `0..m` outside `S` one to one into themselves,
hence onto, and `m` is no value of it. `LeastNumber` follows. That is enough for what the recursive
functions `walks` (the reference for distances), `pathcost` and `pow2` compute.

### Work stealing

`ParallelWhileProofs` proves the invariant `PInv` of the protocol for any client whose body works on
its own frontier only (`BodyStep`). None of the properties is inductive alone. `PInv` has three parts:

* `CInv`, the cells: `OneVictimPerThief`; a cell that its owner saw not to be `Waiting` stays as it
  is until the owner changes it (`CellOwned`), since thieves write only over `Waiting`; a thief has
  cleared its answer before it posts its request (`AnswerCleared`). This is why the uninitialized
  answer cells, and answers to a former request, do no harm.
* `MInv`, the mailboxes: whoever looks for work has none (`Idle`); a mailbox is filled only from the
  split until its owner takes the work (`MailboxOwned`). With `CInv` this gives `MailboxFree`.
* `DInv`, the deliveries: a split that is tried moves something, and whoever is told
  `"transferred"` finds it. It is stated under `SplitCutoff > 0`: with a cutoff of 0 the code calls a
  frontier of one entry splittable, the split moves nothing, and `WorkOrDone` is false. `WorkOrDone` is
  what remains of the code's assertion, which is false as it stands (`stealing_assert`).

`ProtocolMoves` adds that a step of the protocol neither loses, makes nor copies an entry, given
`MailboxFree`. `WorkItemsProofs` concludes `StealingOneVictim`, `StealingMailboxFree`,
`StealingWorkOrDone` (`Spec => [](SplitCutoff > 0 => WorkOrDone)`) and `StealingConservation`, which
also needs that only created items are processed.

### `pwsa_pc` and `pwsa`

`PwsaPcProofs` proves of `pwsa_pc`:

* `TypeCorrect`: `SafetySpec => []TypeOK`;
* `Invariant`: an inductive `IInv` made of `TypeOK`, `Budget` (a finite distance is at most
  `MaxWeight` times the number of expanded vertices, an expanded vertex's at most one arc less) and,
  per worker, that it expands a marked vertex, works with a former and hence not smaller g, exchanges
  only after it saw something worse, and queues only reached vertices;
* `PwsaNoOverflow`: `[]NoOverflow`, from `Budget` and the assumption `DistancesFit`;
* `PwsaImplementsTree`: `SafetySpec => ImplementsTree`, one step lemma over `IInv`: `Claim` maps to
  `Expand`, a successful `Cas` to `Relax`, all else to stuttering;
* `PwsaPathsReachSource`: the two results combined;
* `PwsaPathMeasured`: when the destination is reported, its predecessors lead to the source after at most
  `|Vertex|` arcs, and these cost, in the weights the search used, at most g (`pathcost`, a reference
  definition). In class `Graph` that is what `pathlen` adds up; of `LifeGraph::pathlen` it says nothing. The set of vertices measured within
  `n` arcs grows with `n` until it holds every reached vertex, because the ones left out would be
  closed under predecessors; and each arc of the tree bounds g, so the sum is bounded by it;
* `PwsaNoDuplicateWork`, `PwsaNoVertexLost`, `PwsaHandOver`: from `IInv` and a second invariant `QInv`.
  That no entry is inserted twice rests on distances: every entry was made from a distance not below
  the present one (`QueuedAbove`, `InsertAbove`), a successful exchange lowers it strictly, and a
  priority, wrapped or not, tells the distance it came from (`PlusInjective`). So the entry a
  successful exchange announces is new, and two announced entries differ. The sets of entries in the
  model are therefore faithful to the heaps, which could hold duplicates.

Of `pwsa`, `SimpleLosesNoVertex` proves `SimpleNoVertexLost`; types and `PInv` suffice there, since
the winner of the exchange stays at `"insert"` with exactly what it stored.

### The searches with one queue

`WpanreProofs` and `PaseProofs` prove that `wpanre` and `pase` implement `SearchTree`
(`WpanreImplementsTree`, `PaseImplementsTree`; the source, which the code gives no predecessor, is its
own one in the mapping). Both expanders read g outside the lock: the invariant says that
what was read is a former g, within the budget of the vertices expanded by then. For `wpanre` also
`WpanreExpandedOnce`: a popped vertex is in no heap until it is claimed, and the claim succeeds once;
and `WpanreMutualExclusion`. For `pase` also `PaseIteratorsValid`: a vertex whose iterator is held is
claimed and not yet expanded, so no scan takes its entry for an old one, and no two
iterators point to entries of one vertex. Nothing is assumed of the heuristics there.

`PaseClaimedAreOptimal` proves, under `PrioritiesFit`, that with a consistent heuristic a vertex
is claimed only when its g is the length of a shortest path (the consistency is part of the property).
`PrioritiesFit` says that `g + h` never exceeds an int, which the code does not check; without it a
wrapped priority would bring a far vertex to the front. The invariant `OptInv` says that the multimap is
sorted and has every waiting vertex under its current priority (`QueueInv`), that an expanded
vertex can improve no neighbour, and a vertex in expansion none over the arcs already relaxed
(`ClosedInv`), that each g is the length of a walk (`WalksInv`), and that each claimed vertex is
`Certified`: some function `b` with `b(source) <= 0` that grows along no arc by more than the arc's weight
is at least g there, so no walk is shorter (`LowerBound`). When a scan claims `z`, found independent of
all entries before it (vertices in expansion keep theirs), the certificate `b(x)` is the least of g(x),
g(z) minus the estimate from x to z, and g(z) + h(z) - h(x). The last two grow slowly enough by consistency;
where g(x) is strictly the least, x has no entry before or after that of z, so it is expanded, and `ClosedInv`
bounds its neighbours.

### `pARAPlanner`

`PAraProofs` proves `ParaNoLostWakeup`: main never waits on `main_cond` while every worker waits on
`worker_cond`. The waits of the code have no predicate, so this rests on counting. The inductive
invariant adds to the property that `sleeping_threads` is exactly the number of workers that wait or
were notified and are not back yet, that a worker exits only once the destructor has cleared
`planner_ok`, and the places where threads can be. It follows because the worker that would leave
nobody else awake brings the count to `NUM_THREADS` and wakes main in the same critical section.
Every action of `PAra` is first shown to be, for the pool, one of a few kinds of steps (`PoolNext`);
the invariant is then proved of those.

A second invariant, `SInv`, is about the states: types, `v` is a former g and the budget bounds both,
no state was closed in a later iteration, whoever relaxes does so for an expanded state, and before
replan nothing is queued. From it follow `ParaQueuesSound`, the action property
`ParaOnlyLastIsDropped`, and `ParaImplementsTree`, in which a state that is expanded again in a later
iteration maps to a stuttering step.

### `pwsaPlanner` and its table

`PwsaPlannerProofs` proves one inductive invariant `IInv` (`PlannerInvariant`) and four results.

* `PlannerPointersStable`. `get_index` and `speclog` place an id by its highest bit; the proof shows
  that the halving of `uint64_log2` finds it (`Log2`), that the index lies inside the array (`Place`),
  and that two ids never get the same place (`PlaceUnique`), for every `LOG_MIN_VEC_SIZE` and every id
  below 2^30. Ids of one array are told apart by their index, and different arrays have different
  addresses, since the compare-exchange on `init` lets one thread make each array (`Makers`) and
  `vecs[k]` is written once (`Arrays`); so a pointer taken before the table grew stays good.
* `PlannerStaleOnlyAtEnds`: `HInv` says that whoever returned from `GetState` left a heuristic value,
  and that a stale one can only be that of start or goal. The stronger `HeuristicFresh` is violated
  (`planner_stale`).
* `PlannerImplementsTree`: the states on the heap are read through `StateOf(x)`; `Search`
  and `Work` repeat for pointers what `IInv` of `PwsaPcProofs` says of the array.
* `PlannerPathReported`: workers end only after one claimed the goal (`Done`, with at least one
  worker), so `TestGoal` succeeds; along the walk, the cost so far plus g of the last state is
  at most g of the goal (`PathInv`), because `actioncost` is a least arc and tree arcs bound g.

### Assumptions

`GraphAssumption` (finite graph, natural weights, heuristic values that are ints), `DistancesFit`
(`MaxWeight * |Vertex| < INT_MAX`, which the code relies on and does not check: at weight 14142 it holds
up to about 151,000 vertices, so that the theorems say nothing of the repository's 512×512 and 768×768
maps where these have more free cells), `WorkerAssumption`
(the leader is a worker; the constants of the cells differ from each other and from worker ids),
`PollAssumption`, `ItemAssumption`, `PoolAssumption` (at least one worker, finitely many),
`PAraAssumption`, `UbVecAssumption` (ids below 2^30, so that the sizes of the inner arrays are ints) and
`ThreadsAssumption` (main is no worker, and there is a worker).
Zero cutoffs are included except in `StealingWorkOrDone`. The sums `g + h` of the
priorities may wrap; the theorems cover that, except `PaseClaimedAreOptimal`, which names
`PrioritiesFit` as its hypothesis. TLC evaluates the assumptions on every run.

### Only model-checked

* All liveness: fairness and `ENABLED` are outside the prover's reach.
* `ExpandedAreOptimal` of `AStar`: the argument is that of `pase` with an empty set of vertices in
  expansion, but the proof is not written.
* `HeapsSound` of `BinHeap` and that it refines `FrontierPair`: heap order along the steps of a sift.
* `MapsLoaded` and `GraphMeasured` of `MCAStar`, which compare a loaded map with its definition.

## Not modelled

* The PASL scheduler (vendored; `parallel_while` runs the body on the workers and joins them,
  `random_other` returns any other worker), the other third-party code (PBNF, SBPL's core with its
  environments and its other planners, ROS packages), and the copies of this code under
  `pwsa_project` and `xytheta`. They are nearly all of the repository's lines, and none of its own
  logic.
* Printing, visualization, measurements, command lines, and the floating-point arithmetic of the
  heuristics (any natural-valued function stands for it).
* `pwsa_pcT` and `astarT` have the control of `pwsa_pc` and `astar` with `long` distances, plus an exit
  on a negative distance that `NoOverflow` excludes. Their 16-byte `vertpackT<long>` has padding, which
  a compare-exchange compares too; the model compares values.
* `pwsaPlanner`: a second search on the same planner (after the first the caller names no new start or
  goal); the frontiers and their stealing, which `ParallelWhile` and `PwsaPc` model; the leak of the
  old table when a replan is refused; `1 << (logI + 11)`, which overflows for ids from 2^30 on. Plain
  pointer reads and writes happen in program order, as on x86 without reordering by the compiler.
* `wAStarPlanner`: its replan and its path walk, which repeat those of `pwsaPlanner`.
* `pARAPlanner`: backward search (`UpdatePreds` changes the shared states without the mutex), a second
  replan on the same planner, statistics.

## Plan

1. Prove: `ExpandedAreOptimal` of `AStar` along the lines of `PaseProofs`; the heap order of `BinHeap`
   between operations.
2. Model: a second replan of `pARAPlanner`, its backward search, and an abstract pool of work that
   `WorkItems` refines.

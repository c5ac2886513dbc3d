# A TLA+ model of Mostree

Mostree evaluates a decision tree that one party owns on a feature vector that another party owns, with the help of a
third; nobody learns the other's input, nor the path that is taken. The three parties hold every secret as replicated XOR
shares. This directory models the program of `ss3-dtree/`, the part of the ABY3 framework (`aby3/`) that it runs on, the
framework's arithmetic, circuits and piecewise functions, and the key generation of `dpf-offline/`. TLC model-checks the
models; TLAPS proves what matters most about all but the circuits: scheduler, runtime, shares and messages, the walk with its
selections and comparisons, oblivious transfers, tree file, keys and dealers.

## 1. The system

| Part | Source | State it keeps | Operations |
|---|---|---|---|
| Task scheduler | `aby3/Common/Task.h` | table of tasks with upstream, downstream and closure edges, two queues | `addTask`, `addClosure`, `currentTask`, `popTask`/`removeTask` |
| Task runtime | `aby3/sh3/Sh3Runtime.{h,cpp}` | table of functions, `mIsActive` | `then`, `&&`, `getClosure`, `get`, `runAll`, `runOneRound`, `runNext` |
| Mask generator | `aby3/sh3/Sh3ShareGen.h` | two buffers of pseudo-random words, shared with one neighbour each, and an index | `getBinaryShare`, `refillBuffer` |
| Encryptor, evaluator | `aby3/sh3/Sh3Encryptor.cpp`, `Sh3Evaluator.cpp` | none of their own | `localBinary`, `remoteBinary`, `reveal`, `CovertP2NBinary`, `CovertN2PBinary`, `asyncAnd` |
| Comparison | `ss3-dtree/SS3Dtree.cpp` 282-505 | the recursion's words, the triples it has taken | `compare_threshold`, `compare_ss`, `compare_process`, `check_and_ss` |
| Oblivious selection | `SS3Dtree.cpp` 508-714, `DtreeModel.{h,cpp}` | the FSS keys | `semi_ob_selection_*`, `fssPreprocess` |
| Tree walk | `SS3Dtree.cpp` 720-900, `main-dtree.cpp` | tables of shares, current node, MAC sums | `travelTree`, `getChildNodeIndex`, `mac_check` |
| Tree file | `ss3-dtree/common/tree_read_from_file.cpp` | node vector, packed table, labels | `read_from_file_pack`, `add_edge_pack`, `depth_of_tree`, `evaluate` |
| Offline phase | `dpf-offline/fss.h`, `twokeyprp.h` | DPF keys, the array that is expanded in place | `gen_dpf_key_pair`, `dpf_batch_eval`, `dpf_eval` |
| Dealers | `dpf-offline/dpf_dealer.h`, `ohv_dealer.h`, `fss.h` 14-32 | two sockets, buffers, running proofs | `init_network`, `DPF_gen_send_recv`, `extract_dpf`, `OHV_gen_send_recv` |
| Products and reveals | `Sh3Evaluator.cpp`, `Sh3Encryptor.cpp` | masks drawn, words captured between tasks | `localInt`, `revealAll`, `asyncMul` of words, of words and bits, with truncation |
| Oblivious transfer | `aby3/OT/SharedOT.cpp` | two counters of pads per party, each in step with a neighbour's | `send`, `help`, `asyncRecv` |
| Circuits | `Sh3BinaryEvaluator.cpp`, `Circuit/CircuitLibrary.cpp` | shares of wires, level, two send buffers, wires to be received | `setInput`, `roundCallback`, `getOutput` |
| Piecewise functions | `Sh3Piecewise.cpp` | regions, values, outputs | `eval`, `getInputRegions`, `getFunctionValues` |
| The rest of ABY3 | `Sh3Converter`, `Sh3FixedPoint`, `Garble` | | not modelled (section 6) |

How they meet. The programs of the offline phase run before and apart: each party deals pairs of keys to the other two.
`main-dtree.cpp` reads the tree, opens a channel between every two parties, shares the tables, the MAC tables and the
features, reads keys and prepares triples, and calls `travelTree`. The walk calls selection and comparison; these call
`and_ss`, `shareSSBin`, `revealAll` and the like of `SS3Dtree.h`, each of which schedules tasks on the party's runtime and
blocks in `get()` until they are done. A task sends to, or receives from, a neighbour; the channels are reliable and ordered
and carry nothing but data. The framework's arithmetic is compiled in and not called by the decision tree; its users call
`Sh3Piecewise::eval`, which calls a circuit of `Sh3BinaryEvaluator` and products of `Sh3Evaluator`, which use `SharedOT`.

What is hard:

- *closures*: a closure stands for a set of tasks and everything scheduled after them, a set that grows while tasks of
  it are being removed, by a recursive function that edits the tables it walks;
- *blocking calls inside tasks, and tasks that throw*: `get` may be called while a task runs;
- *three clocks*: nothing but the order of the calls ties a message to its operation, or a mask to its neighbour's;
- *sending by pointer*: some sends leave the data in a buffer that is used again a little later;
- *two counters of pads* that must move together at different parties, in products of different shapes;
- *levels of a circuit* whose products arrive one task later, in buffers chosen by the level's parity;
- *truncation* of shared words, right up to a rounding error and only without overflow;
- *offsets by hand*: triples are found by arithmetic on the layer and the recursion level;
- *signed shifts and unsigned comparison* of 64-bit words, on shares;
- *checks that must be silent* in every honest run: AND triples, the product in `getChildNodeIndex`, the MAC;
- *expansion in place*: each layer of a key's tree overwrites the one above, in one array;
- *a ring of three* that sends before it receives, and opens sockets in a fixed order;
- *a fixed number of steps* whatever the branch, over a table that the reader of the file prepares for it.

`PROJECT.json` lists the hazards line by line, with the properties that cover each.

## 2. The modules

    TaskFamily  --->  TaskGraph  (abstract specification)
        |                 ^
        v                 | refinement (checked and proved)
    Scheduler  --->  Sh3Runtime  --->  SchedulerProofs    both modules' theorems

    Parties ---> ReplicatedShares ---> ShareProtocol ---> SharesProofs    three parties, messages, masks
       |             |---------> Comparison ---------------.
       |             |---------> ObliviousSelection --> TravelTree   (abstract specification)
       |             |                                     |  ^
       |             |                                     v  | refinement (checked and proved)
       |             |---------> FssKeys --> MCWalk <-- SecureWalk ---> WalkProofs
       |             `---------> DpfKeys ---> DpfProofs
       |
       |---> PartyCalls -----.                              calls, tasks, channels, pointers
       |---> RingShares -----+-> ArithmeticCalls --.        products, transfers, truncation, reveal
       `---> BooleanCircuits ----------------------+-> CircuitEvaluation ---> PiecewiseCalls ---> PiecewiseProofs

    DpfDealer -----> DealerProofs                 three dealers: sockets, batches, check

    DecisionTree --> DecisionTreeProofs           the file reader and the plain walk

    ReplicatedShares ---> CommonLemmas            for the proofs: numbers, iteration, shares

**TaskFamily, TaskGraph.** What a caller of the runtime relies on: a task completes after all that it waits for, and a
closure after its whole family, where the family of a closure is its tasks and everything scheduled downstream of a
pending member. Four actions over handles; no queue, no edge.

**Scheduler** is `Task.h`. `AddTask` and `AddClosure` are one step each; `removeTask` is a step per iteration of its two
loops (`VisitDownstream`, `VisitClosure`) and one for its end (`EraseTask`), and the variable `removing` is the stack of
its recursive calls. Sets stand for the edge vectors, which never hold an index twice and are walked in ascending order.
`closures`, `waits` and `family` are history variables: what the callers asked for, against which the tables are judged.

**Sh3Runtime** extends it by the table of functions, the running function and the blocking call. User code (between calls,
or inside a function) schedules; `get`, `runAll` and `runOneRound` loop over `runNext`, which is `BeginFunction`, then
`FunctionReturns` or `FunctionThrows`; the removal goes on in `RemoveEntry`. A `get` inside a running function throws
(`RunNextThrows`): `Enter` with a function running is the throw of that function. After a throw `mIsActive` stays set.

**Parties** is the ring and the pairs of components that its members hold. **ReplicatedShares** has the words (sets of their
one bits), the pairs that the parties hold and the operators on them; each operator exists for one party's pair and for the
three together.

**ShareProtocol** runs programs of operations at three parties. A party's operation is `Start` (compute, draw a mask, send)
and `Finish` (receive, complete), or `Compute` when nothing is sent; these are the tasks of the C++ operation in the order in
which the scheduler runs them, which is what Scheduler's `DependencyOrder` establishes. Parties may be at different operations.
The program is not fixed: the first party at its end extends it by any operation. The generator's buffer is a window over the
stream of words that the two seeds of a party expand to, and has `BuffSize` words. Two ghost variables hold what lockstep
execution gives (`expected`) and what a trusted party computes (`plain`).

**Comparison** is `compare_ss` as a loop, one `and_ss` with its check per step, in the order of the code, over `Layers`
comparisons. The checks against the triples are computed, and the index of each triple is recorded. It has no runs of its
own: SecureWalk starts it with the operands of the walk.

**ObliviousSelection** gives the row of a shared table at a shared index, for any keys that satisfy `OneHotAssumption`, the
promise of key generation. **FssKeys** has the keys of eight rows that `DtreeModel` has: those written into `fssPreprocess`
and, the same bits, the first eight rows of the files that `realTreeFssPreprocess` and its sibling read; MCWalk checks, by
the ASSUME, that they keep that promise.

**TravelTree** is `mostree_bin_3pc` and `travelTree` of the malicious model: Init is the set-up, then for each layer
`SelectFeature`, `Compare`, `getChildNodeIndex` and `SelectNode`, and at the end `MacCheck`. The history variable `at` walks
the plain tree. `Compare` is one step that may give any sharing of the outcome: it says what a comparison promises.

**SecureWalk** runs Comparison in its place: `Call` hands over the shared feature and threshold as they come out of the
selections, each `Multiplication` is an `and_ss` with the triples of the layer, and `Return` gives the bit to
`getChildNodeIndex`. `ImplementsTravelTree` is that this is a walk of TravelTree.

**PartyCalls** has three parties that run one sequence of calls, and the channels. A call is a few tasks; a task waits for
messages from either side, computes, and sends to either side. A message that was sent by pointer has its data read from
the buffer (`ReadBuffer`) at some later time; with `Prompt` a buffer is not used again before that.

**RingShares** has words modulo 2^Width, additive shares and what each party computes and sends in a product, and the
transfers of `SharedOT`: who sends, who helps, in what order, and under which pad (its place in the stream of a key).
**ArithmeticCalls** has the calls: `localInt`, `asyncMul`, products of a word, shared or public, and a shared bit by
transfers, the product with a truncation, and `revealAll`. `otUses` is what a party did with its two generators.

**BooleanCircuits** has circuits as data, what a gate does with plain bits and with a party's shares, and the circuit of
`int_Sh3Piecewise_helper`. **CircuitEvaluation** is `Sh3BinaryEvaluator`: a task for each level (`EvaluateRound`), which
first puts the products of the level before in place, and one that only receives (`LastRound`).

**PiecewiseCalls** adds `Sh3Piecewise::eval`, which becomes a program of calls (`PiecewiseProgram`), and the history
variable `plain`, what a trusted party would have in each register. A product with a truncation may stand for any of four
words, the quotient and up to 3 below it, and for anything if the masked product may overflow.

**DecisionTree** reads a file line by line: `DecisionLine`, `LeafLine` and `EdgeLine` in the preorder in which scikit-learn's
exporter writes them, then `EndOfFile`. A leaf line carries the set of classes with a nonzero count.

**DpfKeys** is a pair of keys from its generation to its expansion. `GenLevel` is an iteration of the loop of
`gen_dpf_key_pair`, `GenEnd` what follows it; then `ExpandNode` is an iteration of the inner loop of `dpf_batch_eval` and
`CorrectLeaf` one of its last loop. The expansions of the two keys, at two parties that do not talk meanwhile, are taken
side by side. The generator (`Expand`), the hash and 1 << k (`Pow`) are functions; of the first two nothing is assumed but
their type. The point of the tree is `real_rdx`, the index without its last seven bits, and beta the unit word of those.

**DpfDealer** has the sockets of `init_network`, one party's constructor calls in order, and one action per blocking call of
`DPF_gen_send_recv` and `extract_dpf`, or of `OHV_gen_send_recv` when the tree is small. `differs` says of each pair at which
bytes the vectors of proofs of its two halves differ: none if `gen_dpf_key_pair` made it (which DpfKeys establishes as
`ProofsAgree`), one of `Spoils` if not. `Seen` is what is left of it after the final hash of `dpf_batch_eval`, which takes
`HashedBytes`, 2 << depth bytes of a vector of 2 << depth blocks.

Definitions named as slips (`TakeIndexTwice`, `PayloadCopy`, ...) are what a definition would be with a plausible bug. No
specification uses them; PROJECT.json pairs each with the property that notices it when it takes the definition's place.

## 3. What the runs check

| Run | Instance | Properties | What it shows |
|---|---|---|---|
| scheduler | 4 handles, every dependency set and both types | `NoThrow`, `QueuedOnce`, `ClosureAfterFamily`, `DependencyOrder`, `StuckOnlyInCycle`, `ImplementsTaskGraph`, `EverythingCompletes` | the bookkeeping of `removeTask` is right, in every interleaving of scheduling and running, and everything completes unless the caller makes a cycle |
| runtime | 4 handles | `TablesAgree`, `RoundSeparation`, `RunsOnce`, `FailureIsFinal`, `RunAllDrains`, `EveryCallReturns` | the runtime on top of the scheduler, with throws; no blocking call spins |
| runtime_continuation | 3 handles | `ContinuationInSameRound` **violated** | continuations wait for the next round |
| shares | programs of 3 operations, one-bit words, buffer of 2 | `MatchesLockstep`, `SharesHoldValue`, `RevealsValue`, `AtMostTwoAhead`, `NobodyWaitsForever` | messages and masks pair up at any speeds of the parties, who get through |
| walk | depth 2, tables of 8 rows, GF(16), 4-bit words; 48 walks, and the first comparison of all 256 pairs of words | `BlocksCompared`, `TriplesUsedOnce`, `WalksPlainTree`, `SelectsInBounds`, `HonestChecksPass`, `ImplementsTravelTree` | the shared walk with its comparisons is the plain walk, and takes every triple once |
| piecewise | 5-bit words; a function of three regions, two programs of products, a circuit of five levels run twice | `RegistersHoldValue`, `PadsPair`, `NoWireReadEarly`, `EveryoneFinishes` | arithmetic, transfers and circuits give what they should at any speeds of the parties |
| piecewise_buffers | the circuit, without `Prompt` | `SentAsComputed` **violated** | a message sent by pointer can go out with a later level's bits |
| decision_tree | every tree of at most 11 nodes | `WalkEndsAtLeafOrParent`, `LabelIsClassification`, `RowsLeadToRows` | what the padded walk over the read table returns |
| decision_tree_mixed | 5 nodes, leaves of two classes | `LabelIsClassification` **violated** | labels shift after an impure leaf |
| decision_tree_leaf | 7 nodes | `WalkEndsAtLeaf` **violated** | a walk can end at a leaf's parent, whose label is 0 |
| dpf | 8 leaves, words of 3 bits, every pair of seeds, every point | `DifferOnPath`, `PointFunction`, `ProofsAgree`, `BatchIsPointwise` | the two expansions make the point function, and the array holds what each leaf's own path gives |
| dealer | batches of 2, any pairs spoiled at the first or second of 16 leaves, connections of one message | `HoldersMatch`, `CheckSeesFirstSixteenth`, `EveryoneFinishes` | the ring connects and finishes, matching halves meet, exactly the holders of a pair spoiled at the first leaf report it: one spoiled at the second only is accepted |

The runs scheduler and dpf also check a type invariant; in the other modules the invariants listed read the variables
closely enough that an ill-typed one would stop the run.

*Bounds.* `MaxTasks` bounds handles ever given out. Four give a closure over two tasks that a third joins, a closure of a
closure, a task that waits for a closure, and two closures handed on together; the proofs below have no bound. `MaxOps` = 3
lets a share be followed by an AND of it and the result revealed, and, with `BuffSize` = 2, three shares refill the buffer;
words of one bit suffice there because every operation is bitwise, and the inputs and streams give each combination of
components. Three operations also let a party get as far ahead as the waits allow. A comparison of 4 bits has two levels of
recursion and a set sign bit to shift; the triples of the two layers can meet. Full walks take two trees, three rows of
features, two MAC keys and two maskings; every pair of operands is compared in walks that the constraint `FirstComparison`
ends after the first layer. `TriplesTaken` is how many triples a comparison takes, 12 for this instance's width and
140 for the program's 64 bits; the instance has just as many for each layer. Words of 5 bits are the shortest in which a product with a truncation has room
for its masks; the inputs lie in each of the three regions, truncate positive and negative products, and take the shared bit
in every sharing, 19 starts in all. The circuit of regions is compared with the regions for every pair of words by the
assumption `CircuitComputesRegions`; the one of five levels has every gate but Or, and is run twice so that buffers and
masks are used again. The tables of eight rows are the size for which `fssPreprocess` has keys, and the larger keys repeat
the same bits; depth 2 has a node reached from a node that was itself selected. Eight leaves have a layer that is neither
the first nor the last to be expanded in place; the proofs below have no bound. Batches of two let a spoiled pair come first
or last; of 16 leaves the final hash takes the proof of the first and nothing of the second, so a pair is spoiled where it
shows, or where it does not, or not at all. Eleven nodes give leaves at five levels, of both parities, on either side.

*Deadlock* is not checked: all these systems stop, when their bound is used up or their work is done. Stopping too early is
what `StuckOnlyInCycle`, `EverythingCompletes`, `EveryCallReturns`, `NobodyWaitsForever` and `EveryoneFinishes` are about.

*Fairness.* `Scheduler!FairSpec` assumes weak fairness of the running of tasks, not of scheduling: a thread that is in `get`
goes on calling `currentTask` and `popTask`. `EverythingCompletes` excepts graphs in which entries wait for each other (a
task that depends on the closure of its own ancestor): there `currentTask` throws. `RtFairSpec` assumes the same of a
blocking call, and that functions end, by return or by exception. `ShareProtocol!FairSpec` is weak fairness of each party:
its thread runs, and the channels deliver; so is `DpfDealer!FairSpec`. `Cap` assumes that a connection holds a batch of
keys: all parties send before any receives. `PiecewiseCalls!FairSpec` is weak fairness of the whole next-state relation,
which is less: something goes on as long as a party or a channel can. Its programs end, so that is enough.

## 4. Where code and documentation part

The four runs marked violated are findings, with lines, in PROJECT.json. In short: (1) the "same round" overload schedules
for the next round; (2) an impure leaf has several labels pushed for one row, and later rows get wrong labels (the trees in
`UCI_dectrees` do have impure leaves: spambase, mnist); (3) the tree is not "padded as a complete tree": leaves whose level
has the wrong parity are left for their parent (diabetes has 189 such leaves, boston 217, mnist 1052); (4) a level of a
circuit is sent by a pointer to one of two buffers, and the channel asks that the data outlive the send, but the level after
next writes the buffer whether or not the send is over. What a slow channel then sends is the bits of a later level. The run
piecewise assumes, by `Prompt`, that it does not happen.

The run dealer shows a fifth, as what holds of the code: `dpf_batch_eval` gives the final hash the number of blocks of its
vector of proofs as a number of bytes (fss.h:459), so the check of `extract_dpf` covers a sixteenth of the vector, and a pair
whose expansions differ only at later leaves is accepted. `CheckSeesFirstSixteenth` says so in both directions. Pairs that
`gen_dpf_key_pair` made are not affected.

Seen in reading, without a run: `OHV_gen_send_recv` receives twice into one buffer (ohv_dealer.h:53-54); `extract_dpf`
expands all keys of a batch
into the same place (dpf_dealer.h:109). Gate Or of `Sh3BinaryEvaluator` does not complement the second share of its second
input (line 1099), so the parties get a sharing of not-a and b; no circuit here has an Or. `Sh3Piecewise` sends `c0s0` by
pointer and then subtracts a threshold from it (lines 452, 484), like (4). The hazards in PROJECT.json say how far the model
goes for each.

## 5. What is proved

Theorems hold for every value of the constants that satisfies their assumptions; each assumption is evaluated by TLC in the
runs and is what the code has (a bound on the number of tasks or nodes, a buffer that is not empty, at least one pair in a
batch). In each case the property is not inductive, and the work is in the invariant. Each invariant was checked by TLC on
the instance of the component's run before it was proved, except `PathEntries` and `UsesFollowCalls`: these speak of every
function that satisfies a recursion, and TLC checks what follows from them.

| Module | Theorems | Invariant |
|---|---|---|
| SchedulerProofs, scheduler | `[]TypeOK`, `[]NoThrow`, `[]QueuedOnce`, `[]ClosureAfterFamily`, `[]StuckOnlyInCycle`, `[]DependencyOrder`, `Spec => Abstract!Spec` | `IInv`, `InOrder` |
| SchedulerProofs, runtime | `RtSpec => Spec`, `[]TablesAgree`, `[]RoundSeparation`, `RunsOnce`, `FailureIsFinal`, `RunAllDrains` | `IInv`, `RtInv` |
| SharesProofs | `[]MatchesLockstep`, `[]SharesHoldValue`, `[]RevealsValue`, `[]AtMostTwoAhead` | `ShInv` |
| WalkProofs | `[]WalksPlainTree`, `[]SelectsInBounds`, `[]HonestChecksPass`, `[]BlocksCompared`, `[]TriplesUsedOnce`, `WalkSpec => ImplementsTravelTree` | `WalkInv`, `CmpInv`, `Taken` |
| PiecewiseProofs | `[]PadsPair` | `UsesFollowCalls` |
| DecisionTreeProofs | `[]RowsLeadToRows`, `[]WalkEndsAtLeafOrParent`; `[]LabelIsClassification` for pure leaves | `TreeInv`, `Labels` |
| DpfProofs | `[]TypeOK`, `[]DifferOnPath`, `[]PointFunction`, `[]ProofsAgree`, `[]BatchIsPointwise` | `Path`, `Agree`, `PathEntries` |
| DealerProofs | `[]HoldersMatch`, `[]CheckSeesFirstSixteenth` | `DealerInv` |

**Scheduler** (any number of handles; the only assumption is `MaxTasksAssumption`). `ClosureAfterFamily` speaks of a history
variable, and a step of `removeTask` preserves it only because of what the tables look like in the middle of a removal.
`IInv` adds

- `Edges`: an edge is recorded at both of its ends, between live entries, downstream edges from older to newer;
- `Stack`: the first entry being removed is the front of the ready queue and the others are closures, each held by nothing;
- `Waiting`: what holds a task back is what is still there of what it waited for;
- `Families`: a pending closure is held by members of its family only, and each live member either holds it, or is held by
  another live member, or has handed its closures on already. This is the heart: when the last holder leaves, the family
  cannot have a live member, since the oldest one would be held by nothing in the family (`FamilyComplete`).

There is a lemma per action, combined in `NextIInv`. `CallersMakeProgress` takes, among the entries that wait, a member of
the set that waits for nothing in it, and shows that it is queued. `Refinement` maps the step that puts an entry on the
`removing` stack to its completion in TaskGraph, and the rest of the removal to stutters. `DependencyOrder` rests on
`InOrder`: a task on a queue stands behind every older task of its type that waits for no more, and such a task cannot still
be waiting. It needs the order in which `VisitDownstream` takes the edges: what one removal releases is queued by age.

**Runtime.** Every step of the runtime is one of the scheduler or leaves its state alone (`RuntimeRunsScheduler`), so all of
the above holds of it. `RtInv` says where the tables differ (`TablesAgree`); that a function runs with `mIsActive` set, that nothing is removed
meanwhile, and that only the front of the queue may have run and still have its function (`Active`); that what has left the
table of functions has run (`Rounds`); and that all which a task waited for ran in a round before the one in which it runs
or is queued to run (`Rounds`, `Separated`). For a closure this is its whole family, the members scheduled by running functions included.

**Shares** (words of any width, buffers of any size, programs of any length, any inputs and streams). The three parties run
at their own speeds, and nothing ties a message to its operation but its place in the channel. `ShInv` says

- `Channels`: what is on its way between two parties are the messages of the operations which the sender has begun and the
  receiver has not received, in the order of the program, each with the value that lockstep execution gives it;
- `Masks`: a party's window of the generator starts at the block of the number of masks the program has taken before its place, so that
  neighbours, who hold copies of the same streams, draw words that belong together;
- `MatchesLockstep`, `Values`, `Results`: the registers it has are those of lockstep execution, whose three shares make a
  replicated sharing of what a trusted party computes; `XorValue`, `AndValue` and the like are the algebra.

`AtMostTwoAhead` follows from `Received`: an exchange ends with a message from a neighbour, so a party cannot be more than one
exchange ahead of that one, nor it more than one ahead of the third.

**Walk** (any tree, features, MAC key, masks, keys and triples, any depth, and words of any power of two bits: `WidthAssumption`
says that every divisor of the width but 1 is even, so that every level of the recursion halves its blocks). `FieldAssumption`
has the laws of the product that the MACs need. `WalkInv` is what the shares hold between the calls of a layer:

- `Tables`: the shared rows of model, features and MACs are sharings of the plain rows and of the key times these;
- `Walk`: the shared node is the row that the plain walk has reached, `ssY` the feature it names, `ssb` the outcome of its
  comparison, so a selection is always asked for a row of its table;
- `Sums`: the sum over the MACs is the key times the sum over the nodes, which is why the last check is silent.

`CmpInv` does the same for the products of a comparison. `Sizes`: `csize` blocks divide the word evenly. `Blocks`: bit j of
`cgt` and `ceq` is how block j of the threshold compares to that of the feature; after the products of a level the even
positions hold the results for two blocks at once (`AboveAtEven`, `EqualAtEven`), and the loop collects these. `Compared`:
the walk waits meanwhile, and the operands stay the same. With both, `Return` maps to TravelTree's `Compare` and every other
step of the comparison to a stutter (`StepImplements`), so that what holds of TravelTree holds of SecureWalk. `Taken` says
that all triples so far lie below `NextTriple`, which each product increases, and that a comparison ends within `Stride`,
because its offset and what the remaining levels take add up to `TriplesTaken[Width]`.

**Products by transfers** (any program of calls, any words, any speeds of the parties). That two neighbours use the pads of
their common key in step cannot be seen from their counters at one moment, since they are at different calls.
`UsesFollowCalls` says that what a party has done with a generator is a function of the calls that it has sent for
(`Through`): the uses of each call, one call after the other (`Listed`). For the two sides of a key these lists have the same
length and pair a send with a help, call by call (`KindsPair`, `ListsOpposite`); the party that is behind has a prefix of
what it will have (`ListsGrow`), so that the uses of both, as far as both have come, belong together.

**Tree file** (any tree). `TreeInv` is the table after any number of lines. `Links` and `Below` say that edges lead one level
down, to later nodes; `OneParent` that only one leads to each; `LeafRows` that the row of a leaf leads to itself on an even level
and to its parent on an odd one. The table is closed because every row leads to a row from the line that makes it on. For the walk, both `evaluate` and
`Walk` are shown to be paths of length `MaxNodes` and `depth`; the first reaches a leaf, at the latest after `depth` steps,
because each step goes down one level (`PathToLeaf`). The two paths are then compared step by step: they are at the same node,
except at a leaf of an odd level, which the second path leaves for its parent at every even step, to return at the next.
`LabelIsClassification` has the hypothesis `Pure`, that the samples of a leaf are of one class; then `Labels` says that there
is one label per node so far. The run decision_tree_mixed shows that it does not hold without.

**Keys** (any depth, generator, hash, seeds, points and values; the assumptions are the types of the constants and
`PowAssumption`, that 1 << k doubles). `PointFunction` speaks of the end only; `DifferOnPath` says how it comes about, and is
not inductive without `Path`: what key generation has put into the correction words of each level, and that the control bits
of the two parties are opposite on the path. `OffPath` is the algebra: correction makes the child off the path equal.
`NodeStep` carries `Agree` from a node to its children, and `ExpandedArray` shows that expanding node i in place touches no
node that is still to be expanded. `PrefixStep` relates the ancestors of the point on two layers. `BatchIsPointwise` compares the
array with `dpf_eval`, whose loop down to a leaf is a recursive function. `PathEntries` is about every function that satisfies its
recursion (`Follows`): entry n of layer k is what `dpf_eval` has after k levels on the way to any leaf below (`Entry`), in the
part of the array that is expanded as in the part that is not.

**Dealers** (any batch, any capacity of the connections). Between two parties there are at most two messages of a kind, keys
and then tag or proof, and `DealerInv` says that what is pending is told by how far the two are (`Right`, `Left`). The
tag or proof that is compared was made from keys of the batch whose other halves the party holds itself (`Proofs`), and the two
proofs agree exactly if the final hashes of each pair of this batch do (`HalvesAgree`), that is if the vectors agree in
their first sixteenth. So `Verdict`: a party that has made a comparison has learnt of one of its two batches.

`CommonLemmas` has what the library lacks, and the algebra of shares. Induction over numbers is used in the form of
`CountUpTo`: a set that contains 0, and n + 1 with n, contains every number up to a bound, which follows from the least element outside it.
`Iterates` uses it to show that a function can be applied again and again, so that a path exists.

Only model-checked:

- liveness: `EverythingCompletes`, `EveryCallReturns`, `NobodyWaitsForever`, `EveryoneFinishes` (out of the prover's reach);
- `RegistersHoldValue` and `NoWireReadEarly`, for which no proof has been written: a level of a circuit is a fold over its
  gates with an operator of the library, about which nothing can be proved by induction in that form; and messages would
  have to be paired for all ten kinds of calls, as `Channels` does for the operations of ShareProtocol.

## 6. What is not modelled

- Of the offline phase: serialization, the shares of the index, the one-hot vectors of `ohv.h` (a block each, which nothing
  extracts yet). `main-dtree` does not read what these programs write but key files of its own, with constant points;
  ObliviousSelection takes any keys with `OneHotAssumption`.
- Of the framework's arithmetic: packed binary matrices and matrices of more than one element (whose elements
  are sums of the products modelled), `remoteInt` and reveals to one party, the wrappers of `Sh3FixedPoint`, which shift constants.
  `Sh3Converter`: its task version throws before it has done anything (line 67). The circuits for preprocessing, conversion
  and argmax, and garbling: nothing but the converter calls them. The blocking `SharedOT::recv`: likewise.
- What an evaluation leaves on wires that are written before they are read, and the keys' blocks of masks: the model has a
  mask bit per product. Gate Or is modelled and run by no circuit.
- Scaling thresholds by 1000 and converting them from float; ties; negative values. The walk in DecisionTree is given by
  its turns, and the comparison in TravelTree by words.
- The truncation of MAC differences to `int`, and behaviour after a check has failed or of a party that does not follow
  the protocol.
- The threads of the test mode that share the globals of `main-dtree.cpp`; connection set-up, logging, options, statistics.
- `read_from_file` and `add_edge`, the unpacked reader, which the program does not call.

## 7. Plan

Done in this order: scheduler, its abstraction and proofs; runtime; shares and messages; comparison; selection and walk;
tree file; keys of the offline phase, with proofs, and their dealers; the walk composed with its comparisons; products,
transfers, circuits and piecewise functions; proofs about runtime, shares, tree file and dealers; proofs about the walk, its
comparisons and selections, transfers, labels and the expansion of keys. Left:

1. proofs about circuits: what a level computes, and that no wire is read early, for any circuit and any calls around it;
2. the expanded bits of a DPF key as the unit vector that `OneHotAssumption` asks for, index shares included;
3. a model of the walk that composes DecisionTree's table with TravelTree, ties and scaled thresholds included;
4. the sessions of `main-dtree`, and a party that stops.

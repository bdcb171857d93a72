# Verification of cmcstl2

`src/` is an implementation in C++ of the Ranges TS: a header-only library of
algorithms, iterators, views and a few vocabulary types.  Almost everything in
it is sequential code that runs in the caller's thread, so its hard behaviours
are not those of a protocol.  They are *exceptions* that leave an operation
half done, *indices and flags* that must agree with storage they describe,
*unguarded loops* that rely on an order established elsewhere, and, in one
place, *reference counting* by several threads.  The modules here are aimed at
these.

## The system

| Part | State | Operations | What is hard | What makes it correct |
|---|---|---|---|---|
| memory algorithms (`detail/memory/`, `detail/construct_destruct.hpp`) | raw storage, the loop's iterators, the `destroy_guard` | `uninitialized_copy/move/fill/default_construct/value_construct`, `destroy`, their `_n` forms | any constructor, and the source iterator, may throw in the middle | all objects of a block or none; no lifetime begun twice or ended twice |
| `variant` (`variant.hpp`, `detail/variant/`) | a union, an index, `index_guard` | construction, assignment, `emplace`, `swap`, comparison, `visit` | index and union change in separate steps, between which anything may throw | the index tells what is there; strong guarantee where moves do not throw |
| `optional`, `semiregular_box` (`optional.hpp`, `detail/semiregular_box.hpp`) | storage, `engaged_` | construction, assignment, `emplace`, `reset`, `swap` | as for `variant`; noexcept clauses | `engaged_` tells what is there; no true noexcept clause is broken |
| `any_iterator` (`detail/iterator/any_iterator.hpp`) | a union of an iterator and a pointer to a counted node, a function that knows which | copy, move, assignment, destruction, `next`, `read`, `equal` | nodes are shared by threads | exact counts, no use after deletion, no leak |
| heap algorithms (`detail/algorithm/*heap*.hpp`, `partial_sort.hpp`) | the range | `make_heap`, `push_heap`, `pop_heap`, `sort_heap`, `partial_sort` | index arithmetic at the edges, equal keys | a permutation, in heap order |
| `sort` (`random_access_sort.hpp`) | the range, a stack of blocks, a depth limit | introsort with a final insertion sort | scans and insertions that test no bound; recursion; a comparison that throws | in bounds, bounded depth, sorted, no element lost |
| stable algorithms (`stable_sort.hpp`, `inplace_merge.hpp`, `stable_partition.hpp`, `forward_sort.hpp`, `merge.hpp`, `detail/temporary_vector.hpp`) | the range, a buffer that may be smaller than asked | sort, merge, partition | buffer exhaustion, exceptions with elements in the buffer | stability, nothing lost |
| partitions, rotations, permutations, selection | the range | `partition`, `rotate`, `reverse`, `next_permutation`, `nth_element`, `sample`, `shuffle`, ... | boundaries | the reference result |
| searches, set algorithms, comparisons | none but the iterators | `lower_bound`, `search_n`, `set_union`, ... | boundaries, equal keys | the reference result |
| sequence algorithms | the iterators | `copy`, `unique_copy`, `remove_if`, ... | aliasing of source and destination | the reference result |
| iterator adaptors (`detail/iterator/`) | a base iterator, a count, or a `variant` of iterator and sentinel | arithmetic, comparison | a `common_iterator` may be a sentinel; a count out of step | position and count agree |
| stream iterators, inserters | a stream shared by copies, a cached value | read, advance, write | copies read ahead of one another; streams that fail or throw in a loop that tests nothing | each item once; the output holds a prefix |
| views, ranges, `span` | a pair of iterators, or a pointer and a count | slicing, iteration | bounds | in bounds |
| concepts, traits, `meta`, `tagged` | none | evaluated by the compiler | - | - |
| random numbers (`randutils.hpp`) | a generator | seeding | - | - |

**How they interact.**  The parts call one another and share ranges; there are
no messages.  `variant` and `optional` construct through
`detail/construct_destruct.hpp` and call the constructors, assignments and
swaps of the client's types, which is where exceptions come from;
`semiregular_box` wraps an `optional`; `common_iterator` is a `variant`; the
memory algorithms share one guard; the `temporary_vector` of the stable
algorithms counts its own elements and destroys them; `sort` falls back on
`partial_sort`, which uses the heap; `forward_sort` and `stable_sort` share
merging and `lower_bound`.
Callbacks are comparisons, predicates and projections, all of which may throw.

`PROJECT.json` lists every component with its status, and under `hazards` the
places in the code that a test would hardly reach, with the property that
covers each or the reason why none does yet.

## The modules

**`UninitializedMemory`** models `detail/memory/`.  An array of `N` cells, each
of which holds an object or none, and one client that calls the algorithms on
blocks of it.  `Call` enters a function and arms the guard; `Construct`, then
the increments (`++result` before `++first`), are the loop; a constructor, the
source's `operator*`, comparison or increment may throw (`Throws`,
`AdvanceThrows`), after which `Unwind` is `~destroy_guard()`, which calls
`destroy()`; `Return` is `guard.release()` and the return.  `result` is the
loop's own iterator, to which the guard keeps a pointer.  The abstract
specification is **`AllOrNothing`**: a call is asked for, and it succeeds with
its whole block created or fails with nothing created.

**`Variant`** models `variant.hpp`.  A call is a list of steps (`todo`), in the
order in which the code performs them: arming the guard, clearing, constructing,
the guard's destructor, and so on.  Every step of the alternatives' own may
throw, which skips the steps that are left *except* the destructors of guards
and of the temporary (`Unwinding`).  `index`, `storage` and `guard` are the
code's `index_`, `data_` and `index_guard`; alternatives are numbered, values
are two model values, and `Unspecified` is the value of an object that was
moved from or whose assignment threw.  A move that throws may have taken the
value of its source.  `nothrow` is what the alternatives promise not to throw
from; a function whose noexcept clause is true of them is `strict`, and an
exception in it sets `terminated`.

**`Optional`** models `optional.hpp` and `semiregular_box.hpp` in the same way.
Its variable `template` says which class is at hand (an optional or a box) and
what the type inside promises: whether it has an assignment, and which of its
operations do not throw, which is what the noexcept clauses of the code ask
for.  A box may be empty (`Default`): that of a type which is not default
constructible begins so, also if the type can be assigned.  `FalseClause` names
the calls whose noexcept clause does not cover what they do; a program that one
of them ends stays `Terminated`.

**`HolderContract`** is the abstract specification of both: what each operation
leaves behind on return, and which states an exception may leave.  It knows
nothing of guards, indices or steps.

**`AnyIterator`** models the ownership in `any_iterator.hpp`: threads that
construct, copy, move, assign and destroy cursors.  Nodes have an atomic count
`cnt` and live while `allocated`; `exec_` says what a cursor holds.  A copy
takes the address in one step (`CopyBig`) and counts in another (`Count`); a
release decrements (`Nuke`) and deletes (`Delete`) in another.  Cursors
themselves are not shared for writing, as for any object of the library: each
has an owner, and a cursor of the owner `Shared` may be read by all threads.

**`IntroSort`** models `random_access_sort.hpp`, one comparison per step:
`stack` holds the calls of `introsort_loop`, `i` and `j` are the iterators of
`unguarded_partition` and of the insertions, `pivot` is `pivot_pnt`, `val` the
element that a function holds in a local variable, whose place in the range is
a `Hole` until it is put back.  A block that exceeds the depth limit is sorted
by `partial_sort`, also comparison by comparison: `BeginHeap`, `SiftParent` and
`PopHeap` are the loops of `make_heap`, `sift_down_n` and `sort_heap`,
`SiftLeaf`, `GreaterChild` and `SiftChild` one turn of a sift.  There `root` is
the parent that `make_heap` is at, `i` the place of the sinking element, `j` the
end of the heap and `pivot` its greater child.

**`HeapOps`, `MoveOps`, `BoundOps`, `MergeOps`, `ForwardSortOps`,
`StablePartitionOps`, `ReorderOps`, `WriteOps`** have the algorithms that
rearrange or overwrite a range, as operators on a *memory*: a function from
places to elements in which the range comes first and the temporary buffer
behind it.  Moving an element leaves `Moved` behind, and moving an element onto
itself keeps it or not (`SelfMoveKeeps`), so that nothing is gained or lost
silently.  `HeapOps` has the heap algorithms as they are in `heap_sift.hpp` and
its callers, each with the arrays that it may leave when a comparison throws
(`..._thrown`); `MoveOps` the moves, swaps and the four rotations of
`rotate.hpp`; `BoundOps` the binary searches that merging shares with
`equal_range`; `MergeOps` `merge.hpp`, `inplace_merge.hpp` and
`stable_sort.hpp`; the next two `forward_sort.hpp` and `stable_partition.hpp`;
`ReorderOps` partition, reversal, permutations, `unique`, `remove_if` and
`nth_element`; `WriteOps` the copies, moves, fills, replacements and removals
that may write into what they read.  **`Rearrange`** is their client: it makes
one call, chooses the category of the iterators, how source and destination
overlap, and the size of the buffer that `std::get_temporary_buffer` grants,
and records what came out.  One algorithm runs to its end in one step, as
nothing can happen beside it.

**`SequenceOps`, `SearchOps`, `SetOps`, `CopyOps`** have the algorithms that
change no range or write to another one: finds, counts and `is_sorted`;
searches; set operations and merging; copies, `partial_sort_copy`, samples and
`shuffle`.  **`Queries`** is their client, which makes one call on two arrays
and records what *every* overload of the algorithm answers.  An unguarded scan
applies the array, a function, to the place it reads: were that place outside
the range, evaluation would stop with an error.

The loops and recursions of the algorithms below `Queries`, `HeapOps` included,
are recursive *functions* (`from[i \in 0 .. n] == ...`), with the place in the
range as their argument, so that they can be proved about.  The other operator
modules below `Rearrange` are recursive operators on whole memories, as the
code recurses on whole ranges, and are for TLC only.

**`IteratorOps`** has the iterators: arrays of every category, `iota`, `repeat`,
and over them `counted_iterator` (which `take_exactly` and `repeat_n` give),
`reverse_iterator`, `move_iterator` and `common_iterator`, with the sentinels
that belong to each.  An iterator is a record that holds its base's record,
as the class holds its base; an operation that the code refuses with an
`STL2_EXPECT` yields `Broken`, and so does everything made from that.
`advance`, `distance`, `next` and `prev` are there with all their overloads.
**`Iterators`** is a client with two iterators of one range, which applies any
operation whose precondition holds to them.  **`Positions`** is what it should
see: two positions in one sequence, and integer arithmetic.  The refinement
mapping is `Seen`: the elements of the range as its views are meant, and for each
iterator the number of increments of the first one that give it in all its
parts, counts included.  An iterator that no number gives has position -1, which
no step of `Positions` allows.

**`Streams`** models the single pass iterators and the loops that drive them:
an `istream_iterator` or `istreambuf_iterator` is copied to an
`ostream_iterator`, an `ostreambuf_iterator` or an inserter, by `copy`, by
`copy_n`, or by a client that says `*out++ = *in++` itself.  Streams share state
with the copies of their iterators, come to their end or meet a malformed item,
fail silently or by exception, are cleared, and are given new iterators.  An
item is named by its place in the text, and every character is an item.  Stream
buffers throw as well: `sgetc` when a character is read (`read_throws`), `sbumpc`
or the `sgetc` after it when one is consumed (`next_istreambuf_throws`), `sputc`
when one is written; that takes nothing then.  `handed` is what was written to the
output iterators, `taken` what the target holds, `lost` what went with an
iterator that had read ahead.

**`UninitializedMemory_proofs`, `Variant_proofs`, `Optional_proofs`,
`AnyIterator_proofs`, `IntroSort_proofs`, `Streams_proofs`** have the proofs.
**`Queries_proofs`** has those of the searches, comparisons and bounds of
`Queries`, and **`Outputs_proofs`**, which extends it, those of the algorithms that
write to an output.

Operators whose comment says "A faulty ..." are not part of any specification:
they are mutations of the definition that follows them, kept to show that a
property fails when the code is changed in this way.  `PROJECT.json` lists
them under `mutants`.

## The runs

| Run | Checks | Bounds |
|---|---|---|
| `uninitialized_memory` | the inductive invariant, `LifetimesNest`, `MovedValuesAreHeld`, the refinement of `AllOrNothing`, `CallsReturn` | 4 cells: two blocks with a gap, in any position; every constructor may throw |
| `variant` | `TypeOK`, `IndexAgrees`, `LifetimesNest`, `NothrowMoveKeepsValid`, `OnlyOneClauseFails`, the refinement `ValueSemantics`, `CallsReturn` | 2 variants, 2 alternatives, 2 values; alternatives that throw from everything, from nothing, from all but moves, from all but copies, from all but move construction, and from all but that and copies |
| `variant_compare` | a violation of the dispatcher's assertion, see below | as above |
| `optional` | `EngagedAgrees`, `LifetimesNest`, `OnlyThreeClausesFail`, `BoxesKeepObjects`, `ValueSemantics` | 2 optionals or boxes, 2 values; every type there can be: with and without assignment, and with any of its five operations not throwing (`MC_Templates`) |
| `optional_noexcept` | the violation of a noexcept clause, see below | one kind of type |
| `any_iterator` | `TypeOK`, `CountExact`, `NoUseAfterFree`, `TinyAgrees`, `NoLeak` | 2 threads, 3 cursors, 2 nodes |
| `introsort` | `UnguardedInBounds`, `KeepsElements`, `BlocksInOrder`, `Sorts`, `DepthBounded`, `Terminates` | up to 7 elements, 3 keys, threshold 2, depth limit log2(n) |
| `rearrange` | `KeepsElements` (heap comparisons may throw), `Delivers`, `Stable`, `WritesInPlace`, for a type whose self-move keeps its value | all arrays of up to 5 elements with 3 keys, of 6 and 7 with 2, and of 9 with at most 4 odd ones; every buffer size, every point, every overlap |
| `stable_sort_order` | a violation of the stability of `stable_sort`, see below | as above |
| `queries` | `Finds`, `Compares`, `CombinesSets`, `CopiesSome` | all pairs of arrays of up to 4 elements with 3 keys |
| `iterators` | the refinement `Implements` of `Positions`: every operation moves and answers as arithmetic on positions says, and none trips an assertion | 3 elements; every category, ends that are iterators or sentinels, up to three adaptors |
| `streams` | `ItemsOnce`, `OutputFaithful`, `CallsReturn` | all texts of up to 4 items, any of them malformed; 4 iterators made (`MaxMakes`), 2 failures of the output (`MaxFaults`) |

**Why the bounds are enough.**  What the proofs cover holds for every value of
the constants; there the runs find mistakes cheaply.  An operation of `variant`
and `optional` has at most two operands, so two holders give every combination of
same or different, engaged or not, and self-assignment; a third would only
rest, as no operation touches what it is not given (and the refinement says
so).  Two alternatives are the same or different.  In `any_iterator` a count
reaches three, an address is reused while another node lives, and three
participants suffice for a copy, a release and a hand-over of one node to race.
In `introsort` the code's threshold of 16 and limit of 2 log2(n) are scaled
down, as constants, so that seven elements are partitioned on several levels,
exceed the depth limit, and are inserted past the first block; with the code's
own numbers no small input would do any of that.  Equal keys come from having
fewer keys than elements, and heaps have parents with one child and with two.
In `iterators` three elements give an iterator that is at neither end, and
distances that reach a bound, miss it and pass it; the stacks have every
adaptor over every other that is allowed, and some over two.  In `streams` one
item is read ahead while another is written, a third is left, and a fourth
may be malformed between them.  Only `Streams` has guards that the code does
not: a client may make `MaxMakes` iterators and the output may fail
`MaxFaults` times.  All other bounds are in the sets that the initial states
come from.

`rearrange` scales the code's constants in the same way: insertion below 3
elements instead of 15 and chunks of 1 instead of 7.  `nth_element` sorts a range
that is short enough by selection: up to 7 elements in the code, and up to 3, 5
and 7 in the run (`Limits`; its medians of three need 3).  With 3 the partition is
taken from four elements on, with 5 and 7 `selection_sort` is, as it is in the
code: two and three elements have cases of their own.  Nine elements then
make `merge_sort_with_buffer` go to the buffer and back twice, with odd
remainders, and merges and rotations recurse on several levels.  The numbers
256, 16, 8 and 4 in the code only decide whether a buffer is asked for, and the
run has every size that may be granted, none included.  The arrangements of a
permutation are enumerated up to 4 elements (`PermutationLimit`).  Four
elements are enough in `queries` for a search to fail after a partial match and
go on, and for the steps of searches without a length to double twice.

**Fairness.**  A thread that has entered a function goes on in it: `WF` of the
steps of a call in progress, in `UninitializedMemory`, `Variant`, `Streams` and,
for each thread, `AnyIterator` (nothing in these functions blocks, and the
scheduler of the operating system runs every thread in the end).  Clients are
not fair: they need not call anything, nor clear a stream that has failed.  In `IntroSort` the steps of the algorithm are fair and
`Throw` is not, so that `Terminates` is not won by an exception.

**Deadlock** is checked in all runs but `introsort`, which ends when sorting
ends, those of `Rearrange` and `Queries`, whose clients make one call, and
`streams`, whose client runs out of iterators to make.  A program that an
exception has ended stutters (`Terminated`), in `optional` and in `variant`: that
it has ended is no deadlock, and `OnlyThreeClausesFail` and `OnlyOneClauseFails` say
by which calls it can.

## Findings

- `variant.hpp:763`, `:780`: comparing two variants that are both invalid (which
  failed emplacements leave behind) dispatches a visitor on an index that is
  none, against `STL2_EXPECT(v.valid())` in `visit.hpp:201`; `swap` tests for
  that case.  Run `variant_compare`.
- `optional.hpp:182`: the move constructor's noexcept clause asks whether
  copying throws.  Run `optional_noexcept`.
- `merge.hpp:50`: of two equivalent elements, `merge` takes the second range's
  first.  `stable_sort` and `inplace_merge` merge adjacent halves with it when
  they have a buffer, so they are stable only without one.  Run
  `stable_sort_order`; `Stable` states what does hold.

Smaller things met while reading, for which there is no run:

- `variant.hpp:598`: the copy assignment is noexcept if copies are, but moves its
  temporary into place (`:247`), so a throwing move terminates the program.  The
  assignment from a value asks about moves too (`:712`).  The run `variant` has
  alternatives of that kind; `OnlyOneClauseFails` says that no other clause of
  `variant` can fail, and is proved.
- `semiregular_box.hpp:59`: the move assignment says `o_ = t` where `t` is an
  lvalue, so it copies, under a noexcept clause about moving.
- `semiregular_box.hpp:26`: the box of a type that can be assigned but not default
  constructed begins empty.  Assigned to a full box it empties that one, whose
  `get()` has the precondition `STL2_EXPECT(o_)` (`:79`).  A value that is assigned
  to it is copy-constructed, by `operator=(T&&)` (`:55-61`) and by
  `operator=(const T&)` (`:70-76`), under clauses about assignment only.
  `BoxesKeepObjects` says in which ways a box loses its object, and
  `OnlyThreeClausesFail` that these two clauses and that of `optional.hpp:182` are
  the only ones that can fail, for every type; both are in the run `optional`, and
  proved.
- `inplace_merge.hpp:114-119`: the comment's `<=` and `<` are not those of the
  partition that the bounds below it compute: elements of the second half that
  are equivalent to `*m1` stay on the right.
- `stable_partition.hpp:137`: `skip_false` states as its precondition that the
  first element satisfies `pred`; its callers have it not satisfy it.
- `sample.hpp:83-98`: without a known length, the iterator returned for the
  output is not advanced; `sample_unsized` models what is written.
- `set_union` copies equivalent elements from the second range once the first
  has been compared; `max_element` returns the last of several greatest
  elements, as `Compares` says.
- `merge.hpp:39`: when the buffered half is used up, `merge` moves the rest of
  the other half to where it stands.  That is harmless for types whose
  self-move keeps their value (integers, `unique_ptr`) and would lose elements
  of others; `SelfMoveKeeps = FALSE` in the cfg of `rearrange` shows it.
- `operations.hpp:156`: the comment allows a negative `n` where `[bound, i)` is
  empty, but without a sized sentinel `advance` then steps back past `bound`.
  The sized overload (`:185`) refuses `n = 0` with `bound` before `i`, which the
  comment at `:177` allows.  `Iterators` calls neither.
- A call qualified with `__stl2::` does not find the overload of `advance` for
  `counted_iterator`, which is found by argument-dependent lookup only; both
  ways give the same result, in different numbers of steps.
- `counted_iterator`'s `operator[]` expects `n <= cnt` and so allows the place
  behind the last element.
- `common_iterator.hpp:130`: two `common_iterator`s over iterators that cannot be
  compared are equal when both hold an iterator, wherever these are.
- An `istream_iterator` whose `>>` throws stays live and shows its old value; the
  client of `Streams` drops an iterator that an exception came from.
- `ostreambuf_iterator.hpp:64`: `failed()` says true as long as nothing failed.
- An `ostream_iterator` that throws at its delimiter has already written the
  item; a character from an `istreambuf_iterator` is not consumed by then, so a
  client that goes on writes it twice (`MayRepeat` in `ItemsOnce`).  The same
  holds if `sbumpc` throws after the character was written
  (`istreambuf_iterator.hpp:181`).  If the `sgetc` behind it throws (`:183`), the
  character was consumed; in `*out++ = *in++` it is lost then.
- `remove` and `replace` take the value by reference: a value inside the range is
  overwritten while it is still compared with.

## The proofs

All are by an inductive invariant, one step per action.  Why the stated
properties alone are not inductive is the interesting part of each.

**`UninitializedMemory_proofs`**, for every length `N` of the array (the only
assumption is that it is a natural number):

- `Invariance`: `Spec => []Inv`.  That a destructor finds an object in its cell
  depends on where the guard and the loop's iterator stand.  `Inv` adds, per
  control point, exactly which cells of the block hold objects (`LoopInv`: those
  the loop has passed, and one more between the constructor and `++result`;
  `DestroyInv`: those not yet destroyed), where the guard stands, and that an
  exception is under way exactly during an unwinding (`OutcomeInv`).
- `Lifetimes` and `MovedValues`: the two safety properties, from `Inv`.
- `Refinement`: `Spec => AllOrNothing`.  The mapping hides the block of a call
  in progress; the loop, the guard and the unwinding are stutters, entering a
  function is `Ask`, the last step is `Succeed` or `Fail`.

**`Variant_proofs`**, for any sets of variants, alternatives, values and
templates:

- `Invariance`: `Spec => []IInv`.  `IndexAgrees` speaks of calls that have
  returned or thrown; in between index and storage disagree for a while, and an
  exception may leave at any step.  What repairs that is in the steps that are
  left, so the invariant, `Place`, has one definition for each place a call can
  be at: which steps are still to come, which guard is armed, and what the slots
  hold compared with what they held when the call began.  Copying or moving an
  object from one slot to another is done in many calls, always in the same
  steps (clear the target, arm its guard, construct, let the guard set the index);
  it is proved once for a `Job`, which a call instantiates with its own target, source
  and steps that come after.  While an exception is on its way (`Unwinding`),
  `AtUnwinding` says that at most one guard is armed, over a cleared storage,
  that every other slot agrees, and that what the guard will leave is an outcome
  the contract allows.
- `Typed`, `Agreement`, `Lifetimes`, `NothrowKeepsValid`: the safety properties,
  from `IInv`.  The last one needs that in a call which must leave no variant
  without value (`Preserving`) nothing throws while a guard is armed.
- `OnlyOneFails`, that is `Spec => []OnlyOneClauseFails`: whatever the alternatives
  promise, only the copy assignment can end the program.  `Clauses`: under
  `ClausesSuffice`, that an alternative which may be copied without exceptions may
  be moved so as well, nothing ends it (`NoexceptHonoured`).  The hypothesis
  excludes exactly what the entry about `variant.hpp:598` above describes; most
  types satisfy it.
- `Implementation`: `Spec => ValueSemantics`, with no hypothesis.  Beginning a
  call is the contract's request, its last step or the last step of unwinding its
  outcome, everything else a stutter.

**`Optional_proofs`**, for any sets of holders, values and templates, empty boxes
included, in the same way: `Invariance` with a `Place` for each step of a call,
`Agreement`, `Lifetimes`, and `BoxesKeep`, that is `Spec => []BoxesKeepObjects`.
`OnlyThreeFail`, that is `Spec => []OnlyThreeClausesFail`, needs one more invariant:
in a strict call that is not a `FalseClause`, no step that is left may throw
(`AllHarmless`).  `Clauses` concludes `NoexceptHonoured` from `MovesAsCopies` and
`BoxesCopyFreely`, which exclude the types of `optional.hpp:182` and of
`semiregular_box.hpp:59` and `:72`.  `Implementation` is `Spec => ValueSemantics`,
with no hypothesis: a call that ended the program has neither returned nor thrown.

**`Streams_proofs`**, for texts of any length and any `MaxMakes` and
`MaxFaults`: `NothingLostOrRepeated`, that is `Spec => []ItemsOnce`.  An item is
in the stream, in an iterator, in the result of a post-increment, in the output
or lost with an iterator; `ItemsOnce` compares the last two with what was
extracted.  The invariant adds `Position` (an `istream_iterator` has read the last
item extracted, a live `istreambuf_iterator` has one to read), `CallInv` (what a
call in progress has in hand at each place), and `Bound` and `Ahead` (how far
what is written may be ahead of what was consumed, within one turn of a loop).
When the buffer throws, `Consumed` says which character went with the iterator.
`OutputIsFaithful`, that is `Spec => []OutputFaithful`, has an invariant of its own
beside that one (`OutputInvariant`).  What is given to an output iterator, with
its delimiters, arrives symbol by symbol; `OutInv` says that the target is what it
was before (`since`) with the first `Count` symbols placed in it, that an
iterator which has not failed is behind by the delimiter it is about to write
and by nothing else, and that an `insert_iterator` stands behind what it has
inserted.  The lemmas on sequences say what appending, prepending and inserting
one more symbol make of that, place by place and so without induction.

**`AnyIterator_proofs`**, for any set of threads and finite sets of cursors and
nodes: `TypeCorrect`, `CountIsExact`, `NeverUsedAfterFree`, `TinyIsAgreed`.  The
invariant has `Ops` (a thread in an operation has its cursor to itself, or only
reads it), `Values` (`exec_` tells what a cursor at rest holds) and `Counted`:
the count of a node is the cardinality of its `Holders`, the cursors that have
a share in it and for which no thread is about to delete it, and an allocated
node without holders has exactly one such thread.  Each step
adds one holder or takes one away, which the lemmas about cardinality turn
into the step of the counter.

**`IntroSort_proofs`**, for any `MaxN`, any set of integers as `Keys`, any
threshold of at least 2 and any `limit_factor`: `InBounds`, `ElementsKept`,
`BlocksAreInOrder`, `Sorted`, `DepthIsBounded`.  The parts of the invariant:

- `HeldInv`: `whole`, the range with the held element put back in its hole, is a
  permutation of the input, whatever moves are under way.
- `StackInv`: the frames of `introsort_loop` tile a prefix of the range, and
  each has charged its level to the depth limit.
- `BlockInv`: the ends of the frames are `Boundaries` (nothing before one is
  greater than anything behind), and what no frame covers is `Settled`: elements
  a threshold or more apart are in order.
- `PartitionInv`: each of the two scans has an element before it that stops it,
  at first the pivot, later what an exchange has put there.  This is what keeps
  the scans of `random_access_sort.hpp:58` in the range.
- `HeapInv`: a heap except for the sinking element (`HeapExcept`), below its
  parent (`BelowParent`), followed by a tail that is sorted (`SortedTail`).
  That the root of a heap is its greatest element is proved without induction,
  from the least index that would contradict it.
- `InsertInv`: the prefix is sorted, and its first element is no greater than
  anything that is inserted without a guard; this follows from `BlockInv` at the
  end of the quicksort and is why `random_access_sort.hpp:79` needs no bound.

**`Queries_proofs` and `Outputs_proofs`**, for any sets of integers as `Keys` and
arrays as `Arrays` (`QueriesAssumption`: finite arrays, indexed from 0).  The
client makes one call, so the inductive invariants are small: `InArrays`, which
says that the two arrays are among the given ones, and the property itself.
All the work is in what an answer is, that is in what a recursive function
computes, for arrays of any length:

- `FindsHolds`: `Spec => []Finds`.  Every overload of every search returns the
  first place that fits, `find_end` the last.  The scans of `search_n` that jump
  ahead, and the three versions of `find_end`, miss no match.
- `ComparesHolds`: `Spec => []Compares`.  The bounds of the binary searches, with
  and without a known length; `is_permutation`, whose result is about the counts
  of each key although the code never counts a key twice; `minmax_element`,
  which takes its elements in pairs; and the rest.
- `CombinesHolds`: `Spec => []CombinesSets`.  Merging and the set operations are one
  loop with two places (`Combining`), which differ in which place moves and
  whether the element is written (`NextPlace`, `IsWritten`).  The invariant of the
  loop is about what is written from a pair of places on: it is sorted, it is made
  of what is left, in its order, and each key is in it as often as `Times` says
  of how often it is in each of the two rests.
- `CopiesHolds`: `Spec => []CopiesSome`.  Filters (`Filtering`), lists (`Listing`),
  `reverse_copy` and `rotate_copy` by closed forms; `unique_copy`; `sample` by the
  choices that are left at each element (`Samples`), and without a known length
  by the reservoir (`Reservoir`: after `i` elements, any choice of `count` of them);
  `shuffle` by `ShuffleOne`, which runs an arrangement backwards to its draws; and
  `partial_sort_copy` by the heap algorithms it calls.  For these there are lemmas
  of their own, for heaps of any elements with integer keys: `SiftIs` (sifting
  keeps the elements and restores the heap from one place on), `MakeHeapIs`,
  `PopIs` and `SortHeapIs`.

How a recursive function is proved about, without induction over data: TLA+ makes
it a choice among the functions that satisfy its equation, so one has to show
that there is one, and what all of them have in common.  `Recursion` gives the
first for any equation in which a value depends on those of smaller measure;
it and `Agree` (two solutions are the same) come from the least measure at which
they would fail.  From these follow, once and for all, the kinds of loop that
the code has: `Scan` (to the first place where something holds), `Climb` (each
value from the one before, with an invariant), `Looping` and `Writing` (a loop with
a measure that keeps an invariant, or that writes), `Merging` (over two ranges),
`Filtering` and `Listing`.  A loop is then proved by naming its step and its
invariant.

**Only model-checked.**  Liveness (`CallsReturn`, `NoLeak`, `Terminates`) is out
of this prover's reach.  `IteratorOps` and most of the modules below `Rearrange`
have recursive operators, as iterators nest in adaptors and algorithms call
themselves, and the prover loses its arithmetic in every module that reaches
one; so `KeepsElements`, `Delivers`, `Stable`, `WritesInPlace` and `Implements` are
properties of their runs.  Every other safety property of a passing run is the
conclusion of a theorem.  The heap algorithms have both: `Delivers` in the run, and
the lemmas of `Outputs_proofs` for heaps of any length.

## What is abstracted or left out

- Copying a source iterator into a returned pair is taken not to throw; in
  `uninitialized_move.hpp:40` and `_copy` it happens after the guard is released.
- Arguments of `emplace` that refer into the object being replaced
  (`variant.hpp:322`), which is listed as a hazard without a property.
- `any_iterator`'s positions (`next`, `read`, `equal`, `indirect_move`): a node
  is advanced without synchronization (`any_iterator.hpp:127`), as single-pass
  iterators that share their position are; and `deref_`, which always changes
  together with `exec_`.
- A comparison or move that throws in the middle of an algorithm of `Rearrange`,
  as in `stable_partition.hpp:162` with elements in the buffer; `IntroSort` and
  the heap algorithms have it.
- Projections, and comparisons that are not strict weak orders.
- The output iterators of `Queries`, which are taken to be disjoint from the
  inputs, and the iterators returned beside an algorithm's main result.
- The tables of `visit` and visitors of several variants, hashes, `value_or`, the
  observers that do not change state.
- The proxies of `basic_iterator` (post-increment of iterators whose reference is
  not a value, `arrow` proxies) and the selection of `begin`, `end`, `size` and
  `data` among members and functions, which the compiler does.
- `span`: a pointer and a count whose `STL2_EXPECT`s are single tests of the
  arguments.
- Concepts, traits, `meta`, `tagged` and everything else that the compiler
  evaluates, which are most of the lines that no definition maps; and
  `randutils.hpp`, the seeding arithmetic of a utility from elsewhere.

## Plan

Storage and lifetimes, ownership, sorting, the algorithms on ranges, iterators
and streams are there.  What is left, in this order:

1. The stable algorithms step by step where it matters, that is with a
   comparison or a move that throws while the buffer or a local variable holds
   elements.
2. `any_iterator`'s positions, single-threaded, as one more adaptor of
   `Iterators`.
3. `visit` with its dispatch over several variants.
4. `span` as one more range of `Iterators`.
5. The algorithms of `Rearrange` as recursive functions, as those of `Queries`
   are, and with them proofs of `KeepsElements` (which needs only where elements
   are, not how they compare), then of `Stable` and `Delivers`; the heap
   algorithms have their lemmas in `Outputs_proofs`.

Runs are kept to one per component, with the types and traits that a component
is instantiated with chosen in its initial states.

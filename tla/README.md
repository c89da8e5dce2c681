# Verification of the hopter prototypes

The repository is a notebook of research on Hopter-style embedded systems, with
three programs under `src/hopter/`. This project models the logic of those
programs in TLA+, checks the models with TLC on small instances and proves the
main results with TLAPS for every instance.

## The system

| part | source | state | operations |
| --- | --- | --- | --- |
| `SoftLock` | `softlock-std-demo/src/main.rs` 7-124 | atomics `locked`, `pending` | `guard`, `with_access`, drop of a Full or a PendOnly guard |
| `DemoInner` and accessors | same, 127-227 | intent count, id queue behind a Mutex, counters | `submit_direct`, `process_some`, `queue_len`, `run_pended_op`, `pend_submit` |
| `run_softlock_bench` | same, 284-382 | `producers_done`, threads | producers, consumer, joins, final access, assertions |
| `run_mutex_bench` | same, 258-276, 384-460 | queue behind a Mutex | the same work with a plain Mutex |
| `BumpAllocator` | `aarch64-baremetal-unwind/src/main.rs` 103-153, copy in `main_with_unwinding.rs` 21-86 | `next` | `alloc`, `dealloc` (nothing), `oom` |
| panic and recovery | `aarch64-baremetal-unwind/src/*.rs` | frames, resources, `RESUME_WRAP_COUNT`, `DEMO_UNWIND_STATE` | `task_run`, `panic_handler`, `start_unwind_entry`, `Drop` |
| UART numbers | `aarch64-baremetal-unwind/src/main.rs` 77-101 | a buffer and an index | `uart_usize`, called by the panic handler and `task_run`; `uart_hex`, reached only from `print_backtrace`, which nothing calls |
| split-stack pass | `aarch64-split-stack-plugin/pass/SplitStackPass.cpp` | the IR of a module | inserts a check at entry and after each alloca |
| split-stack runtime | `aarch64-split-stack-plugin/runtime/` | thread-local bound, configured size, emergency stack | constructor, `pthread_create` wrapper, `__morestack`, overflow handler |
| demos, scripts, notes | rest of the tree | none of interest | |

How they interact. The accessors of `DemoInner` are reached only through the
soft lock: with Full access from a closure, or from the release loop, which
calls `run_pended_op`; with PendOnly access they only count an intent. The
benchmark's consumer polls through the same lock. The allocator serves the
unwinder and `Box::new` of the bare-metal image. The code that the pass inserts
reads the bound that the runtime sets, and calls the runtime's `__morestack`.

What is hard. In the soft lock: the order of record, flag, swap, unlock and
second look between any number of threads, and a release loop that competes for
its own lock. In the consumer: an exit decision made from several reads. In the
allocator: a decision on a possibly stale load and the arithmetic at the heap's
end. In the split-stack code: unsigned arithmetic, and writes that happen before
the check that should cover them, and a rewriting that must neither lose a path
nor a movement of SP. On the bare-metal core: a panic at any depth of any task,
with a heap that is never given back and that the unwinder itself needs.
`PROJECT.json` lists these as hazards, each at
its line, with the properties that would notice it going wrong.

## Modules

**SoftLock** is the lock alone, one step per access to an atomic. All of them
are SeqCst in the code, so a total order of steps loses nothing. `pc[t]` says
where a caller is: in its closure (`full`, `pend`), in the drop of a PendOnly
guard (`mark`) or at a statement of the drop of a Full guard (`swap`, `drain`,
`unlock`, `recheck`, `spin`). A failed `compare_exchange` of the spin loop
changes nothing, so `spin` waits until the lock is free.

**SoftLockOps** adds threads that submit operations as the benchmark's producers
do. Intents carry the names of the operations they stand for (the code has only
a count), which makes loss and repetition visible. `RunPendedTake` is
`pending_submit.swap(0)`; `RunPendedPush` is the loop that queues the batch, one
step because only the holder of the lock touches the queue.

**SoftLockIsr** runs the same steps under the discipline Hopter has and the demo's
README.md (lines 30-37) contrasts with threads: a stack of contexts in which only
the innermost runs, until it leaves `with_access`. The scheduler is external to
the source and marked so in the map.

**DemoInner** has the effects of the accessor methods on the real content, split
where another thread could come between (the id is drawn before the queue's Mutex
is taken; the intents are swapped out before it is taken). Counters that are only
read after the joins change together with the access next to them.

**SoftLockBench** composes SoftLock and DemoInner into `run_softlock_bench`, with
the consumer's three reads (`ConsumerAsk`, `ConsumerPeek`, `ConsumerLook`, one step
each), the joins and the final access.
**MutexBench** is `run_mutex_bench`. **WorkQueue** is the abstract specification
of both: submit one, process up to a budget, finish when all have been processed.

**BumpAllocator** models `alloc` in machine arithmetic. The first load is Relaxed
and may return any earlier value of `next` that is not older than what the caller
has seen (`Past`, `cur`). A caller whose request fails stops in the out of memory
handler.

**SplitStack** models instrumented code at run time together with the runtime:
the stack pointer of each thread, the pointers of its callers, the thread-local
bound, the lowest address written, all modulo `Word`. The pass splits the entry
block at its first insertion point, before the allocas, so that no alloca is
static any more and each gets a check of its own (`SplitStackPass`, below); the
prologue makes room for registers and spills only. How much it takes is not known to the pass: a
prologue may be larger than the window (the plugin's README, lines 744-753, computes
271 bytes at worst and calls 128 enough for normal -O2 code), so the model lets it
take up to window and margin together, which is what keeps it on its stack.
`__morestack` is modelled from the assembly, which switches to the emergency stack; the comment at `runtime.c` 60 says that it no longer does. The
assembly calls `__morestack_overflow`, which no file defines; the handler of
`runtime.c` is called `overflow_panic_entry` and takes its place in the model.
A thread's first instrumented function starts at the SP its bound was computed
from; the few frames of start-up code between the two are left out.

**SplitStackPass** is the compile-time side: the pass as a rewriting of basic
blocks, one step per function entry and one per alloca. A block is a sequence of
instructions and a set of successors. It justifies the shape of SplitStack: there,
every call and every alloca is followed by a check because `StackMovesChecked`
says the rewritten code is like that. Names of functions are cut behind the prefixes
`__morestack` and `__split_stack` that `shouldSkip` tests, so a module can have a
`__morestack_overflow`, which the pass leaves alone, and a `__hopter_stklet_bound_get`,
which it does not. The pass does not look for its own mark, so
the model runs it twice.

**PanicRecovery** has the three bare-metal images as three values of `image`:
`task_run` (`main.rs`), `with_unwinding` and `simple` (not Cargo targets, kept in
the source tree). A task is a sequence of function bodies over five instructions
(make a resource, make a box, store the state word, call, panic); the tasks of the
code are among them, and TLC adds every small one, because `task_run` takes any
function. `frames` is the call stack with what each frame owns. The allocator is
an INSTANCE of BumpAllocator with the core as its only caller, so an allocation
can fail wherever the code allocates: in `Box::new` and in `begin_panic`, which
takes memory for the exception object. The unwinding crate is external; what the
code relies on is that the search finds `catch_unwind` if the unwind tables are
there (`eh_frame`) and returns 5 if not, and that every frame with something to
drop runs its landing pad, which ends in `_Unwind_Resume`. `padsDue` is a history
variable. **TaskRunner** is the abstract promise: resources are released newest
first and the starter goes on only when nothing is left, or never.

**UartNumber** is `uart_usize` and `uart_hex`, one step per digit.

The MC modules only fix constants that a `.cfg` cannot write.

## Runs

| run | instance | shows |
| --- | --- | --- |
| `softlock_safety` | 3 threads, 2 operations each | exclusion; the flag is exact; every operation is in exactly one place; every recorded intent has someone who answers for it; what a leaving winner leaves behind; a loser returns if it alone is scheduled; all calls return if all are |
| `softlock_stranded` | 2 threads, 1 operation | *violation*: README.md line 7 of the demo does not hold between threads |
| `softlock_isr` | task and 2 handlers, 2 operations each | it does hold under run-to-completion preemption, the spin loop never waits, everything is executed |
| `softlock_bench` | 2 producers, 2 items each, budget 2 | conservation, order of ids, consumer's exit, the assertions and `unreachable!`, refinement of WorkQueue, the end of the run once the producers are joined |
| `softlock_bench_livelock` | 1 producer, 1 item | *violation*: the benchmark need not come to its assertions, although every thread runs (README.md line 33 of the demo: it "stays correct" when tasks "race arbitrarily") |
| `mutex_bench` | 3 producers, 2 items each, budget 2 | the consumer's exit and refinement of WorkQueue for the Mutex version |
| `bump_allocator` | 2 callers, heap of 10 bytes, 4 layouts | blocks disjoint and as asked for, refusals justified, `alloc` returns |
| `split_stack` | 2 threads, stacks of 12 units, margin 5, window 4, word 64; prologues of 2, 4 and 9 | containment, prologues within the window, no false overflow |
| `split_stack_emergency` | the same | *violation*: the emergency stack is shared |
| `panic_recovery` | 3 images, with and without unwind tables; 2 tasks out of `level_a` and all of two functions with up to 3 and 2 instructions; heap of 15 bytes | refinement of TaskRunner, the end can be told from outside, the resume count, the core comes to rest |
| `uart_number` | all numbers of an 8-bit machine | the buffer suffices exactly; what was sent reads as the argument |
| `split_stack_pass` | all functions of 2 blocks with up to 2 instructions, with loops; a module with skipped functions; two runs of the pass | flow of the source preserved at every stage; a check at entry and after every alloca |

Bounds. Three callers are the fewest with a winner, a releasing winner that spins
and a loser; two operations each let a thread come back while its first intent is
still recorded. A budget smaller than the number of items makes the consumer
leave items in the queue. Ten bytes hold two to five of the small blocks, so
callers meet the heap's end from different offsets, after gaps and with a request
too large for it. Twelve stack units hold up to three frames above the margin;
prologues and library depths include one that fits the window and the deepest that
margin and window allow, and allocas include one larger
than the stack. The heap of `panic_recovery` holds two exception objects, or one
and three boxes, so the second task may find it full when it allocates or when it
panics; two functions are enough for a frame that owns something above one that
does not, for a call that returns before the panic and for two calls in a row. Two
blocks with a back edge give an alloca in a loop, several in one block and one
behind a branch. The word of `uart_number` stands to its buffers as 2^64 to 20 and
16: the longest number just fits. Each property has a mutant: a definition of the model with a
plausible bug, under which TLC finds the property violated.

## Where texts and code disagree

The three runs that expect a violation show such places in the soft lock demo and in
the runtime. `PROJECT.json` quotes the sentences under "findings". Three more, all about
the split-stack pass, decide what the models say, and the models follow the code:

- `SplitStackPass.cpp` 60-62 says that the window of `kFramePadding` bytes "is enough
  for B's prologue writes". The plugin's README (744-753) computes "Total worst-case =
  271 B → formal safe kFramePadding = 272 B" against the 128 of line 63, calls 128
  enough for normal -O2 code and refers to `--split-stack-extra-pad` for the rest.
  SplitStack therefore lets a prologue take up to window and margin, and the instance
  has one that reaches below the bound before its function's check (9 units against a
  window of 4). `PrologueWithinWindow` is what is true of the comment;
  `StaysOnOwnStack` says that the guard margin absorbs the rest.
- `SplitStackPass.cpp` 187-215 and 224-261 put the check of a variable-length array
  after the alloca. The plugin's README says that the check "fires **before** the real
  `sub sp, sp, #N` alloca" (98) and shows it in the block before, computed from the
  array's size (783-828). `StackMovesChecked` states the order of the code, in which SP
  has moved when it is compared; with it goes the assumption of SplitStack that an
  alloca does not reach around address zero.
- `SplitStackPass.cpp` 124-126 says that the SP read at entry "already accounts for all
  static allocas". The entry block is split at its first insertion point (141), before
  its allocas, so none is in the entry block any more and LLVM treats none as static.
  In the model every alloca of a rewritten function is collected by `NotStatic`, one
  of constant size too, and gets a check of its own.

## Fairness

Threads: weak fairness per thread, which a preemptive scheduler gives.
`PendOnlyReturns` asks for less: for each thread, fairness of that thread alone is
enough for it to get out of a PendOnly access.

Weak fairness is not enough for the soft lock benchmark to end, and nothing the code
could count on is. A PendOnly poll of the consumer sets `pending` without recording
anything; the producer that releases sees the flag and takes the lock again; while it
holds it the next poll misses, and so on. `softlock_bench_livelock` shows the cycle
under `GenerousSpec`, which grants even more than a scheduler does (`SpinFairness`:
strong fairness of the producers' spinning `compare_exchange`), so that it is not a
matter of a starved thread. What the code does guarantee under weak fairness alone is
`EndsOnceJoined`: from the join of the producers on, the consumer leaves and main makes
its final access. That the Mutex benchmark ends would need a Mutex that lets every
blocked thread in at last, which `std::sync::Mutex` does not promise, so it is not
claimed.

Interrupts and the bare-metal core: weak fairness of the core as a whole; it always
executes something.

## Proofs

Each for every set of threads, contexts, callers, tasks or modules and all values of
the constants within the named assumptions. `PROJECT.json` lists the theorems with the
property each one states; every safety, action and refinement property of a passing
run is stated by one. TLC checked the inductive invariants below on the instance of
the run before they were proved (that of the pass with its quantifiers restricted to
the places of a body), except for `Written` of UartNumber_proof, which quantifies over
functions on all numbers.

**SoftLock_proof** has three parts. First, lemmas about one step of the lock
(`LockStep`), whatever the closures do. `LockInv` says that the flag is set iff
somebody holds and that there is one holder; everything that uses the lock is shown
to take lock steps of one thread. (SoftLockBench_proof starts with the same lemmas:
SoftLockOps and SoftLockBench both extend SoftLock and cannot be extended together.)

Then SoftLockOps: `TypeCorrect`; `FullAccessIsExclusive` and `LockFlagIsExact`
from `LockInv`; `RecordedIntentsAreFlagged`, which is inductive with the lock
invariant (a drain belongs to a holder, so only the holder can clear the flag and
take the intents); `ReleaseGuarantee`, an action property, from it;
`OperationsAreConserved`, where exclusion is needed to know that at most one batch
is being replayed.

Last, SoftLockIsr. A behaviour of the contexts is a behaviour of the threads
(`IsrImplementsOps`), so all of the above holds of it. `IsrInv` is about the stack:
it holds the contexts inside `with_access`, each once (`StackShape`); all above a
holder have lost the lock (`AboveHolder`); whoever has lost it has a holder below
(`LoserHasHolder`); a set flag has a holder or somebody in the release loop
(`FlagHasTaker`). The second and third are needed together: the context that
releases is the innermost one that holds, and nothing above it is left when it runs,
so nobody can have recorded an intent after its swap that it does not see, and
nobody can have taken the lock it spins for. `IsrLeavesNothing`, `IsrSpinIsFree`,
`IsrHolderWaits`, `IsrReleaseIsComplete`.

**SoftLockBench_proof.** `BenchInv` has three layers. `ControlInv`: where a thread is
in its closure tells where it is in the lock (`PlaceInv`), and what the joins
establish stays true (`JoinInv`). From it `BenchMutexIsFree` (the Mutex around the
queue is held only by holders of the soft lock) and `BenchFinalIsFull`. `IdInv`: the
queue holds the ids after the last one processed, without a gap, and the next id is
the one that follows, but for the one that a `submit_direct` has drawn and not pushed
yet; from it `BenchIdsInOrder`. `NothingLost` and `StatsInv`: the sums of what is in
the counters, the batch, the queue and behind it. A sum over threads is stated as the
cardinality of a set of pairs (`Units`), so that one step adds or removes elements
and no induction is needed; a batch is taken by adding an interval of elements at
once. From these `BenchLosesNothing`, `BenchConsumerExits`, `BenchResult` and, step by
step, `BenchRefinesWorkQueue`. `ConsumerExitsDone` rests on the order of the three
reads: if `producers_done` was read as set, every producer has returned, so nothing
is carried any more; the consumer holds the lock, so no batch is being replayed; what
is then neither recorded nor queued has been processed. `SeenInv` carries what the first
two reads found to the third: with no producer left and the consumer holding the lock,
a `pending_submit` read as zero is still zero.

**MutexBench_proof.** The same for the plain Mutex: `MutexConsumerExits`,
`MutexRefinesWorkQueue`, from conservation (`NothingLost` of that module, the
iterations done counted as a set) and from the owner of the Mutex being exactly who
works on the queue.

**BumpAllocator_proof.** The invariant adds to disjointness that every block ends at
or below `next`, and that no caller's `cur` is above `next`. `NoByteTwice`,
`RequestsAreServed`, `NullMeansFull` (rounding up is monotone, so what does not
fit from an old `next` does not fit now), `MemoryOnlyShrinks`.

**PanicRecovery_proof.** For any set of task programs and any heap that satisfies
BumpAllocator's assumptions (`PanicHeapAssumption`). `StackInv`: there are frames
exactly in the modes in which a task can run, and their resources, read from the
innermost frame outwards, are in the reverse of the order in which they were made,
across frames too. One lemma for each way the stack changes (`Begins`, `Pushes`,
`Pops`, `Steps`, `Keeps`, `Drops`) says what that does to `Live`; with the order, the
newest resource of the innermost frame is the newest of all, which is what
`PanicImplementsTaskRunner` needs. `CountInv`: the hook's count and the number of
frames that still have something to drop add up to `padsDue`; the frame whose
landing pad runs counts until it resumes, although it may own nothing any more. From
it `PanicResumesOnce`. `TaskEnd`, `DemoEnd` and `SimpleEnd` follow each image to its
last loop; with `HeapInv` they give `PanicEndingIsTold`. The allocator is reused, not
proved again: the core's steps are BumpAllocator's steps with one caller
(`PanicUsesAllocator`), so its invariant is cited through an INSTANCE of
BumpAllocator_proof.

**SplitStack_proof.** The invariant `StackInv` gives, by activity: a running thread
and each of its callers have a whole window above the bound; a thread in its
prologue is no deeper than margin and window below such a caller, so above the bottom
of its stack; after an alloca SP has not wrapped. From it `StacksAreContained`,
`PrologueIsCovered` (of the prologues that fit the window), `OverflowIsReal`. The
assumptions that matter: a prologue takes at most margin and window, and so does
uninstrumented code; the configured size holds margin and window; the stack's bottom is
at least a window above address zero; an alloca does not reach around address zero. The
code enforces none of these; the hazards say where. With the code's 8 KiB of margin, a
prologue of 271 bytes is far inside the first.

**UartNumber_proof.** The assumption is that the buffers are as long as the longest
number (`RoomAssumption`: the word is at most 10 ^ `DecimalRoom` and 16 ^ `HexRoom`).
The power is a recursive function (`Power`); its equation follows from the existence of a
solution, by a least-number argument on a set (`SetInduction`: the library's rule
takes an operator and cannot be used). `Fits`: `v < base ^ i`, so the index is never
used when it is zero; from it `IndexStaysInBuffer`. For `NumberIsSent`, the
elements of the buffer behind the index are the remainders of a chain of quotients
that begins with the argument and ends with `v` (`Written`); read from the left,
the value so far is the quotient reached, so the last one is the argument.

**SplitStackPass_proof.** The assumption is what LLVM guarantees of a module
(`ModulesAssumption`: successors exist, instructions are distinct, a function
without a body is a declaration; `NamesAssumption`: names are sequences of pieces, and
`__morestack`, which the pass may declare, is one). The work is in two operators on one body. `First`
of `Flow` is the least solution of an equation on blocks (`FirstFixpoint`,
`FirstLeast`; that `Reach` is complete after as many turns as there are blocks is a
counting argument, `ReachIsLeast`). A solution for the body before a step extends to
one after it and the other way round, so `Split` changes no flow (`SplitFlow`) and
`AddCheck` none but its own (`CheckFlow`). With nothing hidden, `AddCheck` either
leaves a pair of the flow as it was or puts a check second (`CheckFlowAll`).
`EntryBody` and `AllocaBody` combine these into what `CheckEntry` and `CheckAlloca`
do: the entry block keeps only the check, so every alloca, static or not, is
collected; a handled alloca ends its block with a check. `PassInv` needs, beyond the
two properties, that instructions stay distinct (the place of an alloca is looked up
by it), that what has no id was inserted (a second run sees the first one's
checks), that the allocas still to be handled are in the body, and that the rest of
it is checked already. From it `FlowIsPreserved` and `StackMovesAreChecked`.

Only model-checked: liveness (`PendOnlyReturns`, `AllReturn`, `AllExecuted`,
`EndsOnceJoined`, `AllocReturns`, `CoreComesToRest`), because fairness and ENABLED are out
of the prover's reach. The three properties of the runs that expect a violation are refuted by
TLC's counterexamples; one of them, `NoStrandedIntent`, is proved for SoftLockIsr.

## Not modelled

- Scenario parameters, throughput arithmetic and printing of the benchmark
  (`main.rs` 462-530): `main` runs the two modelled benchmarks three times with
  other numbers; nothing is kept from one to the next. Time (`spin_n`, `yield_now`).
- UART text output, the start-up assembly and the linker script; `print_backtrace`,
  which nothing calls (UNWIND_FLOW_EXPLAINED.md section 6 still has the panic
  handler call it).
- A panic inside `Drop` during unwinding: no `Drop` of the images can panic. The
  inside of the unwinding crate: external.
- The demo programs of the split-stack plugin, which exercise what SplitStack
  states; a `pthread_create` that fails (no state but a leaked argument block).
- Build output, notes and papers.

The hazards without a property in `PROJECT.json` are limits of the code that the
models assume away, each with its reason.

## Plan

1. Done: soft lock, its two schedules, both benchmarks, allocator, split stack at
   run time.
2. Done: panic and recovery over the allocator, the pass, the UART numbers.
3. Done: proofs of the interrupt model, both benchmarks and their refinement of
   WorkQueue, panic recovery and its refinement of TaskRunner.
4. Done: proofs of the pass and of the UART numbers, by least solutions and counting
   in place of induction over data. What is left to TLC is liveness.
5. Done: what the code does not give is no longer assumed: the soft lock benchmark's
   livelock is a run, a prologue may be larger than the window.

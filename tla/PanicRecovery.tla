--------------------------- MODULE PanicRecovery ---------------------------
(***************************************************************************)
(* Panic, unwinding and recovery on the bare-metal core                    *)
(* (aarch64-baremetal-unwind/src): the image of main.rs, which runs tasks  *)
(* under task_run, and its two variants main_with_unwinding.rs and         *)
(* main_simple.rs.  The core runs one thing at a time; memory comes from   *)
(* BumpAllocator, here with one caller, so that compare_exchange never     *)
(* fails.                                                                  *)
(*                                                                         *)
(* A program is a sequence of function bodies; the instruction "call" of   *)
(* one calls the next.  main.rs starts one task; task_run is modelled for  *)
(* TaskRuns tasks one after the other, any of Tasks each time.             *)
(*                                                                         *)
(* The unwinding crate is external: begin_panic allocates the exception    *)
(* object (the payload Box::new(()) takes no memory), a search finds the   *)
(* catching frame by means of .eh_frame, and then each frame below it that *)
(* has something to drop runs its landing pad and ends in _Unwind_Resume.  *)
(* Drop of the images' resources does not panic.  Output is left out.      *)
(***************************************************************************)
EXTENDS Naturals, Sequences, FiniteSets

CONSTANTS
  Core,
  HeapSize, HeapBase, BaseAlign, Word,      \* as in BumpAllocator
  BoxLayout, ExceptionLayout,
  Tasks,                  \* the programs that task_run may be given
  TaskRuns                \* how many tasks main starts

(* As in BumpAllocator. *)
ASSUME PanicHeapAssumption ==
  /\ HeapSize \in Nat /\ Word \in Nat /\ HeapBase \in Nat
  /\ BaseAlign \in Nat \ {0} /\ HeapBase % BaseAlign = 0
  /\ 2 * HeapSize <= Word
  /\ \A l \in {BoxLayout, ExceptionLayout} :
       /\ l.size \in Nat \ {0} /\ l.align \in Nat \ {0}
       /\ 2 * (l.size + l.align) <= Word

VARIABLES
  image,                  \* which of the three programs this is
  eh_frame,               \* the linked image kept its unwind tables
  next, allocPc, req, cur, blocks,          \* as in BumpAllocator
  mode,
  task, started,          \* the program running; tasks started
  frames,                 \* its call stack, innermost first
  made,                   \* resources made so far
  result,                 \* what catch_unwind returned
  DEMO_UNWIND_STATE,      \* STATE in main_simple.rs
  PANIC_CAUGHT,
  RESUME_WRAP_COUNT,
  padsDue                 \* history: the count when this unwinding is over

heapVars == <<next, allocPc, req, cur, blocks>>
stateVars == <<DEMO_UNWIND_STATE, PANIC_CAUGHT>>
resumeVars == <<RESUME_WRAP_COUNT, padsDue>>
taskVars == <<task, started, made, result>>
build == <<image, eh_frame>>
vars == <<build, heapVars, mode, taskVars, frames, stateVars, resumeVars>>

Heap == INSTANCE BumpAllocator WITH
          Callers <- {Core}, Layouts <- {BoxLayout, ExceptionLayout},
          pc <- allocPc

-----------------------------------------------------------------------------
(* Programs.  "own" makes a resource (Resource, DropMarker, DropTest),     *)
(* "box" allocates one, "mark" stores 1 in the state word.                 *)
Instructions == {"own", "box", "mark", "call", "panic"}

level_a == <<"own", "own", "call">>
level_b == <<"own", "call">>
level_c == <<"own", "panic">>
run_demo == <<"mark", "own", "box", "panic">>
simple_main == <<"mark", "own", "panic">>

Programs ==
  CASE image = "task_run" -> {<<level_a, level_b, level_c>>} \cup Tasks
    [] image = "with_unwinding" -> {<<run_demo>>}
    [] image = "simple" -> {<<simple_main>>}

(* How often main starts one. *)
Runs == IF image = "task_run" THEN TaskRuns ELSE 1

Frame(f) == [fn |-> f, ip |-> 1, owned |-> <<>>]

Top == frames[1]
Body == task[Top.fn]
AtEnd == Top.ip > Len(Body)
At(instr) == mode = "run" /\ ~AtEnd /\ Body[Top.ip] = instr

SetTop(frame) == frames' = [frames EXCEPT ![1] = frame]
Step(frame) == [frame EXCEPT !.ip = @ + 1]

(* The resources not dropped yet. *)
Owned(frame) == {frame.owned[i].id : i \in DOMAIN frame.owned}
Live == UNION {Owned(frames[i]) : i \in DOMAIN frames}

Init ==
  /\ image \in {"task_run", "with_unwinding", "simple"}
  /\ eh_frame \in BOOLEAN
  /\ Heap!Init
  /\ req = [c \in {Core} |-> BoxLayout]
  /\ mode = "main"
  /\ task = <<>> /\ started = 0 /\ frames = <<>> /\ made = 0
  /\ result = "none"
  /\ DEMO_UNWIND_STATE = 0 /\ PANIC_CAUGHT = FALSE
  /\ RESUME_WRAP_COUNT = 0 /\ padsDue = 0

-----------------------------------------------------------------------------
(* Running a program. *)

(* main calls task_run, or catch_unwind(run_demo), or goes on by itself. *)
StartTask ==
  /\ mode = "main" /\ started < Runs
  /\ \E p \in Programs : task' = p
  /\ started' = started + 1
  /\ frames' = <<Frame(1)>>
  /\ mode' = "run"
  /\ UNCHANGED <<build, heapVars, made, result, stateVars, resumeVars>>

(* A resource comes into being in the innermost frame. *)
Keep(kind) ==
  /\ made' = made + 1
  /\ SetTop([Step(Top) EXCEPT !.owned = <<[kind |-> kind, id |-> made']>> \o @])

Own ==
  /\ At("own")
  /\ Keep("own")
  /\ UNCHANGED <<build, heapVars, mode, task, started, result, stateVars, resumeVars>>

(* Box::new calls the allocator. *)
Allocate(layout) == Heap!AllocCall(Core) /\ req'[Core] = layout

BoxNew ==
  /\ At("box")
  /\ Allocate(BoxLayout)
  /\ mode' = "box"
  /\ UNCHANGED <<build, taskVars, frames, stateVars, resumeVars>>

BoxReturned ==
  /\ mode = "box"
  /\ Heap!AllocTake(Core)
  /\ Keep("box")
  /\ mode' = "run"
  /\ UNCHANGED <<build, task, started, result, stateVars, resumeVars>>

(* The alloc error handler, from Box::new or from begin_panic. *)
OutOfMemory ==
  /\ mode \in {"box", "raise"}
  /\ Heap!AllocFail(Core)
  /\ mode' = "oom"
  /\ UNCHANGED <<build, taskVars, frames, stateVars, resumeVars>>

Mark ==
  /\ At("mark")
  /\ DEMO_UNWIND_STATE' = 1
  /\ SetTop(Step(Top))
  /\ UNCHANGED <<build, heapVars, mode, taskVars, PANIC_CAUGHT, resumeVars>>

Call ==
  /\ At("call")
  /\ frames' = <<Frame(Top.fn + 1), Step(Top)>> \o Tail(frames)
  /\ UNCHANGED <<build, heapVars, mode, taskVars, stateVars, resumeVars>>

(* A mutant. *)
DropOldest ==                 \* in the order of declaration
  /\ Top.owned # <<>>
  /\ SetTop([Top EXCEPT !.owned = SubSeq(@, 1, Len(@) - 1)])
  /\ UNCHANGED DEMO_UNWIND_STATE

(* Drop of the newest resource of the innermost frame.  A box gives its    *)
(* memory to dealloc, which does nothing.                                  *)
DropNewest ==
  /\ Top.owned # <<>>
  /\ SetTop([Top EXCEPT !.owned = Tail(@)])
  /\ DEMO_UNWIND_STATE' = IF image # "task_run" /\ Head(Top.owned).kind = "own"
                            THEN 2 ELSE DEMO_UNWIND_STATE

(* The end of a body: its resources are dropped, then it returns. *)
ScopeEnd ==
  /\ mode = "run" /\ AtEnd
  /\ DropNewest
  /\ UNCHANGED <<build, heapVars, mode, taskVars, PANIC_CAUGHT, resumeVars>>

Return ==
  /\ mode = "run" /\ AtEnd /\ Top.owned = <<>>
  /\ frames' = Tail(frames)
  /\ IF frames' = <<>> THEN mode' = "returned" /\ result' = "Ok"
                        ELSE UNCHANGED <<mode, result>>
  /\ UNCHANGED <<build, heapVars, task, started, made, stateVars, resumeVars>>

-----------------------------------------------------------------------------
(* Mutants. *)

NoLandingPadRetries ==        \* begin_panic is called in a loop
  /\ mode = "search" /\ ~eh_frame
  /\ UNCHANGED vars

PadDropResumes ==             \* a landing pad for each resource, not each frame
  /\ mode = "pad"
  /\ DropNewest
  /\ RESUME_WRAP_COUNT' = RESUME_WRAP_COUNT + 1
  /\ UNCHANGED <<build, heapVars, mode, taskVars, PANIC_CAUGHT, padsDue>>

InspectCatchNoFlag ==         \* PANIC_CAUGHT is not set
  /\ image = "with_unwinding" /\ mode = "returned"
  /\ DEMO_UNWIND_STATE' = IF result = "Err" THEN 3 ELSE DEMO_UNWIND_STATE
  /\ mode' = "caught"
  /\ UNCHANGED <<build, heapVars, taskVars, frames, PANIC_CAUGHT, resumeVars>>

-----------------------------------------------------------------------------
(* Panic. *)

(* panic_handler of main_simple.rs *)
PanicStops ==
  /\ image = "simple" /\ At("panic")
  /\ DEMO_UNWIND_STATE' = 100
  /\ mode' = "spin"
  /\ UNCHANGED <<build, heapVars, taskVars, frames, PANIC_CAUGHT, resumeVars>>

(* panic_handler, start_unwind_entry and begin_panic (my_panic and         *)
(* __my_unwind_start), to the allocation of the exception object.          *)
Panic ==
  /\ image # "simple" /\ At("panic")
  /\ Allocate(ExceptionLayout)
  /\ mode' = "raise"
  /\ padsDue' = RESUME_WRAP_COUNT + Cardinality({i \in DOMAIN frames : frames[i].owned # <<>>})
  /\ UNCHANGED <<build, taskVars, frames, stateVars, RESUME_WRAP_COUNT>>

Raise ==
  /\ mode = "raise"
  /\ Heap!AllocTake(Core)
  /\ mode' = "search"
  /\ UNCHANGED <<build, taskVars, frames, stateVars, resumeVars>>

(* The search reaches the frame of catch_unwind. *)
SearchFinds ==
  /\ mode = "search" /\ eh_frame
  /\ mode' = "unwind"
  /\ UNCHANGED <<build, heapVars, taskVars, frames, stateVars, resumeVars>>

(* Without unwind tables begin_panic returns END_OF_STACK (5), and the     *)
(* rest of start_unwind_entry or __my_unwind_start runs.                   *)
NoLandingPad ==
  /\ mode = "search" /\ ~eh_frame
  /\ mode' = "spin"
  /\ DEMO_UNWIND_STATE' = IF image = "with_unwinding" THEN 100 + 5 ELSE DEMO_UNWIND_STATE
  /\ UNCHANGED <<build, heapVars, taskVars, frames, PANIC_CAUGHT, resumeVars>>

(* A frame with nothing to drop is passed over, any other is entered at    *)
(* its landing pad.                                                        *)
PassFrame ==
  /\ mode = "unwind" /\ frames # <<>> /\ Top.owned = <<>>
  /\ frames' = Tail(frames)
  /\ UNCHANGED <<build, heapVars, mode, taskVars, stateVars, resumeVars>>

EnterPad ==
  /\ mode = "unwind" /\ frames # <<>> /\ Top.owned # <<>>
  /\ mode' = "pad"
  /\ UNCHANGED <<build, heapVars, taskVars, frames, stateVars, resumeVars>>

PadDrop ==
  /\ mode = "pad"
  /\ DropNewest
  /\ UNCHANGED <<build, heapVars, mode, taskVars, PANIC_CAUGHT, resumeVars>>

(* The pad ends in _Unwind_Resume, which main.rs wraps to count it. *)
Resume ==
  /\ mode = "pad" /\ Top.owned = <<>>
  /\ RESUME_WRAP_COUNT' = RESUME_WRAP_COUNT + IF image = "task_run" THEN 1 ELSE 0
  /\ frames' = Tail(frames)
  /\ mode' = "unwind"
  /\ UNCHANGED <<build, heapVars, taskVars, stateVars, padsDue>>

(* catch_unwind returns Err. *)
Land ==
  /\ mode = "unwind" /\ frames = <<>>
  /\ result' = "Err"
  /\ mode' = "returned"
  /\ UNCHANGED <<build, heapVars, task, started, frames, made, stateVars, resumeVars>>

-----------------------------------------------------------------------------
(* After the task. *)

(* task_run reports and returns to main. *)
TaskRunReturns ==
  /\ image = "task_run" /\ mode = "returned"
  /\ mode' = "main"
  /\ task' = <<>> /\ result' = "none"
  /\ UNCHANGED <<build, heapVars, started, frames, made, stateVars, resumeVars>>

(* is_err_and_mark *)
InspectCatch ==
  /\ image = "with_unwinding" /\ mode = "returned"
  /\ IF result = "Err" THEN PANIC_CAUGHT' = TRUE /\ DEMO_UNWIND_STATE' = 3
                       ELSE UNCHANGED stateVars
  /\ mode' = "caught"
  /\ UNCHANGED <<build, heapVars, taskVars, frames, resumeVars>>

Conclude ==
  /\ mode = "caught"
  /\ DEMO_UNWIND_STATE' = IF result = "Err" /\ PANIC_CAUGHT THEN 4 ELSE 200
  /\ mode' = "spin"
  /\ UNCHANGED <<build, heapVars, taskVars, frames, PANIC_CAUGHT, resumeVars>>

(* main's last loop *)
MainDone ==
  /\ mode = "main" /\ started = Runs
  /\ mode' = "spin"
  /\ UNCHANGED <<build, heapVars, taskVars, frames, stateVars, resumeVars>>

Spinning == mode \in {"spin", "oom"} /\ UNCHANGED vars

Running == Own \/ BoxNew \/ BoxReturned \/ Mark \/ Call \/ ScopeEnd \/ Return

Unwinding == \/ Panic \/ Raise \/ SearchFinds \/ PassFrame \/ EnterPad
             \/ PadDrop \/ Resume \/ Land

Stopping == PanicStops \/ OutOfMemory \/ NoLandingPad \/ MainDone

CoreStep == StartTask \/ Running \/ Unwinding \/ Stopping
              \/ TaskRunReturns \/ InspectCatch \/ Conclude

Next == CoreStep \/ Spinning

Spec == Init /\ [][Next]_vars

(* The core executes instructions. *)
FairSpec == Spec /\ WF_vars(CoreStep)

-----------------------------------------------------------------------------
(* task_run, with everything below it, is a task runner: drops happen one  *)
(* by one, newest first across all frames ("Drop 顺序为 C、B、A"), each      *)
(* once, and main goes on only when "all resources in task have been       *)
(* dropped", whether the task returned or panicked, and wherever it did.   *)
Runner == INSTANCE TaskRunner WITH
            phase <- CASE mode = "main" -> "between"
                       [] mode \in {"spin", "oom"} -> "stopped"
                       [] OTHER -> "running",
            live <- Live

ImplementsTaskRunner == Runner!Spec

(* How the core stopped can be told from outside.  It is in the alloc      *)
(* error handler only if memory really ran out, also when begin_panic was  *)
(* the one that asked.  It reaches main's last loop only after every task, *)
(* with nothing held, unless the image has no unwind tables.  Read by a    *)
(* debugger, 4 means caught and dropped, 105 means that the tables are     *)
(* missing and the marker is still held, and 100 that main_simple.rs       *)
(* panics without any drop.                                                *)
EndingIsTold ==
  /\ mode = "oom" => ~Heap!Fits(next, req[Core])
  /\ mode = "spin" =>
       CASE image = "task_run" -> ~eh_frame \/ (started = TaskRuns /\ Live = {})
         [] image = "with_unwinding" ->
              IF eh_frame THEN DEMO_UNWIND_STATE = 4 /\ Live = {}
                          ELSE DEMO_UNWIND_STATE = 105 /\ Live # {}
         [] image = "simple" -> DEMO_UNWIND_STATE = 100 /\ Live # {}

(* The hook's count, when task_run prints it, is one for each frame that   *)
(* had something to drop when the task panicked, added to the count of the *)
(* tasks before: no frame is resumed twice or skipped.                     *)
ResumedOncePerFrame ==
  image = "task_run" /\ mode = "returned" /\ result = "Err" =>
    RESUME_WRAP_COUNT = padsDue

(* The core always comes to rest in one of the loops meant for it: no      *)
(* panic, at any depth, leaves it unwinding for ever.                      *)
CoreComesToRest == <>(mode \in {"spin", "oom"})

=============================================================================

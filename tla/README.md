# rustj in TLA+

rustj is a Java virtual machine written in Rust: it parses class files, loads
classes from a class path (jmod archives, directories), interprets bytecode and
implements the native methods of the JDK's own class library, which it runs
unmodified. A `Vm` is shared by all threads (`Arc<Vm>`); every Java thread is an
OS thread with a `VmThread` of its own. There is no global lock: the heap, the
class registry, the interning tables, the monitors, the table of threads and
every class's initialization slot have each a mutex of their own, held only for
the length of one access. Half of what is hard about this program is what happens
*between* those accesses; the other half is that it has to do, case by case, what
the specifications of the Java language, its class files and its archives say.
The modules here are about both.

This directory holds TLA+ modules translated from the source, TLC
configurations that check them on small instances, and theorems TLAPS has
proved for all values of the constants.

## The parts of the system

Paths are relative to `src/src/`.

| part | state | operations | interacts with |
|---|---|---|---|
| object monitors (`runtime/vm/monitors.rs`, `threads.rs`) | per object: `inner` mutex over owner, count, waiters, wake_seq; condvars `entry`, `wait_cvar`; `wait_targets`, `interrupt_flags` | monitorenter, monitorexit, wait, notify, notifyAll, holdsLock, interrupt0 | every thread; join; interrupt |
| class initialization (`runtime/interpreter/clinit.rs`) | per class: `InitSlot` (state, owner) with its condvar, statics | `ensure_class_initialized` and what it runs | interpreter (new, getstatic, putstatic, invokestatic), exceptions |
| thread and VM life cycle (`runtime/vm.rs`, `runtime/vm/threads.rs`, natives of `Thread`) | phase, handles, live set, eetop and threadStatus of each Thread object | bootstrap, start0, run, uncaught exceptions, termination, join, sleep, shutdown | monitors (join waits), interning (mirrors) |
| interrupt status (`threads.rs`, natives of `Thread`) | the field `Thread.interrupted` and its mirror | interrupt, interrupted, sleep, wait | monitors, sleep |
| interning tables (`string.rs`, `string_pool.rs`, `mirrors.rs`, `heap.rs`) | string pool, Class and Module mirrors, unnamed module, system thread group, run-time defined classes; the heap | `intern`, `intern_class_mirror`, `intern_named_module`, `define_class` | natives, `ldc`, reflection |
| class loading (`class_loader/loader.rs`, `class_path.rs`, `oops/klass.rs`) | the registry's map from name to class | `load`, `load_or_replace`, `load_closure` | parser, archives; runs before the VM exists |
| class hierarchy, type checks, fields (`oops/klass.rs`, `interpreter/type_check.rs`, `interpreter/field.rs`) | the two tables of classes (setup and run time), superclass and interface links, cached field layout, instances and statics | `define_class`, virtual, interface and default method look-up, subtyping, get and put of fields | invocation, `checkcast`, `Unsafe` |
| method invocation, lambdas, method handles (`interpreter/invoke.rs`, `oops/lambda.rs`) | lambda and handle objects on the heap | the five invoke instructions, application of a lambda, interpretation of a LambdaForm, natives | class hierarchy, call stack |
| call stack and exceptions (`interpreter/mod.rs`, `invoke.rs`, `exception.rs`, `vm/exceptions.rs`) | activations, `call_stack`, `frame_depth`, the exception on its way out | call, return, throw, handler search, wrapping, stack traces | everything |
| interpreter loop, operand stack, local variables (`interpreter/mod.rs`, `runtime/operand_stack.rs`, `local_vars.rs`, `bytecode/opcode.rs`) | one frame's slots, its pc | every instruction | all of the above |
| arrays and `Unsafe` (`interpreter/array.rs`, `arraycopy.rs`, `native/jdk_internal.rs`) | heap objects, the counter of thread ids | load, store, allocation, `System.arraycopy`, get, put, compare-and-set | heap, type checks |
| class files (`classfile/`, `constant_pool/`, `metadata/`, `class_loader/zip.rs`, `inflate.rs`) | immutable once built | parsing, decoding, unpacking | loading |
| launch (`interpreter/launch.rs`) | system properties, module layer | phases 1 to 3 of the boot sequence | class loading, threads |
| file, console and OS natives; class-file dumper; test kit | the operating system's | I/O | - |

What is hard, and where (`PROJECT.json` lists every hazard at its line):

* **Interleavings of lock regions.** Monitors signal condition variables with or
  without their mutex; `interrupt0` signals without ever taking it; the state of
  an `InitSlot` is read, the lock dropped, and the class initialized without it;
  every interning table is looked up and inserted into in two critical sections.
* **Order of publication.** A thread is marked alive before it is spawned, its
  handle is recorded after; a mirror is inserted before it is filled; a dying
  thread must set its status before it notifies its joiners.
* **Partial failure.** An exception or a panic in the middle of a chain of nested
  class initializations, of a walk over a closure of classes, of a thread's body.
* **Lost wakeups and stolen notifications**, spurious wakeups, timeouts against
  notifications, interrupts against both.
* **Bookkeeping on every way out.** Calls end by a value, an exception, an error
  of the interpreter; `call_stack` and `frame_depth` are kept by different callers
  around the same function, and half of the kinds of call keep only one of them.
* **Stale state.** The layout of a class is cached when it is first used, whatever
  is defined later; an array element is checked and stored, a field compared and
  set, in two critical sections.
* **Numeric edges.** Division of the least integer, NaN, shifts, narrowing; the
  padding of a switch; offsets inside an element; ranges that overlap; the two
  indices of a long in the constant pool; copies longer than their distance.
* **Case analysis.** Which method an invoke instruction runs depends on a whole
  hierarchy; how a lambda applies its function depends on six kinds of reference.

What makes each part correct: monitors are exclusive, `wait` gives the monitor
back at the depth it gave up, no entrant sleeps beside a free monitor, no
notification is wasted; one thread initializes a class and no other sees it
half-done, superclasses first, and everybody who waits gets an answer; `join`
returns after the end of the thread and not before, shutdown joins whoever was
started; the two copies of the interrupt status agree; a key has one object;
after `load_closure` returns Ok everything reachable is loaded; call stack and
depth follow the activations, an exception lands in the handler Java prescribes
and its trace names the callers that are there; an instruction leaves the frame
the specification says; a call runs the method Java selects, a field keeps what
was put into it, an array holds nothing but its components; what was packed into
a class file and an archive is what is loaded, and damage is an error.

## Modules

Components come first, the `MC_` modules give their constants values for TLC.
A definition directly above another one whose name it resembles
(`ExitWithoutSignal` above `ExitSignal`) is a faulty variant: `PROJECT.json`
names under "mutants", for every property of every passing run, a variant with
which TLC finds that property violated.

### JavaMonitorSpec, Monitor

`JavaMonitorSpec` is what Java promises: each thread holds each monitor some
number of times, enters only when nobody else holds it, rests (`wait`) giving up
all its levels and resumes with exactly those.

`Monitor` is the code. `MonitorInner`'s fields are functions over `Objects`
(`owner`, `count`, `waiters`, `wakeSeq`); `inner` is the mutex where a thread
holds it across two steps; `pc` and the locals say where in its call a thread
is. One action is what happens while `inner` is held, or one call on a condition
variable, the flag or the table of wait targets:

| action | code |
|---|---|
| `AcquireOrReenter`, `BlockOnEntry` | `monitor_enter` and its loop on `entry` |
| `MonitorExit`, `ExitSignal` | `monitor_exit`; the signal comes after `inner` was dropped |
| `ObjectWait`, `WaitByOther`, `WaitRelease`, `WaitPredicateTrue`, `WaitPark`, `WaitPredicateFalse`, `BlockOnReacquire`, `WaitReturn`, `Expire` | `object_wait`: test of the interrupt status, ownership test, release, `wait_while` with its predicate and its blocking as two steps, re-acquisition, outcome |
| `Notify`, `SignalOne`, `SignalAll` | `object_notify_common` |
| `Interrupt`, `ReadWaitTarget`, `InterruptSignal` | `interrupt_thread` |
| `SpuriousWakeup` | what `std::sync::Condvar` may do |

The split of `wait_while` into predicate and blocking matters: `Condvar::wait`
drops the mutex and blocks at once, but the predicate was evaluated before that,
and a `notify_all` without the mutex falls in between. `JavaHeld` and
`JavaResting` are the refinement mapping to `JavaMonitorSpec`.

`Threads` and `None` are common to this module and the two about the same threads
below (`JavaThreads`), so that `MonitorProofs`, which holds the theorems of all three,
can speak of them together.

### ClassInit

`ensure_class_initialized` for several threads, each with a stack of
activations: test under the lock (`FindDone`, `FindFailed`, `Reenter`,
`WaitForOther`, `Win`), body without it (`InitSuper`, `SuperReturns`,
`ApplyConstantValues`, `ClinitUses`, `UseReturns`, `ClinitThrows`,
`ClinitCompletes`, `ClinitPanics`), and publication (`Publish`, `NotifyWaiters`,
with the wrapping into `ExceptionInInitializerError`, and `InitPanicGuard`
unwinding nested activations). The bytecode of `<clinit>` is abstracted to the
sequence of classes it uses and to whether it may throw or panic.
`ClassInitProofs` holds the theorems.

### ThreadLifecycle

`start_thread` as the parent's steps (`MarkAlive`, `MarkRunnable`, `Register`,
`Spawn`, `InsertHandle`, `StartReturns`), the child's body and its end
(`RunReturns`, `RunThrows`, `DispatchUncaught`, the four steps of
`terminate_thread` under the monitor of the Thread object, `Unregister`),
`join` (bytecode of the JDK, external), `sleepNanos0`, `bootstrap` and
`shutdown`. The monitor of a Thread object is a lock with a wait set here; that
the VM's monitors behave so is what `Monitor` shows. The theorems are in
`MonitorProofs`; `Threads.cfg` instantiates the module directly.

### InterruptStatus

The field and its mirror, with everyone who writes them, in the order they do.
The theorem is in `MonitorProofs`; `Interrupt.cfg` instantiates the module directly.

### Interning

One protocol for all the tables: look up under the lock, build outside it,
insert under it and replace what came in between; mirrors are filled after
they have been inserted, by nested calls to the same functions. `Parts[k]` are
the keys needed to fill the object of `k`. `InterningProofs` holds the theorems.

### Arithmetic, Opcodes, Frames, Bytecode; JavaFrame, Activation

`Bytecode` is `run` and `dispatch` (`interpreter/mod.rs`): one action per group of
instructions that share an arm, on a frame from `Frames` (slots, where a long or a
double takes two) with the operators of `Arithmetic`; `Opcodes` is the table of
operand layouts from which the length of an instruction follows. `JavaFrame` is
the Java Virtual Machine Specification: a stack of whole values, an instruction
with its operand types. `Activation` runs the two on the same verified
instruction, in lock-step. Integers are narrow (`IntBits`, `LongBits`), floats are
small whole numbers with both infinities, NaN and rounding to a bound
(`FloatTop`): width is what the properties depend on, not its size. `Refused`
marks the instructions and constants rustj has no arm for, which end an
activation with an error. `ActivationLemmas` and `ActivationProofs` hold the theorems.

### ClassRegistry, Fields, Invocation, MethodHandles; JavaClasses, Objects

`ClassRegistry` is `oops/klass.rs`: look-up in the tables of setup and of run time,
`define_class` in its two critical sections, `FlattenedInstanceFields` (the layout,
in order, superclasses first) and its cache, `ResolveDispatch`, `ResolveDefault`
and the look-up of statics. `Fields` (with the type checks), `Invocation` and
`MethodHandles` add the instructions; an instruction answers with `answer`: a
value, an exception, or the method it would run, on which receiver, with which
arguments, having initialized which class. What happens then is in `CallStack`.

`JavaClasses` states resolution, selection and subtyping as the specification does
(by sets: maximally specific methods, the transitive closure of subtyping).
`Objects` puts each instruction beside it, with a memory of fields
kept by (declaring class, name, type) instead of slots. Where the code differs from
Java, the difference has a *name* and the exact condition under which it shows;
`AnswersAreJavas` says that without such a reason the answer is Java's and, but for
the reasons that depend on the values (`MayDiffer`), that with one it is not. A
deviation is therefore neither hidden nor wider than named. They are listed below.

### Arrays, Unsafe; HeapAccess

`Arrays` is `array.rs` and `arraycopy.rs`, `Unsafe` the accesses of
`native/jdk_internal.rs`. `System.arraycopy` is one step per read and one per
write of an element, a compare-and-set of a field or an element is two steps, for
that is where the lock of the heap is given up; the counter of thread ids is an
atomic of Rust and one step. `HeapAccess` sets several threads to work and keeps
beside each step Java's memory, in bytes (`Cells`), so that an access of any width
at any offset has a meaning. Deviations are named as in `Objects`.
`ProgramsAssumption` says what the programs are: class files without cycles, a heap
of objects of those classes, and requests as verified bytecode and the class library
make them (TLC evaluates it for the programs of `MC_HeapAccess`).

### ByteReader, ClassFileParser, ZipReader, ClassPath; ClassFileFormat

The decoders, from bytes: `ByteReader` is the cursor and modified UTF-8,
`ClassFileParser` the constant pool, members, attributes and descriptors,
`ZipReader` the DEFLATE decoder and the central directory, `ClassPath` a path
of containers, the modules they describe and the names a class file refers to. A result that may fail is a sequence,
empty if it fails (`Fails`, in `ByteReader`), so that `?` is composition. `ClassFileFormat` is written from the
formats' own specifications and goes the other way: it *writes* class
files, archives and compressed blocks (stored, fixed and dynamic codes) from a
description. It shares no definition with the decoders, so that reading back what
it wrote is a check of them.

### ClosureLoader

`load_closure` as its queue, its `seen` set and the registry. What the readers make of
a class path (`Open`, `ClassIn`, `NamesIn`, ...) are parameters: `MC_ClosureLoader` describes
class paths, has them written as bytes and puts the decoders above in their place, while the theorems
take of them only that reading gives what was packed (`ReadsWhatWasPacked`, which
`LoadsWhatWasPacked` checks for every path opened before the first call). It is called several times for several
roots, also after a call that failed, with synthetic stubs, classes missing from
the class path, damaged ones and classes the program supplied before.

### JavaUnwinding, CallStack

`JavaUnwinding` is what Java promises of one thread's activations: calls, returns,
and an exception that in one step lands in the innermost activation with a
handler for the class it has by the time it gets there (class initializers and
reflection change it on the way), or ends them all.

`CallStack` is the code. In `frames` stands every live call of `interpret_with`
or `native::invoke`, with the kind of caller that made it; the two structures the
VM keeps beside it, `callStack` and `depth`, are updated by that caller, and which
of the two depends on the kind:

| kind | action | on `call_stack` | counted in `frame_depth` |
|---|---|---|---|
| entry | `Enter` | no | no |
| method | `Invoke`, `OverflowInvoke` | yes | yes |
| clinit | `RunClinit`, `OverflowClinit` | yes | yes |
| native | `InvokeNative` | yes | no |
| reflected | `InvokeReflected` | no | no |
| handle | `InvokeHandle` | no | no |

`Execute` is one turn of the interpreter's loop: the topmost activation may go to
any pc, for what instructions compute is left out. An exception is taken to be
created where it is thrown (`Throw`); `Rethrow` throws the one a handler caught,
of which the last (`held`) is remembered. `Catch` and `End` are the way out, one
activation at a time: search of its table, or its end with the pops and the
wrapping its caller does. `JavaStack` is the refinement mapping: while an
exception is on its way out, the activations are those it will land on.

`CallStackProofs` holds the theorems.

## Runs

| run | instance | shows |
|---|---|---|
| `MonitorSafety` | 3 threads, 1 monitor, 3 calls or spurious wakeups each | `NoLostEntryWakeup`, `WaitersCounted`, `SignalReachesAWaiter`, refinement of `JavaMonitorSpec` |
| `MonitorLiveness` | a waiter, a timed waiter, a notifier | `EntrantsGetIn`, `TimedWaitReturns`, `NotifyAllReleasesAll`, `NotifyReleasesOne` |
| `MonitorLostInterrupt` | 2 threads | violated: an interrupt between predicate and blocking is lost |
| `ClassInit` | 2 threads, a class, its superclass and a class that uses; exceptions, panics | one initializer, nobody sees half-done classes, superclasses first, finality, every use returns |
| `Threads` | main and 2 children, one of whom sleeps and may panic | bookkeeping before execution, no handle lost, join after the end and, panics apart, not later |
| `Interrupt` | 3 threads, one left alone by the others | field and mirror of that one agree between calls; a sleeper whose mirror is set wakes |
| `Interning` | 2 threads, array class, component, module, name | entries belong to their key; a key not raced for has one object, complete and found by reference; a key no call is under way for is settled |
| `Calls` | 2 methods, 2 pcs, limit 2, 3 activations | depth and call stack follow the activations, traces have the callers, exceptions land where Java says |
| `Bytecode` | one activation, methods of one or two kinds of value, any verified instructions in any order | `FrameIsJavas`: stack, locals and outcome are the specification's; `StaysOnInstructions`: so is the pc, at every alignment of a switch |
| `Objects` | families of small hierarchies (every arrangement of a method in two classes and two interfaces that a compiler accepts), two definers at run time | `AnswersAreJavas` for fields, checks, calls, lambdas and handles; `ObjectsKeepTheirFields` |
| `HeapAccess` | programs of one and of two threads on a few arrays and objects | `StepsAreJavas` for arrays, copies and Unsafe; `ArraysHoldTheirComponents` while copies race with stores |
| `ClosureLoad` | class paths as bytes: cycles, stubs, missing and damaged classes; one path for every packing and every cut | closures complete, nothing forgotten, the loop ends, what is loaded is what was packed, damage and only damage is refused |

The violated property is what a comment of the code says; the finding in
`PROJECT.json` quotes both sides.

**Bounds.** `Budget`, `MaxCalls` and the like limit how many calls a thread or a
program starts; no action that continues a call is bounded, so every call that
starts can end. Two threads suffice where the code tests and acts in two critical
sections (one to race, one to be raced). Monitors need three, so that a signal
can choose the wrong waiter, and a budget of three calls is what it takes to
enter, wait and have a third party interfere. One monitor is enough for the run
because no two monitors share state but the flags and wait targets of threads;
waiting on one monitor while holding another is covered by the theorem
`MonitorImplementsJava`, for any number of them. In `ClassInit` three classes
give a superclass, a use and a chain; a class initializer that uses its own class
is there, cycles through two classes are not (see below). In `Interning` the four
keys of a mirror's filling (array class, component, module, name) are all the
nesting the code has. In `Calls`, three activations are a caller, something that
converts an exception or keeps no entry, and something on top of it; `StackLimit`
is 2, so the limit is met with room to spare for uncounted activations. In
`Bytecode` an int has 3 bits, a long 4, a byte 1 and a short 2, a float reaches to 2
and a double to 3: enough for a least integer without an opposite, for shifts beyond
the width, for narrowing to lose something and for conversions to differ from
each other; the frame holds up to 6 slots, the most `dup2_x2` moves, and 3 locals. A
method either computes, with every value of its kinds, or only moves values, with
two of each, and a deeper stack: between them the methods use each pair of numeric
kinds, and references beside kinds of either size.
In `HeapAccess` a byte has 2 bits (`ByteBits`), widths are 1, 2, 4 and 8 bytes as in
Java; arrays have up to three elements and a program a budget of requests for each
thread, two threads being what it takes to race a check or a swap. In `ClosureLoad`
names are one character, stand-ins for `.class` and the attribute names too
(constants of the modules); blocks go beyond 258 bytes where a length or a distance
needs it, and every archive of one path is cut at every place. In `Objects` a family
has as many classes as its question needs: a class, its subclass and two interfaces,
one of which may extend the other, meet every clause of selection. Class
initializers without an activation below them are those the boot code runs. Runs
with bounded budgets stop when the budgets are spent, so their configurations
switch the deadlock check off; where a thread could be stuck for ever a liveness
property says so instead. `Calls` never stops and keeps the check.

**Fairness.** Weak fairness on the steps that *continue* a call: the operating
system runs every thread that can run. Calls themselves are never forced, with
one exception: a thread that holds a monitor eventually leaves it (`MonitorExit`
in `Monitor`), since javac puts a monitorexit on every way out of a block. No
strong fairness: condition variables and mutexes promise none. The loop of
`load_closure` is sequential code that nothing blocks, so that while a call runs
some step is taken (`Progress`). Wakeups by a
timeout are fair (`Expire`), spurious wakeups are not. `CallStack` has none: a
Java program need not end.

**What the models say besides.** These came up while modelling and have no run of
their own. Most contradict no document of the repository; where one contradicts a
comment, its item names the line. Where a property leaves such a case out, the note of
its hazard in `PROJECT.json` says so.

* One `notify` may let two waiters return: `wake_seq` is common to all waiters of
  an object, so one that wakes spuriously takes the notification of the one
  chosen for its own. Java allows it, since `wait` may return spuriously.
* Two threads that use for the first time classes whose initializers use each
  other wait for each other for ever, as JLS 12.4.2 allows: `EveryUseReturns`
  is claimed of acyclic uses only.
* `shutdown` does not join a thread that is between its spawn and the insertion
  of its handle.
* Two threads that intern a key at once are given two objects; the one that the
  second insert replaced is no longer known to `mirror_internal_name`. A mirror
  can be found before it is filled.
* Field and mirror of the interrupt status can part for good when a thread clears
  its status while another sets it.
* A class initializer that ends in an `Error`, a `StackOverflowError` included,
  passes on an `ExceptionInInitializerError`; JVMS 5.5 wraps only what is no
  `Error`. `JavaUnwinding` has the classes of the code here.
* An activation without an entry on `call_stack` (reflection, method handles)
  writes its pc to the entry of its caller, whose line in a trace is then wrong:
  `TraceHasTheCallers` leaves the topmost entry's pc out.
* No path of invocation looks at `ACC_SYNCHRONIZED`; a comment of
  `interpreter/mod.rs` (1325) has synchronized methods served.
* A panic in `Thread.sleepNanos0` (`java_lang.rs:604`: a subtraction of Durations
  after a second reading of the clock) skips `terminate_thread`, whatever the
  comment at `threads.rs:310` says of waking joiners: they wait for ever, and
  `JoinersReturnUnlessPanic` leaves such threads out.
* After a `load_closure` that failed, the next one skips what the failed one had
  loaded and may return Ok with part of the closure missing (`loader.rs:86`,
  against the doc at line 51); `ClosuresComplete` and `NothingForgotten` speak of
  the time before a failure.
* Activations made for a method handle or by reflection are not counted in
  `frame_depth` (`invoke.rs:603`, against `vm.rs:86`): recursion through them ends in
  an overflow of the native stack.
* The header of `interpreter/array.rs` (line 5) says that stores are not checked
  (no `ArrayStoreException`); `aastore` does check them (319-322), and so does the model.
* `define_class` (`klass.rs:270`): of two threads that define a class the last
  insert wins, and a layout computed before stays in the cache.

The named deviations of `Objects`; those with a star only may
make the answer differ:

| reason | what the code does |
|---|---|
| `hiddenFieldSharesSlot`*, `hiddenNameSharesSlot`* | a field that hides one of the same name and type (for handles and Unsafe: of the same name) is looked up by name, first match |
| `definedOutOfOrder`* | a class defined twice, or before its superclass, keeps the layout first computed |
| `inheritedStaticInitializesHeir` | a static field or method is looked up from the class of the reference, and it is that class that is initialized |
| `staticOfInterface` | the static fields of superinterfaces are not searched |
| `arraysOfArrayInterfaces` | arrays of arrays are no instances of arrays of `Cloneable` or `Serializable` |
| `specialCallOnNull` | `invokespecial` does not test its receiver |
| `superCallOfDefault`, `superCallOfAbstract`, `specialHandleSearchesDefaults` | `super.m()` searches superclasses only and does not look at what is abstract; a handle of it does search default methods |
| `privateMethod` | a private method takes part in virtual dispatch |
| `severalDefaults`* | of several default methods the first found is run, without an error |
| `methodOfArray`, `handleOnArray`, `methodReferenceOnArray` | arrays have a few methods of `Object` only |
| `anyMethodIsTheFunction` | every call on a lambda object applies it, `toString` too |
| `boxesNoArgument`, `unboxesNoResult`, `convertsNothingForConstructor` | a lambda unboxes arguments and boxes results, and nothing else |
| `methodReferenceOnNull` | the receiver of a method reference is not tested |
| `inheritedImplementation`, `inheritedNative` | the implementation of a lambda is looked up in the class named; a native under the class of the receiver |
| `constructorWithoutThis` | a handle of a constructor passes its arguments as to a static method, without the new object |

And those of `HeapAccess`: `elementOfOtherKind` (a load or store does not look at the
type of the array), `booleanKeepsItsBits` (a boolean element keeps more than its
lowest bit), `accessOfOtherWidth`*, `misalignedReachesElement`*,
`arrayOfOtherKinds`* (Unsafe reads and writes whole slots, whatever width was asked
for and whatever kind of slot is there), `hiddenNameSharesSlot`*,
`onlyReferencesAreStatic`* (an access to a static that is not of references reaches
no static), `fieldsAreInts` (a field is read or written as an int),
`swapRaced` (a compare-and-set of a field or an element is two steps: another
thread's write between them is lost. The comments at `jdk_internal.rs:109` and 122
have the VM run a single thread, for which two steps are as good as one).
With `arrayOfOtherKinds`, an int in an array of eight-byte elements yields its four
bytes twice, or, in a build with overflow checks, the shift panics (`ElementLeBytes`,
`ShiftsTooFar`). Such a panic happens under the heap's lock and poisons it, after which
no thread does anything more (`Poisoned`).

An index that runs past 65535 makes the constant pool an error (`MostIndex`), as in the
code; no run has a pool of that length. The decoders accept bytes after the end of a class, turn lone surrogates into
U+FFFD, do not check the CRC of an entry nor, before they are used, the indices of a
class file; a module descriptor that cannot be unpacked leaves its container
unnamed without an error; of several descriptors of a module the last counts; a
class found under a name other than its own is registered under its own.

## Proofs

`MonitorProofs` proves, for any threads, objects, budget and allowed calls:

* `TypeCorrect`: `Spec => []TypeOK`. The inductive invariant is `Typed`, that is
  `TypeOK` with `LocalsSet`: a call in progress has its object (or its target)
  set. Without it, `owner[obj[t]]` could be read at `None`.
* `NoEntryWakeupIsLost`: `Spec => []NoLostEntryWakeup`. A free monitor with a
  thread blocked on `entry` has a thread at a label from which it takes the
  monitor or signals it. It is inductive together with `Typed`: a step that frees
  the monitor (`MonitorExit` at its last level, `WaitRelease`) leaves its thread
  about to signal or signals itself; a step that uses up the thread on its way
  (`ExitSignal`) wakes a blocked one, if there is one; `AcquireOrReenter` and
  `WaitReturn` make the monitor owned; and nobody blocks on a monitor that is
  free, since that is the test it blocks on.

* `SignalsAlwaysReachAWaiter`: `Spec => []SignalReachesAWaiter`. `Sequences` says
  what makes it inductive: whoever is about to signal still owns the monitor, a
  waiter's copy of `wake_seq` is at most the current one, and it is less while
  somebody is about to signal on that object. The lemma `MostStepsMoveNobody`
  shows that only `WaitRelease`, `WaitPredicateFalse` and a `Notify` that finds
  waiters touch any of that.
* `WaitersAlwaysCounted`: `Spec => []WaitersCounted`, by the same three steps: the
  set of threads that wait gains one member, loses one, or stays, and the finite-set
  theorems turn that into its cardinality.
* `MonitorImplementsJava`: `Spec => ImplementsJavaMonitor`.

The last needs `Balanced` besides `Typed`: a free monitor counts nothing, and a thread
that rests has saved a depth and does not own what it waits on. Every step is
`Quiet` (no monitor changes hands, nobody begins or ends to rest: a stutter of the
abstract machine) or `Loud`, one of `AcquireOrReenter`, `MonitorExit`,
`WaitRelease` and `WaitReturn`, and those are the four abstract actions.

These rest on `MonitorAssumption` alone: `None` is no thread and no object,
`Threads` is finite, budgets are natural numbers.

`CallStackProofs` proves, for any methods, exception tables, limit and nesting:

* `TypeCorrect`: `Spec => []TypeOK`, in particular that `frame_depth` stays
  between 0 and its limit. It is not inductive alone: nothing in the types keeps
  `End` from popping an empty call stack or from decrementing a depth of zero.
  `Consistent` is `TypeOK` with `StacksAgree`, which says how many named and how
  many counted activations there are.
* `StacksAlwaysAgree`: `Spec => []StacksAgree`, by the same invariant. The lemmas
  about `CountTo` say how the numbers of activations change when one is added or
  removed; `AgreePush`, `AgreeSame` and `AgreePop` are the three things that
  happen to the stacks.
* `TracesAlwaysHaveTheCallers`: `Spec => []TraceHasTheCallers`. The property
  speaks of the exception on its way out; `TracesKept` adds the one a handler
  holds, which may be thrown again when much has been called and returned: it
  still has the callers of its holder, since whatever ends while the holder lives
  is above it.
* `CallStackImplementsUnwinding`: `Spec => ImplementsUnwinding`. The lemma that
  carries it is `LandedPassed`: an exception that leaves an activation without a
  handler for it lands, with the class that activation passes on, where the one that
  arrived would have landed. What class it has further down is decided by the
  outermost boundary (initializer or reflective call) it crossed, so a boundary
  below the popped one gives the same class either way (`ArrivingFromFront`); and if
  nobody catches it, nobody catches the other (`LandedNowhere`). `LandedOnTop` says
  that a handler here is where it lands. Each action is then one step of
  `JavaUnwinding`, or leaves the stack it sees alone (`UnwindingStep`). The
  outermost boundary is the least number of a set, for which `LeastIs` takes the
  well-foundedness of `<` from the library.

They rest on `CallStackAssumption`: instruction numbers are naturals from 0,
every method has an exception table whose handlers are instructions, limits are
natural numbers.

`ClassInitProofs` proves, for any threads and any hierarchy and uses, cyclic ones
included (`ClassInitAssumption` only gives the constants their types):

* `OnlyOneInitializes` (`Spec => []OneInitializer`), `OutcomesAreFinal`
  (`Spec => OutcomeIsFinal`) and `UsersAlwaysSeeInitializedClass`
  (`Spec => UsersSeeInitializedClass`). The invariant `Initialization` relates the
  slots to the stacks: below the innermost activation everybody waits for a nested
  use or superclass to return (`Nesting`); a class is in progress exactly while one
  activation of one thread, its owner, has won it (`Ownership`); and what an
  activation is about to publish or has published is what the static fields say
  (`Outcomes`). The lemmas about stacks say what pushing, popping and replacing the
  innermost activation do to the classes a stack has won; every action is one of
  these, so that each has one short step.
* `SuperAlwaysBeforeSub`: `Spec => SuperBeforeSub`, by a second invariant,
  `Hierarchy`, kept under the first: the fields of a class that an activation has not
  reached yet are not initialized; an activation past its superclass has found it
  Done, or won by an activation of its own thread below; one that waits for its
  superclass has the superclass's activation above it; and a call for a superclass that came back
  normally has found it. `FitsPushed` says what this asks of one activation more or
  less, `HierarchyAfter` that only the thread that steps must be looked at.
* `UsersAlwaysSeeInitializedSupers`: `SupersFirst` implies
  `Spec => UsersSeeInitializedSupers`. The claim is false of a `<clinit>` that uses a subclass
  of its own class, so the theorem assumes that no superclass leads to its
  subclass: some set of classes holds the superclass and all that its classes use and extend, and
  not the subclass (the run's instance satisfies it, an ASSUME of `MC_ClassInit`). The
  classes on a stack lead to each other (`Led`), so a
  superclass is never in progress below its subclass (`SuperNotBelow`), and a class is Done
  after its superclass (`SupersDone`). `Supers` is the least set closed under
  `Super`, so that the set of the classes that are Done covers it.

`MonitorProofs` also proves, of `ThreadLifecycle`, for any number of threads, whoever starts them:

* `RunningIsAlwaysKnown`, `LiveThreadsAlwaysExist`, `NoHandleIsEverLost` (`[]` of
  the property they are named after) and `JoinAlwaysAwaitsTermination`
  (`LifeSpec => JoinAwaitsTermination`). `Bookkeeping` is inductive: a thread between
  `MarkAlive` and `InsertHandle` holds the monitor of the Thread object it starts
  (`Parented`), so each thread has one parent and the bookkeeping done so far is
  what the parent's step says; a thread is TERMINATED before it is no longer alive
  (`Ending`); one shutdown drains the table, once (`OneShutdown`). From
  `ThreadAssumption`: the main thread is a thread, `None` is not.

and, of `InterruptStatus`, `MirrorAlwaysAgreesAlone`: `StatusSpec => []MirrorAgreesAlone`.
`Halfway` says what each of the two copies is between the two writes of an
interrupt or a clearing, and that nobody else is a thread's interrupter when it is
left alone. From `InterruptAssumption`, which says who is.

`InterningProofs` proves, for any threads, keys and parts (`InterningAssumption`
gives the constants their types):

* `EntriesAreAlwaysOfTheirKey`: `Spec => []EntriesAreOfTheirKey`. The invariant
  `Kept` adds the calls to the entries: the object in an innermost frame was built
  for its key, every frame below waits for a part of its own object.
* `ObjectsSettle`: `Spec => SettledForGood`, an action property, from `Kept`: an
  insert changes an entry only for a frame that makes its key `Racing`, and a frame
  begins for a key only when its entry is missing.
* `SoundWhereNotRaced`: `Spec => []SoundUnlessRaced`, of keys whose parts can be
  ranked (`Ranked`): an array class ranks above its component, any class above its
  Module, a Module above its name. Without that the claim is false, for a mirror
  that asks for itself is handed out before it is filled. Along a stack ranks
  descend, so a thread has at most one call for a key; a key not raced for is in
  the calls of at most one thread; its object is then as far as that call
  (`InProgress`), or complete when there is none (`Settled`). `SoundAfter` is the
  frame rule the steps share: what a thread does to the keys it touches must be
  shown, all others are untouched.

`ClosureLoaderProofs` proves, for any names, stubs, class paths and number of calls:

* `NothingIsForgotten`: if reading a class path gives what was packed into it,
  `Spec => []NothingForgotten`. `Typed` says where each entry of the registry comes
  from. `WorkIsQueued` is inductive: what was visited is settled (loaded, known to be
  nowhere, or found there under another name), and what a loaded class refers to is
  settled or in the queue of the call in progress. `seen` is emptied between calls and
  classes stay, so what an earlier call followed must be settled and not merely seen.
* `ClosuresAreComplete`: if moreover programs are `Orderly`, `Spec => []ClosuresComplete`.
  The invariant `VisitsCover` is a set of names that exists: those visited by calls so
  far. It is closed under references, but for what is queued, over every path of the
  program, so that a root in it has its closure in it when the queue is empty; later
  calls only add to it. `Orderly` is needed: a call skips what is already loaded, so if
  two paths had different classes of one name, or the program brought a class that a
  path has too, the references of the class that is not loaded would not be followed.
  `MC_ClosureLoader` assumes it of its programs, and TLC checks that assumption.

That reading gives what was packed (`ReadsWhatWasPacked`) is a hypothesis of both, so they
say nothing about the readers: that is for the runs to show, on bytes.

From `LoaderAssumption`: stubs and roots are names, array classes are in no archive.

`HeapAccessProofs` proves, for any class files, heaps, threads and requests:

* `ArraysHoldComponents`: `Spec => []ArraysHoldTheirComponents`. The invariant
  `HeapIsSound` speaks of one of the programs: its class files are loaded; every object
  has one of the types there are; what an array of references holds fits it (`Heap`);
  the objects the program began with are still of the same type and length (`Grows`),
  so that a request which fitted at first fits when it is carried out. A copy under way
  (`CopyIsSound`) is inside both arrays, and unless it checks each element, the component
  of its source is a subtype of that of its destination; the slot it has read fits, which
  is what writing it after the heap was unlocked rests on. A swap under way
  (`SwapIsAsked`) writes what was asked for. Every action writes one element, one slot,
  new arrays (`ElementWritten`, `SlotWritten`, `ArrayAdded`, `ArraysAdded`) or nothing.

  That a check of the code (`MayHold`, by `SupertypesOf`: the superclasses, then the
  interfaces of each) is as strict as Java's subtyping (`SubtypeIn`) is `AssignableIsSubtype`;
  a copy that does not check its elements needs `SubtypesOfSubtypes`, transitivity. Both
  are by induction over the class files (`HierarchyInduction`). That
  multianewarray makes arrays of the right types which hold each other is
  `ArraysAdded`, by induction over the dimensions (`Numbering`, `RowOfDimension`,
  `NextDimension`).

  Recursive functions over data are reasoned about with two lemmas in terms
  of sets and functions: `FoundedInduction` (a set that holds whatever it
  holds everything below of is everything) and `FoundedRecursion` (a step that looks only
  at what is below has a function that obeys it everywhere), both from the library's
  minimal elements of `<`.

  From `ProgramsAssumption`, of which the hierarchy without cycles and the typed
  requests are needed: a store of an int slot into an array of references, or a
  `putReference` of anything anywhere, is not refused by the code, which leaves the first
  to the verifier and the second to the class library. What `aastore` and `arraycopy`
  must check is not assumed.

`ActivationProofs` proves, for any widths of the numbers, any floating-point bounds, any
sizes of stack and locals and any methods:

* `FrameIsAlwaysJavas` (`Spec => []FrameIsJavas`) and `AlwaysOnInstructions`
  (`Spec => []StaysOnInstructions`), both from the invariant `InStep`. While the
  activation runs, the specification's frame is one the verifier lets come up
  (`Verified`: whole values, no more slots than the stack has), the program's frame
  *is* its expansion into slots, with the locals that may be read (`Agrees`), and both
  stand at the same instruction; once it is over, both ended in the same way, or at
  something the interpreter refuses. The properties alone are not inductive: a frame
  that agrees in what they look at may hold half a long below, or values that are none.

  The proof of a step goes by the ways an instruction ends. The operands of an
  instruction are cut off the stack (`CutInTwo`); the program pops the slots of exactly
  those values (`PopsOperands` of `ActivationLemmas`, an induction over the operands); the
  outcome goes on, throws into a handler or ends; and each group of arms of `dispatch` is
  one of these (`StepsInStep` puts them together). What an instruction computes is a
  matter of `ActivationLemmas`:

  * that two's complement as Rust writes it (`Wrap`, a remainder by a power of two) is
    the one value of the type congruent to the exact result, which is how the
    specification says it; that quotients truncate towards zero and remainders have the
    dividend's sign, with the overflow of the least integer; that a number is the sum of
    the bits it has, on which `and`, `or`, `xor` and the three shifts rest; saturation and
    narrowing of conversions, comparisons with NaN;
  * that the length the table of opcodes gives is the number of bytes a handler reads,
    a switch at any of the four alignments included;
  * that the nine instructions of the `dup` family, which choose a form by looking for the
    upper slot of a long or a double, copy blocks of slots (`DupX2Block` and its like), and
    that the blocks are whole values in whichever form the specification applies
    (`Forms`).

  Powers, sums and the recursions over a stack are functions on numbers, for which
  `Induction`, `Iteration` and `SequenceRecursion` say, over sets and functions, what an induction
  schema would.

They rest on `WidthsAssumption` (a byte is no wider than a short, a short narrower than an
int, an int than a long), `FormatsAssumption` (a double reaches as far as a float),
`FramesAssumption` and `MethodsAssumption` (a method's kinds, window and locals are such
and fit its frame).

Only model-checked: liveness, which is out of the prover's reach; `StepsAreJavas`,
which reads memory as bytes of values of every width, in recursive functions of their
own; `AnswersAreJavas` and `ObjectsKeepTheirFields`, whose instructions search
the hierarchy by recursive operators (`Invocation` and `MethodHandles` interpret a form
step by step), which the prover cannot handle; and `LoadsWhatWasPacked` and
`FailsOnDamage`, which are about the decoders, recursive definitions over bytes.

## What is left

1. `Boot`: the phases of `launch.rs` and what they require of each other.
2. Life cycle, interrupt status and monitors composed, so that join, wait and
   interrupt run on the same monitor.
3. The natives that resolve a `MemberName`, and reflection's conversions, beside
   `JavaClasses`.
4. Theorems about the decoders of class files and the calls of methods, whose
   recursive operators would first have to become recursive functions.

## Not modelled

The boot sequence (a fixed Java program), I/O and the operating system's loader,
conversions in natives (strings, properties, reflection), the class-file dumper and
the test kit: sequential code without shared state of the VM. Within the modelled
parts: null arguments and negative timeouts are rejected before any state is touched
and are left out; `holdsLock` reads what `HoldsLock` reads; the contents of
strings do not matter to any property but those of class files; object ids are
unbounded, where the code truncates to 32 bits; the text of stack traces, of
concatenated strings and the chain of causes are left out; real floating-point
rounding is reduced to a range of whole numbers; the instructions `wide`, `jsr`,
`jsr_w`, `ret` and `breakpoint` have no arm in the interpreter; the accesses Unsafe
makes outside of an array mean nothing in Java and are not asked for; running out
of memory does not happen (the heap is never collected, nor bounded).

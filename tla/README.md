# TLA+ models of core-cpp-api

This directory holds TLA+ specifications of the FutoIn core C++ API (`src/include/futoin/`), the TLC
configurations that check them on small instances, and TLAPS proofs for every value of their parameters.

The repository is a header-only library of interfaces and of the code that has to be inlined into
programs: the type-erased containers (`any`, `Function`, `ErasedFunc`, `NextArgs`), and the parts of
`IAsyncSteps` that need templates (adding steps, loops, promises). The engine that runs AsyncSteps, the
event loop behind `IAsyncTool` and the emitter behind `IEventEmitter` are in other repositories and
known here only as virtual functions. They are modelled from how this code uses them and marked external.

## Inventory

| Component | State | Operations | Works with |
|---|---|---|---|
| `any` (any.hpp) | `type_info_`, `control_`, eight pointers `data_`; objects too big for those live in a block of a memory pool | construct, copy, move, assign, `reset`, `any_cast`, `extract` | memory pool, binary transfer; held by `NextArgs`, `LoopState`, the state of a flow |
| functor_pass (details/functor_pass.hpp) | `StorageBase`: buffer and cleanup; `Function`: two pointers | `Simple::move`, `set_cleanup`, call | everything that keeps a callback |
| ErasedFunc (details/erased_func.hpp) | storage and a `TypedImpl` built in place | construct, assign, call, destroy | `EventHandler` |
| steps (iasyncsteps.hpp: add, sync) | `StepData`: two functions, an original function, three storages | `add`, `sync` | functor_pass, the engine |
| loops (iasyncsteps.hpp, details/asyncloop.hpp) | `LoopState`: counter, iterator, container, three storages | `loop`, `repeat`, `forEach`, `breakLoop`, `continueLoop` | functor_pass, any, the engine |
| promise and await (iasyncsteps.hpp) | `std::promise` on the stack of a flow, unhandled error handler, `FutureWait` | `promise`, `await`, `relinquish` | `IAsyncTool` queue, other threads |
| NextArgs (details/nextargs.hpp) | four `any`, model of their types | `assign`, `once`, `repeatable`, `moveTo`, `moveFrom`, `test_cast` | any, binary transfer |
| binary transfer (binaryval.h, details/binarymove.hpp) | `FutoInBinaryValue`: type, pointer or number, length, cleanup | `moveTo`, `moveFrom` | any, the C interface |
| memory pool (imempool.hpp) | pool of the thread, pool cached per thread and type | `set_thread_default`, `get_default`, allocate | any, containers |
| `IAsyncTool::Handle` (iasynctool.hpp) | internal pointer, tool, cookie | move, `cancel`, `binary` | relinquish |
| `IEventEmitter` (ieventemitter.hpp) | event type and function of an `EventHandler` | register, on, once, off, emit (external) | ErasedFunc, NextArgs |
| state of a flow (iasyncsteps.hpp: `State`) | map of `any`, error info, two handlers | lookup, default value, handlers | any |
| specifications (ispec.hpp, ispectools.hpp) | parsed name and version | parse, compare | |
| C tables, errors, strings, `FatalMsg` | none | | |

What is hard about this code, and hard to test:

* **Sequences of ownership.** `any` and the functor storages hand objects and blocks around by plain
  pointers; which destructor runs on which bytes is decided by a function pointer set many operations
  earlier. A wrong order shows only in a long sequence.
* **Partial failure.** A copy that throws in the middle of an assignment.
* **Stale pointers.** A step with arguments points through three members of `StepData`; a loop's
  closure points to a functor in another storage; an iterator waits in `LoopState` while other flows run.
* **Concurrency and time.** `promise()` is called outside of the event loop; an awaiting flow polls
  on the thread the awaited one needs; a timeout may hit while a callback is queued; a flow may be
  destroyed while others wait.

Each hazard is listed with its line and the properties that watch it in `PROJECT.json`.

## Modules

| Module | Models |
|---|---|
| `AnyAbs` | abstract: what `any` promises, value semantics |
| `AnyObject` | any.hpp: the buffer, handlers and heap blocks behind that promise |
| `AnyObjectProofs` | its inductive invariant, the refinement and theorems |
| `AnyLvalue` | `AnyObject` with a history of what the program asked to be moved |
| `MemPool`, `MemPoolProofs` | imempool.hpp: the pools of threads and allocators, and containers that use them |
| `FunctorPass` | functor_pass.hpp: what storage, functions and moves do (definitions only) |
| `ErasedFunc`, `ErasedFuncProofs` | erased_func.hpp |
| `NextArgs` | nextargs.hpp: the types arguments are kept with and cast to (definitions only) |
| `EventHandlers`, `EventHandlersProofs` | ieventemitter.hpp: `ErasedFunc` and `NextArgs` composed with an emitter |
| `StepFunctors`, `StepFunctorsProofs` | where `add`, `sync` and the loops put callbacks, and what calling them reaches |
| `Futures` | abstract: a chain of results, what `promise` and `await` promise |
| `PromiseAwait`, `PromiseAwaitProofs` | `promise`, `await`, `relinquish` in a chain of flows |
| `LoopControl`, `LoopControlProofs` | counters, iterators and conditions of loops, `breakLoop`, `continueLoop` |
| `Transfer` | abstract: arguments as channels for one value each |
| `BinaryTransfer`, `BinaryTransferProofs` | binarymove.hpp, binaryval.h: values on the way between `any` and C |
| `MC...` | small instances for TLC |

### AnyObject

One record per `any` object: the `type_info_`, the handler (`control_`, named by the type it was
instantiated for), and the buffer. The three partial specialisations of `Accessor` are three sets of
types: `FundT` (a number copied bytewise), `SmallT` (a class constructed in the buffer), `BigT` (a class
in a block of a pool). `Cleanup`, `Move` and `Copy` are `CleanData`/`CleanHeap`, `MoveData` and
`CopyFrom`; every constructor and assignment is one action that runs them in the order of the code.
Undefined behaviour (destroying an object that is not there) is not described: an action of an any that
is not `Usable` does not exist, and the invariants say when every live any is usable.

`any(T&&)` and `operator=(T&&)` with an lvalue are actions of their own, since their source can be the
object in an any: `ConstructFromRef` and `AssignFromRef` move that object (any.hpp:107, 163), and
`AssignFromItself`, `a = any_cast<T&>(a)`, makes a new object of one that `Cleanup` has destroyed.
`SelfRef` are the types a program does this with. `torn` and `lost` are history variables: the any
objects a throwing copy assignment or an assignment from themselves spoiled, and the blocks that throwing
copies left behind. Any copy of a class may throw: `Throwing` are the types that do, all of a class that has no
copy constructor among them (`new_copy`, any.hpp:263-276), and `ConstructCopyThrows` and `AssignCopyThrows` are what is
left of the constructor and the assignment then. A move leaves an object in the buffer of its source that no destructor will run on;
`OnlyShellsLeft` says that nothing but such moved-from objects is left that way.

`AnyAbs` knows only a value or none per object. `AbsUnlessTorn` checks that `AnyObject` implements it
(refinement mapping in `AnyObject`) up to the step that tears the first any: a torn any has no abstract
value. `AnyLvalue` adds to each action what the program asked for, to tell a move it wanted from one it
did not.

### MemPool

`thread_default` and `local` are the two levels of thread-local pointers in imempool.hpp; `MemPoolOf` is
whatever `mem_pool(sizeof(T), optimize)` of an implementation returns. A container stands for one of the
standard library: it keeps an allocator, the memory for its elements (`block`) and memory for a
table of another type (`table`, the buckets of a hash map or the map of a deque), for which it rebinds its
allocator each time it allocates or frees it. It takes over the memory of another container in a move
assignment when the allocators compare equal, and moves the elements otherwise. A block is named by
the allocator that gave it: two memory blocks of the same pool and type need not be told apart to say
that both go back there. `EnsureOptimized` may happen at any moment, as static objects of libraries that
are loaded late do. History variables: which pools were set for a thread, which caches were filled before
something they depend on changed (`switched`), whose default an allocator is, and which tables were
there before their type became optimized (`reoptimized`).

### FunctorPass, ErasedFunc, StepFunctors

A `Function` is a pair of the functor class it will call and the place it expects the functor at. A
storage has the class its cleanup will destroy and the object in its buffer. `Emplace` is the order of
functor_pass.hpp 248-251: construct first, then `set_cleanup`, which runs the old cleanup on the buffer.
`ErasedFunc` shows where this matters: a storage that is used twice. In `StepFunctors` an engine gives each `add`,
`sync` or loop a `StepData` and a `LoopState`, and nothing says that they are new: that of
tests/iasyncsteps.test.cpp (57-60, 84-94) gives the same ones every time. A call writes some of the members and leaves the
others as the call before left them; the ones it leaves are `on_error_` when no error handler was given and `cond` when
the loop has no limit. `given` and `spoilt` are history variables: the functor passed last, and the storages in
which a functor with a destructor was overwritten, of which nothing is promised (that is what `erased_reassign` finds).
`Passed` are the functors callers pass, each by value, to be moved into the storage, or by reference.

### NextArgs, EventHandlers

The values of arguments do not matter to their dispatch, their types do: `NextArgs` keeps four types, and
`Casts` is what `test_cast`, `repeatable` and `once` demand of them. `EventHandlers` extends it and
`ErasedFunc`: a handler is an `ErasedFunc` and the event it listens to. `RegisterEvent`, `NewHandler`,
`AssignHandler`, `DestroyHandler`, `Emit` and `Call` are code of the library; `Listen`, `Off` and `Deliver` are an
emitter as the interface and README.md:443-467 of the library describe it: it tests the model arguments of
the event on a new listener and the emitted values on the event, queues emissions, and frees a `once`
handler before it calls it. A cast that fails ends the program (a `bad_cast` in a `noexcept` function), which `fate`
records. Between any two calls of a delivery everything else may happen: that is what handlers do.

### PromiseAwait

`N` flows in a chain: flow `f` creates flow `f + 1`, keeps it in its state and awaits its promise, as
README section 11 of the library does; the last one waits for an external event; a client on another
thread waits for the first. Variables: where each flow is (its current step), the shared state of its
promise, how many of its calls `promise()` has made for it (`made`), the burst the loop thread runs, and the queue of
the tool. `promise()` is one step for each call it makes: the `std::promise` on the stack of the flow (`StackPromise`),
the unhandled error handler and the completing step (`Prepare`), `execute()` (`Execute`), and `GetFuture` after them.
`Order` has the order of the code; `Has` asks whether a call was made before, as an error does for the handler. The
client calls `promise()` of the first flow while the loop thread runs, and whatever runs first may fail.
`Typed` are the flows with a `promise<Result>`: the step that completes them takes the result as an argument, and
its adapter throws when a recovery left none or another (`Complete`); such an error meets no handler of the user but the
unhandled error handler. `PromiseCall`, `GetFuture`, `Await`, `Relinquish` and `Complete` are code of the library;
`Dispatch`, `ExternalEvent`, `ClientDestroy` and the cancellation of queue entries are the external engine.

`Futures` is what users see of this: a result for each flow, given once, and an answer for the client. There is no
queue and no polling in it. A flow that took care of an error succeeds, but for a `Typed` one, which may still fail.
`Chain` in `PromiseAwait` maps the state shared by promise and future to the result
and the place of the client to its answer; dispatches, sleeps and wake-ups are stuttering steps.

### LoopControl

Nested loops, each with its `LoopState` and what its closures captured. `Handler` advances the counter
or iterator before the user's function runs (iasyncsteps.hpp:730), which may return, add an inner loop,
continue or break a loop by its label, or fail. `Erase` and `Insert` change the container under a
`forEach` by reference at any moment, as node-based containers allow. What a program may erase (`MayErase`) is said
without the iterator, of which it does not know: what it was given already, also the element it is at, and of the others
all but the next one it would be given (iasyncsteps.hpp:700: "Mind lifetime of the container!"). That no
iterator dangles then is up to the code, which advances it before the function runs.

### BinaryTransfer

Arguments of a step, each an `any` (`arg`) and a `FutoInBinaryValue` (`bin`), over memory whose blocks
know what was allocated there. `Extract` is `any::extract()` with the `moveTo` of the five families of
`moveHelper`; `MoveFrom` is `details::moveFrom()` with the reset at its end, and ends the program
(`fatal`) on unknown flags. `NextArgs::moveTo` and `moveFrom` are four of these in a row; modelling them one by
one adds interleavings, and loses none. `Make` and `Discard` are the program in C, external: it makes
values with types and cleanups of its own and resets values it got. It does not copy a value it got
to another place, which nothing in the interface allows. `CStr` is what C++ reads of a string of C: the
part before the first NUL. `wire` is a history variable: what was sent last. The any objects are values
here; `AnyObject` is about how they keep them.

`Transfer` has no memory: an argument has what its `any` holds and what is on its way. The mapping (`InTransit`) looks for
the latter where the receiver does: in the binary value itself, in the object `custom_data` points to, or in the memory of
the program in C.

## Runs

| Run | What it shows | Bounds |
|---|---|---|
| `any_ownership` | objects are neither destroyed twice nor dropped nor lost, and value semantics, also with copies that throw | 3 anys, 4 types (one of each layout, one that cannot be copied), copies of all classes may throw, 3 blocks, 2 pools |
| `any_torn` | violation: an any after an assignment that threw | as above |
| `any_lvalue` | violation: an any made from an lvalue moves it | 2 anys, 3 types, 2 blocks |
| `events` | who is in the emitter is alive, what was accepted can be delivered, no delivery ends the program but through a handler given another function, handlers call their function | 2 handlers, 2 events with 1 and 2 parameters, 3 functions, 3 lists of values, 1 emission waiting and 1 being delivered |
| `events_example` | violation: the emission in the README's example | the event and the values of README.md:481-487 |
| `mempool` | memory goes back where it came from; threads, caches and defaults | 2 threads, 2 containers, 2 types, 3 pools, one of which tailors another |
| `erased_reassign` | violation: a handler that was assigned twice | 2 objects, 3 functor classes |
| `step_functors` | steps and loops run the caller's functors, an error handler left over can be called, nothing is left behind | 1 step whose `StepData` and `LoopState` are used any number of times, 2 functor classes passed in 3 ways, every overload |
| `await` | wake-ups, results and errors in a chain of flows, and that they implement `Futures`; polling does not starve, every flow ends | 4 flows, three of them with a result |
| `loops` | iterators stay valid, nothing visited twice, nothing skipped, each step brings the end of a loop nearer, loops with an end end | 2 nested loops, up to 3 elements, limits 0 and 2, 1 label |
| `binary_transfer` | no double release, C reads what was sent, what is sent arrives, only unpacked bools are lost, `Transfer` is implemented (some minutes) | 2 arguments, 3 blocks, 2 values, every C++ type, 5 kinds of flags from C |
| `binary_leak` | violation: the array unpacked from `std::vector<bool>` | as above, every kind of flags |

Why the bounds are enough to be interesting: three any objects allow a source, a destination and a
third that shares with either; three blocks let all three be big at once. Steps share
nothing, so that one step is all `step_functors` needs; what it is used for before makes the cases. A chain of four has flows that are awaited and await, two apart from both ends. Two nested loops
have a label that is the inner one's, the outer one's, both or none; three elements allow one to be
visited, the next one to be erased and one to be inserted behind or ahead. Two arguments and three blocks
let one argument hold two blocks, the most there are, while memory is left for the other. Two handlers are
enough for one to disconnect or destroy the other while both wait to be called; the functions match one event,
two or none, and the values are too few, too many, or of another type. Two threads and two containers are what the
properties of `MemPool` speak of; the pool that tailors another is the one difference pools make. `loops` leaves out
the `forEach` over maps, which is that over lists without the index; the proofs have it. The proofs remove the bounds.

`CHECK_DEADLOCK FALSE` is set in `step_functors` (a step that is gone stays gone), the events runs (a cast that
fails ends the program), the await runs (all flows end) and the binary runs (`FatalMsg` ends the program).

### Fairness

`await`: weak fairness of the loop thread as a whole (the event loop keeps running callbacks and
bursts), of the client's calls and of the external event. It is not assumed that any particular callback
is served: the queue is first in, first out, as `immediate()` promises. No timeout has to happen, no
client has to destroy anything. `loops`: weak fairness of the engine and the user's function
together, while a flow is in a loop; nothing is assumed of other flows, which may change the container
for ever; a flow that uses `loop()`, which ends only by `breakLoop()`, is not promised an end.

## What the code does otherwise than documented

README.md:535 of the library calls `any` "implementation of C++17 `std::any` with ensured optimization
for small objects", README.md:57 calls `Function` "lighter `std::function` replacement".

* `any_torn`: `operator=(const any&)` destroys the old value and installs the handler of the source
  before it copies. If the copy throws, as that of any class may, the destructor of the assigned any later destroys an object that
  was never constructed. `std::any` leaves the assigned object unchanged.
* `any_lvalue`: `any a(s)` and `a = s` with a non-const object `s` leave `s` moved from. The reference is
  stripped from the type `std::forward` is given (any.hpp:105-107). `std::any` copies.
* `erased_reassign`: assigning an `ErasedFunc` or `EventHandler` that holds a functor with a destructor
  destroys the new functor and leaks the old one.
* `binary_leak`: `moveTo` of a `std::vector<bool>` allocates an array that the cleanup it installs does not
  release. README.md:567: "Each instance supports a cleanup handler", which `futoin_reset_binval()` invokes.
* `events_example`: README.md:459 says "Language casts are implicitly allowed"; what is allowed is to take a
  value by reference or const. `emit(first_event, 1, "str", true, 1.0)` of README.md:487 keeps a double, and the
  event has a float: the cast throws.

Met on the way, without a run of their own:

* Moving an any with a small object constructs the new object and forgets the old one (any.hpp:90-96, 345): the
  destructor of the object moved from never runs. `OnlyShellsLeft` holds the limit of this: the object is
  always one that was moved from.
* `moveTo` of any array installs the type of custom objects (binarymove.hpp:226), so that a program in C cannot tell
  that it is an array. README.md:566: only types "which cannot be converted to POD are kept only as
  custom object pointers". `Cpp` and `ArrayTo` have it as it is.
* The `FatalMsg` for arrays of unsupported types stands after a `break` (binarymove.hpp:431) and is never reached,
  so that such an argument is dropped (`Foreign`).
* A converting `Allocator` asks for the optimized pool at the time it is made (imempool.hpp:177-182): memory a
  container gets through a rebound allocator before an `EnsureOptimized` is freed to another pool after it.
  The exception in `TableFreedWhereAllocated` is needed.
* A handler that is given another function while it listens is not tested against its event again; the
  exception in `Deliverable` is needed.

## Proofs

Checked by TLAPS for all values of the constants under the named assumptions of the modules.

* `AnyObjectProofs`: all properties of `any_ownership`. None is inductive alone: that a cleanup finds its object
  needs that no other any freed the block (unique owners), and uniqueness under moves needs that an any
  without a handler owns nothing. The inductive invariant joins them (`Sound`). `ImplementsUnlessTorn` is the
  refinement of `AnyAbs`: with unique owners, an operation on one any leaves the content of all others as it is, and each
  action maps to one of `AnyAbs`, whichever types throw when they are copied.
  `OnlyLvaluesAreTaken` uses the same mapping for `AnyLvalue`: the two steps the run `any_lvalue` ends in are the only
  ones that can break `MovedOnlyOnRequest`.
* `ErasedFuncProofs`: `CallableUnlessClobbered`, and the unconditional form for functors whose destructors
  do nothing.
* `EventHandlersProofs`: all properties of `events`, for any handlers, events and signatures. `Deliverable`
  compares handlers with values, which no line of the code does. The invariant `EInv` has the two comparisons that are
  made, `ListenersCast` and `EmissionsCast`, and `CastsCompose` joins them. `HandlerIsErasedFunc` shows that each step is
  one of `ErasedFunc` or leaves it alone, so that its theorem carries over and an emitter implements `ErasedFunc`
  (`HandlersAreErasedFuncs`). `DeliveryIsSafe` is the action property: when a call ends the program, its handler is one
  `ListenersCast` excepts.
* `MemPoolProofs`: all properties of `mempool`, for any threads, types, containers and pools. The invariant says of each
  container that its memory came from its allocator, and of each allocator with a default whose cache it came
  from; that equal allocators give the same tables needs that tailoring is a function of pool and type.
  `PlainPoolsReturnTables` shows what the exception in `TableFreedWhereAllocated` takes: with pools that do not tell
  optimized requests apart, as the default `mem_pool()` of the library, every table goes back. Its assumption,
  `OptimizedIsPlain`, is on the pools in use, not on the program.
* `StepFunctorsProofs`: all properties of `step_functors`, for any steps and functors. A call goes through up to three
  objects; the invariant (`StepInv`) lists the three forms a chain can have, and says until a step is destroyed that
  each storage will clean up the object it holds, whatever it was used for before, unless it is `spoilt`. An error handler
  that is left over is alive because a call that gives none touches neither pointer nor storage (`Errors`).
* `PromiseAwaitProofs`: `NeverFatal`, `ValueMeansValue`, `WakesExactlyTheWaiting` and the action property
  `SatisfiedOnce`, for chains of any length. `Dispatch` resumes a flow without looking at where it is, so
  the invariant is that callbacks and waiting flows match (`Matched`); with it, whoever satisfies a
  promise is a flow that can still act, whose promise is pending and for which every call of `promise()` was made
  (`Pending`): `NeverFatal` follows from the order of the calls. `Earned` extends
  `ValueMeansValue` to the step before the promise is set. `Woken` is proved on top of it. `Chained` adds that a
  flow that recovered goes on to complete, where only a `Typed` one can fail, that a client with a future has a first flow, and `AwaitedIsThere`, which needs
  `Matched` too: a wake-up must find its flow asleep. With it every action is one of `Futures` or is not seen there
  (`FuturesImplemented`), and whoever polls has a future to poll (`AwaitedFutureIsGood`).
* `LoopControlProofs`: `IteratorValid`, `NothingTwice`, `NothingSkipped` for any nesting and container. The
  invariant is their conjunction per level (`Progress`), with the fact that a handler runs only after
  its condition held (`Shape`). That what `MayErase` allows never hits the iterator is `NextIsKept`: the iterator is
  at the next element to be given, since all before it were given or came late. `LoopsRunOut` is the part of termination that needs no fairness: each step of the engine
  or of a user's function, but for `loop()`, lowers the rank of some loop and leaves those of the loops around it, so the ranks go down
  in the order of natural numbers from the outermost loop inwards, which is well founded; changes of a container by
  others lower no rank and raise none.
* `BinaryTransferProofs`: all properties of `binary_transfer`, for any number of arguments. None says
  where a value is while it is under way; the invariant does, type by type (`Carries`), and from the kinds
  of memory in it follows that what one argument releases no other refers to (`OthersKept`). From
  `Carries` it also follows that the receiver finds what was sent (`TransitIsWire`), so that each action is one of
  `Transfer` or is not seen there (`TransferImplemented`). `OnlyBitsLeak`
  bounds what the run `binary_leak` finds: where neither side uses `std::vector<bool>`, `NoLeak` holds.

Only model-checked: liveness (`ClientAnswered`, `FlowsFinish`, `LoopsEnd`), which is out of the prover's
reach; of `LoopsEnd` the rank is proved, and fairness and the induction over it are left to TLC. The refinements are
of safety: that the abstract steps happen is `ClientAnswered` and `FlowsFinish`.

## Not modelled

`std::function` as the function type of `Simple`; the state map of a flow (a lookup and an any assignment); `Handle` beyond its `cancel` (copies of
three members; the cookie that tells a stale handle is checked by the tool, which is external); the interface
specification (ispec.hpp: structures a loader outside of the repository fills once, without state that changes); `ISync` (two virtual
functions);
implementations of the engine, event loop and emitter; the C tables, error constants, strings and
compile-time signature helpers. Whether the stack of a flow is still there when
`promise()` calls `get_future()` after `execute()` (iasyncsteps.hpp 985-987) depends on the engine;
`PromiseAwait` keeps it until the flow is destroyed.

## Plan

What the library itself does with state is modelled but for the state map of a flow; what is left needs more of the
external side, in this order:

1. An engine for AsyncSteps, external here, composed from `StepFunctors`, `LoopControl` and `PromiseAwait`: the order of
   steps, and which arguments a step finds in `NextArgs` when the one before gave fewer.
2. `once()` with values that are moved out, on top of `AnyObject`.
3. Validity of `IAsyncTool::Handle` cookies, for a tool that reuses its internal handles.
4. Proofs: what a step's callbacks promise, stated as an abstract specification that `StepFunctors` implements; that `emit`
   delivers each accepted emission once to each listener, as an abstract emitter that `EventHandlers` implements; what a
   torn any can still be used for.

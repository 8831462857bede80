# Verification of o3jc

o3jc is an Objective-C runtime in Rust for the GNUstep v2 ABI: a library that
compiled Objective-C programs call, from any number of threads, to create
classes, look up and call methods, count references, keep weak references and
run autorelease pools. This directory holds TLA+ models of it, the TLC
configurations that check them, and proofs checked by TLAPS.

Paths below are relative to the repository; its sources are in `src/*.rs`.

## 1. Inventory of the system

| component | source | state | operations | what makes it correct |
|---|---|---|---|---|
| side table | `retain_release.rs` | `TABLE`: address -> retain count, `deallocating`, weak locations; no entry means a count of 1 | `objc_retain`, `objc_release` (and `do_dealloc`), `objc_retain_count` | the count is the number of references; the last release deallocates, once; nothing owned dies, nothing dying is revived; the entry goes with its object |
| weak references | `retain_release.rs` | the slots themselves, guarded by 127 stripe locks; their addresses in the object's entry | `objc_initWeak`, `objc_storeWeak`, `objc_loadWeakRetained`, `objc_loadWeak`, `objc_destroyWeak` | a slot never dangles; a load is atomic against deallocation; a destroyed slot is forgotten |
| autorelease pools | `autorelease.rs` | `POOL_STACK`, per thread | push, pop, autorelease | each reference is released once, in reverse order, back to the token's depth |
| selectors | `sel.rs` | `NAME_TABLE`, `SEL_TABLE` | intern, register, compare | one name, one pointer, whichever way and thread it comes from |
| method cache | `method_cache.rs` | up to 16 pairs per class object, under an RwLock | lookup, insert, flush, flush of a tree | what is cached is what the hierarchy gives |
| message lookup | `msg_send.rs` | none of its own | `objc_msg_lookup`, `class_lookup_method` | the nearest class that implements the selector wins |
| class registry | `class_registry.rs` | `CLASS_REGISTRY` under an RwLock; method lists, subclass lists and flags in the class objects under no lock | allocate and register a pair, add, replace, exchange methods, flush all caches | every class is where flushes find it; a change is seen by the next message |
| loader | `loader.rs` | the class structs of the binary, patched in place | `__objc_load` | selectors are interned, the metaclass chain is complete, classes are registered |
| `objc_msgSend` | `msg_send.rs` | argument registers and the stack of the calling thread | x86-64 trampoline: save, look up, restore, jump | the method sees the caller's arguments, and the caller's frame is left alone; nil returns zero |
| class layout | `types.rs` | - | layouts, traversals | - |
| C ABI | `lib.rs` | - | `extern "C"` wrappers that forward to the above | a thread may make these calls in any order its `Safety` comments allow |

How they interact: a message send (`objc_msgSend`) calls the lookup, which reads
the class objects and the method cache; changing a class flushes the caches of
the classes below it; the last release of an object zeroes its weak slots and
*sends it* `dealloc`, which runs program code that may call anything here; a pop
of an autorelease pool releases objects; a weak load may autorelease. The
loader fills in the class objects and uses the selectors and the registry.

Which behaviours are hard: every entry point may be called by several threads
at once; critical sections are short and a call makes several of them (a
release decides under a shard lock and acts after it; a lookup walks with no
lock and then fills a cache); `-dealloc` calls back into the runtime from the
middle of a release or a pop; addresses and slots are memory the program
reuses. There is no persistence and no messaging, so no crash recovery and no
lost messages. `PROJECT.json` lists the hazards line by line.

## 2. Modules

| module | what it is |
|---|---|
| `SideTable` | reference counting, deallocation and weak references, several threads |
| `WeakRefs` | the abstract specification of the same: objects live while owned, weak slots are cleared in the instant the last owner goes |
| `SideTableProofs`, `WeakSlotProofs` | theorems about `SideTable`: counts and lifetimes; weak slots, and that it implements `WeakRefs` |
| `ThreadPools` | the composition: the threads of `SideTable`, each with autorelease pools and `objc_loadWeak`, sharing objects |
| `ThreadPoolsProofs` | theorems about `ThreadPools`: it uses `SideTable`, and each thread's pools implement `AutoreleaseScopes` |
| `Autorelease` | one thread's pools, with the `-dealloc`s that pops run |
| `AutoreleaseScopes` | its abstract specification: one list with marks in it |
| `AutoreleaseProofs` | theorems about `Autorelease`, and that it implements `AutoreleaseScopes` |
| `Dispatch` | classes, method lists, caches, lookup, registry, several threads |
| `DispatchProofs` | theorems about `Dispatch` |
| `MsgSend` | the instructions of `objc_msgSend` over registers and stack |
| `MsgSendProofs` | theorems about `MsgSend` |
| `Selectors` | the two intern tables, registration by several threads, fixup of compiled selectors |
| `SelectorsProofs` | theorems about `Selectors` |
| `Loader` | `__objc_load` of several images, on top of `Selectors` |
| `LoaderProofs` | `Loader` is a way of using `Selectors`; theorems about the class objects and the lists that link them |
| `MCSideTable`, `MCThreadPools`, `MCAutorelease`, `MCDispatch`, `MCMsgSend`, `MCLoader` | instances for TLC |

### SideTable

A step is one critical section: one access to `TABLE`, which DashMap makes under
its shard lock, or one stretch of code under a weak-slot lock with at most one
such access. Code between critical sections touches nothing shared, so it is
part of the step it precedes or follows. (`objc_storeWeak` and
`objc_loadWeakRetained` take two steps, because their table accesses can be
interleaved with those of other threads; the slot stays locked in between.
`objc_destroyWeak` and a pass of `do_dealloc`'s loop are one.)

| model | code |
|---|---|
| `table[a]`, `Vacant` | the entry of `TABLE` at address `a`, or none; `weak_locations` is a set: the order of zeroing is free, and a location that is in the vector twice is struck, and zeroed, with its copy |
| `slot`, `LockFree`, `StripeOf` | the weak variables and the 127 stripes (`WeakSlot`) |
| `call[t]` | thread `t` is inside `objc_storeWeak` or `objc_loadWeakRetained`, holding the lock of `call[t].slot` |
| `stage[o]` | "zeroing", "body" and "remove" are the loop of `do_dealloc`, the `-dealloc` it calls, and the way to `TABLE.remove` |
| `running`, `below` | the stack of deallocations of each thread: a `-dealloc` releases what its object stores, which starts another |
| `pending[o]` | the locations `mem::take` extracted and the loop has not reached |
| `strong`, `holder` | the references that exist and who owns them: a thread, or an object |

The callers are part of the model: the Safety comments ask that objects passed
in be live, so a thread uses only objects it owns a reference to (`CanUse`), and
objects own references too, which their `-dealloc` releases. Four constants say
what kind of callers a run has:

- `DeallocFrees`: `-dealloc` frees the memory, as Objective-C code does; if
  FALSE the caller of `objc_release` frees it afterwards, as the unit tests in
  `lib.rs` do. It decides when an address can be reused (`InMemory`).
- `DeallocUsesSelf`: `-dealloc` may retain `self`, or store it weakly.
- `RacyStores`: slots may be stored to, or made anew in the same memory, while a
  deallocation has still to zero them. They may be destroyed at any time.
- `HasDealloc`: the instances whose class implements `-dealloc`; the lookup of
  the method itself is `Dispatch`.

`Ref` is a finite set of names of references, so it bounds the counts.

`WeakRefs` has no side table and no stages. `Promise` maps the stages between
the last release and the removal of the entry to "dying", and a slot that still
holds a dying object to one that holds `Nil`: that the code zeroes slots one by
one, later, cannot be seen by a caller.

### Autorelease

The stack of unfinished calls of one thread is explicit (`frames`): a pop, which
calls `objc_release`, may start a `-dealloc`, in which the thread makes any call
again. `tokens` are the tokens the program has not consumed; a `-dealloc` pops
only the pools it pushed (`Base`). A count here is a number, and no other thread
runs: those are `ThreadPools`. A pop
keeps the `RefCell` borrowed, so a call that reaches the pools from a `-dealloc`
it started panics; the panic aborts the process at the `extern "C"` boundary
(`panicked`).

`AutoreleaseScopes` is one list with marks; `Scopes` maps the stack of pools and
what the pop holds in its hand to it.

### ThreadPools

EXTENDS `SideTable`: its actions are called by threads that also have a
`POOL_STACK`. A pooled reference is still its thread's (`holder`), but the pop
that drains it is the only one who may release it (`Own`). The pools of a thread
are one list with marks (`trail`, `marks`), the form `AutoreleaseScopes` has:
`Autorelease` implements it with a stack of pools, and the threads here keep to it.

| model | code |
|---|---|
| `Code(t)` | the entry points of `lib.rs` that know nothing of pools, called by the program or by a `-dealloc` |
| `Runtime(t)` | what a deallocation, a store or a load does of itself once begun |
| `drain[t]`, `base[t]` | thread `t` is in `objc_autorelease_pool_pop`, down to that depth, called from that deallocation: `POOL_STACK` stays borrowed (`Borrowed`), through every `-dealloc` a release of the pop starts |
| `loaded[t]` | `objc_loadWeak` has retained the object, under the slot's lock, and has still to autorelease it |
| `leaked` | autoreleased with no pool pushed, or left by a thread that ended with pools unpopped: `POOL_STACK` is dropped and releases nothing (`EndThread`) |
| `aborted` | a borrow of a borrowed `RefCell` panicked in an `extern "C"` function |

So a thread loads, autoreleases and pops while others release their own
references to the same object, zero the slot it was loaded from, or end.

### Dispatch

`Class` holds classes and metaclasses; `Chain` gives each of them the class objects
a lookup walks, from itself to its root, and is a constant, since
nothing changes it after a pair is allocated or loaded (`Super` and `Hits` are read off
it). `ChainShape` says that it is a hierarchy, that superclasses of classes are
classes, and that a metaclass's chain is made of the metaclasses of its class's
superclasses, and of those classes: it may end in the root class. Classes that came with the binary
(`Loaded`) come with the classes above them, linked (`LoadedShape`); `LoadedSubs` and
`LoadedImps` are the subclass lists and methods `__objc_load` leaves behind.
`frame[t]` says how far a thread is in its call; a step is one critical section
on a cache or the registry, or one word read from or written to a class object,
which no lock protects. So a walk takes a step for each class, a method list
head or a subclass list head is read in one step and stored in the next, an
exchange writes its two IMPs in two steps, and a flush clears one cache at a
time, in any order a tree walk could take.

`RacyLookups` lets messages be sent while methods change, `RacyChanges` lets
several threads change classes at once. Allocating and registering a class
never excludes lookups.

### MsgSend

Registers that carry arguments are lanes of eight bytes, `rdi` to `r9` and
`xmm0` to `xmm7`, and the stack a map from the addresses of its words. Each of the
fourteen moves of the save and of the restore is a step, so that a signal handler,
which may write anything more than 128 bytes below `rsp` (the red zone), can run between any two
(`Signal`). `movaps` and the call fault on a misaligned stack. The call of
`objc_msg_lookup_nonnull` leaves junk in every argument register and below `rsp`;
what it returns is the operator `Find`, which `Dispatch` is about, and it aborts
when there is no method. The caller is `EnteredByCall`: `rsp` is 8 off a multiple of 16, as the
ABI has it after a `call`.

### Selectors and Loader

A name pointer is an address; `spelling` says what string is there, so that a
compiled selector, whose name is a string of its binary, an interned name and
the text asked for are three things that have to agree. `nameTable` and
`selTable` are the two tables. A step is one access to one of them, under the
lock of the entry (DashMap locks a whole shard; the entries of a shard excluding one
another as well would only take behaviours away). `registering` is the thread's
hold on an entry of `SEL_TABLE` while it interns the name.

`Loader` EXTENDS `Selectors` and adds the class objects as the compiler left
them: the fields the loader reads or patches are variables (`isa`, `super`, `size`,
`methodList`, `cached`, `subclassList`, `sibling`), and `job` is how far the running
`__objc_load` is. The dynamic linker runs one at a time and images after those
they need; within an image the classes come in any order. A step fixes up one
selector, patches one class object, or reads or writes one list head. Every
compiled class has a metaclass and a name of its own; null sentinels are left out of
the sections. `Dispatch` starts from what `Loader` ends with.

## 3. Runs

Every property of a passing run has a mutant in `PROJECT.json`: a definition
changed the way a plausible bug would, which TLC finds.

| run | states | shows |
|---|---|---|
| `sidetable_promise` | 44k | two objects, two slots on stripes of their own, no racing stores, slots destroyed at any time: counts are exact, nothing owned dies or is revived, loads are safe and miss no live object, location lists are never stale, no entry lists a destroyed slot, deallocations complete, and the side table implements `WeakRefs` with its fairness |
| `thread_pools` | 628k | two threads with pools, three objects, two of which use one address in turn, stores racing deallocations: what a pool holds stays live and is released once, no slot dangles, no entry outlives its object; checks the inductive invariants `IInv` and `PoolsInv` too |
| `autorelease_pools` | 40k | counts add up, tokens fit, pops end and restore the depth, pools implement `AutoreleaseScopes`; checks the inductive invariant `AInv` too |
| `dispatch_dynamic` | 75k | caches are coherent, and the inductive invariant `DInv` holds: three levels of classes made at run time, the third registered under the name of the second, methods added, replaced and exchanged while nothing is being looked up |
| `dispatch_races` | 128k | two threads, either of which changes a loaded class, makes a class below it or sends messages to that, with no rule kept: caches stay sound through fills, evictions and flushes, and every call returns, though list heads are overwritten and caches refilled behind the flushes |
| `msgsend_calls` | 153 | messages to nil, to an object that implements the selector and to one that does not, from three depths of the stack, with signal handlers between any two steps: the method gets its arguments, no access is misaligned, nil gives zero, the caller's frame is kept; checks the inductive invariant `IInv` too |
| `loader_images` | 7k | three levels of classes in any order of a section, a plugin, and two threads that register the names: selectors are equal when their names are, the hierarchy and its lists are complete, classes in use are left alone, calls return; checks the inductive invariant `LInv` too |

**Bounds.** Two threads are enough for the races listed, all of which are
between two calls; two objects allow one to store a reference to the other
(nested deallocation), and a third one address to be used twice; two slots allow two
stripes, and three references a count above the boundary between
one and two. Three levels of classes make a flush go through a class to
another; the capacity of a cache is 2 instead of 16 where three selectors are sent, so
that it evicts, and 1 elsewhere.
In `dispatch_races` the third class is made at run time, so that a subclass list
grows while flushes follow it; messages to it fill its cache with methods
of the class above.
`MaxPools` (one in `thread_pools`, whose subject is what threads share; pools are
nested in `autorelease_pools`), `MaxPooled` and `MaxCount` bound the pools, `Implementing` says
which class objects are given methods, and `Asked` which are sent messages. `Created`
and `Address` have room for every name. Three levels of classes in one section give
the orders in which a class comes before its superclass and before its root; the
plugin makes a list of subclasses grow after it is in use. The trampoline is
straight-line code with two branches, so its run is small: three receivers, with a different
value in every lane and word so that no mix-up goes unseen. Symmetry is used in safety runs only.

**Fairness.** A thread inside a call goes on, which is weak fairness of the
steps that wait for nothing. Zeroing a slot waits for a stripe lock that other
threads take again and again: the lock is parking_lot's, which is eventually
fair, hence strong fairness of `ZeroSlot`. A `-dealloc` is the program's own
code: the runs assume that it releases what its object stores and returns
(strong fairness of `FinishBody`, `FinishDealloc` and of its releases). The
loader and a thread inside a registration go on (weak fairness of their steps).
Nothing is assumed about threads starting calls.

### Where the code and its documentation disagree

Each is a run that checks the one property the quoted line states and finds it
violated; `findings` in `PROJECT.json` quotes the lines.

| run | what happens |
|---|---|
| `sidetable_revived` | an object that was never retained is released with no entry, so nothing marks it as dying; a `-dealloc` that retains `self` gets it back |
| `sidetable_clobbered` | `do_dealloc` overwrites a slot in which a live object was stored after its location was extracted: that object lists the slot, and a load of it returns nil (`LiveKeepsSlots`) |
| `sidetable_destroyed` | `objc_destroyWeak` returns, the variable may go out of scope, and a deallocation that had extracted its location writes to it: "removing the entry" does not remove it from there (`DestroyedIsNotWritten`) |
| `autorelease_panics` | a `-dealloc` run by a pop that uses the pools panics |
| `dispatch_stale_fill` | a lookup fills a cache with what it found before the flush |

Others, met while modelling, are kept out of the passing runs by the
constants named and have no run of their own:

- An entry is removed after `-dealloc` has returned (`retain_release.rs:178`); where
  `-dealloc` frees the memory, a new object at that address meets the old entry
  (`DeallocFrees`, with two objects at one address).
- The metaclass of a class made at run time is in no subclass list
  (`class_registry.rs:107`), and a loaded root metaclass is not in the root class's
  (`loader.rs:334`): a method added to the one, or changed in the other, stays
  cached below. Nor does an exchange of class methods "flush all caches"
  (`class_registry.rs:253`): it starts from the registered classes, whose lists lead
  to no metaclass (`Changeable`).
- List heads of methods and subclasses are read and stored with no lock
  (`class_registry.rs:203`, `:111`), where `types.rs:149` and `:236` speak of one: two
  threads that change one class lose an entry, a method or a subclass. `dispatch_races`
  has it happen to methods and checks what holds all the same; the coherence of caches
  is claimed without it only (`RacyChanges`).
- A second registration under one name displaces the first class, which keeps
  its flag (`class_registry.rs:136`). A displaced subclass is still flushed from its superclass,
  which `dispatch_dynamic` runs and `Coherence` proves; a displaced root class is
  out of reach of "flush all caches" (`RulesKept` gives each root a name of its own).
- A method is added in place, and nothing flushed, to a class object that is not
  registered (`class_registry.rs:215`), and metaclasses never are: a class method
  added to a class in use may stay hidden by what is cached (`Mutable`).
- `msg_send.rs:82` says "Save all argument-passing registers", and `rax`, which
  tells a method with a C variable argument list how many vector registers
  are used, is not saved: the method finds its own address there
  (`CalleeSeesArguments` leaves `rax` out).
- An exchange is two writes, and `lib.rs:145` says "atomically"
  (`class_registry.rs:262`).
- `retain_release.rs:18` says of the slot lock and the shard lock "never hold
  both simultaneously", and `objc_storeWeak` and `objc_loadWeakRetained` hold both,
  in the order given.
- `sel.rs:52` accepts a name that is not UTF-8 and `loader.rs:177` panics on it.

## 4. Theorems

### The side table (`SideTableProofs`, `WeakSlotProofs`)

For any sets of threads, objects, slots and stripes, any assignment of slots to
stripes, and any finite set of references.

- `TypeCorrect`: `Spec => []TypeOK`, whatever the callers do.
- `Invariance`: `RulesKept => (Spec => []IInv)`, and from it
  `OwnedObjectsLive`, `CountsAreExact`, `WeakNeverDangles`, `LoadersAreSafe`,
  `LoadsFailOnlyDying` and `BirthsAreClean`.
- `ListsAreExact` and `DestroyedStayUnlisted`, which need `~RacyStores` as well: what
  an object lists, or a deallocation is about to zero, is a slot that names it, or in
  the latter case one that was destroyed since (`sidetable_destroyed`); and no entry
  lists a destroyed slot.
- `PromiseIsKept`: `RulesKept /\ ~RacyStores => (Spec => Promise!Spec)`. No caller can
  tell the side table, its locks and the stages of a deallocation from counts that
  change, and weak references that are cleared, in one step.

`RulesKept` is what the callers must do, and it is needed: `-dealloc` does not
take references to `self` (`sidetable_revived`), and an address is not reused
before the release that freed it has removed the entry: either the caller frees
the memory, or no two instances share an address. Racing stores are allowed,
except where said (`sidetable_clobbered`).

The argument. `OwnedIsLive` is not inductive: that a release does not kill an object
somebody else owns rests on `CountIsExact`, which rests on an entry never
belonging to another object (`OneTenant`, `EntriesHaveTenants`), on dying
entries staying marked (`DyingEntries`), and on whoever is inside a store or a
load holding what it works on (`CallsAreBacked`). `WeakIsListed` needs that two
calls never have one slot locked (`StripesExclude`) and that a deallocation
zeroes what it extracted before anything else (`PendingIsZeroing`). `IInv` is the
conjunction; `thread_pools` checks it. There is one lemma per action; `Gain` and
`Loss` say how a count of references changes, `Striking` what removing a
location does to the table. `ListedIsWeak` is the other direction of
`WeakIsListed`; it is inductive together with `IInv` and with `UnusedIsNil` (a slot
that is not initialised holds nothing).

The refinement has one lemma per action of `SideTable`: a last release is a step of
`WeakRefs` that clears every slot of the object at once, and zeroing, `-dealloc` and the
first half of a load change nothing it can see. It needs
`CountIsExact` (the release that finds a count of one is the last), `ListedIsWeak`
(zeroing hits only slots that show `Nil` already), and one more invariant,
`SlotsNameBorn`: a slot never names an object not yet born, or its birth would make
the slot appear to change. The fairness of `WeakRefs` stays with TLC (`sidetable_promise`).

### Threads with pools (`ThreadPoolsProofs`)

- `PoolsUseSideTable`: `PoolsSpec => Spec`, so that every theorem above holds of
  threads with pools.
- `PoolsInvariance`: `RulesKept => (PoolsSpec => []PoolsInv)`, and from it
  `PoolsShareNothing` (a reference is in one place of one pool) and, with `IInv`,
  `PooledObjectsLive`.
- `ThreadsPoolsAreScopes`, whatever the callers do: the pools of a thread implement
  `AutoreleaseScopes` until it ends. `AnyThread` is a constant about which nothing is
  assumed but that it is a thread.
- `PoolsKeepPromise`: `PromiseIsKept` for threads with pools and `objc_loadWeak`.

That what a pool holds is live follows from `OwnedIsLive` once nobody else can
dispose of it: `PoolsInv` says that pooled, leaked and loaded references are
different ones (`PooledOnce`), held by a thread (`PooledHeld`, `LeakedHeld`), and that
what `objc_loadWeak` has retained is its thread's from the moment the slot is
unlocked (`LoadedHeld`). That a pop drains exactly to its mark needs `MarksFit`: marks
are in order and below the end of the list, also of the one a drain will leave.

### Autorelease pools (`AutoreleaseProofs`)

For any objects, and any nesting of pops and `-dealloc`s:

- `AInvariance`: `Spec => []AInv`, and from it `CountsAlwaysAddUp` (each reference is
  owned, pooled or leaked, once) and `TokensAlwaysFit`.
- `PopsRestore`: `Spec => PopRestores`.
- `PoolsAreScopes`: `Spec => ImplementsScopes`; a stack of pools, some of them in
  the hands of a pop, behaves as one list with marks in it. So objects are released
  in the reverse of the order they were autoreleased in, across pools.

The argument. The references to an object are counted by their places, pairs of
a pool and an index (`Places`), the pool a pop has in hand being the last one: so
autoreleasing adds a place and releasing the newest takes one away (`OnePlace`), and
a pool that moves from the stack to the hand keeps its places. That a pop returns
at exactly its depth needs that the stack is at least that deep (`PopsFit`),
which it is at the start because tokens are increasing and below the depth of the
stack (`TokensFit`), and stays because no other pop runs while the stack is
borrowed (`OnePop`). `TokensAreFew` bounds the tokens a `-dealloc` remembers.

The one list is the pools put end to end, by `FlattenSeq`, a recursive function.
The provers cannot instantiate an induction theorem with a predicate, but a
*set* of numbers is a value: `AllNumbers` says that a set with 0 and with the
successor of each of its numbers has them all, and `Flattened` and `FirstsFlattened`
take the set of lengths for which it is as expected. Each action then
changes the last pool, or the number of pools, and so the end of the list.
`ScopesFromEmpty` says that with no scope open no pool is left: the first mark is 0.

### Dispatch (`DispatchProofs`)

For any hierarchy, any threads and any capacity of the caches:

- `TypesKept` and `CachesStaySound`, whatever the threads do at once.
- `DInvariance`: `RulesKept` gives `Spec => []DInv`, and from it `Coherence`
  (`Spec => []CachesCoherent`) and `MessagesSeeChanges`: whichever way a lookup
  ends, in a cache, in a class or at the root, it has what the hierarchy gives.

`RulesKept` of `Dispatch` is the complement of what is listed above as going wrong:
lookups and changes are kept apart (`dispatch_stale_fill`), one thread changes classes at a
time, no class above a metaclass changes while in use (`Changeable`;
where the root metaclass is below the root class, as in a loaded hierarchy,
that takes in the root class), and no two root classes have one name. Names of
other classes may be shared.

The argument. A change leaves caches stale (`MadeStale`: those of classes that had the
method from the changed class), and all of them are on the way of the flush, which
goes down subclass lists: `Reached` is the induction down a chain that `Linked`
(every class that exists is in the list of its superclass) allows. What a
lookup has in hand stays right because no other thread changes anything
meanwhile (`OneChange`, `LookupsApart`, `LookupsCurrent`; `ResolveSame`: a change of
one class leaves the lookups of classes not below it alone), and a list head that
was read is still the head when it is written (`HeadsCurrent`). `DInv` is the
conjunction; `dispatch_dynamic` checks it.

### The trampoline (`MsgSendProofs`)

For any values, any lookup, any stack and any entry by a `call`: `Invariant`
(`Spec => []IInv`), and from it `ArgumentsReachCallee`, `Aligned`, `NilReturnsZero`,
`CallerFrameUntouched`. `IInv` says how far the save or the restore is: `Saved(n)`, the
first `n` lanes are in their words of the frame, and `Kept(n)`, they are in their registers; it
needs that homes of different lanes are different words, all between `rsp` and the
caller's frame (`FrameLayout`, `MoveLayout`), where no handler writes (`BelowFrame`).

### Selectors and the loader (`SelectorsProofs`, `LoaderProofs`)

For any threads, names, addresses and compiled selectors:

- `EqualSelectors`: `SelSpec => []EqualIffSameName`. One direction needs that a
  selector in use has the pointer `NAME_TABLE` has for its name (`UsesInterned`,
  which for a registration in progress is about the pointer it has in hand); the
  other that a pointer spells its name (`InternedSpells`), and that a compiled
  selector is looked up by what it says (`CompiledSpells`).
- `HandedOutStays`: `SelSpec => InternedStays`; a selector is never replaced because
  whoever makes one holds an entry that is empty (`EntriesHeld`).
- `LoaderUsesSelectors`, `Spec => SelSpec`, so that both hold of any
  program whose images are being loaded (`LoadedSelectors`).
- `LoaderInvariance`: `Spec => []LInv`, for any images and any order of the classes
  in them, and from it `ReadyWhenRegistered`, `ChainsComplete` and `ListsAlwaysFollow`.
- `LoadedStaysPut`: `Spec => LoadedStays`, a load leaves classes in use alone.

The first half of `LInv`, `FieldsInv`, says what has been done when `__objc_load` is at a
step: the class it has come to fits the step (`JobFits`), images come after those they
need and are registered whole (`ImagesInOrder`), and what was patched stays so
(`PatchedSoFar`, `MetasSoFar`). It assumes of the compiler that there is no cycle of
superclasses (`NoCycle`), that every class has a metaclass of its own and that class
objects are finitely many (`ImageShape`). The loader looks for the root through the
`super` fields it finds: these are as compiled whatever it has patched
(`ClassFieldsKept`), so the order of the section does not matter. `RootOfIs` says that
the search finds the one class with no superclass above.

The second half, `ListsWired`, says that the words `subclassList` and `sibling` are
lists (`IsList`): `Subclasses(c)` follows the siblings to `Nil` and holds once each class
object that is below `c`; and between the two writes that put one in front, its sibling
is already the head it is to replace. `Subclasses` cuts a list off at the number of class
objects, and `ListFound` shows that this loses nothing: a list without repetitions is no
longer than that. Each write changes one word, of an object that is in no list
(`NextToWire`, `HoldsStill`) or the head of one list (`HoldsOneMore`).

### Model-checked only

Liveness: that deallocations, pops, calls, registrations and loads end
(`DeallocCompletes`, `PopEnds`, `CallsEnd`, `RegistrationEnds`, `LoadEnds`), and the
fairness in `ImplementsPromise`, whose safety part is `PromiseIsKept`. Of the safety
properties the passing runs check every one is a theorem.

## 5. What is not modelled

- other sections than those of selectors and classes, which the loader does not
  read yet; and messages to a class while an image that has a class above it is
  being loaded, whose method list may not be converted;
- the bytes of names (see `sel.rs:52` above) and of method lists: a list is
  converted as a whole;
- struct layouts beyond the fields the loader patches, build
  scripts and headers: no state; the wrappers of `lib.rs` are the actions of what they forward to;
- of a message send, registers the trampoline does not touch: the upper halves of
  `ymm` registers, the x87 stack (a message to nil that returns a `long double`),
  and `al` of calls with variable arguments (see above);
- the order in which a thread's own TLS destructors run;
- reads that change nothing (`objc_retain_count`, `objc_getClass`,
  `class_getInstanceMethod`, `sel_getName`): the properties speak of what they
  would return;
- torn reads of a single word, and a flush or a walk that reads a list node while
  it is initialised: the code publishes nodes after filling them, and on x86-64
  the stores are seen in order;
- overflow of a 64-bit retain count, which no program reaches.

## 6. Plan

Done: `SideTable` and `Autorelease` with their abstract specifications, and the proofs that
they implement them; `ThreadPools`, the composition of the two, with its proofs;
`Dispatch`, `MsgSend`, `Selectors` and `Loader` with their safety proofs.

Left, in this order:

1. A composition of `Loader` and `Dispatch`: the assumptions `Dispatch` makes about
   its initial state (`LoadedShape`, the lists of `MCDispatch`) discharged by the
   loader, and plugins loaded while classes are used and made.
2. A composition of `SideTable` and `Dispatch`: the lookup of `dealloc` in the
   middle of a release, with the cache and the hierarchy it depends on.
3. Abstract specifications of `Loader` (the hierarchy the compiler meant, whose
   classes appear one by one) and of `Dispatch` (a message runs the method the
   hierarchy gives at some moment between its send and its call), and the
   refinements under well-behaved callers.

## 7. Running

In this directory: `tlc -workers 2 -config SideTablePromise.cfg MCSideTable` checks
a run; `tlapm SideTableProofs.tla` checks proofs. `DispatchProofs` and
`AutoreleaseProofs` take about two minutes each, the others one or less, a little
more for `LoaderProofs`.

# A TLA+ model of Memory-Patcher

Memory-Patcher changes a running program. A *core* library is loaded into the
program (`LD_PRELOAD`, or injection on Windows); a *manager* library in another
process compiles the user's hooks and patches into a *patcher library*, and
tells every core, over a socket, what to load, apply and undo. This directory
models the code under `src/src/` in TLA+, checks the models with TLC, and proves
theorems about them with TLAPS. `PROJECT.json` maps every definition to the lines
it stands for.

## 1. Inventory

| Part (source) | State it keeps | Operations | Talks to |
|---|---|---|---|
| **Patcher** (`core/Patcher.cpp`) | `patchGroups_`, `patchGroupQueue_`, the id counter, `isRunning_`, `isRequestStop_`, the thread | `addToQueue`, `undoPatchGroup`, start, stop, destroy, the thread's passes | memory of the process; called by PatchLoader |
| **PatchLoader** (`core/PatchLoader.cpp`) | the hooks and packs of the library, their patch group ids, the saved library state | packets PATCH_*; load and unload the library, hook/pack insert, enable, disable, remove | Patcher, Core (packets), Module |
| **Core** (`core/Core.cpp`) | the socket, `isConnected_`, the receive handlers, the listener thread | handshake, listener loop, DISCONNECT, DETACH, destructor | the manager; the other core parts through handlers |
| **Core plugins** (`core/PluginLoader.cpp`) | a mirror of the manager's plugins | PLUGIN_* packets | Core |
| **CoreManager** (`manager/CoreManager.cpp`) | `cores_`, quit sockets, the listener thread, the core id counter | `startCore`, `endCore`, `endCoreConnection`, handshake, listener, destructor | cores; the managers' handlers |
| **PatchManager** (`manager/PatchManager.cpp`) | hooks, packs, dependants | register, unregister, add, remove, enable, disable, extras; tells the cores | PatchCompiler, CoreManager, SettingsManager |
| **PatchCompiler** (`manager/PatchCompiler.cpp`) | object files, their checksums in the settings, `modified` | compile a hook or a pack, link the library | gcc, SettingsManager, files |
| **PluginManager** (`manager/PluginManager.cpp`) | the plugins, enabled or not, extras | add, remove, enable, disable, set extra | CoreManager, Module |
| **SettingsManager** (`manager/SettingsManager.cpp`) | the settings tree and the defaults | get, set, setDefault, clear, save, load, destructor | a JSON file |
| **Memory, Search** (`common/`) | none of their own: the process's memory and protections | page queries, alignment, protection and copies; searches for bytes, special searches, writes | system calls, Module |
| **Module** (`common/Module.cpp`) | a handle | opens, unloads and moves; segments and symbols | the dynamic loader |
| **Hook, Patch, Info, Misc** (`common/`) | the descriptions of hooks, packs and settings | copies of tagged unions, validity and overlap checks, serialise, deserialise | PatchManager, PatchLoader |
| **stringToArgcArgv** (`manager/`) | none | the arguments of a program from one line | CoreManager, SettingsManager |
| **jsoncpp** (`jsoncpp/`) | a value | conversions, two writers, a reader | SettingsManager |
| **Loggers, SampleLoader** | handler sets only | formatting, an example `main()` | - |

Two processes run concurrently. In the manager: the client's thread, the
listener thread of CoreManager, which runs the managers' handlers, and a process
per started core. In a core: the host program, Core's listener thread, which
runs the handlers of PatchLoader and PluginLoader, and the Patcher's thread.
They share the mutexes `patchGroupsMutex_` (recursive), `coresMutex_`,
`receiveHandlersMutex_` (recursive).

### What is hard, and what makes each part correct

- **Patcher.** Clients add and undo groups while a thread makes passes over the
  queue; a search or a write may throw half way through a group; callbacks run
  inside the pass and may call back. Correct: the queue holds exactly the
  undecided groups; a group is applied whole or retried; undo puts the bytes
  back; nothing starves; stopping ends.
- **CoreManager.** Cores connect, die and are ended while the listener waits in
  `select`; ids and descriptors are recycled by the system but not by the code.
  Correct: every live core is listened to, an end closes that core only, ids are
  never shared.
- **PatchManager.** Hooks and packs refer to each other through iterators into
  vectors that other operations shift. Correct: unregistering a hook takes
  exactly its packs along; no iterator dangles.
- **PatchCompiler.** Compiles only what changed, by checksums in a settings file
  that is written on exit. Correct: the linked library holds the current source
  of what is registered, after failures and crashes too.
- **PatchLoader.** Undoes the old library's hooks before unloading it. Correct:
  the program jumps only into the library that is loaded.
- **Plugins.** The core mirrors the manager's list. Correct: in quiet states the
  two agree.
- **SettingsManager.** Correct: what was set is what is loaded next time.
- **jsoncpp.** Any text may be in a settings file: what a user wrote, or what a
  crash left. Correct: what was written is what is read, what was cut is
  refused, and a number keeps its value in the type it fits.
- **stringToArgcArgv.** Quotes, escapes and spaces nest. Correct: every list of
  arguments has a line that yields it.
- **Search, Memory.** A search crosses pages whose protection differs, makes
  them readable and changes them back, and may throw on the way. Correct: what
  is found is what a reference definition finds, protections are restored, and
  the bytes of an undone patch are the old ones.
- **Hook, Patch.** Nested unions are serialised field by field in two places.
  Correct: the core has what the manager registered, and no two registered
  hooks or packs claim one byte.

`PROJECT.json` lists the hazards, each at its line, with the properties that cover
it; section 6 has those that no property covers.

## 2. Modules, and how they follow the code

| Module | Models | State |
|---|---|---|
| `PatchService` | what the Patcher promises: submit, apply at every match of every patch, expire, withdraw | `image`, `status`, `asked`, `sites`, `damaged`, `failures` |
| `Patcher` | `core/Patcher.cpp` and the scan of `common/Search.cpp` | one variable per member, the thread's position, the memory |
| `MCPatcher` | its instances | - |
| `PatcherProofs` | theorems about the Patcher, the refinement, and what the service promises of it | - |
| `Connection` | sockets and processes, as the code uses them | `process`, `listening`, `backlog`, both ends and both streams of each connection |
| `CoreManager` | `manager/CoreManager.cpp` | `cores_`, the client thread, the listener and its `fd_set`, the quit sockets |
| `Core` | `core/Core.cpp` | main thread, listener thread, `isConnected_`, by core |
| `System`, `MCSystem` | the two composed | all of it |
| `SystemProofs` | theorems about `System` | - |
| `Maps`, `Outcomes` | `std::map`, `std::set` and a loop over a sequence (`Folded`); code that may throw, as an operator from a state to the states it may leave | - |
| `PatchCompiler`, `PatchManager` | `manager/PatchCompiler.cpp`, `manager/PatchManager.cpp` | a record: hooks, packs, objects, checksums, library, packets sent |
| `PatchLoader` | `core/PatchLoader.cpp` | a record: hooks, packs, library, saved state, groups |
| `PatchSystem`, `MCPatchSystem` | the three composed, with packets, exits and kills | both records, the packets under way, the settings file |
| `LoopProofs` | what a loop over `Outcomes` keeps, and what one over a sequence comes to, for any body | - |
| `PatchLoaderProofs`, `PatchProofs` | theorems: the handlers of the core; the manager and the composition | - |
| `SettingsManager`, `MCSettings` | `manager/SettingsManager.cpp` | both trees, the file, whether it is saved on exit |
| `SettingsProofs` | theorems about it | - |
| `PluginHost`, `PluginManager`, `PluginLoader` | `manager/PluginManager.cpp`, `core/PluginLoader.cpp`; the first has what they do alike, and `Module`'s move assignment | a record: plugins, loaded libraries |
| `PluginSystem`, `MCPlugins` | the two composed | both records, the packets under way |
| `PluginProofs` | theorems about it | - |
| `Wire`, `PatchData` | the serialisation of `Misc.h`; the classes of `Search`, `Hook`, `Patch` and `Info` with their checks | - |
| `Memory`, `Search` | `common/Memory.cpp`, `common/Search.cpp`, segments and symbols of `common/Module.cpp` | operators on a memory of bytes and pages |
| `Searching`, `MCSearching` | a hook or a pack from the plugin to the patched bytes | what is registered, sent and received, the memory, the patch in place |
| `SearchingProofs` | theorems about it | - |
| `JsonValue`, `JsonWriter`, `JsonReader` | jsoncpp's `Value`, `StyledWriter`, `FastWriter`, `Reader` | - |
| `ArgcArgv` | `manager/stringToArgcArgv.cpp` | - |
| `JsonDocuments`, `MCDocuments` | a settings file through writes, crashes, reads and the start of a program | the value, the file, what was read |

How a module is read against the code:

- **Patcher.** Each critical section of `patchGroupsMutex_` that another thread
  can observe the middle of is split there: a visit of a group, a callback and
  the rest of the pass are steps, and `LockFree` guards everyone else. The lock
  is recursive, so a callback may undo groups. `addToQueue` is three steps:
  the id, its count, the insertion, because the first two run without the lock.
  A search byte is the set of bytes it accepts; what a write does (`Writes`,
  `MemoryAfter`) is a function of the group. A search may throw whether or not
  its module is loaded (`SearchThrows`), a write and an undo at any result, up to
  `MaxFaults` times, and keep what they have done.
- **System.** The listener's iteration is `select()` without `coresMutex_` and
  then the quit socket and each ready core under it. What `select()` found is a
  variable (`ready`, `quitReady`) because it is used after the lock is taken
  again. `Connection` has end of stream, reset and data that arrives after a
  close. A send on a connection the other side has left raises `SIGPIPE`
  or sets a pending reset, as POSIX says; `fate` is what that makes of the
  manager. The buffers are unbounded: no send blocks.
- **PatchSystem, PluginSystem.** The client of the manager is one thread and the
  core's handlers are one thread, so an operation is one step; what makes them
  hard is how they fail half way. Each is an operator from a state to its
  outcomes, `Then` is `;` under exceptions, and an outcome that threw keeps what
  it had done. Iterators into vectors are indices with the capacity at which
  they were taken: one that is used after a reallocation sets `undefined`, one
  after a shift means another element.
- **SettingsManager.** A tree is a function from the paths that have a branch
  to values. `ToJson` and `FromJson` do what the conversion does: a branch with
  branches below it keeps its value in `__value__`, a branch with nothing is a
  `null`, an empty root is a `null` (which jsoncpp counts as an object) and a
  root with only a value is not written. `LoadFails` and `Writes` have the error
  paths.

- **Searching.** `Memory` is a function from addresses to bytes and one from pages
  to what may be done with them; `alignPage`, `queryPage`, `changeProtection` and
  `safeCopy` are operators on it, and an access that is not allowed is the death of
  the process. `Search` answers with how it went (found, not found, thrown, died,
  or a loop that never ends) and the memory, protections included, as the
  exception leaves it. A special search (data pointer, named and unnamed
  relative and indirect calls) is a search inside a search: what a search comes to
  at one level is a function of what searches come to at the level below, and
  those functions are folded over the levels, up to `Depth`. The application maps and
  unmaps nothing (`MappedPages`), and what throws in a search or a write is
  `queryPage()`, over pages that are not mapped: `mprotect()` never fails by
  itself here, while `Patcher` has failures that no page explains. Serialised data
  is a sequence of items, so that one field too many, too few or in another order
  shows. The sizes in front of sets of addresses count bytes, as `Misc.h:122`
  writes them and `:158` divides them (`PtrBytes`); the others count items, which is
  the same where an element has one byte. The order in which the compiler evaluates the two reads of a
  shared variable is open: it swaps them in one of the outcomes.
- **JsonDocuments.** A text is a sequence of characters, and the reader goes
  through it as the code does: tokens, values, an error that skips, and numbers
  that wrap at their width. A real is counted in tenths. A document ends in the
  terminator of the buffer, which `load()` doubles until the file fits.

Definitions under "Mutant:" are wrong variants of the definition after them: how
the code would go wrong if it were changed in that way. No specification uses
them; each property of a passing run is violated when one takes its place.

## 3. What is checked

| Run | Instance | What it shows |
|---|---|---|
| `patcher` | an executable and a library that may be loaded late; a pack over both that is found twice in one, a hook that meets it, a hook in the library that gives up and writes past its end, a poke undone by its own callback; two ids, one fault, two starts | `QueueExact`, `ImplementsService`, `EventuallyDecided` |
| `patcher_callbacks` | a callback that undoes another group in the middle of a pass; three ids | `PassStaysInQueue`, `QueueExact`, `DestroyCompletes` |
| `patcher_timeout` | as `patcher` | **fails**: a group with a time limit is given up at its first visit (`Patcher.cpp:194` compares the wrong way round) |
| `core_manager` | three cores, two at a time, ids 1 and 2, one packet or call to end a core | `RegisteredIsOpen`, `Listened`, `Watched`, `IdsNotReused`, `DisconnectedAtExit` |
| `core_manager_liveness` | two cores and no packets | `GoneForgotten`, `EndedLeaves`, `DestroyCompletes` |
| `core_manager_restart` | two cores | **fails**: after the last core left, starting one assigns to a joinable `std::thread` (`CoreManager.cpp:492`) |
| `patch_system` | two hooks of two sources, a pack in a hook, a replacing pack; five calls, one fault, one restart | `SkipIsSound`, `WrapperIsLoaded`, `NoOrphanGroup`, `NoSilentDivergence` |
| `patch_assert` | as `patch_system` | **fails**: a core that connects when all is compiled never loads the library, and the first pack asserts (`PatchManager.cpp:245`) |
| `settings` | a name above two others and the empty name, two values; a user who writes four kinds of file that `save()` does not; any number of processes, failed writes and kills | `NoDeadBranch`, `LastSetIsRead`, `KeptIsRestored`, `ExitSparesUnread` |
| `plugins` | two plugins, one enabled by default; six calls, a fault on each side, a core that comes and goes, a manager that exits | `EnabledAreActive`, `EnabledHeard`, `CodeIsLoaded`, `Mirrored` |
| `documents` | every value of up to three nodes and sixteen kinds of leaf; sixteen texts and twenty-three numbers of a user; arguments with both quotes, escapes, spaces and nothing in them | `WrittenIsRead`, `CutIsRefused`, `NumbersAreKept`, `ArgumentsAreKept`, `ConvertibleIsConverted` |
| `searching` | six hooks, twelve packs, each special search, a main program and a module in three memories with different protections | `ReceivedAsSent`, `FoundIsReference`, `MemoryIsRestored`, `RegisteredApart` |

The properties in words:

- `QueueExact`: the queue is exactly the undecided groups, each once.
  `PassStaysInQueue`: a pass that counted its groups pops an empty list only for
  queued groups that its own callbacks withdrew (`withdrawn`), and a callback finds
  its group decided and registered. `patcher_callbacks` reaches the pop, which ends the
  process (`aborted`, `Patcher.cpp:186`); it reaches nothing else that is short of
  groups. `ImplementsService`: the Patcher, without its queue, thread, lock and
  searches, is `PatchService` (refinement mapping `Service`). The service applies a
  group at every match of every patch; a step that fails is no application. The bytes
  it promises nothing of (`damaged`) are those of a failed step and those that two
  results share or one writes past its patch (`Clash`), and all of these happen in the run: results that meet, a relative address that
  runs past its patch, and results of a failed try that are written again though
  the memory has changed. `EventuallyDecided`: a group whose patches are all there
  is not starved. Two threads that add groups would get one id and break
  `QueueExact` (`Patcher.cpp:140`): the runs have one, as the program has.
- `RegisteredIsOpen`: the registry has open connections only, each once.
  `Listened`, `Watched`: a registered core has a listener, and no wake-up is lost
  between filling the `fd_set` and sleeping. `IdsNotReused`: an id means one core.
  `DisconnectedAtExit`: where `~Core` returns, the connection is closed,
  `isConnected_` is cleared and no handler runs, although two threads test and
  clear the flag without a lock (`Core.cpp:256`). The liveness properties: a core that is gone is forgotten, one that is told to go goes,
  and the destructor returns.
- `SkipIsSound`: a compilation is skipped only if the object is of that source.
  `WrapperIsLoaded`: an applied hook jumps into the library that is loaded, to the
  wrapper of the source it was applied with. It says nothing of the functions
  that the wrapper calls then: those of a reloaded hook are addresses from before
  (`PatchLoader.cpp:176`), the model has them (`loaded`), and nothing excludes
  that they are called. `NoOrphanGroup`:
  every group can still be undone by somebody. `NoSilentDivergence`: when all
  packets are handled, core and manager agree, or somebody was told of an error,
  or an iterator that pointed nowhere was used, or a client asked the manager to
  send again what the core had (a core inserts a hook without looking whether
  it is there, and then has it twice), or a kill left a checksum that is not that
  of its object (`ChecksumsAgree`; section 6).
- `NoDeadBranch`: clearing leaves no branch that hides a default, unless a user
  wrote the file. `LastSetIsRead`: `get()` is the value that was last given to
  `set()`, or loaded, under any mix of names above and below each other. A value
  that was the default when it was set is not kept (`SettingsManager.cpp:86`): its
  name reads as the default of now, or as the empty string where there are
  settings below it. `KeptIsRestored`: the next process loads what the last one
  saved, if no user wrote the file and the root was not all that was set. `ExitSparesUnread`: a file that could not be read is not overwritten.
- `EnabledAreActive`: `isCurrentlyEnabled` is what the callbacks were told, though
  they throw. `EnabledHeard`: an enabled plugin was last told of the info it
  has. `CodeIsLoaded`: a listed plugin's library is loaded, and so is one whose
  plugin is being destroyed. `Mirrored`: core and manager agree on every plugin
  that has not itself thrown, also after a client had them sent again.
- `WrittenIsRead`: what either writer wrote is read back whole, except what a text
  cannot tell (`Settled`: the sign type of an integer, a hole in an array, what
  is behind a NUL), and what was read once is read again as it is. `CutIsRefused`:
  a file that a crash cut off is refused unless only its last newline is gone.
  `NumbersAreKept`: an integer of a document is read as itself or as a real,
  except numbers of as many digits as the largest integer, or one more, that
  `decodeNumber` takes for integers because it compares only the last digit
  (`json_reader.cpp:584`); these wrap. `ArgumentsAreKept`: the arguments that a
  user quotes are those of the process, through the settings, the file and the
  command line. `startCore_()` puts nothing between the name of the program and
  the line (`CoreManager.cpp:370`; the Windows variant puts a space, `:319`), so that
  a line which does not begin with a blank has its first argument in `argv[0]`,
  behind the name; the property says so, and that all the others come whole. `ConvertibleIsConverted`: `isConvertibleTo()` says what the
  conversions do, for numbers not wider than `Int`.
- `ReceivedAsSent`: the core reads the hook or pack the manager registered,
  except the module of a named relative call, which is not sent, and shared
  variables that were read in the other order. `FoundIsReference`: a search that
  ends has found places of its bytes that do not overlap, and, without special
  searches, all of them that the reference definition has. `MemoryIsRestored`:
  after a pass that does not throw every page has its protection back, after an
  undo every byte its value, and the process dies only where a result lies on
  two pages. `RegisteredApart`: two registered hooks, or replacements of two
  packs, share no byte, if the later one is not the longer one.

**Why the bounds are enough.** The Patcher's hazards need two groups (starvation,
overlap, undoing another one) or three (a callback that undoes one while a third
waits); the third id also reaches the allocator's limit. A group must be able to meet
another, itself and the end of its own patch, and to find a result stale: five
addresses hold all of it, and one failed step is what makes a result stale. Most
registry hazards need two cores, one coming while the other goes; the end of the
ids needs a third, which finds none left in a manager that still has one. More
than two at a time are symmetric copies. The patch system's need a hook with a pack in it, another hook whose
registration reloads the library, and one failure: five calls reach register,
add, enable, change and remove. The two sources of a hook are only compared
with each other, so that they are symmetric (`SourceSymmetry`; every property is an
invariant). Plugins: erasing from the front and from the
back of the vector needs two. Settings have no bound on steps at all: their
states are finite once the names and the values are. Documents: three nodes are
a container in a container with a leaf; four bits of `Int` and eight of
`LargestInt` have every boundary of the code within reach of short numerals; a
margin of twelve characters makes arrays of two elements exceed it, and a
buffer of sixteen is doubled by most texts. Searching: an address has two bytes
and a page four, so that a search of three bytes crosses pages; two registered
hooks or packs are what an overlap needs.

**What the models reach that a reader of the code should know.** The three runs
that fail quote the comment or the assertion they contradict. Beyond them:

- Groups are undone oldest first (`Patcher.cpp:162`): where two groups share bytes,
  those of the older one come back and then go again.
- `startCore_()` joins the name of the program and its parameters without a space
  (`CoreManager.cpp:370`): parameters that begin with `-a` start a program that is
  told its name is the program's with `-a` at the end.
- A reloaded library's functions are saved by address (`PatchLoader.cpp:176`), so
  an operation that fails after the reload puts back pointers into the library
  that is gone.
- A hook that is sent again is in the core twice (`PatchLoader.cpp:251`).
- `alignPage()` is given a size where it takes an end: of a result on two pages
  only the first is made writable.
- `checkOverlapWith()` takes the other search's size for its own end
  (`Search.cpp:196`): a name search that is longer than the other one can overlap
  it unnoticed.
- `IsIndirectCall` refuses a result only if both of its bytes are wrong.
- The argument parser throws in the child after `fork()` and nothing between it and
  the caller of `startCore()` ends the child (`CoreManager.cpp:372`): with an
  unbalanced quote in the parameters a second manager goes on from there.

**Deadlock** is not checked where the system may stop: when every client is idle
and nothing is queued, when the program has ended, died or hangs in a search,
when a document has been read for the last time, or when the bound on calls is
used up. In `settings` it is checked.

**Fairness.** Patcher: the thread is scheduled, the destructor goes on when it
may, and a call of `addToQueue()` is not left half way; nobody has to call
anything, no module has to be loaded, no clock has to tick. System: the
listener, the join of the destructor and the threads of each core are scheduled;
no core has to be started, to exit or to be ended. These are what the operating
system's scheduler gives every thread; the code adds no priorities and no spin
that could starve one. The other systems have no liveness property and no
fairness.

## 4. What is proved

TLC checks an instance; the theorems hold for every value of the constants. Every
invariant and safety property of the passing runs is proved except those of
`documents`, and `FoundIsReference` of `searching`. Each proof has an inductive
invariant (most are called `IInv`) and a lemma or a step per action.

**The Patcher** (`PatcherProofs`): for every memory, catalogue, callbacks, number of
ids, faults, starts and time bound, `PatcherTypeOK`, `PatcherQueueExact`,
`PatcherPassStaysInQueue`. They assume `OneSubmitter` and nothing else: one thread adds
groups, because in `core/` only the listener does, through the handlers of
PatchLoader; two would get one id. `IInv` adds to the three that each match lies
inside the process (or the type of the memory could not be kept), that an id taken
by `addToQueue` and not yet inserted is not in the map, and what a visit knows of
the group it works on. The lemmas (`AddStep`, `VisitStep`, `CallbackStep`, ...) rest
on lemmas about what appending to, taking from and erasing in the queue does to its
exactness.

**The refinement** (`PatcherProofs`): `PatcherImplementsService`, each step of the
Patcher is one of `PatchService` or none, under the same assumption. Patches may
share bytes, be found again where they are in place and have relative addresses
that run past them: nothing is asked of a catalogue. What that costs is in
`damaged`, and the proof shows that it costs no other address. The invariant
`PatchesInv` goes address by address (`IntactAt`): at one that is not `tainted`, the byte
is the program's own unless the one write of an applied group that has the address
wrote it; that write saved the program's own byte, and no other has the address.
An application keeps it because the matches that share an address are tainted
(`AfterWrites`, `ApplyKeeps`), and an undo because what it puts back at such an
address is the byte from before the last write over it (`RestoredAt`, `UndoKeeps`).
Which of several writes is the last is what `LastWrite` and `LastAt` find. From
there `...Refines` follows each step to one of the service: an application writes
at every match of every patch (`ApplyRefines`), a failed one is a failed one
(`WriteThrowsRefines`, `UndoThrowsRefines`).

Two conclusions are stated for those who use the Patcher: `ProgramStaysIntact`, the
program's bytes stand outside the applied groups, and `AppliedPatchesStand`, what an
applied group wrote stands until it is undone, the addresses in `tainted` aside.

**Cores** (`SystemProofs`): for any number of cores, ids and packets, without any
assumption but `CoreAssumption` (there is a process to start) and
`ManagerAssumption` (there is an id to give), `SystemTypeOK`,
`SystemRegisteredIsOpen`, `SystemListened`, `SystemWatched`, `SystemIdsNotReused`,
`SystemDisconnectedAtExit`. None is inductive. `IInv` adds `Registry` (each id is given
once and below the next one until there is no next one, which is what makes a new
entry of `cores_` new), `Newcomers` (the core that is being started is open and not
registered; what is in the backlog has no connection of the manager's, so
that `accept()` never touches a registered one), `Leaving` (a flag that was cleared
means that the connection is closed, or that one of the two threads is about to
close it) and `Listening` (what `select()`
found readable still is when it is used under the lock, because only the
listener reads, and a core that closed its end does not open it again). `Framed`
says what a step of a core leaves alone. What holds of the registry holds while
the manager is alive: `Alive` guards those parts, because the step that ends the
process may leave them broken.

**Loops** (`LoopProofs`). The operations of the next two systems loop over vectors,
and what was done before an exception stays done. `LoopKeeps` says that a loop
keeps what each pass keeps, for any body: an instance of the module per loop
(`INSTANCE LoopProofs WITH Body <- ...`) takes the place of an induction, which
here would need a theorem with an operator as its parameter. It goes by the least run of
the loop that breaks the claim, with `<` on `Nat` well founded. The second half is
about `Folded`, a loop over the members of a sequence: it is defined for every
number of passes (`FoldDefined`), keeps what a pass keeps (`FoldKeeps`), and comes to
one pass more than without the last member (`FoldMore`, `FoldCounter`).

**Patches** (`PatchLoaderProofs`, `PatchProofs`): from `PatchAssumption` alone, for
any hooks, packs, sources, faults, calls and restarts, `PatchTypeOK`,
`PatchSkipIsSound`, `PatchWrapperIsLoaded`, `PatchNoOrphanGroup`,
`PatchNoSilentDivergence`. The core has `CoreInv`: each group has exactly one owner
(`GroupsOwned`), a pack that is not enabled has none (`DisabledUngrouped`), and
without a library no hook is applied (`ClosedUnapplied`). `HandledAsTold` is what
the core promises: from any state with `CoreInv`, each of the six handlers keeps
it, throwing or not, and one that does not throw does to the hooks, packs and
library what the packet says (`Told`), every hook applied if all were. It is
proved of arbitrary states, so that nothing is assumed about what the manager sends.
On the manager's side each operation is followed through its calls: the packets
sent so far take a core to some hooks and packs (`Reached`), and between the calls
to those that the manager has (`Going`). The two meet in `Attached`: while nobody
was told of an error, the packets under way take the core to what the manager has
(`Path`), what it loads is what was linked last (`Linked`), and every unload is
followed by a load (`LoadFollows`).

**Plugins** (`PluginProofs`): from `PluginAssumption` alone, `PluginTypeOK`,
`PluginEnabledAreActive`, `PluginEnabledHeard`, `PluginCodeIsLoaded`,
`PluginMirrored`. `HostInv` is what either vector keeps also in the middle of a
call. `Mirrors` is the strengthening of `Mirrored` to packets under way: the last
packet about a plugin says what the manager has of it, or there is none and the
core has it already (`Leads`); `Follows` says the same of what one call has sent
so far.

**Settings** (`SettingsProofs`): `SettingsTypeOK`, `SettingsNoDeadBranch`,
`SettingsLastSetIsRead`, `SettingsKeptIsRestored` and the action property
`SettingsExitSparesUnread`. They assume `NoOwnName` (no name has a part called
`__value__`; section 5), besides `SettingsAssumption` and `FileAssumption` (a file
that is missing or torn is not taken for a document). `IInv` says that the
settings have at each name what was last given to `set()` or loaded, or nothing if
that was the default (`KeptSettings`); that a tree has values at names, and branches
that lead to one only (`GoodTree`), and so has the one that the file reads back as,
as long as no user has written it; and that only a process that has loaded saves
on exit.

**Searches** (`SearchingProofs`): for any hooks and packs whose searches are nested
to any `Depth`, any modules, any memories and any size of page,
`RegisteredStayApart`, `WhatIsReadWasSent` and `ProtectionsComeBack`. They assume what the modules' assumptions say
(`WidthAssumption`, `DataAssumption`, `MemoryAssumption`, `SearchAssumption`,
`SearchingAssumption`): that an address has a byte at least, and that a plugin hands over values of the C++ types. The second one is
`ReceivedAsSent`: reading what was written gives back what was written, with the
two exceptions that the property names. Its inductive invariant `SentInv` adds that what is
registered is named, that what was sent is the serialisation of a hook or a pack
that can be (`Sendable`), and that the core has what reading it comes to
(`ReceivedIsRead`). The argument follows the reader through the data: `Reads` says
that a read takes exactly what one write has put in front of the rest, and the
lemmas carry it from an item to a sequence of items (`FieldsRead`), a container
(`ElementsRead`, `ContainerRead`), a search (`SearchIsReadBack`, by the depth to
which special searches are nested), and from there to hooks, patches, settings and
packs (`HookBack`, `PatchBack`, `SettingBack`, `InfoBack`, `PackBack`). The order
of the items, the sizes in front of containers, the type tags of the unions and what
is left for the next reader are all used on the way.

`ProtectionsComeBack` states `MemoryIsRestored`. Its inductive invariant
`RestoreInv` adds to `SentInv` that the patches of a pack are valid (`PacksValid`:
they were checked when it was added, and so have as many bytes to write as to
look for when the core reads them, `QueuedReplaces`), that a memory stays one, and that
a patch in place can be put back (`PatchedKept`): pages are as before it, each
result has kept the bytes from before, and what differs lies in a result. The
argument is layered as the code is:

- `QueryFacts`: the pages that a query gives are runs of pages that are alike, in
  order, each mapped, and hold the range that was asked for. `OldPagesFacts`: what
  is left of them when both ends are cut off is still that.
- `RestoredFacts`: putting such pages back, one after the other, gives each page the
  rights it had, whatever was done to it in between. `OpenedFacts`, `SafeCopyFacts`:
  between the two the range may be written if it lies on one page. That is all
  that can be said, because the size of the range is aligned as an end of it.
- `SearchSearched`, `NameSearched`: a search changes no byte, ends with the memory
  it began with unless it was cut short, and its results do not overlap. Special
  searches search in turn and go down in depth; `AtKeeps` and `SegmentKeeps` go
  through the scan.
- `PatchResultsFacts`: results that do not overlap keep the bytes from before the
  first one. `UndoneFacts`: writing them back in any order leaves nothing else.

**Only model-checked:** the liveness properties (`EventuallyDecided`,
`DestroyCompletes`, `GoneForgotten`, `EndedLeaves`: fairness and `ENABLED` are
beyond the prover); the invariants of JsonDocuments, whose reader and writers are
recursive over texts; and `FoundIsReference`, whose reference looks for the pages of
a module by the name of its file, which says the same as the code where no two
modules share it (a proof would need that as a hypothesis; it has not been
attempted). The three runs that fail are
counterexamples, for which TLC is the proof.


## 5. What is not modelled, and why

- The Windows variants of threads, sockets, injection, modules and memory: the
  Linux ones are modelled, and the control is the same but for the injection.
- The tables of receive handlers, which are filled by the constructors.
- The environment of a PatchManager is assumed to name the library it links:
  `PatchManager.cpp:251` reads `core.patchesLibrary`, while the default is under
  `CoreManager.patchesLibrary` (`SettingsManager.cpp:61`), so without that setting
  a core is told to load `lib` from the working directory.
- Checksums do not collide, and a compiler or linker is a step that works,
  or fails with or without taking its output along. The text of the generated
  source is left out.
- A setting with a part called `__value__`, which collides with the member of
  that name in the file.
- What cores do after the manager's process has gone.
- Of jsoncpp: comments in values, `StyledStreamWriter`, `Path`, iterators, the
  internal map and array, which this build does not compile, and its tests.
  A real number with an exponent.
- How `dladdr()` and `dlopen()` find the file of a name; `split()`, `crc32()` and
  the ostream helpers, which are pure; the two loggers, which format and hand
  on; the sample loader and plugins, which are examples of clients.

## 6. Hazards that no property covers

`PROJECT.json` lists one with the reason: a core that has died is registered until
the listener has seen it, and the second `send()` to it raises `SIGPIPE`
(`CoreManager.cpp:255`). System has it (`fate`), and its invariants are stated of a
manager that is alive. These are known and left out of the list:

- `Patcher.cpp:181`: `isRunning_` is set by the new thread, so that a stop before
  that is lost and a start after it starts a second thread.
- `CoreManager.cpp:563`: an id that was dropped already makes a new entry in
  `cores_`, and descriptor 0 is closed, the standard input (`stdin`). A second one
  closes whatever has taken the descriptor since, which is as far as the model
  goes (`fate` has it as `closed0`).
- `Patcher.cpp:140`: the counter of the ids is read and counted without a lock
  (listed, and out of reach while one thread adds groups).
- `CoreManager.cpp:443`: the listening socket of a start that timed out is left
  open, and the port stays taken (`listening` has it as `leaked`).
- `CoreManager.cpp:478`: a core that dies between the handshake and READY leaves
  `startCore()` reading nothing for ever.
- `CoreManager.cpp:235`: `coresMutex_` is held while a send blocks. The streams of
  the model are unbounded.
- `PatchCompiler.cpp:117`: checksums are saved on a regular exit only, so a manager
  that is killed leaves objects that are newer than the checksums of the settings.
  They are compiled again, unless the older source comes back: exit with source 1,
  compile source 2 and be killed, start once more with source 1, and its checksum
  agrees with the file (`:90-103`) while the object is that of source 2. This
  takes two restarts, one more than the run `patch_system` has; it came out of the
  proof of `NoSilentDivergence`, which therefore names `ChecksumsAgree`.
- `PatchCompiler.cpp:93`: a checksum of 0, and two sources with one checksum.
- `PatchLoader.cpp:137`: the extra settings of a pack that the core knows are not
  taken over when it is sent again.
- `PatchManager.cpp:265` and `:433` with `PatchLoader.cpp:251`: a hook that is sent
  again (excluded in `NoSilentDivergence`).

## 7. Plan

Done, in this order: Patcher with its service and proofs; System and its proofs;
PatchSystem; SettingsManager; PluginSystem; the documents; the searches; the
refinement of the service; the proofs of the settings, the plugins, the patch
system and the searches. Next:

1. *Prove* that a search finds what the reference finds, for modules that are named
   apart; that one argument is read as it was quoted (`ArgcArgv`), once its
   recursion is a recursive function; action properties of the patch system,
   such as: a handler that throws leaves the packs' enabled flags of the other
   packs alone.
2. *Extend*: handlers of the manager that run while its client does; the stream
   between a core and the manager as a buffer of bounded size, in which a send
   blocks; the injection of the Windows variant.

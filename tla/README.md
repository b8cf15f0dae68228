# Verification of alcove

alcove is a Lisp (with the indentation-based dialect *adder*) written in C, with
a Redis-compatible server and a lock-free keyspace in the same process.  This
directory keeps TLA+ models of its code, the TLC configurations that check them
on small instances, and TLAPS proofs for every value of the constants.  Paths
are relative to `src/`.

## 1. The system

### Components, their state and their operations

| component | source | state | operations |
|---|---|---|---|
| epoch reclamation | `epoch.c`, `epoch.h` | global epoch, slot count, one published epoch per registered thread, one retire list per thread | register, tick (publish, collect above the threshold), retire, drain |
| MPSC queue | `mpsc.h` | `head`, `tail`, `stub`, the nodes' `next` | enqueue (two stores), dequeue (five loads, a re-enqueue of the stub), wake descriptor |
| lock-free keyspace | `lfkv.c`, `lfkv.h` | open-addressed array of slots, one atomic entry pointer (value and expiry) per slot, approximate count | set, get/peek, del, set_nx, set_xx, cas, set/get expiry, touch, foreach, evict, clear |
| keyspace watch stream | `resp.c` 137-161, 3575-3856 | enabled flag, queue size, dropped count, waiter flag, wake descriptor | emit (any reactor), watch!, next-event!, wait-event!, drain-events! (main thread) |
| RESP commands | `resp.c` 323-2280 | the keyspace | SET with NX/XX/GET/EX, INCR, APPEND, LPUSH/RPOP, HSET..., each a read, a copy and a compare-and-swap loop |
| RESP connections | `resp.c` 430-776, 2283-2412, 2750-2835 | per client: read and write buffers, state | accept, parse, dispatch, drain, close |
| snapshots | `resp.c` 1100-1300 | child pid, busy flag, `<path>.tmp`, `<path>` | SAVE, BGSAVE (fork, dump, rename), poll (waitpid) |
| reactor pool | `resp.c` 2839-2972, `repl_builtins.h` 465-611 | shards, threads, stop flag | respN_serve, shard start, loop, stop, join, teardown |
| REPL mailbox | `resp.c` 3150-3362 | one-slot mailbox with a condition variable | post a form to the reactor, await the answer |
| user commands | `resp.c` 4195-4345 | registry of Lisp callbacks | redis-defcmd, dispatch under a read-only guard |
| values and refcounts | `alcove.c`, `alcove.h` | cells with `nref`, chunked arenas, free list | refexp, unrefexp, make_* |
| environments | `env.h` | arena of environments, inline slots and spill dictionary | new, lookup, bind, escape, break self cycle |
| cycle collector | `gc.h` | side arrays over the arena | count, mark, sweep |
| weak references | `weak.h` | registry object -> weak cells | weak, deref, clear on free |
| watch hooks | `watch.h` | registry object -> watchers | watch!, unwatch!, notify after a mutation |
| containers | `dict.h`, `set.h`, `deque.h`, `hamt.h`, `vector.h`, `blob.h` | hash tables, ring of nodes, trie, buffers | insert, delete, rehash, slice, persistent update |
| persistence | `persist.h` | image file | savedb/loaddb: tagged records |
| evaluator and VM | `alcove.c`, `compiler_impl.h`, `compiler.h` | bytecode, VM stack | compile, run, tail calls |
| JIT | `jit_common.h`, `jit_amd64.h`, `jit_arm64.h` | code buffers | trace, emit, deoptimise |
| reader, dialect, formatter | `reader.c`, `adr.h`, `adfmt.c`, `pp.h`, `print.h`, `match.h`, `comprehensions.h` | text | parse, desugar, format |
| library | `builtins_*.h`, `numeric.h`, `json.h`, `msgpack.h`, `utf8.h`, `char.h`, `ffi.h` | - | builtins |
| debugger and REPL | `debugger.h`, `repl_builtins.h` | breakpoints, line editor | step, break, inspect |

### Interaction

A reactor (`resp_serve`) is a thread with its own clients, its own arena and its
own epoch slot.  A turn of its loop ticks the epoch, waits for descriptors (for
at most a second), and serves the ready clients: it parses a command and runs
its handler, which reads and compare-and-swaps cells of the one keyspace all
reactors share.  A swap retires the displaced entry through the epoch module and,
when the watch is on, emits an event into the MPSC queue, which the main thread
consumes.  SAVE and BGSAVE walk the keyspace inside a turn; the child of BGSAVE
walks its copy.  User commands call back into the evaluator.  The evaluator's
values are per-thread, except for the blobs and frozen values that the keyspace
holds, whose counts are atomic.

### What is hard

* **Shared entries.**  A reader dereferences an entry that another reactor may
  unlink and retire at any moment; the collector of one reactor scans epochs
  while the others move.
* **Two-store enqueue.**  Between its two stores a producer has taken its place in
  the queue but cannot be reached; the consumer may find the queue in any of
  these states, frees what it is handed, and sleeps on a descriptor.
* **Slots outlive keys.**  A slot is never freed, but a tombstoned one takes
  another key's record: two writers of one key can meet in different slots.
* **Read-copy-swap commands** on one key from several reactors, some of them two
  swaps long (SET with an expiry).
* **Files shared by SAVE, BGSAVE and its polls**, each run by whichever reactor
  got the command.
* **Ownership in the evaluator**: cycles, weak references, hooks that run Lisp in
  the middle of a mutation.

### What makes each component correct

* epoch: nobody reaches a freed entry; an entry is freed once; a live reactor's
  backlog is collected.
* mpsc: first in, first out; no node lost; no write into a node the consumer
  owns; every node handed out.
* watch stream: a blocked consumer wakes for every event; the size count is exact
  and stays near its bound; no event is lost uncounted.
* keyspace: a key has one live entry; a set that reports success is read by the
  next get; every operation returns; no update of the count is lost.  (Where several
  reactors insert and remove keys the first two fail: section 7.)
* commands: no acknowledged update is lost; an expiry belongs to the value it was
  set with.
* snapshots: the file that is renamed into place is one complete dump.
* reactor pool, connections: replies in request order; every joined thread is
  accounted for; the bounded buffers stay bounded.
* evaluator: no live cell is freed, garbage cycles are, hooks fire once.

## 2. Modules

| # | module | role | source |
|---|---|---|---|
| 1 | `Epoch` | the reclamation protocol with its callers | `epoch.c`, `lfkv.c` 66-115, `resp.c` 2839-2972 |
| 2 | `EpochProofs` | proofs about `Epoch` | |
| 3 | `FifoQueue` | abstract: what the queue promises | |
| 4 | `Mpsc` | the queue, implements `FifoQueue` | `mpsc.h` |
| | `MpscProofs` | proofs about `Mpsc` | |
| 5 | `WatchStream` | extends `Mpsc`: emit, wait, drain | `resp.c` 137-161, 3575-3856 |
| | `WatchStreamProofs` | proofs about `WatchStream`, on those of `Mpsc` | |
| 6 | `KvMap` | abstract: a linearizable map with expiries | |
| 7 | `Lfkv` | the table | `lfkv.c`, `lfkv.h` |
| | `LfkvHistory` | `Lfkv` with a history variable; implements `KvMap` where the code does | |
| | `LfkvProofs` | proofs about `Lfkv` and `LfkvHistory` | |
| 8 | `Snapshot` | SAVE, BGSAVE, poll, the files | `resp.c` 1100-1300 |
| | `SnapshotProofs` | proofs about `Snapshot` | |
| 9 | `RespData` | what each command does to one value | `resp.c` 1400-2200 |
| 10 | `RedisKeys` | abstract: atomic commands | |
| 11 | `RespCommands` | the retry loops, implements `RedisKeys` | `resp.c` 1287-2280 |
| | `RespProofs` | proofs about `RespCommands` | |
| 12 | `Heap` | counted values, frames, cascades | `alcove.c`, `env.h`, `weak.h` |
| 13 | `GcCycles` | extends `Heap`: the cycle collector | `gc.h` |
| | `GcProofs` | proofs about `GcCycles` and `Heap` | |
| 14 | `Values` | the values of a program, equality, truth, bounded fixnums | `alcove.h`, `alcove.c` |
| 15 | `Env` | frames, lookup, the four ways of binding a name, the cache generation | `alcove.c`, `env.h`, `builtins_control.h` |
| 16 | `Compiler` | source to bytecode | `compiler_impl.h` |
| 17 | `Builtins` | the builtins that make a lambda or compute a value from values | `builtins_stdlib.h`, `alcove.c` |
| 18 | `Evaluator` | the special forms, the tree walker with its trampoline, and the instructions of the machine | `debugger.h`, `builtins_stdlib.h`, `builtins_control.h`, `compiler_impl.h`, `alcove.c` |
| 19 | `Jit` | the shapes the native compiler knows, and what their kernels compute | `jit_common.h`, `jit_amd64.h` |
| 20 | `Tiers` | one program, one instruction at a time, beside the tree walker | |
| 21 | `Collections` | abstract: maps, sets, sequences, versions of a map | |
| 22 | `Dictionary`, `Deque`, `Vectors`, `Tensors`, `Hamt` | the structures and their builtins, as operators | `dict.h`, `set.h`, `deque.h`, `vector.h`, `hamt.h` |
| 23 | `Hooks` | the registry of watchers and validators | `watch.h` |
| 24 | `Containers` | a container, its hooks and the callbacks; implements `Collections` | `watch.h` and the callers of it |
| 25 | `Image` | savedb and loaddb over all of these | `persist.h`, `hamt.h`, `alcove.c` |
| 26 | `Connection` | the two windows of a client, the parser, one I/O step | `resp.c` 97-134, 440-776, 2172-2412 |
| 27 | `Server` | reactors, connections, the line reader and its mailbox | `resp.c` 2415-2972, 3130-3362, `repl_builtins.h` 465-611 |
| | `ServerProofs` | proofs about `Server` | |

Compositions.  `WatchStream` runs the real queue, load by load.  `RespCommands`
takes an access to the keyspace for one step, which `Lfkv` gives it for some clients and not
for others; its assumption `AtomicAssumption` admits the first only.  `Lfkv` in
turn leaves entry addresses out because `Epoch` shows that one a thread has
loaded is not freed and used again.  `GcCycles` adds the collector to every
program of `Heap`.  `Tiers` stands on everything from `Values` to `Jit`;
`Containers` and `Image` use the same structures; `Server` uses `Connection`, and
takes a request for its length, its replies and whether it binds a global, because
`RespCommands` has what it does to the keyspace.

`Heap` and `GcCycles` count with cardinalities of sets of owners and define reachability as
the least closed set, so that `GcProofs` needs no induction.  The modules of the evaluator, the
structures and the image declare `RECURSIVE` operators, for expressions and values are trees: they
stay with the model checker.

## 3. How the modules correspond to the code

A step is one access to shared memory (an atomic load, store, exchange or
compare-and-swap, a system call), together with the thread-local code up to the
next one.  `pc` names the access a thread is about to make, `reg` holds what it
keeps in locals.  `PROJECT.json` maps every definition to the lines it models.

* **Epoch.**  `Register*` is `epoch_register_thread` (fetch-and-add of the count,
  roll-back when the slots are used up), `Seed*` and `Tick*` are
  `epoch_publish`'s load and store, `GcBegin`, `GcScan`, `GcFree` are the
  bump of the global epoch, the scan slot by slot and the walk of the
  retire list in `epoch_gc`.  `Load`, `Swap` and `Retire` are what a turn of the reactor
  does with an entry of the keyspace: load it, displace it by compare-and-swap,
  retire it under the global epoch.  `ReactorExit` is the `break` out of the loop,
  `Teardown` the drain after the join.
* **Mpsc.**  `Exchange`/`Link` are the exchange of `head` and the store of `next`;
  the dequeue is a step per load with the re-enqueue of the stub.  The consumer
  frees what it is handed, so an address can be enqueued again.  Two history
  variables (`chain`, `excused`) state the promise: the order of the exchanges,
  and whether an enqueue overlapped the dequeue.
* **WatchStream.**  `epc` walks `resp_watch_emit` (enabled flag, size check,
  enqueue, count, waiter flag, signal), `mpc` the builtins of the main thread.
* **Lfkv.**  Per operation of `lfkv.h`: the probe cell by cell, the load of the
  entry, the swap; slots are installed in empty cells or in place of tombstones
  of other keys; `evict` and `clear` walk the table.  The count is an access of its own, after
  the swap it is for (`Raise`, `Lower`: the `fetch_add` and `fetch_sub` at `lfkv.c:64`, 80, 196,
  207, 392, 438 and 527), so that other threads see the one without the other.  Time passes in
  steps, where a request gives a deadline: nothing else looks at it.  `LfkvHistory` adds, per operation, whether its key has been absent at a moment of it:
  a reader that walks past a key which comes and goes answers what was true then, not what is.
* **Snapshot.**  Files are inodes with two parts, each remembering its writer;
  names point to inodes; a child is forked with the paths it was given, may fail
  or be killed, and every reactor polls.
* **RespCommands.**  `Serve` reads the key, computes the copy with `RespData`,
  and swaps, each access to the keyspace one step (section 5); a failed swap retries up to `MaxRetries`; SET with a deadline and
  PERSIST make a second access.
* **Heap.**  A cell owns one reference per edge.  `work` is the rest of a release
  cascade, in the order of `unrefexp_free` and `destroy_env`, with a `NULL` for an empty
  place, as the code passes it to `unrefexp`; the program continues when it is empty.  The collector's view of a type is its `kind`.
* **GcCycles.**  `Interns`, `Roots` and `Marked` are the count, root and mark
  phases as operators on the graph; the sweep is step by step in its five passes, with the
  cascades that `unrefexp` and `destroy_env` start in between.

* **Values to Evaluator.**  An expression and a value are one type, as in the code.
  `Evaluate` is the tree walker with its tail markers; each opcode of `vm_run` is an
  operator on an activation [frame, stack, handlers, pc], which runs its handlers in a step of
  its own when it leaves (`DoReturn`), and the compiler emits the
  opcodes of the code, superinstructions included, in its order of attempts.  A
  function that does not compile (rest, default or pattern parameters, a body that
  captures) is walked, as in the code.  An effect is a print, an assignment or an error.
* **Tiers.**  A program is defined form by form, then `main` is run, an instruction per
  step.  `promised` is what the tree walker answers, prints and binds, with its
  trampoline and as the stepping debugger runs it.
* **Jit.**  A matcher per shape over the bytecode, with the conditions the matcher
  tests and no others, and a kernel that is the loop it emits, over words that wrap;
  `Deopt` is the NULL after which the bytecode runs on the frame the kernel left.
* **Containers.**  A call asks the validator, changes the structure, and tells the
  watchers; `stack` holds the mutators that wait for a callback, which may itself make
  calls.  The structures are concrete: chains of buckets, nodes with links, a buffer with a
  window and an element kind, a heap of counted trie nodes, a probed table with tombstones.
* **Image.**  A file is a sequence of tokens and may be cut at any of them.
* **Connection, Server.**  A byte is the j-th of the k-th request.  `HandleEvents` is the
  function of the same name: slide, grow, read, parse and dispatch until nothing is left,
  flush, flush again if writable, drop.  It is one step, for nothing it touches is shared
  with another thread except what `RespCommands` has.  `ready` is what is left of the
  array that the wait returned.  `Prompt`, `Put`, `Wake`, `Check` are the reader thread
  between its locks, `TakeUnit` and `Evaluate` the two halves of `resp_rl_consume_unit`.

`workload` in `Lfkv`, `Snapshot` and `RespCommands`, `program` in `Tiers`, `scene` in
`Containers` and `mode` and `script` in `Server` are rigid: chosen in `Init`, they never
change.  They stand for what the outside world asks
for, so that one run covers several environments without their product.

## 4. What the runs check

A module `MC...` defines the workload or the scenes of a run and gives the constants
their values; `Epoch`, `Mpsc`, `WatchStream` and `GcCycles` need no workload and are checked as they
are, each under the `.cfg` of its name.

| run | instance | shows |
|---|---|---|
| `epoch` | 3 threads, 2 slots, 1 cell, 2 addresses, 5 epochs | no entry is freed while a reader holds it (`NoUseAfterFree`), or twice (`OwnedOnce`); the grace-period argument of `epoch.h` step by step (`ReaderBehindRetire`); a backlog is collected if no registered reactor has left (`BacklogCollected`) |
| `mpsc` | 3 producers, 3 nodes | the chain is whole and no late link touches a node the consumer owns (`ChainWhole`), the queue is first-in first-out (`RefinesFifo`), and hands everything out (`AllDequeued`) |
| `stream` | 2 producers, 2 nodes, cap 1 | the size is exact and passes the cap by less than the number of reactors (`SizeRight`), a sleeper is always about to be woken (`NoLostWakeup`), a wait without a deadline returns (`WaitServed`) |
| `lfkv` | 2 threads that do not remove, or of which one inserts (over tombstones, with deadlines that pass) and both remove, or 1 with every operation; 3 keys, 2 cells | a key has one slot, and the count is that of the live keys but for the updates under way (`SlotsRight`); every operation takes effect in one step of its call (`Linearizable`); operations return (`OpsReturn`) |
| `lfkv_race` | 2 threads that insert, delete and clear, or let keys lapse | a slot record is in one place and the count is that of the published records with an entry but for the updates under way (`RecordsRight`) |
| `snapshot` | 2 reactors, 2 pids, 3 inodes; background saves that wait for the polls of the last one, or foreground saves of one reactor with the server killed | the file in place is one complete dump and a background save leaves no temporary file (`FilesRight`), saves end (`SaveEnds`) |
| `commands` | 2 reactors that do not remove, or of which one inserts; 1 key, 4 values | commands are atomic (`RefinesRedis`), no empty container stays (`NoEmptyContainer`), deadlines are given (`TtlGiven`), invalidated commands end (`CommandsEnd`) |
| `cycles` | 3 values, 2 frames | counts are exact (`CountsExact`), nothing in use is freed and closures keep their variables (`HeapRight`), a collection condemns exactly the unreachable (`FindsGarbage`) |
| `tiers` | some four thousand programs | the compiled program answers, prints and binds what the walked one does, and so does the debugger (`TiersAgree`); native code agrees with bytecode (`JitAgrees`); every path through the code of a function leaves its operands and slots alike (`WellStacked`); a cached global is what a lookup would find (`CacheFresh`) |
| `jit_fold` | one function, five arguments | violation, see 7 |
| `containers` | 11 scenes of one container each, and one of a db file | every builtin answers and leaves what the abstract collection does (`AnswersRight`), and so does every step with callbacks in between (`Implements`); the structures stay sound (`Sound`); a hook that is registered is found, and its flag set (`HooksRight`); an event tells the whole change, and what was taken away, but for two calls (`EventsTell`); an image restores what was saved, or a prefix of it (`ImageRestores`) |
| `server` | 2 reactors with 2 clients in 6 scripts, or the combined loop with 1 client in 3 and 2 units | `RepliesInOrder`, `DropsOnlyForCause`, `SharedSafely`, `UnitsInStep`, and under fairness `Answered`, `PromptReturns`, `Stops`: see below |

The properties of `server`.  However its bytes are cut into reads and its replies into
writes, a client is told the answers of its requests, each once, whole and in order
(`RepliesInOrder`).  It is dropped for what it did, for a limit that is really exceeded, or
at the end (`DropsOnlyForCause`), and otherwise has all of its answers in the end
(`Answered`).  A callback binds a global only where one reactor serves, and the keyspace is
cleared when none does any more (`SharedSafely`).  Units are evaluated in the order and
under the number they were typed with, and no prompt is drawn over an evaluation
(`UnitsInStep`); the prompt comes back (`PromptReturns`); a stop ends every reactor, and the
pool then clears what it shared (`Stops`).

Each module also has a type invariant or an equivalent (`TypeOK` of `Epoch` is a theorem,
the others are stated beside the state and hold in the runs above).

## 5. Bounds, and why they are enough

* **Epoch**: three threads make a reader, a writer and a collector distinct, and one more
  than the slots exercises the overflow.  Two addresses are the least that let
  one be freed, allocated and published again.  Five epochs cover retire, two
  scans and a wrap-free end; the theorems hold for any bound.
* **Mpsc**: two enqueues in flight behind a third, and reused addresses.
* **WatchStream**: both producers can pass a cap of one before either counts.
* **Lfkv**: two cells for three keys make the table full and probes wrap; two keys share a
  home cell and the third starts at the next (`Collide`), so that every probe meets the others.
* **Snapshot**: two pids (a pid can come back), an inode per name and one held
  open under no name.
* **Lfkv, RespCommands**: the clients are those for which the table is a map.  A key has one slot,
  and an access one moment, as long as no two probes for it can each end in another cell; that takes a
  tombstone, hence a removal, and two that insert.  Without removals any number of threads may
  insert (a theorem: section 8); with them, one may insert and any remove (the run: two threads).  What
  goes wrong for the others is in section 7, and a command on top of it goes wrong in the same way:
  `AtomicAssumption` keeps them out of `RespCommands`, and `RecordsRight` is what is left of `Lfkv`.
* **RespCommands**: one retry bounds the loop (1000 in the code): the swap that fails
  for good needs as many interferences, and the code after it is the same.
  Numbers of two bits overflow.
* **Heap/GcCycles**: three values and two frames with one slot or variable each make every
  shape the phases tell apart: a value holding itself, two-value cycles, a cycle
  through a closure and its frame, a frame reached through a child, a
  closure shared with a survivor, an opaque owner or a watcher beside a cycle.  Two
  references from the C stack at once suffice (`MaxHeld`), to one value or to two,
  for no operation works on more.  With every value in a cycle that an opaque owner
  keeps, nothing more can be allocated: the arena of the instance is exhausted,
  hence `CHECK_DEADLOCK FALSE`.  In `Epoch` it stands because all
  reactors may leave and the epochs are bounded.

* **Tiers**: fixnums of six bits overflow after a few multiplications, words of twelve
  leave room for the wrap of an intermediate result, four slots to a frame are fewer than
  a written program binds, eight constants and three patches fewer than a function may
  need; eight nested calls are the limit of an evaluation.  `Arithmetic` takes every
  operator through numbers, lists and names in both notations, `Control` every form through
  tests and branches that print, assign, call and fail, `Written` has one program for each
  hazard (a tail call under a let, mutual recursion, a redefined global, handlers at several
  depths, an escape), and `Hot` one for each shape of the native compiler at the edges of the
  shape and of the fixnums.
* **Containers**: a table of two buckets is rehashed by the second entry; two keys collide
  in the small one and part in the next; two hash keys of the trie agree in every bit, a third
  parts from them at the second level.  Three elements make a vector slide, grow and change
  kind at either end; two versions share nodes.  A registry of four slots grows at the third
  container; tombstones come from containers that go.
* **Server**: a read buffer that doubles once, a write buffer of three units that a
  reply may overflow, a socket that takes one unit: every reply meets a partial write, and
  windows slide and grow with something in them.  One connection to a reactor makes
  the second one too many.  Two units of the terminal make the second one wait for the first.

Symmetry is used only in `cycles`, which checks no temporal property.

## 6. Fairness

Weak fairness is assumed of what a scheduled thread does without waiting for
anyone, never of a client or of a choice:

* `Epoch`: the loop of each registered reactor: it polls with a timeout of a second
  and so ticks for ever (`resp.c` 2839-2972).
* `Mpsc`: a producer between its two stores, and the consumer, which calls again.
* `WatchStream`: the steps of an emit and of a builtin under way.
* `Server`: the creation of the threads, each reactor (it waits with a timeout of a second,
  so that it looks at the stop flag), the reader thread between its waits, the join, and a client
  that reads what it is sent.  None of what a client sends, of the terminal, of SIGINT.
* `Lfkv`: each step of a running operation; `Snapshot`: a save under way, the polls,
  and a running child; `RespCommands`: a command under way.

No strong fairness is used.  A compare-and-swap may fail for as long as others
interfere: `OpsReturn` therefore speaks of a reactor whose peers make no requests, and
`CommandsEnd` rests on the retry limit of the code.

## 7. What the code does otherwise than it says

With a run:

* `jit_fold` (`jit_amd64.h:1776`): the native fold of f(n) = f(n-1) + f(n-2) starts one too low
  when the base case is tested with `<=`, so that (f 2) answers -1 where the bytecode and
  the tree walker answer 1, against `jit_amd64.h:1757` and `jit_common.h` ("never
  miscompiles").  A build with the native compiler gives the same -1.

Reproduced by hand, from the configuration of a run with the lines named here in place of its
own; `tlc -config <file> <module>` then prints the steps.

| configuration | edits | violated | what happens |
|---|---|---|---|
| `Epoch` | `EPOCH_GC_THRESHOLD = 2`, `MayExit = {t2}`, `Threads = {t1, t2}`, a third pointer `p3` in `Ptrs` | PROPERTY `BacklogBounded` | a reactor whose wait fails leaves its loop (`resp.c:2951`) without making its slot quiescent, which `epoch.h:30` demands, and nothing is collected any more |
| `MCLfkvRace` | `Workloads <- Locks` | PROPERTY `NxInserts` | `slot_install_if_null` (`lfkv.c:387`) stores into a tombstone that a set has just taken out of the table: set_nx answers 1 and the key is absent, against `lfkv.h:104` |
| `MCLfkvRace` | `Workloads <- Locks` | INVARIANT `OneLiveSlot` | a set that replaces a tombstone races one that revives it (`lfkv.c:202`): two live slots of one key, against `lfkv.h:15` |
| `MCLfkvRace` | `Workloads <- Locks` | PROPERTY `NxOnlyIfAbsent` | set_nx takes a lock that is held (`lfkv.c:435`) |
| `MCLfkvRace` | `Workloads <- FullLocks`, `SPECIFICATION FairLfkvSpec` | PROPERTY `NxReturns` | in a full table set_nx spins for ever on a tombstone of its own key (`lfkv.c:442`) |
| `MCLfkvRace` | none | INVARIANT `NeverWraps` | a removal may be counted before the insertion of what it removed: the count is -1, unsigned, for a moment, which DBSIZE answers (`resp.c:918`) and the sweep compares with (`resp.c:404`); `lfkv.h:95` says "approximate is fine" |
| `MCSnapshot` | `Workloads <- OnlyBackground`, `SPECIFICATION SnapSpec` | INVARIANT `DumpIntact` | the loser of `waitpid` clears the shared pid before the winner has renamed (`resp.c:1138`); a new save opens the same temporary file and the winner renames it unfinished, against `resp.c:1124-1125` |
| `MCSnapshot` | `Workloads <- BothKinds`, `SPECIFICATION SnapSpec`, `Pids = {p1}`, `Reactors = {r1}` | INVARIANT `DumpIntact` | SAVE writes the temporary file of a running BGSAVE (`resp.c:1262`), against `resp.c:1247-1248` |
| `MCRespCommands` | `Workloads <- OnlySetsWithTtl`, `SPECIFICATION RespSpec`, `MaxRetries = 0` | PROPERTY `TtlOnOwnValue` | SET peeks again after the store (`resp.c:1396`), so that its identity check compares a replacement with itself and gives it the deadline, against `resp.c:1394-1395` |
| `MCRespCommands` | `Workloads <- OnlyOddFields`, `SPECIFICATION RespSpec`, `MaxRetries = 0`, `MaxClock = 0` | INVARIANT `NoEmptyContainer` | HSET skips a field with a NUL in its name and stores the hash that is left empty (`resp.c:1842`), against `resp.c:1672` |
| `WatchStream` | `MaxDropped = 2`, `Nodes = {n1, n2, n3}`, `SPECIFICATION StreamSpec` | INVARIANT `QueueCapped` | the size check and the count are two steps (`resp.c:3601`): the queue passes the cap of `docs/multithreading.md:305` by one event per other reactor; `OvershootBounded` is what does hold |
| `MCContainers` | none | PROPERTY `OldIsTaken` | the event of `vec-shift!` has the removed element as `:new` and nil as `:old` (`vector.h:1750`), and that of `set-del!` has a value that was no member as `:old` (`set.h:246`), against `watch.h:9-10`, `watch.h:239` and `CHANGELOG.md:336` |
| `MCTiers` | `Programs <- CounterAssigned` | INVARIANT `TiersAgree` | a compiled `for` whose body assigns the counter goes on from the assigned value, a walked one does not, against `compiler_impl.h:843` |
| `MCServer` | `Scripts <- BadFirst`, `Modes = {"pool"}`, `Reactors = {r1}`, `NoRealloc = FALSE` | INVARIANT `OneProtocolError` | the read side is shut down after a frame that does not parse, but the frame stays in the window: what had arrived behind it is parsed again, and the client is told of the error twice, against `resp.c:655` |

Found while modelling, confirmed on a build of the code, and outside what the runs call
agreeing.  The tiers:

* a native kernel is chosen by shape and trusts what it did not test: a base case tested by `is`
  is inverted (`jit_amd64.h:486`); the matchers do not look at the number of parameters; a
  general sum of two calls returns the first answer when it is no fixnum; a kernel that gives up
  after calls with effects runs them again; a `for` that makes no turn answers its
  accumulator instead of nil; ackermann's n+1 and `safe?`'s column wrap at the ends of the
  fixnums; a list that only the frame holds is freed under `is-prime-given` and `safe?`;
  `solve` is recognised by its names alone;
* division of the least fixnum by -1, arithmetic with three operands that leaves the range in
  between, and the order of a type error and a later operand's effect differ between the machine
  and the walker; so do a local function called in infix, a handler in tail position,
  a self call by a shadowed name, a shadowed parameter that is assigned, reserved names bound
  in a compiled let, `=` of a new name inside a let, and a self tail call with
  the wrong number or a pattern of parameters;
* the machine's square root of a negative number does not end (`compiler_impl.h:3234`).

The containers:

* two rationals, or two decimals, that are equal are different keys of a persistent map
  (`hamt_hashkey` takes the address);
* `vec-set!` checks its index before the validator runs, which may shrink the vector;
* a persistent map that holds a value without a dump function is not seen by
  `is_fully_dumpable`, and the whole save fails; a save truncates its file in place;
  an image that is cut short is loaded in part without `GEN_BUMP`, so that compiled code
  may keep the old global;
* a callback that registers watchers moves the registry under `watch_notify`
  (`watch.h:200`), and a watcher that registers itself again is told of its own mutation
  (`Rewatch = TRUE` in `MCContainers.cfg`, INVARIANT `NoRefire`), against the doc string of `watch!`;
* `vec-push!`, `vec-pop!`, `vec-shift!` and `vec-unshift!` never ask the validator;
  `vec-shift!` gives the removed element as `:new`, and nil as `:old`; calls that change nothing fire; numeric
  operations in place that fail leave a prefix changed, and `mat-vec!` writes raw doubles into a
  boxed vector.

The server:

* a failed realloc of the write buffer (`resp.c:488`) counts bytes nobody wrote as pending,
  and the flush sends them before the client is dropped;
* a client that shuts its side down with replies pending is dropped with them unsent;
  a bulk between 16 and 512 MB is legal (`RESP_MAX_BULK`) and never fits (`RESP_RBUF_MAX`);
* a reactor that cannot register stops all the others and leaves its socket open and, when it
  is alone, the keyspace uncleared; one that cannot listen leaves silently; the write end of the wake
  pipe is closed but not forgotten while the reader may write to it (`resp.c:3350`).

Without a counterexample: `gc.h:38-41` and the doc string of `gc-cycles` say that cycles
through closure captures are kept; the code collects them
(`gc_captured_env`, and `docs/closure_env_cycle_leak.md:188`), and `GcCycles` models the
code.

## 8. Proofs

Each theorem below is about the specification without fairness and holds for every value of
the constants that satisfies the named assumptions of its module.  The pattern is the
same throughout: an invariant the runs check is not inductive as it stands, a stronger one is
(it was checked on the run's instance before it was proved), one lemma per action preserves it,
and each theorem follows from a conjunct.

| module | theorem | what it says |
|---|---|---|
| `EpochProofs` | `TypeCorrect` | `Spec => []TypeOK` |
| | `ReclamationSafe` | `Spec => []NoUseAfterFree` |
| | `SingleOwner` | `Spec => []OwnedOnce` |
| | `GracePeriod` | `Spec => []ReaderBehindRetire` |
| `MpscProofs` | `QueueWhole` | `MpscSpec => []ChainWhole` |
| | `QueueIsFifo` | `MpscSpec => RefinesFifo` |
| `WatchStreamProofs` | `StreamKeepsQueue` | `StreamSpec => MpscSpec /\ []ChainWhole /\ RefinesFifo` |
| | `SizeStaysRight` | `StreamSpec => []SizeRight` |
| | `WakeupKept` | `StreamSpec => []NoLostWakeup` |
| `LfkvProofs` | `RecordsStayRight` | `LfkvSpec => []RecordsRight` |
| | `InsertsKeepSlots` | `LfkvSpec /\ OnlyInserts => []SlotsRight` |
| | `InsertsLinearize` | `HistorySpec /\ OnlyInserts => Linearizable` |
| `RespProofs` | `CommandsRefineRedis` | `RespSpec => RefinesRedis`, for the clients of `AtomicAssumption` |
| | `SetGivesTtl` | `RespSpec => TtlGiven` |
| | `ContainersNotEmpty` | under `UsableFields`, `RespSpec => []NoEmptyContainer` |
| `ServerProofs` | `ReactorsShareSafely` | `ServerSpec => []SharedSafely` |
| | `PromptsInStep` | `ServerSpec => []UnitsInStep` |
| `SnapshotProofs` | `DumpsStayWhole` | under `OneReactor` and `OneKind`, `SnapSpec => []FilesRight` |
| `GcProofs` | `GcCountsExact` | `GcSpec => []CountsExact` |
| | `GcHeapRight` | `GcSpec => []HeapRight` |
| | `GcFindsGarbage` | `GcSpec => []FindsGarbage` |

**Epoch.**  `NoUseAfterFree` is not inductive: that a pointer in hand is allocated depends on
which epochs allow it to be freed.  The inductive invariant `IInv` conjoins, with
`TypeOK`,

* `SlotsInv`: slots are distinct and below the count, which exceeds the registered
  threads only by those that are about to roll back;
* `ControlInv`: what each program point implies of registration and registers;
* `EpochInv`: nothing published or stamped is ahead of the global epoch;
* `OwnerInv`: published and displaced entries are disjoint and allocated;
* that held pointers are allocated;
* `GraceInv`: an entry in the hands of a reader is published, or was retired no
  earlier than the epoch that the reader has published, and a scan under way has
  not passed that reader with a greater minimum.

**Mpsc.**  `MpscIInv` says what the two stores of an enqueue leave open: a producer between them
owns the one missing link, from its predecessor to its node, which are adjacent in `chain`
(`LinkInv`); the consumer's copy of the tail is right, and it does not meet the stub again after
it has stepped over it (`ConsumerInv`); the stub is out of the chain when it is about to be
enqueued again, and is then linked as a producer's node is (`StubInv`); an enqueue in flight
is remembered (`ExcuseInv`).  Under the mapping that takes the stub out of the chain every exchange
of a producer is the abstract enqueue, the return of a node the dequeue, and all other
steps stutter.

**WatchStream.**  The steps of the stream are steps of the queue, or leave it alone
(`StreamCalls`), so that `MpscIInv` and the refinement hold inside it.  `SizeInv` counts the emits
that have raised the size but not enqueued yet, `CapInv` those that have passed the
check but not raised it; `WakeInv` says that from the moment the flag is up every enqueue which the main
thread may miss is one whose producer will still see the flag.

**Lfkv.**  `LfkvIInv` ties each program point to the locals that are valid there (`Shape`,
`Reach`), gives every slot record one place, a cell or the hand of one thread, and counts: the count
differs from the records that have an entry by the threads about to raise it and those about to lower
it (`Settled`; threads are finitely many).  It holds for every operation of any number of threads.  That a key has *one* slot does not hold with removals (section 7), so
`InsertInv` is stated for threads that read, insert, overwrite, touch and compare-and-swap
(`OnlyInserts`; a deadline, too, removes): the cells from a key's home to its slot stay occupied
by other keys (`Passed`), and a probe has seen every cell behind it (`Behind`); the probe that claims an
empty cell therefore meets the first insertion of its key.  On this rest `SlotsRight` and the step
simulation of `KvMap`: the swap, or the load that answers, is the step at which an operation takes
effect, its update of the count comes later and changes nothing that a caller of these operations is
told, and a probe that has reached an empty cell has seen its key absent.  With removals, two threads of
which one inserts, and one thread with every operation, are model-checked.

**RespCommands.**  `RespInv` says that a copy about to be swapped in is what its command
makes of the value it was read from, if the key still holds that value (`Reads`), and that its
address is nobody else's (`Unused`).  The second needs that an address in use is never allocated
(`NewObjectIsFresh`), and so `ObjectsAssumption`: there are more addresses than the keyspace and the
other reactors refer to, that is, `malloc` does not run out.  `UsableFields` excludes the HSET of section 7
that leaves an empty hash.

**Server.**  `PhaseInv` is the life of the reactors in either mode; a callback binds a global only
where there is one, because the guard goes up before the first thread starts.  `TermInv` says that
at most one unit is outstanding, that it is the next one, and that whoever draws a prompt has seen
the last one evaluated.  Neither looks into the buffers: of `HandleEvents` the proofs use only what
it leaves alone.

**Snapshot.**  `SnapIInv` has a case for each kind of save.  Of background saves: the pid is that of the one
child until one reactor has reaped it, that reactor commits alone, the paths are kept until
then, and the temporary file is a draft or a whole dump of that child (`OneSave`, `PathsKept`,
`ChildFiles`).  Of foreground saves: one reactor writes, and a kill leaves what a failed save leaves.  The
theorem is about a server of one reactor: it polls and saves in turn, so that the polls of one save are over
when the next begins, whenever that is asked for.  With several reactors this is not so, nothing in
`cmd_bgsave` makes it so, and the property is false (section 7); `SpacedDumps`, the lemma under the
theorem, says that the spacing is all that is missing, and the run has two reactors with it.  `OneKind`
keeps SAVE away from the child of BGSAVE, with which one reactor suffices to go wrong.

**Heap/GcCycles.**  `CountsExact` says nothing while a sweep runs, which is when a count could go
wrong, and a cascade may run through the sound part of the heap at any of its items.  So
`GcInv` counts at every step, for what no collection has condemned (`CellsCounted`, `EnvsCounted`): an edge or
a binding of a condemned owner counts until its item of the sweep is done, a capture, a
parent and a watcher until its owner lets go of it.  With it go

* `SweepRight`: what is left of the sweep is about the condemned, and these live until their
  item in the fourth or the fifth pass;
* `InUse`, `CellsPoint`, `EnvsPoint`: what the program, the cascade and the sound point to is sound;
* `Grounded`: frames are chained without a cycle, for a frame is made after its parent;
* `CutIsDue`: a closure that `env_break_self_cycle` has severed has one owner left, the
  release that frees it.

Between two collections `GcInv` is `HeapInv`, the invariant of reference counting alone
(`Resting`), and `ProgramKeeps` shows that each of the thirteen operations preserves that.
`ReleaseKeeps` is the cascade, in a sweep as outside: a cell whose last reference goes has no
other owner (`OnlyDue`), and the closures cut with a frame are all of its captures.  `SweepKeeps` takes the
items pass by pass.  That a collection may start rests on `GarbageApart`: a count above the
references that COUNT visits has an owner outside (`CellRoot`, `EnvRoot`, by cardinality), so that what
is in use is never condemned; the converse, with `Grounded` for the frames that COUNT does not
discover, gives `FindsGarbage` in full (`GarbageRight`).  `NoDangling` and `ClosuresKeepEnv` are read
off the invariant.

The assumptions on the constants are of three kinds.  `NULL` (0, a null pointer, a nil) is none of the
values it stands for the absence of (`NullAssumption` of `Lfkv`, `RespCommands` and `Heap`, `SnapshotAssumption`).
What the machine bounds is finite: producers, reactors, slot records, addresses, the cells and
the environments of the arena.  And what an operation
is given has the form that the code checks or its only callers give
(`CommandsAssumption`, `LfkvAssumption`).  TLC evaluates them in every run of the module.

Only model-checked, and why:

* every liveness property: fairness and `ENABLED` are beyond the prover;
* `RepliesInOrder`, `DropsOnlyForCause` of `Server`: what was told is a fold over the segments
  of a buffer, and facts about folds need an induction over data, which the installed provers
  cannot instantiate;
* everything of `Tiers`, `Containers` and `Image`, whose operators are `RECURSIVE`;
* `SlotsRight` and `Linearizable` of `Lfkv` with removals and one thread that inserts; with two they
  are false.  So `RefinesRedis` stands on a theorem where no command removes, and on the run `lfkv`, for
  two reactors, where one inserts and commands remove.

## 9. Abstractions, and what is not modelled

* Memory is sequentially consistent.  The code uses acquire/release or stronger
  orders at the accesses that matter and relaxed ones for counts only; weaker
  outcomes are not explored.
* `Snapshot`: the server is killed only while no child runs; the bytes of a dump
  are two parts; the keyspace itself is not in the module.
* `RespCommands`: the off-by-one between the first try and the retries is folded
  into `MaxRetries`; a deadline is computed in the step of the access; the bytes of a
  blob are chunks (a number formatted as a whole, or other text).
* `Lfkv`: entries are values and deadlines; `lfkv_foreach` only reads and
  `lfkv_destroy` runs alone.
* `Heap`: one thread, without the atomic counts of frozen values.  A container has the slots
  of the instance whatever its type; `SetSlot` and `Assign` store before the old value
  is released, where the code releases first: in a cascade only
  `env_break_self_cycle` reads a slot, and it stops at either value.  The side tables of `weak.h`
  and `watch.h` are fields of the value they belong to.  The arena in which frames are
  stacked, and the failure of the collector's own allocations (it then frees nothing), are left out.
* `Tiers`: integers, lists, symbols and functions; no floats, strings, vectors, macros,
  generators or structures.  Functions that `main` calls run inside the step of the call, as
  the recursion of `vm_run` does, and as bytecode: only `main` is run natively.  `Jit` leaves
  out the shapes over floats and vectors, `mark-from` and `count-primes`, and all of the
  encoding; closures, which have no global cache, are never compiled natively.  The
  programs are those on which the tiers are meant to agree: section 7 lists where they do not.
* `Containers`: a callback does not register hooks, and a validator of `vec-set!` does not
  shrink its vector (section 7 has what happens); `mat-vec!` writes to a numeric vector that is not
  its operand; `iso` of vectors takes an integer and the equal double for different; blobs
  are immutable bytes.  Values are a few numbers, symbols and strings.
* `Image`: the bytes of a number or a name are one token, and the file is cut between tokens.
* `Server`: accept, the allocation of a client and the registration of its descriptor do
  not fail; a wait is not interrupted and does not fail (`Epoch` has that); the wake
  descriptor of a shard has no producer in the code and is left out; one accept round takes
  the whole backlog (32 in the code); the reallocs of one turn fail together or not at all;
  the kernel keeps what was written when the server closes; `select` and `epoll` differ only in
  the write interest and in what a hang-up reports.  The combined loop reads a terminal; input
  from a pipe, which the loop accumulates itself, is not modelled.
* Not modelled: the reader, the formatter, the numeric and text libraries, the foreign
  functions, the debugger's commands and the line editor, which are sequential functions on text
  and values or terminal input and output; the encoding of instructions, and all of the
  arm64 compiler, which repeats the shapes of the other.

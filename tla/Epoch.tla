------------------------------- MODULE Epoch -------------------------------
(* Epoch-based reclamation of the entries of the lock-free keyspace        *)
(* (epoch.c), driven by the reactor loop of resp.c.                        *)
(*                                                                         *)
(* A cell is an atomic entry pointer (lfslot_t.entry in lfkv.c).  Every    *)
(* reactor runs turns: between two calls of epoch_tick it loads cells and  *)
(* dereferences what it loaded, and swaps cells by compare-and-swap, each  *)
(* swap retiring the entry it displaced.  Each step below is one atomic    *)
(* access to shared memory, in program order.                              *)
EXTENDS Integers, FiniteSets

CONSTANTS Threads,            \* the reactor threads
          Main,               \* the thread that joins the others (respN_serve)
          MayExit,            \* the threads whose reactor loop can end
          Cells,              \* the entry pointers shared by the reactors
          Ptrs,               \* the addresses malloc can return for an entry
          NULL,
          EPOCH_MAX_THREADS,  \* registration slots
          EPOCH_GC_THRESHOLD, \* retire_count at which a tick collects
          UINT64_MAX          \* the bound on epoch_global

ASSUME EpochAssumption ==
    /\ Main \in Threads
    /\ MayExit \subseteq Threads
    /\ IsFiniteSet(Threads)
    /\ NULL \notin Ptrs
    /\ EPOCH_MAX_THREADS \in Nat \ {0}
    /\ EPOCH_GC_THRESHOLD \in Nat
    /\ UINT64_MAX \in Nat \ {0, 1}

VARIABLES epoch_global,    \* the global epoch
          epoch_nthreads,  \* slots handed out
          epoch_my_idx,    \* thread-local slot index, -1 before registration
          quiescent,       \* per slot: the published epoch, 0 = not yet
          retire_list,     \* per thread: the retired entries with their epochs
          cells,           \* the published entry of each cell
          allocated,       \* addresses malloc handed out and free has not taken
          held,            \* per thread: pointers it loaded in this turn
          pc,              \* per thread: the next shared-memory access
          reg              \* per thread: the values it keeps in registers

sharedVars == <<epoch_global, epoch_nthreads, quiescent, retire_list, cells, allocated>>
vars == <<sharedVars, epoch_my_idx, held, pc, reg>>

Slots == 0 .. EPOCH_MAX_THREADS - 1
Retired == [ptr : Ptrs, epoch : Nat]

\* Registers: g an epoch just read; n, i, min the scan of epoch_min_quiescent;
\* old the entry a swap displaced.
Registers == [g : Nat, n : 0 .. EPOCH_MAX_THREADS, i : 0 .. EPOCH_MAX_THREADS,
              min : Nat, old : Ptrs \cup {NULL}]
Scan(n, i, min) == [g |-> 0, n |-> n, i |-> i, min |-> min, old |-> NULL]
Cleared == Scan(0, 0, 0)

Steps == {"off", "overflow", "seed_load", "seed_store", "turn", "retire",
          "tick_store", "gc_begin", "gc_scan", "gc_free", "exited"}

Registered(t) == epoch_my_idx[t] # -1
Epochs(t) == {e.epoch : e \in retire_list[t]}
retire_count(t) == Cardinality(retire_list[t])
Goto(t, step) == pc' = [pc EXCEPT ![t] = step]

Init == /\ epoch_global = 1
        /\ epoch_nthreads = 0
        /\ epoch_my_idx = [t \in Threads |-> -1]
        /\ quiescent = [s \in Slots |-> 0]
        /\ retire_list = [t \in Threads |-> {}]
        /\ cells = [c \in Cells |-> NULL]
        /\ allocated = {}
        /\ held = [t \in Threads |-> {}]
        /\ pc = [t \in Threads |-> "off"]
        /\ reg = [t \in Threads |-> Cleared]

-----------------------------------------------------------------------------
(* epoch_register *)

HasSlotMut == epoch_nthreads <= EPOCH_MAX_THREADS
HasSlot == epoch_nthreads < EPOCH_MAX_THREADS

\* Take a slot, or find that there is none left.
RegisterSlot(t) ==
    /\ pc[t] = "off"
    /\ epoch_nthreads' = epoch_nthreads + 1
    /\ IF HasSlot
       THEN /\ epoch_my_idx' = [epoch_my_idx EXCEPT ![t] = epoch_nthreads]
            /\ Goto(t, "seed_load")
       ELSE /\ UNCHANGED epoch_my_idx
            /\ Goto(t, "overflow")
    /\ UNCHANGED <<epoch_global, quiescent, retire_list, cells, allocated, held, reg>>

\* Roll the count back; resp_serve returns without serving.
RegisterRollback(t) ==
    /\ pc[t] = "overflow"
    /\ epoch_nthreads' = epoch_nthreads - 1
    /\ Goto(t, "exited")
    /\ UNCHANGED <<epoch_global, epoch_my_idx, quiescent, retire_list, cells,
                   allocated, held, reg>>

-----------------------------------------------------------------------------
(* epoch_update_quiescent: a load of the global epoch, then a store of it. *)

ReadGlobal(t) == reg' = [reg EXCEPT ![t].g = epoch_global]

PublishMut(t) == quiescent' = [quiescent EXCEPT ![epoch_my_idx[t]] = IF @ = 0 THEN reg[t].g ELSE @]
Publish(t) == quiescent' = [quiescent EXCEPT ![epoch_my_idx[t]] = reg[t].g]

SeedLoad(t) ==
    /\ pc[t] = "seed_load"
    /\ ReadGlobal(t)
    /\ Goto(t, "seed_store")
    /\ UNCHANGED <<sharedVars, epoch_my_idx, held>>

SeedStore(t) ==
    /\ pc[t] = "seed_store"
    /\ Publish(t)
    /\ retire_list' = [retire_list EXCEPT ![t] = {}]
    /\ Goto(t, "turn")
    /\ UNCHANGED <<epoch_global, epoch_nthreads, epoch_my_idx, cells, allocated,
                   held, reg>>

\* The loop top: no command is in flight, so the pointers loaded in the turn
\* are dropped, and the tick reads the global epoch.
TickLoad(t) ==
    /\ pc[t] = "turn"
    /\ held' = [held EXCEPT ![t] = {}]
    /\ ReadGlobal(t)
    /\ Goto(t, "tick_store")
    /\ UNCHANGED <<sharedVars, epoch_my_idx>>

TickStore(t) ==
    /\ pc[t] = "tick_store"
    /\ Publish(t)
    /\ Goto(t, IF retire_count(t) >= EPOCH_GC_THRESHOLD THEN "gc_begin" ELSE "turn")
    /\ UNCHANGED <<epoch_global, epoch_nthreads, epoch_my_idx, retire_list, cells,
                   allocated, held, reg>>

-----------------------------------------------------------------------------
(* A turn: what the keyspace operations do to the cells. *)

\* Load a cell; the pointer stays usable until the next tick.
Load(t, c) ==
    /\ pc[t] = "turn"
    /\ cells[c] # NULL
    /\ held' = [held EXCEPT ![t] = @ \cup {cells[c]}]
    /\ UNCHANGED <<sharedVars, epoch_my_idx, pc, reg>>

\* The bound: every swap under way still has an epoch to retire with.
EpochRoom == epoch_global + Cardinality({t \in Threads : pc[t] = "retire"}) < UINT64_MAX - 1

\* A compare-and-swap that succeeds: the cell still has the value the thread
\* loaded, and takes a freshly allocated entry, or NULL (a deletion).
Swap(t, c, new) ==
    /\ pc[t] = "turn"
    /\ cells[c] \in held[t] \cup {NULL}
    /\ new # cells[c]
    /\ EpochRoom
    /\ cells' = [cells EXCEPT ![c] = new]
    /\ allocated' = allocated \cup ({new} \ {NULL})
    /\ IF cells[c] = NULL
       THEN UNCHANGED <<pc, reg>>
       ELSE /\ reg' = [reg EXCEPT ![t].old = cells[c]]
            /\ Goto(t, "retire")
    /\ UNCHANGED <<epoch_global, epoch_nthreads, quiescent, retire_list,
                   epoch_my_idx, held>>

RetireEpochMut == epoch_global - 1
\* The value before the increment.
RetireEpoch == epoch_global

\* epoch_retire: stamp the displaced entry, then queue it on the own list; an
\* entry for which malloc finds no node is leaked.
Retire(t) ==
    /\ pc[t] = "retire"
    /\ epoch_global' = epoch_global + 1
    /\ retire_list' \in {retire_list,
           [retire_list EXCEPT ![t] = @ \cup {[ptr |-> reg[t].old, epoch |-> RetireEpoch]}]}
    /\ reg' = [reg EXCEPT ![t].old = NULL]
    /\ Goto(t, "turn")
    /\ UNCHANGED <<epoch_nthreads, quiescent, cells, allocated, epoch_my_idx, held>>

-----------------------------------------------------------------------------
(* epoch_gc: the scan of the published epochs, then the sweep of the own    *)
(* list.                                                                    *)

ScanLength == IF epoch_nthreads > EPOCH_MAX_THREADS THEN EPOCH_MAX_THREADS
              ELSE epoch_nthreads

GcBegin(t) ==
    /\ pc[t] = "gc_begin"
    /\ reg' = [reg EXCEPT ![t] = Scan(ScanLength, 0, UINT64_MAX)]
    /\ Goto(t, "gc_scan")
    /\ UNCHANGED <<sharedVars, epoch_my_idx, held>>

\* A slot whose thread has not published yet does not count.
Lower(min, q) == IF q # 0 /\ q < min THEN q ELSE min

GcScan(t) ==
    /\ pc[t] = "gc_scan"
    /\ IF reg[t].i < reg[t].n
       THEN /\ reg' = [reg EXCEPT ![t] =
                  Scan(reg[t].n, reg[t].i + 1, Lower(reg[t].min, quiescent[reg[t].i]))]
            /\ UNCHANGED pc
       ELSE /\ UNCHANGED reg
            /\ Goto(t, "gc_free")
    /\ UNCHANGED <<sharedVars, epoch_my_idx, held>>

CollectableMut(t) == {e \in retire_list[t] : e.epoch <= reg[t].min}
Collectable(t) == {e \in retire_list[t] : e.epoch < reg[t].min}

RemainingMut(t) == retire_list[t]
Remaining(t) == retire_list[t] \ Collectable(t)

GcFree(t) ==
    /\ pc[t] = "gc_free"
    /\ IF reg[t].min = UINT64_MAX
       THEN UNCHANGED <<retire_list, allocated>>
       ELSE /\ allocated' = allocated \ {e.ptr : e \in Collectable(t)}
            /\ retire_list' = [retire_list EXCEPT ![t] = Remaining(t)]
    /\ reg' = [reg EXCEPT ![t] = Cleared]
    /\ Goto(t, "turn")
    /\ UNCHANGED <<epoch_global, epoch_nthreads, quiescent, cells, epoch_my_idx, held>>

-----------------------------------------------------------------------------
(* The end of a reactor and the shared teardown. *)

\* resp_serve returns: from its loop (a stop request, a failed wait), or
\* before registering (the listen failed).  Its slot keeps its last epoch.
ReactorExit(t) ==
    /\ t \in MayExit
    /\ pc[t] \in {"off", "turn"}
    /\ held' = [held EXCEPT ![t] = {}]
    /\ Goto(t, "exited")
    /\ UNCHANGED <<sharedVars, epoch_my_idx, reg>>

AllJoinedMut == pc[Main] = "exited"
AllJoined == \A t \in Threads : pc[t] = "exited"

\* resp_serve_shared_teardown: clear the keyspace and drain the own list.
Teardown ==
    /\ AllJoined
    /\ Registered(Main)
    /\ \/ retire_list[Main] # {}
       \/ \E c \in Cells : cells[c] # NULL
    /\ allocated' = allocated \ ({cells[c] : c \in Cells}
                                 \cup {e.ptr : e \in retire_list[Main]})
    /\ retire_list' = [retire_list EXCEPT ![Main] = {}]
    /\ cells' = [c \in Cells |-> NULL]
    /\ UNCHANGED <<epoch_global, epoch_nthreads, quiescent, epoch_my_idx, held, pc, reg>>

-----------------------------------------------------------------------------
Turn(t) == \/ \E c \in Cells : Load(t, c)
           \/ \E c \in Cells, new \in (Ptrs \ allocated) \cup {NULL} : Swap(t, c, new)

\* What a reactor does without anybody asking.
Loop(t) == \/ SeedLoad(t) \/ SeedStore(t)
           \/ TickLoad(t) \/ TickStore(t)
           \/ Retire(t)
           \/ GcBegin(t) \/ GcScan(t) \/ GcFree(t)

Next == \/ \E t \in Threads : \/ RegisterSlot(t) \/ RegisterRollback(t)
                              \/ Loop(t) \/ Turn(t) \/ ReactorExit(t)
        \/ Teardown

\* A live reactor keeps looping: its wait times out after a second.
Fairness == \A t \in Threads : WF_vars(Loop(t))

Spec == Init /\ [][Next]_vars
FairSpec == Spec /\ Fairness

-----------------------------------------------------------------------------
TypeOK ==
    /\ epoch_global \in Nat
    /\ epoch_nthreads \in Nat
    /\ epoch_my_idx \in [Threads -> Slots \cup {-1}]
    /\ quiescent \in [Slots -> Nat]
    /\ retire_list \in [Threads -> SUBSET Retired]
    /\ cells \in [Cells -> Ptrs \cup {NULL}]
    /\ allocated \subseteq Ptrs
    /\ held \in [Threads -> SUBSET Ptrs]
    /\ pc \in [Threads -> Steps]
    /\ reg \in [Threads -> Registers]

\* No reactor can reach freed memory: what it loaded in this turn, and what a
\* cell points to, is still allocated (epoch.h, "Correctness").
NoUseAfterFree ==
    /\ \A t \in Threads : held[t] \subseteq allocated
    /\ \A c \in Cells : cells[c] \in allocated \cup {NULL}

\* An entry is owned once: it is in at most one cell, waits on at most one
\* retire list, and never does both (its freer would run twice, or on a live
\* entry).
OwnedOnce ==
    /\ \A c, d \in Cells : cells[c] = cells[d] /\ cells[c] # NULL => c = d
    /\ \A t \in Threads : \A e \in retire_list[t] :
          /\ \A c \in Cells : cells[c] # e.ptr
          /\ \A u \in Threads : \A f \in retire_list[u] :
                e.ptr = f.ptr => t = u /\ e = f

\* The argument of epoch.h: a reactor that can still reach a retired entry
\* published its epoch before the entry was stamped, so the collector, which
\* asks for a strictly greater one, must wait for its next tick.
ReaderBehindRetire ==
    \A t, u \in Threads : \A e \in retire_list[t] :
        e.ptr \in held[u] => /\ quiescent[epoch_my_idx[u]] # 0
                            /\ quiescent[epoch_my_idx[u]] <= e.epoch

\* The bound epoch.h claims for the lists: the backlog of a serving reactor
\* that has reached the threshold is eventually collected below it.
BacklogBounded ==
    \A t \in Threads :
        retire_count(t) >= EPOCH_GC_THRESHOLD
            ~> retire_count(t) < EPOCH_GC_THRESHOLD \/ pc[t] = "exited"

\* What the code grants of it: the same, as long as no reactor that holds a
\* slot has left its loop.
BacklogCollected ==
    \A t \in Threads :
        retire_count(t) >= EPOCH_GC_THRESHOLD
            ~> \/ retire_count(t) < EPOCH_GC_THRESHOLD
               \/ \E u \in Threads : Registered(u) /\ pc[u] = "exited"
=============================================================================

----------------------------- MODULE LfkvProofs -----------------------------
(* Proofs about Lfkv: for any number of reactors, keys and cells, and       *)
(* whatever the reactors ask for, a slot record is in one place, and the    *)
(* count, with the updates of it that are under way, counts the published   *)
(* records that have an entry.                                              *)
EXTENDS LfkvHistory, FiniteSetTheorems, TLAPS

USE LfkvAssumption, NullAssumption

-----------------------------------------------------------------------------
(* The inductive invariant *)

Pcs == {"idle", "probe", "probe_entry", "replace", "replace_cas",
        "tomb_load", "tomb_entry", "tomb_cas", "claim", "scan",
        "nx_load", "nx_install", "load", "expire", "update",
        "walk", "walk_entry", "walk_cas", "raise", "lower"}

\* The steps at which a thread has a fresh slot of its own,
Owning == {"tomb_load", "tomb_entry", "tomb_cas", "claim", "scan"}
\* and those at which it has found a slot.
Holding == {"probe_entry", "replace", "replace_cas", "tomb_entry", "tomb_cas", "nx_load",
            "nx_install", "load", "expire", "update", "walk_entry", "walk_cas"}
Updates == {"del", "cas_null", "set_xx", "set_expiry", "touch", "cas"}

\* What the program counter p says of the operation c,
Serves(p, c) ==
    /\ c \in Calls
    /\ (c.op \in Writes) = (c.val # NULL)
    /\ p \in {"walk", "walk_entry", "walk_cas"} => c.op \in Walks
    /\ c.op \in Walks => p \in {"walk", "walk_entry", "walk_cas", "lower"}
    /\ p = "raise" => c.op \in {"set", "set_nx"}
    /\ p \in Owning => c.op \in {"set", "set_nx"}
    /\ p \in {"replace", "replace_cas"} => c.op = "set"
    /\ p \in {"nx_load", "nx_install"} => c.op = "set_nx"
    /\ p = "load" => c.op \in Updates \cup {"get", "get_expiry"}
    /\ p = "expire" => c.op \in Updates \cup {"get", "get_expiry", "set_nx"}
    /\ p = "update" => c.op \in Updates

\* and of the locals l.
Shape(p, l, c) ==
    /\ p \in Pcs
    /\ l \in Locals
    /\ IF p = "idle" THEN c = NULL ELSE Serves(p, c)
    /\ l.f # NULL <=> p \in Owning
    /\ p \in Holding => l.s # NULL
    /\ p \in {"probe_entry", "walk_entry", "walk_cas"} => l.n < NSlots
    /\ p = "lower" /\ c.op \in Walks => l.n < NSlots
    /\ p \in {"tomb_load", "tomb_entry", "tomb_cas"} => l.tomb # None
    /\ p \in {"update", "expire", "walk_cas"} => l.e # NULL

\* The cells and the slot that the locals point to are there for good.
Reach(p, l) ==
    /\ l.s # NULL => slot[l.s] # NULL /\ \A u \in Threads : reg[u].f # l.s
    /\ l.tomb # None => table[l.tomb] # NULL
    /\ p = "probe_entry" => table[l.i] # NULL

\* A fresh slot has its entry.
Owned(f) == f # NULL => slot[f] # NULL /\ slot[f].entry # NULL

ThreadInv == \A t \in Threads : /\ Shape(pc[t], reg[t], call[t])
                                /\ Reach(pc[t], reg[t])
                                /\ Owned(reg[t].f)

\* A cell points to a slot that is allocated.
CellInv == \A c \in Cells : table[c] # NULL => slot[table[c]] # NULL

\* SlotOnce, cell by cell and thread by thread.
OnceInv ==
    /\ \A c, d \in Cells : table[c] = table[d] /\ table[c] # NULL => c = d
    /\ \A c \in Cells, t \in Threads : table[c] # NULL => table[c] # reg[t].f
    /\ \A t, u \in Threads : reg[t].f = reg[u].f /\ reg[t].f # NULL => t = u

\* The records that are counted.
Counted == {s \in Records : /\ \A t \in Threads : reg[t].f # s
                            /\ slot[s] # NULL
                            /\ slot[s].entry # NULL}
CountInv == Settled = Cardinality(Counted)

LfkvIInv == LfkvTypeOK /\ ThreadInv /\ CellInv /\ OnceInv /\ CountInv

-----------------------------------------------------------------------------
(* Steps by what they do to the table *)

\* Thread t goes on to p with the locals l and the operation c.
Moves(t, p, l, c) ==
    /\ pc' = [pc EXCEPT ![t] = p]
    /\ reg' = [reg EXCEPT ![t] = l]
    /\ call' = [call EXCEPT ![t] = c]
    /\ UNCHANGED <<workload, clock>>

\* The cell after the last is the first.
LEMMA NextCell ==
    ASSUME NEW c \in Cells
    PROVE  next(c) \in Cells
BY DEF Cells, next

\* An idle thread points to nothing.
LEMMA IdleLocals ==
    ASSUME NEW c \in Cells
    PROVE  /\ Fresh(c) \in Locals
           /\ Fresh(c).f = NULL /\ Fresh(c).s = NULL /\ Fresh(c).tomb = None
           /\ Fresh(c).i = c /\ Fresh(c).n = 0
BY DEF Fresh, Locals, Cells, None

\* A step leaves the types of everything but the table.
LEMMA MoveTypes ==
    ASSUME LfkvIInv, NEW t \in Threads, NEW p, NEW l, NEW c,
           Moves(t, p, l, c), Shape(p, l, c)
    PROVE  /\ workload' \in Workloads
           /\ call' \in [Threads -> Calls \cup {NULL}]
           /\ clock' \in 0 .. MaxClock
           /\ \A u \in Threads : (call'[u] = NULL) = (pc'[u] = "idle")
           /\ pc' \in [Threads -> Pcs]
           /\ reg' \in [Threads -> Locals]
<1>1. c \in Calls \cup {NULL} /\ (c = NULL) = (p = "idle")
    BY DEF Shape, Serves
<1>2. p \in Pcs /\ l \in Locals
    BY DEF Shape
<1>3. pc \in [Threads -> Pcs] /\ reg \in [Threads -> Locals] /\ call \in [Threads -> Calls \cup {NULL}]
    BY DEF LfkvIInv, LfkvTypeOK, Pcs
<1>4. \A u \in Threads : (call[u] = NULL) = (pc[u] = "idle")
    BY DEF LfkvIInv, LfkvTypeOK
<1>5. \A u \in Threads : (call'[u] = NULL) = (pc'[u] = "idle")
    BY <1>1, <1>2, <1>3, <1>4 DEF Moves
<1> QED
    BY <1>1, <1>2, <1>3, <1>5 DEF Moves, LfkvIInv, LfkvTypeOK

\* A step of thread t to p adds it to the threads that have to count, or takes
\* it from them.
Due(p) == (IF p = "raise" THEN 1 ELSE 0) - (IF p = "lower" THEN 1 ELSE 0)

\* The count of a finite set with one element more or less.
LEMMA CountOne ==
    ASSUME NEW A, NEW s, IsFiniteSet(A)
    PROVE  /\ Cardinality(A) \in Nat
           /\ s \in A => Cardinality(A \ {s}) = Cardinality(A) - 1
           /\ s \notin A => Cardinality(A \cup {s}) = Cardinality(A) + 1
BY FS_CardinalityType, FS_AddElement, FS_RemoveElement

\* The threads at one place,
At(place) == {u \in Threads : pc[u] = place}

\* after a step of thread t.
LEMMA AtPlace ==
    ASSUME NEW place, NEW t \in Threads, NEW p, pc \in [Threads -> Pcs],
           pc' = [pc EXCEPT ![t] = p]
    PROVE  /\ Cardinality(At(place)) \in Nat
           /\ p = place /\ pc[t] # place => Cardinality(At(place)') = Cardinality(At(place)) + 1
           /\ p # place /\ pc[t] = place => Cardinality(At(place)') = Cardinality(At(place)) - 1
           /\ (p = place <=> pc[t] = place) => Cardinality(At(place)') = Cardinality(At(place))
<1> DEFINE A == At(place)
           B == At(place)'
<1>1. IsFiniteSet(A) /\ Cardinality(A) \in Nat
    BY FS_Subset, FS_CardinalityType DEF At
<1>2. ASSUME p = place, pc[t] # place
      PROVE  Cardinality(B) = Cardinality(A) + 1
    <2>1. B = A \cup {t} /\ t \notin A
        BY <1>2 DEF At
    <2>2. Cardinality(A \cup {t}) = Cardinality(A) + 1
        BY <1>1, <2>1, CountOne
    <2> QED
        BY <2>1, <2>2, Zenon
<1>3. ASSUME p # place, pc[t] = place
      PROVE  Cardinality(B) = Cardinality(A) - 1
    <2>1. B = A \ {t} /\ t \in A
        BY <1>3 DEF At
    <2>2. Cardinality(A \ {t}) = Cardinality(A) - 1
        BY <1>1, <2>1, CountOne
    <2> QED
        BY <2>1, <2>2, Zenon
<1>4. ASSUME (p = place <=> pc[t] = place)
      PROVE  Cardinality(B) = Cardinality(A)
    <2>1. B = A
        BY <1>4 DEF At
    <2> QED
        BY <2>1, Zenon
<1> QED
    BY <1>1, <1>2, <1>3, <1>4

LEMMA SettledMoves ==
    ASSUME LfkvIInv, NEW t \in Threads, NEW p, NEW l, NEW c, Moves(t, p, l, c), count' \in Int
    PROVE  /\ Settled \in Int
           /\ Settled' = Settled + (count' - count) + Due(p) - Due(pc[t])
<1>1. pc \in [Threads -> Pcs] /\ pc' = [pc EXCEPT ![t] = p] /\ count \in Int
    BY DEF LfkvIInv, LfkvTypeOK, Pcs, Moves
<1>2. /\ Cardinality(Raising) \in Nat
      /\ p = "raise" /\ pc[t] # "raise" => Cardinality(Raising') = Cardinality(Raising) + 1
      /\ p # "raise" /\ pc[t] = "raise" => Cardinality(Raising') = Cardinality(Raising) - 1
      /\ (p = "raise" <=> pc[t] = "raise") => Cardinality(Raising') = Cardinality(Raising)
    BY <1>1, AtPlace DEF Raising, At
<1>3. /\ Cardinality(Lowering) \in Nat
      /\ p = "lower" /\ pc[t] # "lower" => Cardinality(Lowering') = Cardinality(Lowering) + 1
      /\ p # "lower" /\ pc[t] = "lower" => Cardinality(Lowering') = Cardinality(Lowering) - 1
      /\ (p = "lower" <=> pc[t] = "lower") => Cardinality(Lowering') = Cardinality(Lowering)
    BY <1>1, AtPlace DEF Lowering, At
<1> QED
    BY <1>1, <1>2, <1>3 DEF Settled, Due

LEMMA SettledSame ==
    ASSUME LfkvIInv, NEW t \in Threads, NEW p, NEW l, NEW c, Moves(t, p, l, c),
           count' = count, pc[t] \notin {"raise", "lower"}, p \notin {"raise", "lower"}
    PROVE  Settled' = Settled
<1>1. count' \in Int /\ count \in Int
    BY DEF LfkvIInv, LfkvTypeOK
<1>2. Due(p) = 0 /\ Due(pc[t]) = 0
    BY DEF Due
<1>3. Settled \in Int /\ Settled' = Settled + (count' - count) + Due(p) - Due(pc[t])
    BY <1>1, SettledMoves
<1> QED
    BY <1>1, <1>2, <1>3

\* A step that leaves the table, and the fresh slot of its thread, as they are.
LEMMA QuietStep ==
    ASSUME LfkvIInv, NEW t \in Threads, NEW p, NEW l, NEW c,
           Moves(t, p, l, c), Shape(p, l, c), Reach(p, l), l.f = reg[t].f,
           UNCHANGED <<table, slot>>, count' \in Int, count' - count = Due(pc[t]) - Due(p)
    PROVE  LfkvIInv'
<1>1. \A u \in Threads : reg'[u].f = reg[u].f
    BY DEF Moves, LfkvIInv, LfkvTypeOK
<1>2. LfkvTypeOK'
    BY MoveTypes DEF LfkvIInv, LfkvTypeOK, Pcs
<1>3. ThreadInv'
    <2> SUFFICES ASSUME NEW u \in Threads
                 PROVE  /\ Shape(pc'[u], reg'[u], call'[u])
                        /\ Reach(pc[u], reg[u])'
                        /\ Owned(reg[u].f)'
        BY DEF ThreadInv, Shape, Serves
    <2>1. Shape(pc[u], reg[u], call[u]) /\ Reach(pc[u], reg[u]) /\ Owned(reg[u].f)
        BY DEF LfkvIInv, ThreadInv
    <2>2. Owned(reg[u].f)'
        BY <2>1, <1>1 DEF Owned
    <2>3. CASE u = t
        <3>1. pc'[u] = p /\ reg'[u] = l /\ call'[u] = c
            BY <2>3 DEF Moves, LfkvIInv, LfkvTypeOK
        <3> QED
            BY <3>1, <1>1, <2>2 DEF Reach
    <2>4. CASE u # t
        <3>1. pc'[u] = pc[u] /\ reg'[u] = reg[u] /\ call'[u] = call[u]
            BY <2>4 DEF Moves, LfkvIInv, LfkvTypeOK
        <3> QED
            BY <3>1, <1>1, <2>1, <2>2 DEF Reach
    <2> QED
        BY <2>3, <2>4
<1>4. CellInv' /\ OnceInv'
    BY <1>1 DEF LfkvIInv, CellInv, OnceInv
<1>5. Counted' = Counted
    BY <1>1 DEF Counted
<1>6. Settled' = Settled
    <2>1. Settled' = Settled + (count' - count) + Due(p) - Due(pc[t]) /\ Settled \in Int
        BY SettledMoves
    <2>2. Due(p) \in Int /\ Due(pc[t]) \in Int /\ count \in Int
        BY DEF Due, LfkvIInv, LfkvTypeOK
    <2> QED
        BY <2>1, <2>2
<1> QED
    BY <1>2, <1>3, <1>4, <1>5, <1>6 DEF LfkvIInv, CountInv

LEMMA CountedFinite == IsFiniteSet(Counted)
BY FS_Subset DEF Counted
LEMMA CountedFinitePrime == IsFiniteSet(Counted')
BY FS_Subset DEF Counted

\* A step that stores an entry in, or takes it out of, a slot that is nobody's
\* fresh slot.
LEMMA StoreStep ==
    ASSUME LfkvIInv, NEW t \in Threads, NEW p, NEW l, NEW c,
           Moves(t, p, l, c), Shape(p, l, c), Reach(p, l), l.f = reg[t].f,
           NEW s \in Records, slot[s] # NULL, \A u \in Threads : reg[u].f # s,
           NEW e \in Entries \cup {NULL}, Store(s, e),
           pc[t] \notin {"raise", "lower"}, p = "lower" <=> e = NULL,
           p = "raise" <=> e # NULL /\ slot[s].entry = NULL, e = NULL => slot[s].entry # NULL
    PROVE  LfkvIInv'
<1>1. \A u \in Threads : reg'[u].f = reg[u].f
    BY DEF Moves, LfkvIInv, LfkvTypeOK
<1>2. slot \in [Records -> Slots \cup {NULL}] /\ slot[s] \in Slots
    BY DEF LfkvIInv, LfkvTypeOK
<1>3. /\ slot' \in [Records -> Slots \cup {NULL}]
      /\ slot'[s] \in Slots /\ slot'[s].entry = e
      /\ \A r \in Records \ {s} : slot'[r] = slot[r]
    <2>1. [slot[s] EXCEPT !.entry = e] \in Slots /\ [slot[s] EXCEPT !.entry = e].entry = e
        BY <1>2 DEF Slots
    <2>2. slot' = [slot EXCEPT ![s] = [slot[s] EXCEPT !.entry = e]]
        BY DEF Store
    <2> QED
        BY <1>2, <2>1, <2>2
<1>4. \A r \in Records : slot[r] # NULL => slot'[r] # NULL
    BY <1>3
<1>5. \A u \in Threads : reg[u] \in Locals
    BY DEF LfkvIInv, LfkvTypeOK
<1>6. table' = table /\ table \in [Cells -> Records \cup {NULL}]
    BY DEF Store, LfkvIInv, LfkvTypeOK
<1>7. count' = count /\ count \in Int /\ Settled \in Int /\ Settled' = Settled + Due(p)
    <2>1. count' = count /\ count \in Int
        BY DEF Store, LfkvIInv, LfkvTypeOK
    <2>2. Settled \in Int /\ Settled' = Settled + (count' - count) + Due(p) - Due(pc[t])
        BY <2>1, SettledMoves
    <2>3. Due(pc[t]) = 0 /\ Due(p) \in Int
        BY DEF Due
    <2> QED
        BY <2>1, <2>2, <2>3
<1>8. LfkvTypeOK'
    BY MoveTypes, <1>3, <1>6, <1>7 DEF LfkvTypeOK, Pcs
<1>9. ThreadInv'
    <2> SUFFICES ASSUME NEW u \in Threads
                 PROVE  /\ Shape(pc'[u], reg'[u], call'[u])
                        /\ Reach(pc[u], reg[u])'
                        /\ Owned(reg[u].f)'
        BY DEF ThreadInv, Shape, Serves
    <2>1. Shape(pc[u], reg[u], call[u]) /\ Reach(pc[u], reg[u]) /\ Owned(reg[u].f)
        BY DEF LfkvIInv, ThreadInv
    <2>2. Owned(reg[u].f)'
        <3>1. reg[u].f # NULL => reg[u].f \in Records \ {s}
            BY <1>5 DEF Locals
        <3> QED
            BY <2>1, <3>1, <1>1, <1>3 DEF Owned
    <2>3. CASE u = t
        <3>1. pc'[u] = p /\ reg'[u] = l /\ call'[u] = c
            BY <2>3 DEF Moves, LfkvIInv, LfkvTypeOK
        <3>2. l.s \in Records \cup {NULL}
            BY DEF Shape, Locals
        <3> QED
            BY <3>1, <3>2, <1>1, <1>4, <1>6, <2>2 DEF Reach
    <2>4. CASE u # t
        <3>1. pc'[u] = pc[u] /\ reg'[u] = reg[u] /\ call'[u] = call[u]
            BY <2>4 DEF Moves, LfkvIInv, LfkvTypeOK
        <3>2. reg[u].s \in Records \cup {NULL}
            BY <1>5 DEF Locals
        <3> QED
            BY <3>1, <3>2, <1>1, <1>4, <1>6, <2>1, <2>2 DEF Reach
    <2> QED
        BY <2>3, <2>4
<1>10. CellInv' /\ OnceInv'
    BY <1>1, <1>4, <1>6 DEF LfkvIInv, CellInv, OnceInv
<1>11. CountInv'
    <2>1. \A r : r # s => (r \in Counted <=> r \in Counted')
        BY <1>1, <1>3 DEF Counted
    <2>2. (s \in Counted) = (slot[s].entry # NULL) /\ (s \in Counted') = (e # NULL)
        BY <1>1, <1>3 DEF Counted
    <2>3. Settled = Cardinality(Counted)
        BY DEF LfkvIInv, CountInv
    <2>4. CASE s \in Counted /\ s \in Counted'
        <3>0. \A r : r \in Counted <=> r \in Counted'
            BY <2>1, <2>4
        <3>1. Counted' = Counted
            BY <3>0
        <3> QED
            BY <3>1, <2>2, <2>3, <2>4, <1>7 DEF CountInv, Due
    <2>5. CASE s \notin Counted /\ s \notin Counted'
        <3>0. \A r : r \in Counted <=> r \in Counted'
            BY <2>1, <2>5
        <3>1. Counted' = Counted
            BY <3>0
        <3> QED
            BY <3>1, <2>2, <2>3, <2>5, <1>7 DEF CountInv, Due
    <2>6. CASE s \in Counted /\ s \notin Counted'
        <3>1. Counted' = Counted \ {s}
            BY <2>1, <2>6
        <3>2. Cardinality(Counted \ {s}) = Cardinality(Counted) - 1
            BY CountOne, CountedFinite, <2>6
        <3> QED
            BY <3>1, <3>2, <2>2, <2>3, <2>6, <1>7 DEF CountInv, Due
    <2>7. CASE s \notin Counted /\ s \in Counted'
        <3>1. Counted' = Counted \cup {s}
            BY <2>1, <2>7
        <3>2. Cardinality(Counted \cup {s}) = Cardinality(Counted) + 1
            BY CountOne, CountedFinite, <2>7
        <3> QED
            BY <3>1, <3>2, <2>2, <2>3, <2>7, <1>7 DEF CountInv, Due
    <2> QED
        BY <2>4, <2>5, <2>6, <2>7
<1> QED
    BY <1>8, <1>9, <1>10, <1>11 DEF LfkvIInv

\* A step that takes a free record as the fresh slot of its thread.
LEMMA AllocateStep ==
    ASSUME LfkvIInv, NEW t \in Threads, NEW p, NEW l, NEW c,
           Moves(t, p, l, c), Shape(p, l, c), Reach(p, l), reg[t].f = NULL,
           l.f \in Free, NEW k \in Keys, NEW e \in Entries,
           slot' = [slot EXCEPT ![l.f] = [key |-> k, entry |-> e]],
           UNCHANGED <<table, count>>, pc[t] \notin {"raise", "lower"}, p \notin {"raise", "lower"}
    PROVE  LfkvIInv'
<1> DEFINE f == l.f
<1>1. /\ reg'[t] = l /\ pc'[t] = p /\ call'[t] = c
      /\ \A u \in Threads \ {t} : reg'[u] = reg[u] /\ pc'[u] = pc[u] /\ call'[u] = call[u]
    BY DEF Moves, LfkvIInv, LfkvTypeOK
<1>2. f \in Records /\ slot[f] = NULL
    BY DEF Free
<1>3. [key |-> k, entry |-> e] \in Slots /\ [key |-> k, entry |-> e].entry = e
    BY DEF Slots
<1>4. /\ slot' \in [Records -> Slots \cup {NULL}]
      /\ slot'[f] # NULL /\ slot'[f].entry # NULL
      /\ \A r \in Records \ {f} : slot'[r] = slot[r]
    BY <1>2, <1>3 DEF LfkvIInv, LfkvTypeOK
<1>5. \A u \in Threads : reg[u] \in Locals /\ Owned(reg[u].f) /\ Shape(pc[u], reg[u], call[u]) /\ Reach(pc[u], reg[u])
    BY DEF LfkvIInv, ThreadInv, LfkvTypeOK
<1>6. \A u \in Threads : reg[u].f # f /\ reg[u].s # f
    BY <1>2, <1>5 DEF Owned, Reach
<1>7. l \in Locals /\ l.s # f
    BY <1>2 DEF Shape, Reach
<1>8. \A d \in Cells : table[d] \in Records \cup {NULL} /\ table[d] # f
    BY <1>2 DEF LfkvIInv, CellInv, LfkvTypeOK
<1>9. LfkvTypeOK'
    BY MoveTypes, <1>4 DEF LfkvIInv, LfkvTypeOK, Pcs
<1>10. ThreadInv'
    <2> SUFFICES ASSUME NEW u \in Threads
                 PROVE  /\ Shape(pc'[u], reg'[u], call'[u])
                        /\ Reach(pc[u], reg[u])'
                        /\ Owned(reg[u].f)'
        BY DEF ThreadInv, Shape, Serves
    <2>1. Shape(pc'[u], reg'[u], call'[u])
        BY <1>1, <1>5
    <2>2. Owned(reg[u].f)'
        BY <1>1, <1>4, <1>5, <1>6 DEF Owned, Locals
    <2>3. \A w \in Threads : reg'[w].f # reg'[u].s \/ reg'[u].s = NULL
        <3>1. \A w \in Threads : reg[w].f # l.s \/ l.s = NULL
            BY DEF Reach
        <3>2. \A w \in Threads : reg[w].f # reg[u].s \/ reg[u].s = NULL
            BY <1>5 DEF Reach
        <3> QED
            BY <3>1, <3>2, <1>1, <1>6, <1>7
    <2>4. reg'[u].s # NULL => slot'[reg'[u].s] # NULL
        <3>1. l.s # NULL => slot[l.s] # NULL /\ l.s \in Records \ {f}
            BY <1>7 DEF Reach, Locals
        <3>2. reg[u].s # NULL => slot[reg[u].s] # NULL /\ reg[u].s \in Records \ {f}
            BY <1>5, <1>6 DEF Reach, Locals
        <3> QED
            BY <3>1, <3>2, <1>1, <1>4
    <2>5. /\ reg'[u].tomb # None => table'[reg'[u].tomb] # NULL
          /\ pc'[u] = "probe_entry" => table'[reg'[u].i] # NULL
        BY <1>1, <1>5 DEF Reach
    <2> QED
        BY <2>1, <2>2, <2>3, <2>4, <2>5 DEF Reach
<1>11. CellInv'
    BY <1>4, <1>8 DEF LfkvIInv, CellInv
<1>12. OnceInv'
    BY <1>1, <1>6, <1>8 DEF LfkvIInv, OnceInv
<1>13. Counted' = Counted
    <2>1. \A r \in Records : (\A u \in Threads : reg'[u].f # r) <=> (\A u \in Threads : reg[u].f # r) /\ r # f
        BY <1>1
    <2> HIDE DEF f
    <2> QED
        BY <2>1, <1>2, <1>4 DEF Counted
<1>14. Settled' = Settled
    BY SettledSame DEF LfkvIInv, LfkvTypeOK
<1> QED
    BY <1>9, <1>10, <1>11, <1>12, <1>13, <1>14 DEF LfkvIInv, CountInv

\* The fresh slot of a thread goes into a cell, and the thread has to count it.
LEMMA PublishStep ==
    ASSUME LfkvIInv, NEW t \in Threads, reg[t].f # NULL, NEW d \in Cells,
           Moves(t, "raise", Fresh(0), call[t]), Shape("raise", Fresh(0), call[t]),
           table' = [table EXCEPT ![d] = reg[t].f],
           UNCHANGED <<slot, count>>
    PROVE  LfkvIInv'
<1> DEFINE f == reg[t].f
<1>0. 0 \in Cells
    BY DEF Cells
<1>1. /\ reg'[t] = Fresh(0) /\ pc'[t] = "raise" /\ call'[t] = call[t]
      /\ \A u \in Threads \ {t} : reg'[u] = reg[u] /\ pc'[u] = pc[u] /\ call'[u] = call[u]
    BY DEF Moves, LfkvIInv, LfkvTypeOK
<1>2. \A u \in Threads : reg[u] \in Locals /\ Owned(reg[u].f) /\ Shape(pc[u], reg[u], call[u]) /\ Reach(pc[u], reg[u])
    BY DEF LfkvIInv, ThreadInv, LfkvTypeOK
<1>3. f \in Records /\ slot[f] # NULL /\ slot[f].entry # NULL
    BY <1>2 DEF Owned, Locals
<1>4. pc[t] \in Owning
    BY <1>2 DEF Shape
<1>5. /\ table \in [Cells -> Records \cup {NULL}] /\ table' \in [Cells -> Records \cup {NULL}]
      /\ table'[d] = f /\ \A b \in Cells \ {d} : table'[b] = table[b]
    BY <1>3 DEF LfkvIInv, LfkvTypeOK
<1>6. \A u \in Threads \ {t} : reg[u].f # f
    BY <1>3 DEF LfkvIInv, OnceInv
<1>7. \A b \in Cells : table[b] # f
    BY <1>3 DEF LfkvIInv, OnceInv
<1>8. LfkvTypeOK'
    BY MoveTypes, <1>5 DEF LfkvIInv, LfkvTypeOK, Pcs
<1>9. ThreadInv'
    <2> SUFFICES ASSUME NEW u \in Threads
                 PROVE  /\ Shape(pc'[u], reg'[u], call'[u])
                        /\ Reach(pc[u], reg[u])'
                        /\ Owned(reg[u].f)'
        BY DEF ThreadInv, Shape, Serves
    <2>1. CASE u = t
        BY <2>1, <1>0, <1>1, IdleLocals DEF Reach, Owned
    <2>2. CASE u # t
        <3>1. reg'[u] = reg[u] /\ pc'[u] = pc[u] /\ call'[u] = call[u]
            BY <1>1, <2>2
        <3>2. reg[u].tomb # None => reg[u].tomb \in Cells
            BY <1>2 DEF Locals
        <3>3. reg[u].i \in Cells
            BY <1>2 DEF Locals
        <3>4. \A w \in Threads : reg'[w].f = NULL \/ reg'[w].f = reg[w].f
            BY <1>0, <1>1, IdleLocals
        <3>5. reg[u].s # NULL => \A w \in Threads : reg'[w].f # reg[u].s
            BY <1>2, <3>4 DEF Reach
        <3>6. \A b \in Cells : table[b] # NULL => table'[b] # NULL
            BY <1>3, <1>5
        <3> HIDE DEF f
        <3>7. Reach(pc[u], reg[u])'
            BY <1>2, <3>1, <3>2, <3>3, <3>5, <3>6 DEF Reach
        <3> QED
            BY <1>2, <3>1, <3>7 DEF Owned
    <2> QED
        BY <2>1, <2>2
<1>10. CellInv'
    BY <1>3, <1>5 DEF LfkvIInv, CellInv
<1>11. OnceInv'
    <2>1. \A b, c \in Cells : table'[b] = table'[c] /\ table'[b] # NULL => b = c
        BY <1>5, <1>7 DEF LfkvIInv, OnceInv
    <2>2. \A u \in Threads : reg'[u].f # NULL => u # t /\ reg'[u].f = reg[u].f
        BY <1>0, <1>1, IdleLocals
    <2>3. \A b \in Cells, u \in Threads : table'[b] # NULL => table'[b] # reg'[u].f
        <3> SUFFICES ASSUME NEW b \in Cells, NEW u \in Threads, table'[b] # NULL, table'[b] = reg'[u].f
                     PROVE  FALSE
            OBVIOUS
        <3>1. u # t /\ reg'[u].f = reg[u].f
            BY <2>2
        <3>2. CASE b = d
            BY <1>5, <1>6, <3>1, <3>2
        <3>3. CASE b # d
            BY <1>5, <3>1, <3>3 DEF LfkvIInv, OnceInv
        <3> QED
            BY <3>2, <3>3
    <2>4. \A u, w \in Threads : reg'[u].f = reg'[w].f /\ reg'[u].f # NULL => u = w
        BY <2>2 DEF LfkvIInv, OnceInv
    <2> QED
        BY <2>1, <2>3, <2>4 DEF OnceInv
<1>12. CountInv'
    <2>1. f \notin Counted
        BY DEF Counted
    <2>2. \A r \in Records : (\A u \in Threads : reg'[u].f # r) <=> (\A u \in Threads : reg[u].f # r) \/ r = f
        BY <1>0, <1>1, <1>3, <1>6, IdleLocals
    <2> HIDE DEF f
    <2>3. Counted' = Counted \cup {f}
        BY <2>2, <1>3 DEF Counted
    <2>4. Cardinality(Counted \cup {f}) = Cardinality(Counted) + 1
        BY <2>1, CountOne, CountedFinite
    <2>5. Settled \in Int /\ Settled' = Settled + 1
        <3>1. count \in Int /\ count' = count
            BY DEF LfkvIInv, LfkvTypeOK
        <3>2. Due("raise") = 1 /\ Due(pc[t]) = 0
            BY <1>4 DEF Due, Owning
        <3>3. Settled \in Int /\ Settled' = Settled + (count' - count) + Due("raise") - Due(pc[t])
            BY <3>1, SettledMoves
        <3> QED
            BY <3>1, <3>2, <3>3
    <2> QED
        BY <2>3, <2>4, <2>5 DEF LfkvIInv, CountInv
<1> QED
    BY <1>8, <1>9, <1>10, <1>11, <1>12 DEF LfkvIInv

\* A thread gives its fresh slot back.
LEMMA DiscardStep ==
    ASSUME LfkvIInv, NEW t \in Threads, NEW p, NEW l, NEW c,
           Moves(t, p, l, c), Shape(p, l, c), Reach(p, l), reg[t].f # NULL, l.f = NULL,
           Discard(t), pc[t] \notin {"raise", "lower"}, p \notin {"raise", "lower"}
    PROVE  LfkvIInv'
<1> DEFINE f == reg[t].f
<1>1. /\ reg'[t] = l /\ pc'[t] = p /\ call'[t] = c
      /\ \A u \in Threads \ {t} : reg'[u] = reg[u] /\ pc'[u] = pc[u] /\ call'[u] = call[u]
    BY DEF Moves, LfkvIInv, LfkvTypeOK
<1>2. \A u \in Threads : reg[u] \in Locals /\ Owned(reg[u].f) /\ Shape(pc[u], reg[u], call[u]) /\ Reach(pc[u], reg[u])
    BY DEF LfkvIInv, ThreadInv, LfkvTypeOK
<1>3. f \in Records
    BY <1>2 DEF Locals
<1>4. /\ slot' \in [Records -> Slots \cup {NULL}]
      /\ slot'[f] = NULL
      /\ \A r \in Records \ {f} : slot'[r] = slot[r]
      /\ table' = table /\ count' = count
    BY <1>3 DEF Discard, LfkvIInv, LfkvTypeOK
<1>5. \A u \in Threads \ {t} : reg[u].f # f
    BY <1>3 DEF LfkvIInv, OnceInv
<1>6. \A b \in Cells : table[b] \in Records \cup {NULL} /\ table[b] # f
    BY <1>3 DEF LfkvIInv, OnceInv, LfkvTypeOK
<1>7. \A u \in Threads : reg'[u].f = NULL \/ (reg'[u].f = reg[u].f /\ u # t)
    BY <1>1
<1>8. LfkvTypeOK'
    BY MoveTypes, <1>4 DEF LfkvIInv, LfkvTypeOK, Pcs
<1>9. ThreadInv'
    <2> SUFFICES ASSUME NEW u \in Threads
                 PROVE  /\ Shape(pc'[u], reg'[u], call'[u])
                        /\ Reach(pc[u], reg[u])'
                        /\ Owned(reg[u].f)'
        BY DEF ThreadInv, Shape, Serves
    <2>1. Shape(pc'[u], reg'[u], call'[u])
        BY <1>1, <1>2
    <2>2. Owned(reg[u].f)'
        <3>1. reg'[u].f # NULL => reg'[u].f \in Records \ {f} /\ reg'[u].f = reg[u].f
            BY <1>2, <1>5, <1>7 DEF Locals
        <3> QED
            BY <1>2, <1>4, <3>1 DEF Owned
    <2>3. /\ reg'[u].s # NULL => /\ slot[reg'[u].s] # NULL
                                 /\ reg'[u].s \in Records
                                 /\ \A w \in Threads : reg[w].f # reg'[u].s
          /\ reg'[u].tomb # None => table'[reg'[u].tomb] # NULL
          /\ pc'[u] = "probe_entry" => table'[reg'[u].i] # NULL
        <3>1. CASE u = t
            BY <3>1, <1>1, <1>4 DEF Reach, Shape, Locals
        <3>2. CASE u # t
            BY <3>2, <1>1, <1>2, <1>4 DEF Reach, Locals
        <3> QED
            BY <3>1, <3>2
    <2>4. reg'[u].s # NULL => reg'[u].s # f
        BY <2>3
    <2> HIDE DEF f
    <2>5. reg'[u].s # NULL => slot'[reg'[u].s] # NULL
        BY <2>3, <2>4, <1>4
    <2>6. reg'[u].s # NULL => \A w \in Threads : reg'[w].f # reg'[u].s
        BY <2>3, <1>7
    <2> QED
        BY <2>1, <2>2, <2>3, <2>5, <2>6 DEF Reach
<1>10. CellInv'
    BY <1>4, <1>6 DEF LfkvIInv, CellInv
<1>11. OnceInv'
    <2>1. \A b \in Cells, u \in Threads : table'[b] # NULL => table'[b] # reg'[u].f
        BY <1>4, <1>7 DEF LfkvIInv, OnceInv
    <2>2. \A u, w \in Threads : reg'[u].f = reg'[w].f /\ reg'[u].f # NULL => u = w
        BY <1>7 DEF LfkvIInv, OnceInv
    <2> QED
        BY <1>4, <2>1, <2>2 DEF LfkvIInv, OnceInv
<1>12. Counted' = Counted
    <2>1. \A r \in Records \ {f} : (\A u \in Threads : reg'[u].f # r) <=> (\A u \in Threads : reg[u].f # r)
        BY <1>1, <1>3
    <2>2. f \notin Counted
        BY DEF Counted
    <2> HIDE DEF f
    <2> QED
        BY <2>1, <2>2, <1>4 DEF Counted
<1>13. Settled' = Settled
    BY <1>4, SettledSame
<1> QED
    BY <1>8, <1>9, <1>10, <1>11, <1>12, <1>13 DEF LfkvIInv, CountInv

-----------------------------------------------------------------------------
(* How an operation goes on and how it returns *)

LEMMA Continues ==
    ASSUME LfkvIInv, NEW t \in Threads, NEW p, NEW l, Continue(t, p, l)
    PROVE  Moves(t, p, l, call[t])
BY DEF Continue, Goto, Locally, Moves, callVars, LfkvIInv, LfkvTypeOK

LEMMA Returns ==
    ASSUME LfkvIInv, NEW t \in Threads, NEW x, Return(t, x)
    PROVE  Moves(t, "idle", Fresh(0), NULL)
BY DEF Return, Goto, Locally, Moves

LEMMA IdleShape == Shape("idle", Fresh(0), NULL) /\ Reach("idle", Fresh(0))
<1>1. 0 \in Cells
    BY DEF Cells
<1> QED
    BY <1>1, IdleLocals DEF Shape, Reach, Pcs, Owning, Holding

\* What an operation in progress knows of itself.
LEMMA Busy ==
    ASSUME LfkvIInv, NEW t \in Threads, pc[t] # "idle"
    PROVE  /\ Shape(pc[t], reg[t], call[t]) /\ Serves(pc[t], call[t])
           /\ Reach(pc[t], reg[t]) /\ Owned(reg[t].f)
           /\ reg[t] \in Locals /\ call[t] \in Calls
           /\ call[t].key \in Keys /\ Home(t) \in Cells
           /\ \A c \in Cells : table[c] \in Records \cup {NULL}
           /\ \A s \in Records : slot[s] # NULL => slot[s] \in Slots
           /\ \A s \in Records : slot[s] # NULL => slot[s].entry \in Entries \cup {NULL}
BY DEF LfkvIInv, LfkvTypeOK, ThreadInv, Shape, Serves, Calls, Home, key, Slots

\* A cell's slot is allocated, and nobody's own.
LEMMA CellSlot ==
    ASSUME LfkvIInv, NEW c \in Cells, table[c] # NULL
    PROVE  /\ table[c] \in Records /\ slot[table[c]] # NULL
           /\ \A u \in Threads : reg[u].f # table[c]
BY DEF LfkvIInv, LfkvTypeOK, CellInv, OnceInv

LEMMA ContinueQuiet ==
    ASSUME LfkvIInv, NEW t \in Threads, NEW p, NEW l, Continue(t, p, l), UNCHANGED tableVars,
           Shape(p, l, call[t]), Reach(p, l), l.f = reg[t].f,
           pc[t] \notin {"raise", "lower"}, p \notin {"raise", "lower"}
    PROVE  LfkvIInv'
<1>1. Due(pc[t]) = 0 /\ Due(p) = 0
    BY DEF Due
<1>2. UNCHANGED <<table, slot>> /\ count' \in Int /\ count' - count = Due(pc[t]) - Due(p)
    BY <1>1 DEF tableVars, LfkvIInv, LfkvTypeOK
<1> QED
    BY <1>2, Continues, QuietStep

LEMMA ReturnQuiet ==
    ASSUME LfkvIInv, NEW t \in Threads, NEW x, Return(t, x),
           UNCHANGED tableVars, pc[t] \notin Owning \cup {"raise", "lower"}
    PROVE  LfkvIInv'
<1>1. reg[t].f = NULL
    BY DEF LfkvIInv, ThreadInv, Shape
<1>2. Fresh(0).f = NULL
    BY DEF Fresh
<1>3. Due(pc[t]) = 0 /\ Due("idle") = 0
    BY DEF Due
<1>4. UNCHANGED <<table, slot>> /\ count' \in Int /\ count' - count = Due(pc[t]) - Due("idle")
    BY <1>3 DEF tableVars, LfkvIInv, LfkvTypeOK
<1> QED
    BY <1>1, <1>2, <1>4, Returns, IdleShape, QuietStep

\* The probe from the start.
LEMMA ReprobeShape ==
    ASSUME LfkvIInv, NEW t \in Threads, pc[t] # "idle", call[t].op \notin Walks
    PROVE  /\ Shape("probe", Fresh(Home(t)), call[t]) /\ Reach("probe", Fresh(Home(t)))
           /\ Fresh(Home(t)).f = NULL
<1>1. Home(t) \in Cells /\ call[t] \in Calls /\ (call[t].op \in Writes) = (call[t].val # NULL)
    BY Busy DEF Serves
<1>2. Shape("probe", Fresh(Home(t)), call[t])
    BY <1>1, IdleLocals DEF Shape, Serves, Pcs, Owning, Holding
<1>3. Reach("probe", Fresh(Home(t)))
    BY <1>1, IdleLocals DEF Reach
<1> QED
    BY <1>1, <1>2, <1>3, IdleLocals

LEMMA ReprobeQuiet ==
    ASSUME LfkvIInv, NEW t \in Threads, Reprobe(t), UNCHANGED tableVars,
           pc[t] \notin Owning \cup {"idle", "raise", "lower"}, call[t].op \notin Walks
    PROVE  LfkvIInv'
<1>1. reg[t].f = NULL
    BY DEF LfkvIInv, ThreadInv, Shape
<1> QED
    BY <1>1, ReprobeShape, ContinueQuiet DEF Reprobe

\* An insertion that is in and has yet to be counted.
LEMMA RaiseShape ==
    ASSUME LfkvIInv, NEW t \in Threads, pc[t] # "idle", call[t].op \in {"set", "set_nx"}
    PROVE  Shape("raise", Fresh(0), call[t]) /\ Reach("raise", Fresh(0))
<1>1. 0 \in Cells
    BY DEF Cells
<1>2. call[t] \in Calls /\ (call[t].op \in Writes) = (call[t].val # NULL)
    BY Busy DEF Serves
<1>3. Shape("raise", Fresh(0), call[t])
    BY <1>1, <1>2, IdleLocals DEF Shape, Serves, Pcs, Owning, Holding, Walks
<1> QED
    BY <1>1, <1>3, IdleLocals DEF Reach

\* A thread that has found a slot may store in it.
LEMMA MayStore ==
    ASSUME LfkvIInv, NEW t \in Threads, pc[t] \in Holding
    PROVE  /\ reg[t].s \in Records /\ slot[reg[t].s] # NULL
           /\ \A u \in Threads : reg[u].f # reg[t].s
           /\ slot[reg[t].s] \in Slots /\ slot[reg[t].s].entry \in Entries \cup {NULL}
<1>1. pc[t] # "idle"
    BY DEF Holding
<1>2. reg[t].s # NULL /\ reg[t].s \in Records
    BY <1>1, Busy DEF Shape, Locals
<1> QED
    BY <1>1, <1>2, Busy DEF Reach

\* The swap of the entry of the slot found.
LEMMA SwapOK ==
    ASSUME LfkvIInv, NEW t \in Threads, NEW x, NEW e \in Entries \cup {NULL},
           pc[t] \in Holding \ Owning, Swap(t, reg[t].s, e, x),
           e = NULL => slot[reg[t].s].entry # NULL /\ Shape("lower", reg[t], call[t]),
           e # NULL /\ slot[reg[t].s].entry = NULL => call[t].op \in {"set", "set_nx"}
    PROVE  LfkvIInv'
<1>1. reg[t].f = NULL /\ pc[t] \notin {"idle", "raise", "lower"}
    BY DEF LfkvIInv, ThreadInv, Shape, Holding
<1>2. Fresh(0).f = NULL
    BY DEF Fresh
<1>3. Store(reg[t].s, e)
    BY DEF Swap
<1>4. CASE e = NULL
    <2>1. Moves(t, "lower", reg[t], call[t])
        BY <1>4, Continues DEF Swap
    <2>2. Reach("lower", reg[t])
        BY <1>1, Busy DEF Reach
    <2> QED
        BY <1>1, <1>3, <1>4, <2>1, <2>2, MayStore, StoreStep
<1>5. CASE e # NULL /\ slot[reg[t].s].entry = NULL
    <2>1. Moves(t, "raise", Fresh(0), call[t])
        BY <1>5, Continues DEF Swap
    <2>2. Shape("raise", Fresh(0), call[t]) /\ Reach("raise", Fresh(0))
        BY <1>1, <1>5, RaiseShape
    <2> QED
        BY <1>1, <1>2, <1>3, <1>5, <2>1, <2>2, MayStore, StoreStep
<1>6. CASE e # NULL /\ slot[reg[t].s].entry # NULL
    <2>1. Moves(t, "idle", Fresh(0), NULL)
        BY <1>6, Returns DEF Swap
    <2> QED
        BY <1>1, <1>2, <1>3, <1>6, <2>1, IdleShape, MayStore, StoreStep
<1> QED
    BY <1>4, <1>5, <1>6

-----------------------------------------------------------------------------
(* The steps of the probe *)

LEMMA EntryFact ==
    ASSUME NEW v \in Vals, NEW x \in Expiries \cup {0}
    PROVE  Entry(v, x) \in Entries
BY DEF Entry, Entries

LEMMA AllocateOK ==
    ASSUME LfkvIInv, NEW t \in Threads, pc[t] = "probe", call[t].op \in {"set", "set_nx"},
           NEW p, NEW l \in Locals, Allocate(t, p, l),
           p \in {"tomb_load", "claim"}, p = "tomb_load" => l.tomb # None,
           l.s = reg[t].s, l.tomb = reg[t].tomb
    PROVE  LfkvIInv'
<1>1. pc[t] \notin Owning /\ pc[t] # "idle" /\ "idle" \notin Owning
    BY DEF Owning
<1>2. reg[t].f = NULL
    BY <1>1 DEF LfkvIInv, ThreadInv, Shape
<1>3. CASE Free = {}
    BY <1>1, <1>3, ReturnQuiet DEF Allocate, Fails, tableVars
<1>4. CASE Free # {}
    <2> DEFINE f == CHOOSE s \in Free : TRUE
               m == [l EXCEPT !.f = f]
    <2>1. /\ slot' = [slot EXCEPT ![f] = [key |-> key(t), entry |-> Entry(call[t].val, 0)]]
          /\ Continue(t, p, m)
          /\ UNCHANGED <<table, count>>
        BY <1>4 DEF Allocate
    <2>2. f \in Free
        BY <1>4
    <2> HIDE DEF f
    <2>3. m.f = f /\ m.s = l.s /\ m.tomb = l.tomb /\ m \in Locals /\ f # NULL
        BY <2>2 DEF Locals, Free
    <2> HIDE DEF m
    <2>4. call[t].val \in Vals /\ key(t) \in Keys
        BY <1>1, Busy DEF Serves, Calls, Writes, key
    <2>5. Entry(call[t].val, 0) \in Entries
        BY <2>4, EntryFact
    <2>6. Shape(p, m, call[t])
        BY <2>3, <1>1, Busy DEF Shape, Serves, Pcs, Owning, Holding, Walks
    <2>7. Reach(p, m)
        BY <2>3, <1>1, Busy DEF Reach
    <2>8. Moves(t, p, m, call[t])
        BY <2>1, Continues
    <2> QED
        BY <2>1, <2>2, <2>3, <2>4, <2>5, <2>6, <2>7, <2>8, <1>2, AllocateStep
<1> QED
    BY <1>3, <1>4

LEMMA MissedOK ==
    ASSUME LfkvIInv, NEW t \in Threads, pc[t] = "probe", NEW i \in Cells, Missed(t, i)
    PROVE  LfkvIInv'
<1> DEFINE l == [reg[t] EXCEPT !.i = i]
<1>1. l \in Locals /\ l.s = reg[t].s /\ l.tomb = reg[t].tomb
    BY Busy DEF Locals
<1>2. CASE call[t].op = "set"
    BY <1>1, <1>2, AllocateOK DEF Missed
<1>3. CASE call[t].op = "set_nx"
    BY <1>1, <1>3, AllocateOK DEF Missed
<1>4. CASE call[t].op \notin {"set", "set_nx"}
    <2>1. Return(t, Absent(t)) /\ UNCHANGED tableVars
        BY <1>4 DEF Missed
    <2> QED
        BY <2>1, ReturnQuiet DEF Owning
<1> QED
    BY <1>2, <1>3, <1>4

LEMMA ProbeSlotOK ==
    ASSUME LfkvIInv, NEW t \in Threads, ProbeSlot(t)
    PROVE  LfkvIInv'
<1>1. pc[t] = "probe" /\ pc[t] # "idle"
    BY DEF ProbeSlot
<1>2. reg[t].i \in Cells /\ reg[t].n \in 0 .. NSlots /\ Home(t) \in Cells
    BY <1>1, Busy DEF Locals
<1>3. CASE Full(t) \/ table[reg[t].i] = NULL
    BY <1>1, <1>2, <1>3, MissedOK DEF ProbeSlot
<1>4. CASE ~ Full(t) /\ table[reg[t].i] # NULL
    <2> DEFINE l == [reg[t] EXCEPT !.s = table[reg[t].i]]
    <2>1. Continue(t, "probe_entry", l) /\ UNCHANGED tableVars
        BY <1>4 DEF ProbeSlot
    <2>2. /\ l \in Locals /\ l.f = reg[t].f /\ l.n < NSlots /\ l.s # NULL
          /\ l.s = table[reg[t].i] /\ l.i = reg[t].i /\ l.tomb = reg[t].tomb
        BY <1>1, <1>2, <1>4, Busy DEF Locals, Full
    <2> HIDE DEF l
    <2>3. Shape("probe_entry", l, call[t])
        BY <1>1, <2>2, Busy DEF Shape, Serves, Pcs, Owning, Holding
    <2>4. Reach("probe_entry", l)
        BY <1>1, <1>2, <1>4, <2>2, Busy, CellSlot DEF Reach
    <2> QED
        BY <1>1, <2>1, <2>2, <2>3, <2>4, ContinueQuiet
<1> QED
    BY <1>3, <1>4

LEMMA ProbeEntryOK ==
    ASSUME LfkvIInv, NEW t \in Threads, ProbeEntry(t)
    PROVE  LfkvIInv'
<1>1. pc[t] = "probe_entry" /\ pc[t] # "idle" /\ UNCHANGED tableVars
    BY DEF ProbeEntry
<1>2. reg[t] \in Locals /\ reg[t].i \in Cells /\ reg[t].n \in 0 .. NSlots /\ reg[t].n < NSlots
    BY <1>1, Busy DEF Locals, Shape
<1> DEFINE past == [reg[t] EXCEPT !.i = next(@), !.n = @ + 1, !.s = NULL]
<1>3. past \in Locals /\ past.f = reg[t].f /\ past.s = NULL /\ past.tomb = reg[t].tomb
    <2>1. next(reg[t].i) \in Cells /\ reg[t].n + 1 \in 0 .. NSlots
        BY <1>2, NextCell
    <2> QED
        BY <1>2, <2>1 DEF Locals
<1>4. CASE slot[reg[t].s].entry = NULL /\ reg[t].tomb = None
    <2> DEFINE l == [past EXCEPT !.tomb = reg[t].i]
    <2>1. Continue(t, "probe", l)
        BY <1>4 DEF ProbeEntry
    <2>2. l \in Locals /\ l.f = reg[t].f /\ l.s = NULL /\ l.tomb = reg[t].i
        BY <1>2, <1>3 DEF Locals
    <2> HIDE DEF l
    <2>3. Shape("probe", l, call[t]) /\ Reach("probe", l)
        BY <1>1, <2>2, Busy DEF Shape, Reach, Serves, Pcs, Owning, Holding
    <2> QED
        BY <1>1, <2>1, <2>2, <2>3, ContinueQuiet
<1>5. ASSUME Continue(t, "probe", past)
      PROVE  LfkvIInv'
    <2> HIDE DEF past
    <2>1. Shape("probe", past, call[t]) /\ Reach("probe", past)
        BY <1>1, <1>3, Busy DEF Shape, Reach, Serves, Pcs, Owning, Holding
    <2> QED
        BY <1>1, <1>3, <1>5, <2>1, ContinueQuiet
<1>6. CASE slot[reg[t].s].entry # NULL /\ slot_key_eq(reg[t].s, t)
    <2>1. Continue(t, Found(t), reg[t])
        BY <1>6 DEF ProbeEntry
    <2>2. Shape(Found(t), reg[t], call[t])
        <3>1. CASE call[t].op \in {"set", "set_nx"}
            BY <1>1, <3>1, Busy DEF Shape, Found, Serves, Pcs, Owning, Holding, Walks
        <3>2. CASE call[t].op \notin {"set", "set_nx"}
            <4>1. call[t].op \in Updates \cup {"get", "get_expiry"}
                BY <1>1, <3>2, Busy DEF Serves, Calls, Ops, Writes, Comparing, Walks, Updates
            <4> QED
                BY <1>1, <3>2, <4>1, Busy DEF Shape, Found, Serves, Pcs, Owning, Holding
        <3> QED
            BY <3>1, <3>2
    <2>3. Reach(Found(t), reg[t])
        BY <1>1, Busy DEF Reach, Found
    <2> QED
        BY <1>1, <2>1, <2>2, <2>3, ContinueQuiet DEF Found
<1> QED
    BY <1>4, <1>5, <1>6 DEF ProbeEntry

-----------------------------------------------------------------------------
(* The steps of set and set_nx *)

LEMMA ReplaceOK ==
    ASSUME LfkvIInv, NEW t \in Threads, Replace(t)
    PROVE  LfkvIInv'
<1> DEFINE l == [reg[t] EXCEPT !.e = slot[reg[t].s].entry]
<1>1. pc[t] = "replace" /\ pc[t] # "idle" /\ UNCHANGED tableVars /\ Continue(t, "replace_cas", l)
    BY DEF Replace
<1>2. slot[reg[t].s].entry \in Entries \cup {NULL}
    BY <1>1, MayStore DEF Holding
<1>3. l \in Locals /\ l.f = reg[t].f /\ l.s = reg[t].s /\ l.tomb = reg[t].tomb
    BY <1>1, <1>2, Busy DEF Locals
<1> HIDE DEF l
<1>4. Shape("replace_cas", l, call[t]) /\ Reach("replace_cas", l)
    BY <1>1, <1>3, Busy DEF Shape, Reach, Serves, Pcs, Owning, Holding
<1> QED
    BY <1>1, <1>3, <1>4, ContinueQuiet

LEMMA ReplaceCasOK ==
    ASSUME LfkvIInv, NEW t \in Threads, ReplaceCas(t)
    PROVE  LfkvIInv'
<1>1. pc[t] = "replace_cas" /\ pc[t] # "idle"
    BY DEF ReplaceCas
<1>2. CASE Same(t)
    <2>1. call[t].val \in Vals
        BY <1>1, Busy DEF Serves, Calls, Writes
    <2>2. Entry(call[t].val, 0) \in Entries \cup {NULL}
        BY <2>1, EntryFact
    <2>3. Swap(t, reg[t].s, Entry(call[t].val, 0), 0)
        BY <1>2 DEF ReplaceCas
    <2>4. call[t].op = "set" /\ Entry(call[t].val, 0) # NULL
        BY <1>1, <2>1, Busy, EntryFact DEF Serves
    <2> QED
        BY <1>1, <2>2, <2>3, <2>4, SwapOK DEF Holding, Owning
<1>3. CASE ~ Same(t)
    <2>1. Continue(t, "replace", reg[t]) /\ UNCHANGED tableVars
        BY <1>3 DEF ReplaceCas
    <2>2. Shape("replace", reg[t], call[t]) /\ Reach("replace", reg[t])
        BY <1>1, Busy DEF Shape, Reach, Serves, Pcs, Owning, Holding
    <2> QED
        BY <1>1, <2>1, <2>2, ContinueQuiet
<1> QED
    BY <1>2, <1>3

LEMMA PublishOK ==
    ASSUME LfkvIInv, NEW t \in Threads, pc[t] \in Owning, NEW d \in Cells, Publish(t, d)
    PROVE  LfkvIInv'
<1>1. reg[t].f # NULL /\ pc[t] # "idle"
    BY DEF LfkvIInv, ThreadInv, Shape, Owning
<1>2. Shape("raise", Fresh(0), call[t])
    BY <1>1, Busy, RaiseShape DEF Serves
<1> QED
    BY <1>1, <1>2, Continues, PublishStep DEF Publish

LEMMA BeatenOK ==
    ASSUME LfkvIInv, NEW t \in Threads, pc[t] \in {"claim", "scan"}, NEW d \in Cells,
           table[d] # NULL, Beaten(t, table[d])
    PROVE  LfkvIInv'
<1>1. reg[t].f # NULL /\ pc[t] # "idle" /\ Discard(t)
    BY DEF LfkvIInv, ThreadInv, Shape, Owning, Beaten
<1>2. CASE call[t].op = "set"
    <2> DEFINE l == [reg[t] EXCEPT !.s = table[d], !.f = NULL]
    <2>1. Continue(t, "replace", l)
        BY <1>2 DEF Beaten
    <2>2. l \in Locals /\ l.f = NULL /\ l.s = table[d] /\ l.tomb = reg[t].tomb
        BY <1>1, Busy, CellSlot DEF Locals
    <2> HIDE DEF l
    <2>3. Shape("replace", l, call[t])
        BY <1>1, <1>2, <2>2, Busy DEF Shape, Serves, Pcs, Owning, Holding, Walks
    <2>4. Reach("replace", l)
        BY <1>1, <2>2, Busy, CellSlot DEF Reach
    <2>5. Moves(t, "replace", l, call[t])
        BY <2>1, Continues
    <2> QED
        BY <1>1, <2>2, <2>3, <2>4, <2>5, DiscardStep
<1>3. CASE call[t].op # "set"
    <2> DEFINE l == Fresh(Home(t))
    <2>1. Continue(t, "probe", l)
        BY <1>3 DEF Beaten, Reprobe
    <2>2. l \in Locals /\ l.f = NULL /\ l.s = NULL /\ l.tomb = None
        BY <1>1, Busy, IdleLocals
    <2> HIDE DEF l
    <2>3. Shape("probe", l, call[t]) /\ Reach("probe", l)
        BY <1>1, <2>2, Busy DEF Shape, Reach, Serves, Pcs, Owning, Holding, Walks
    <2>4. Moves(t, "probe", l, call[t])
        BY <2>1, Continues
    <2> QED
        BY <1>1, <2>2, <2>3, <2>4, DiscardStep
<1> QED
    BY <1>2, <1>3

LEMMA TombLoadOK ==
    ASSUME LfkvIInv, NEW t \in Threads, TombLoad(t)
    PROVE  LfkvIInv'
<1> DEFINE l == [reg[t] EXCEPT !.s = table[reg[t].tomb]]
<1>1. pc[t] = "tomb_load" /\ pc[t] # "idle" /\ UNCHANGED tableVars /\ Continue(t, "tomb_entry", l)
    BY DEF TombLoad
<1>2. reg[t].tomb \in Cells /\ table[reg[t].tomb] # NULL
    BY <1>1, Busy DEF Shape, Reach, Locals
<1>3. l \in Locals /\ l.f = reg[t].f /\ l.s = table[reg[t].tomb] /\ l.tomb = reg[t].tomb
    BY <1>1, <1>2, Busy DEF Locals
<1> HIDE DEF l
<1>4. Shape("tomb_entry", l, call[t])
    BY <1>1, <1>2, <1>3, Busy DEF Shape, Serves, Pcs, Owning, Holding
<1>5. Reach("tomb_entry", l)
    BY <1>2, <1>3, CellSlot DEF Reach
<1> QED
    BY <1>1, <1>3, <1>4, <1>5, ContinueQuiet

LEMMA TombEntryOK ==
    ASSUME LfkvIInv, NEW t \in Threads, TombEntry(t)
    PROVE  LfkvIInv'
<1> DEFINE p == IF slot[reg[t].s].entry = NULL THEN "tomb_cas" ELSE "claim"
<1>1. pc[t] = "tomb_entry" /\ pc[t] # "idle" /\ UNCHANGED tableVars /\ Continue(t, p, reg[t])
    BY DEF TombEntry
<1>2. p \in {"tomb_cas", "claim"}
    OBVIOUS
<1> HIDE DEF p
<1>3. Shape(p, reg[t], call[t]) /\ Reach(p, reg[t])
    BY <1>1, <1>2, Busy DEF Shape, Reach, Serves, Pcs, Owning, Holding
<1> QED
    BY <1>1, <1>2, <1>3, ContinueQuiet

LEMMA TombCasOK ==
    ASSUME LfkvIInv, NEW t \in Threads, TombCas(t)
    PROVE  LfkvIInv'
<1>1. pc[t] = "tomb_cas" /\ pc[t] # "idle"
    BY DEF TombCas
<1>2. reg[t].tomb \in Cells
    BY <1>1, Busy DEF Shape, Locals
<1>3. CASE Reuse(t)
    BY <1>1, <1>2, <1>3, PublishOK DEF TombCas, Owning
<1>4. CASE ~ Reuse(t)
    <2>1. Continue(t, "claim", reg[t]) /\ UNCHANGED tableVars
        BY <1>4 DEF TombCas
    <2>2. Shape("claim", reg[t], call[t]) /\ Reach("claim", reg[t])
        BY <1>1, Busy DEF Shape, Reach, Serves, Pcs, Owning, Holding
    <2> QED
        BY <1>1, <2>1, <2>2, ContinueQuiet
<1> QED
    BY <1>3, <1>4

\* A thread that goes on to another cell, with a fresh slot in its hand.
LEMMA ScanOn ==
    ASSUME LfkvIInv, NEW t \in Threads, pc[t] \in {"claim", "scan"}, NEW n \in 0 .. NSlots,
           Continue(t, "scan", [reg[t] EXCEPT !.i = next(@), !.n = n]), UNCHANGED tableVars
    PROVE  LfkvIInv'
<1> DEFINE l == [reg[t] EXCEPT !.i = next(@), !.n = n]
<1>1. pc[t] # "idle"
    OBVIOUS
<1>2. next(reg[t].i) \in Cells
    BY <1>1, Busy, NextCell DEF Locals
<1>3. l \in Locals /\ l.f = reg[t].f /\ l.s = reg[t].s /\ l.tomb = reg[t].tomb
    BY <1>1, <1>2, Busy DEF Locals
<1> HIDE DEF l
<1>4. Shape("scan", l, call[t]) /\ Reach("scan", l)
    BY <1>1, <1>3, Busy DEF Shape, Reach, Serves, Pcs, Owning, Holding
<1>5. Continue(t, "scan", l)
    BY DEF l
<1> QED
    BY <1>3, <1>4, <1>5, ContinueQuiet

LEMMA ClaimOK ==
    ASSUME LfkvIInv, NEW t \in Threads, Claim(t)
    PROVE  LfkvIInv'
<1>1. pc[t] = "claim" /\ pc[t] # "idle"
    BY DEF Claim
<1>2. reg[t].i \in Cells
    BY <1>1, Busy DEF Locals
<1>3. CASE table[reg[t].i] = NULL
    BY <1>1, <1>2, <1>3, PublishOK DEF Claim, Owning
<1>4. CASE table[reg[t].i] # NULL /\ Claimed(t, table[reg[t].i])
    BY <1>1, <1>2, <1>4, BeatenOK DEF Claim
<1>5. CASE table[reg[t].i] # NULL /\ ~ Claimed(t, table[reg[t].i])
    <2>1. 0 \in 0 .. NSlots
        OBVIOUS
    <2> QED
        BY <1>1, <1>5, <2>1, ScanOn DEF Claim
<1> QED
    BY <1>3, <1>4, <1>5

LEMMA ScanOK ==
    ASSUME LfkvIInv, NEW t \in Threads, Scan(t)
    PROVE  LfkvIInv'
<1>1. pc[t] = "scan" /\ pc[t] # "idle"
    BY DEF Scan
<1>2. reg[t].i \in Cells /\ reg[t].n \in 0 .. NSlots
    BY <1>1, Busy DEF Locals
<1>3. CASE Full(t)
    <2>1. Discard(t) /\ Fails(t)
        BY <1>3 DEF Scan
    <2>2. Moves(t, "idle", Fresh(0), NULL)
        BY <2>1, Returns DEF Fails
    <2>3. reg[t].f # NULL
        BY <1>1, Busy DEF Shape, Owning
    <2>4. Fresh(0).f = NULL
        BY DEF Fresh
    <2> QED
        BY <1>1, <2>1, <2>2, <2>3, <2>4, IdleShape, DiscardStep
<1>4. CASE ~ Full(t) /\ table[reg[t].i] = NULL
    <2>1. Continue(t, "claim", reg[t]) /\ UNCHANGED tableVars
        BY <1>4 DEF Scan
    <2>2. Shape("claim", reg[t], call[t]) /\ Reach("claim", reg[t])
        BY <1>1, Busy DEF Shape, Reach, Serves, Pcs, Owning, Holding
    <2> QED
        BY <1>1, <2>1, <2>2, ContinueQuiet
<1>5. CASE ~ Full(t) /\ table[reg[t].i] # NULL /\ Claimed(t, table[reg[t].i])
    BY <1>1, <1>2, <1>5, BeatenOK DEF Scan
<1>6. CASE ~ Full(t) /\ table[reg[t].i] # NULL /\ ~ Claimed(t, table[reg[t].i])
    <2>1. reg[t].n + 1 \in 0 .. NSlots
        BY <1>2, <1>6 DEF Full
    <2> DEFINE n == reg[t].n + 1
    <2>2. /\ Continue(t, "scan", [reg[t] EXCEPT !.i = next(@), !.n = n])
          /\ UNCHANGED tableVars
        BY <1>6 DEF Scan
    <2> HIDE DEF n
    <2>3. n \in 0 .. NSlots
        BY <2>1 DEF n
    <2> QED
        BY <1>1, <2>2, <2>3, ScanOn
<1> QED
    BY <1>3, <1>4, <1>5, <1>6

LEMMA NxLoadOK ==
    ASSUME LfkvIInv, NEW t \in Threads, NxLoad(t)
    PROVE  LfkvIInv'
<1> DEFINE e == slot[reg[t].s].entry
<1>1. pc[t] = "nx_load" /\ pc[t] # "idle" /\ UNCHANGED tableVars
    BY DEF NxLoad
<1>2. e \in Entries \cup {NULL}
    BY <1>1, MayStore DEF Holding
<1> HIDE DEF e
<1>3. CASE e = NULL
    <2>1. Continue(t, "nx_install", reg[t])
        BY <1>3 DEF NxLoad, e
    <2>2. Shape("nx_install", reg[t], call[t]) /\ Reach("nx_install", reg[t])
        BY <1>1, Busy DEF Shape, Reach, Serves, Pcs, Owning, Holding
    <2> QED
        BY <1>1, <2>1, <2>2, ContinueQuiet
<1>4. CASE e # NULL /\ entry_expired(t, e)
    <2> DEFINE l == [reg[t] EXCEPT !.e = e]
    <2>1. Continue(t, "expire", l)
        BY <1>4 DEF NxLoad, e
    <2>2. l \in Locals /\ l.f = reg[t].f /\ l.s = reg[t].s /\ l.tomb = reg[t].tomb /\ l.e # NULL
        BY <1>1, <1>2, <1>4, Busy DEF Locals
    <2> HIDE DEF l
    <2>3. Shape("expire", l, call[t]) /\ Reach("expire", l)
        BY <1>1, <2>2, Busy DEF Shape, Reach, Serves, Pcs, Owning, Holding
    <2> QED
        BY <1>1, <2>1, <2>2, <2>3, ContinueQuiet
<1>5. CASE e # NULL /\ ~ entry_expired(t, e)
    <2>1. Return(t, 0)
        BY <1>5 DEF NxLoad, e
    <2> QED
        BY <1>1, <2>1, ReturnQuiet DEF Owning
<1> QED
    BY <1>3, <1>4, <1>5

LEMMA NxInstallOK ==
    ASSUME LfkvIInv, NEW t \in Threads, NxInstall(t)
    PROVE  LfkvIInv'
<1>1. pc[t] = "nx_install" /\ pc[t] # "idle"
    BY DEF NxInstall
<1>2. call[t].val \in Vals /\ call[t].op = "set_nx"
    BY <1>1, Busy DEF Serves, Calls, Writes
<1>3. Entry(call[t].val, 0) \in Entries \cup {NULL}
    BY <1>2, EntryFact
<1>4. CASE slot[reg[t].s].entry = NULL
    <2>1. Swap(t, reg[t].s, Entry(call[t].val, 0), 1) /\ Entry(call[t].val, 0) # NULL
        BY <1>2, <1>4, EntryFact DEF NxInstall
    <2> QED
        BY <1>1, <1>2, <1>3, <2>1, SwapOK DEF Holding, Owning
<1>5. CASE slot[reg[t].s].entry # NULL
    BY <1>1, <1>2, <1>5, ReprobeQuiet DEF NxInstall, Owning, Walks
<1> QED
    BY <1>4, <1>5

-----------------------------------------------------------------------------
(* The steps of the other operations on the slot found *)

LEMMA LoadOK ==
    ASSUME LfkvIInv, NEW t \in Threads, Load(t)
    PROVE  LfkvIInv'
<1> DEFINE e == slot[reg[t].s].entry
           l == [reg[t] EXCEPT !.e = e]
<1>1. pc[t] = "load" /\ pc[t] # "idle" /\ UNCHANGED tableVars
    BY DEF Load
<1>2. e \in Entries \cup {NULL}
    BY <1>1, MayStore DEF Holding
<1>3. l \in Locals /\ l.f = reg[t].f /\ l.s = reg[t].s /\ l.tomb = reg[t].tomb /\ l.e = e
    BY <1>1, <1>2, Busy DEF Locals
<1>4. \/ \E x : Return(t, x)
      \/ e # NULL /\ Continue(t, "expire", l)
      \/ e # NULL /\ call[t].op \notin {"get", "get_expiry"} /\ Continue(t, "update", l)
    BY Zenon DEF Load
<1> HIDE DEF l, e
<1>5. CASE \E x : Return(t, x)
    BY <1>1, <1>5, ReturnQuiet DEF Owning
<1>6. CASE e # NULL /\ Continue(t, "expire", l)
    <2>1. Shape("expire", l, call[t]) /\ Reach("expire", l)
        BY <1>1, <1>3, <1>6, Busy DEF Shape, Reach, Serves, Pcs, Owning, Holding
    <2> QED
        BY <1>1, <1>3, <1>6, <2>1, ContinueQuiet
<1>7. CASE e # NULL /\ call[t].op \notin {"get", "get_expiry"} /\ Continue(t, "update", l)
    <2>1. Shape("update", l, call[t]) /\ Reach("update", l)
        BY <1>1, <1>3, <1>7, Busy DEF Shape, Reach, Serves, Pcs, Owning, Holding
    <2> QED
        BY <1>1, <1>3, <1>7, <2>1, ContinueQuiet
<1> QED
    BY <1>4, <1>5, <1>6, <1>7

LEMMA RetryOK ==
    ASSUME LfkvIInv, NEW t \in Threads, pc[t] \in {"expire", "update"},
           Retry(t), UNCHANGED tableVars
    PROVE  LfkvIInv'
<1>1. pc[t] # "idle" /\ pc[t] \notin Owning
    BY DEF Owning
<1>2. call[t].op \in Updates \cup {"get", "get_expiry", "set_nx"}
    BY <1>1, Busy DEF Serves
<1>3. CASE Compares(t)
    <2>1. Continue(t, "load", reg[t])
        BY <1>3 DEF Retry
    <2>2. call[t].op \in Updates \cup {"get", "get_expiry"}
        BY <1>3 DEF Compares, Comparing, Updates
    <2>3. Shape("load", reg[t], call[t]) /\ Reach("load", reg[t])
        BY <1>1, <2>2, Busy DEF Shape, Reach, Serves, Pcs, Owning, Holding
    <2> QED
        BY <2>1, <2>3, ContinueQuiet
<1>4. CASE ~ Compares(t)
    <2>1. Reprobe(t)
        BY <1>4 DEF Retry
    <2>2. call[t].op \notin Walks
        BY <1>2 DEF Walks, Updates
    <2> QED
        BY <1>1, <2>1, <2>2, ReprobeQuiet
<1> QED
    BY <1>3, <1>4

\* A removal that is done and has yet to be counted.
LEMMA LowerShape ==
    ASSUME LfkvIInv, NEW t \in Threads, pc[t] \in Holding \ Owning,
           call[t].op \in Walks => reg[t].n < NSlots
    PROVE  Shape("lower", reg[t], call[t])
<1>1. pc[t] # "idle" /\ reg[t].f = NULL
    BY DEF Holding, LfkvIInv, ThreadInv, Shape
<1> QED
    BY <1>1, Busy DEF Shape, Serves, Pcs, Owning, Holding

LEMMA ExpireOK ==
    ASSUME LfkvIInv, NEW t \in Threads, Expire(t)
    PROVE  LfkvIInv'
<1>1. pc[t] = "expire" /\ pc[t] # "idle"
    BY DEF Expire
<1>2. CASE ~ Same(t)
    BY <1>1, <1>2, RetryOK DEF Expire
<1>3. CASE Same(t)
    <2>1. Swap(t, reg[t].s, NULL, Absent(t))
        BY <1>3 DEF Expire
    <2>2. slot[reg[t].s].entry # NULL
        BY <1>1, <1>3, Busy DEF Shape, Same
    <2>3. call[t].op \notin Walks
        BY <1>1, Busy DEF Serves
    <2>4. Shape("lower", reg[t], call[t])
        BY <1>1, <2>3, LowerShape DEF Holding, Owning
    <2> QED
        BY <1>1, <2>1, <2>2, <2>4, SwapOK DEF Holding, Owning
<1> QED
    BY <1>2, <1>3

LEMMA UpdateOK ==
    ASSUME LfkvIInv, NEW t \in Threads, Update(t)
    PROVE  LfkvIInv'
<1>1. pc[t] = "update" /\ pc[t] # "idle"
    BY DEF Update
<1>2. CASE ~ Same(t)
    BY <1>1, <1>2, RetryOK DEF Update
<1>3. CASE Same(t)
    <2>1. Swap(t, reg[t].s, Updated(t, reg[t].e), 1)
        BY <1>3 DEF Update
    <2>2. reg[t].e \in Entries /\ reg[t].e.val \in Vals /\ reg[t].e.expiry \in Expiries \cup {0}
        BY <1>1, Busy DEF Shape, Locals, Entries
    <2>3. /\ call[t].op \in Updates /\ call[t].expiry \in Expiries \cup {0}
          /\ call[t].op \in {"set_xx", "cas"} => call[t].val \in Vals
        BY <1>1, Busy DEF Serves, Calls, Writes
    <2>4. Updated(t, reg[t].e) \in Entries \cup {NULL}
        <3>1. CASE call[t].op \in {"del", "cas_null"}
            BY <3>1 DEF Updated
        <3>2. CASE call[t].op = "set_xx"
            BY <2>3, <3>2, EntryFact DEF Updated
        <3>3. CASE call[t].op \in {"set_expiry", "touch"}
            BY <2>2, <2>3, <3>3, EntryFact DEF Updated
        <3>4. CASE call[t].op = "cas"
            BY <2>2, <2>3, <3>4, EntryFact DEF Updated, KeptExpiry
        <3> QED
            BY <2>3, <3>1, <3>2, <3>3, <3>4 DEF Updates
    <2>5. slot[reg[t].s].entry # NULL
        BY <1>1, <1>3, Busy DEF Shape, Same
    <2>6. Shape("lower", reg[t], call[t])
        BY <1>1, <2>3, LowerShape DEF Holding, Owning, Updates, Walks
    <2> QED
        BY <1>1, <2>1, <2>4, <2>5, <2>6, SwapOK DEF Holding, Owning
<1> QED
    BY <1>2, <1>3

-----------------------------------------------------------------------------
(* The walks *)

LEMMA WalkSlotOK ==
    ASSUME LfkvIInv, NEW t \in Threads, WalkSlot(t)
    PROVE  LfkvIInv'
<1>1. pc[t] = "walk" /\ pc[t] # "idle" /\ UNCHANGED tableVars
    BY DEF WalkSlot
<1>2. reg[t] \in Locals /\ reg[t].i \in Cells /\ reg[t].n \in 0 .. NSlots
    BY <1>1, Busy DEF Locals
<1>3. CASE Full(t)
    BY <1>1, <1>3, ReturnQuiet DEF WalkSlot, Owning
<1>4. CASE ~ Full(t) /\ table[reg[t].i] = NULL
    <2> DEFINE l == [reg[t] EXCEPT !.i = next(@), !.n = @ + 1]
    <2>1. Continue(t, "walk", l)
        BY <1>4 DEF WalkSlot
    <2>2. next(reg[t].i) \in Cells /\ reg[t].n + 1 \in 0 .. NSlots
        BY <1>2, <1>4, NextCell DEF Full
    <2>3. l \in Locals /\ l.f = reg[t].f /\ l.s = reg[t].s /\ l.tomb = reg[t].tomb
        BY <1>2, <2>2 DEF Locals
    <2> HIDE DEF l
    <2>4. Shape("walk", l, call[t]) /\ Reach("walk", l)
        BY <1>1, <2>3, Busy DEF Shape, Reach, Serves, Pcs, Owning, Holding
    <2> QED
        BY <1>1, <2>1, <2>3, <2>4, ContinueQuiet
<1>5. CASE ~ Full(t) /\ table[reg[t].i] # NULL
    <2> DEFINE l == [reg[t] EXCEPT !.s = table[reg[t].i]]
    <2>1. Continue(t, "walk_entry", l)
        BY <1>5 DEF WalkSlot
    <2>2. /\ l \in Locals /\ l.f = reg[t].f /\ l.s = table[reg[t].i] /\ l.tomb = reg[t].tomb
          /\ l.n < NSlots
        BY <1>1, <1>2, <1>5, Busy DEF Locals, Full
    <2> HIDE DEF l
    <2>3. Shape("walk_entry", l, call[t])
        BY <1>1, <1>5, <2>2, Busy DEF Shape, Serves, Pcs, Owning, Holding
    <2>4. Reach("walk_entry", l)
        BY <1>1, <1>2, <1>5, <2>2, Busy, CellSlot DEF Reach
    <2> QED
        BY <1>1, <2>1, <2>2, <2>3, <2>4, ContinueQuiet
<1> QED
    BY <1>3, <1>4, <1>5

\* The cell that a walk goes on to.
Beyond(t) == [reg[t] EXCEPT !.i = next(@), !.n = @ + 1, !.s = NULL, !.e = NULL]

LEMMA OnwardShape ==
    ASSUME LfkvIInv, NEW t \in Threads, call[t].op \in Walks,
           pc[t] \in {"walk_entry", "walk_cas", "lower"}
    PROVE  /\ Shape("walk", Beyond(t), call[t]) /\ Reach("walk", Beyond(t))
           /\ Beyond(t).f = reg[t].f
<1>1. pc[t] # "idle"
    OBVIOUS
<1>2. reg[t] \in Locals /\ reg[t].i \in Cells /\ reg[t].n \in 0 .. NSlots /\ reg[t].n < NSlots
    BY <1>1, Busy DEF Locals, Shape
<1>3. next(reg[t].i) \in Cells /\ reg[t].n + 1 \in 0 .. NSlots
    BY <1>2, NextCell
<1>4. /\ Beyond(t) \in Locals /\ Beyond(t).f = reg[t].f /\ Beyond(t).s = NULL
      /\ Beyond(t).tomb = reg[t].tomb
    BY <1>2, <1>3 DEF Locals, Beyond
<1> QED
    BY <1>1, <1>4, Busy DEF Shape, Reach, Serves, Pcs, Owning, Holding

LEMMA OnwardOK ==
    ASSUME LfkvIInv, NEW t \in Threads, pc[t] \in {"walk_entry", "walk_cas"},
           Onward(t), UNCHANGED tableVars
    PROVE  LfkvIInv'
<1>1. Continue(t, "walk", Beyond(t)) /\ pc[t] # "idle"
    BY DEF Onward, Beyond
<1>2. call[t].op \in Walks
    BY <1>1, Busy DEF Serves
<1> QED
    BY <1>1, <1>2, OnwardShape, ContinueQuiet

LEMMA WalkEntryOK ==
    ASSUME LfkvIInv, NEW t \in Threads, WalkEntry(t)
    PROVE  LfkvIInv'
<1> DEFINE e == slot[reg[t].s].entry
           l == [reg[t] EXCEPT !.e = e]
<1>1. pc[t] = "walk_entry" /\ pc[t] # "idle" /\ UNCHANGED tableVars
    BY DEF WalkEntry
<1>2. e \in Entries \cup {NULL}
    BY <1>1, MayStore DEF Holding
<1>3. l \in Locals /\ l.f = reg[t].f /\ l.s = reg[t].s /\ l.tomb = reg[t].tomb /\ l.n = reg[t].n /\ l.e = e
    BY <1>1, <1>2, Busy DEF Locals
<1>4. Onward(t) \/ (e # NULL /\ Continue(t, "walk_cas", l))
    BY Zenon DEF WalkEntry
<1> HIDE DEF l, e
<1>5. CASE Onward(t)
    BY <1>1, <1>5, OnwardOK
<1>6. CASE e # NULL /\ Continue(t, "walk_cas", l)
    <2>1. Shape("walk_cas", l, call[t]) /\ Reach("walk_cas", l)
        BY <1>1, <1>3, <1>6, Busy DEF Shape, Reach, Serves, Pcs, Owning, Holding
    <2> QED
        BY <1>1, <1>3, <1>6, <2>1, ContinueQuiet
<1> QED
    BY <1>4, <1>5, <1>6

LEMMA WalkCasOK ==
    ASSUME LfkvIInv, NEW t \in Threads, WalkCas(t)
    PROVE  LfkvIInv'
<1>1. pc[t] = "walk_cas" /\ pc[t] # "idle"
    BY DEF WalkCas
<1>2. CASE Same(t)
    <2>1. Swap(t, reg[t].s, NULL, NULL)
        BY <1>2 DEF WalkCas
    <2>2. slot[reg[t].s].entry # NULL /\ reg[t].n < NSlots
        BY <1>1, <1>2, Busy DEF Shape, Same
    <2>3. Shape("lower", reg[t], call[t])
        BY <1>1, <2>2, LowerShape DEF Holding, Owning
    <2> QED
        BY <1>1, <2>1, <2>2, <2>3, SwapOK DEF Holding, Owning
<1>3. CASE ~ Same(t) /\ call[t].op = "clear"
    <2>1. Continue(t, "walk_entry", reg[t]) /\ UNCHANGED tableVars
        BY <1>3 DEF WalkCas
    <2>2. Shape("walk_entry", reg[t], call[t]) /\ Reach("walk_entry", reg[t])
        BY <1>1, Busy DEF Shape, Reach, Serves, Pcs, Owning, Holding
    <2> QED
        BY <1>1, <2>1, <2>2, ContinueQuiet
<1>4. CASE ~ Same(t) /\ call[t].op # "clear"
    BY <1>1, <1>4, OnwardOK DEF WalkCas
<1> QED
    BY <1>2, <1>3, <1>4

-----------------------------------------------------------------------------
(* Invariance *)

\* The count after the swap.
LEMMA RaiseOK ==
    ASSUME LfkvIInv, NEW t \in Threads, Raise(t)
    PROVE  LfkvIInv'
<1>1. pc[t] = "raise" /\ UNCHANGED <<table, slot>> /\ Moves(t, "idle", Fresh(0), NULL)
    BY Returns DEF Raise
<1>2. reg[t].f = NULL /\ Fresh(0).f = NULL
    BY <1>1 DEF LfkvIInv, ThreadInv, Shape, Owning, Fresh
<1>3. count' \in Int /\ count' - count = Due(pc[t]) - Due("idle")
    BY <1>1 DEF Raise, Due, LfkvIInv, LfkvTypeOK
<1> QED
    BY <1>1, <1>2, <1>3, IdleShape, QuietStep

LEMMA LowerOK ==
    ASSUME LfkvIInv, NEW t \in Threads, Lower(t)
    PROVE  LfkvIInv'
<1>1. pc[t] = "lower" /\ pc[t] # "idle" /\ UNCHANGED <<table, slot>>
    BY DEF Lower
<1>2. reg[t].f = NULL /\ Fresh(0).f = NULL
    BY <1>1 DEF LfkvIInv, ThreadInv, Shape, Owning, Fresh
<1>3. count' \in Int /\ count' - count = -1 /\ Due(pc[t]) = -1
    BY <1>1 DEF Lower, Due, LfkvIInv, LfkvTypeOK
<1>4. CASE call[t].op \in Walks
    <2>1. Moves(t, "walk", Beyond(t), call[t])
        BY <1>4, Continues DEF Lower, Onward, Beyond, Walks
    <2>2. Due("walk") = 0
        BY DEF Due
    <2> QED
        BY <1>1, <1>3, <1>4, <2>1, <2>2, OnwardShape, QuietStep
<1>5. CASE call[t].op = "set_nx"
    <2>1. call[t].op \notin Walks
        BY <1>5 DEF Walks
    <2>2. Moves(t, "probe", Fresh(Home(t)), call[t])
        BY <1>5, <2>1, Continues DEF Lower, Reprobe
    <2>3. Due("probe") = 0
        BY DEF Due
    <2> QED
        BY <1>1, <1>2, <1>3, <2>1, <2>2, <2>3, ReprobeShape, QuietStep
<1>6. CASE call[t].op \notin Walks \cup {"set_nx"}
    <2>1. Moves(t, "idle", Fresh(0), NULL)
        BY <1>6, Returns DEF Lower
    <2>2. Due("idle") = 0
        BY DEF Due
    <2> QED
        BY <1>1, <1>2, <1>3, <2>1, <2>2, IdleShape, QuietStep
<1> QED
    BY <1>4, <1>5, <1>6

LEMMA InvokeOK ==
    ASSUME LfkvIInv, NEW t \in Threads, NEW c \in Requests, Invoke(t, c)
    PROVE  LfkvIInv'
<1> DEFINE b == [op |-> c.op, key |-> c.key, val |-> c.val, expected |-> c.expected,
                 expiry |-> c.expiry, now |-> clock]
           p == IF c.op \in Walks THEN "walk" ELSE "probe"
           l == Fresh(IF c.op \in Walks THEN 0 ELSE Hash[c.key])
<1>1. pc[t] = "idle" /\ UNCHANGED tableVars /\ Moves(t, p, l, b)
    BY DEF Invoke, Moves, Goto, Locally
<1>2. b \in Calls /\ b.op = c.op /\ b.val = c.val /\ (c.op \in Writes) = (c.val # NULL)
    <2>1. clock \in 0 .. MaxClock
        BY DEF LfkvIInv, LfkvTypeOK
    <2> QED
        BY <2>1 DEF Requests, Calls
<1>3. p \in {"walk", "probe"} /\ (p = "walk" <=> c.op \in Walks)
    OBVIOUS
<1>4. l \in Locals /\ l.f = NULL /\ l.s = NULL /\ l.tomb = None
    <2>1. 0 \in Cells /\ Hash[c.key] \in Cells
        BY DEF Requests, Cells
    <2> QED
        BY <2>1, IdleLocals
<1>5. reg[t].f = NULL
    BY <1>1 DEF LfkvIInv, ThreadInv, Shape, Owning
<1> HIDE DEF b, p, l
<1>6. Shape(p, l, b) /\ Reach(p, l)
    BY <1>2, <1>3, <1>4 DEF Shape, Reach, Serves, Pcs, Owning, Holding, Walks
<1>7. UNCHANGED <<table, slot>> /\ count' \in Int /\ count' - count = Due(pc[t]) - Due(p)
    BY <1>1, <1>3 DEF tableVars, Due, LfkvIInv, LfkvTypeOK
<1> QED
    BY <1>1, <1>4, <1>5, <1>6, <1>7, QuietStep

LEMMA LfkvInitOK == LfkvInit => LfkvIInv
<1> SUFFICES ASSUME LfkvInit
             PROVE  LfkvIInv
    OBVIOUS
<1>1. 0 \in Cells /\ "idle" \in Pcs
    BY DEF Cells, Pcs
<1>2. reg \in [Threads -> Locals] /\ pc \in [Threads -> Pcs]
    BY <1>1, IdleLocals DEF LfkvInit
<1>3. LfkvTypeOK
    BY <1>2 DEF LfkvInit, LfkvTypeOK, Pcs
<1>4. ThreadInv
    BY IdleShape, IdleLocals, <1>1 DEF LfkvInit, ThreadInv, Reach, Owned
<1>5. CellInv /\ OnceInv
    BY IdleLocals, <1>1 DEF LfkvInit, CellInv, OnceInv
<1>6. Counted = {}
    BY DEF LfkvInit, Counted
<1>7. CountInv
    <2>1. Raising = {} /\ Lowering = {}
        BY DEF LfkvInit, Raising, Lowering
    <2> QED
        BY <1>6, <2>1, FS_EmptySet DEF LfkvInit, CountInv, Settled
<1> QED
    BY <1>3, <1>4, <1>5, <1>7 DEF LfkvIInv

LEMMA AskedFor ==
    ASSUME LfkvIInv, NEW t \in Threads, NEW c \in workload[t]
    PROVE  c \in Requests
BY DEF LfkvIInv, LfkvTypeOK

LEMMA LfkvStepOK == LfkvIInv /\ [LfkvNext]_lfkvVars => LfkvIInv'
<1> SUFFICES ASSUME LfkvIInv, [LfkvNext]_lfkvVars
             PROVE  LfkvIInv'
    OBVIOUS
<1>1. ASSUME NEW t \in Threads, Step(t)
      PROVE  LfkvIInv'
    BY <1>1, ProbeSlotOK, ProbeEntryOK, ReplaceOK, ReplaceCasOK, TombLoadOK, TombEntryOK,
       TombCasOK, ClaimOK, ScanOK, NxLoadOK, NxInstallOK, LoadOK, ExpireOK, UpdateOK,
       WalkSlotOK, WalkEntryOK, WalkCasOK, RaiseOK, LowerOK DEF Step
<1>2. ASSUME NEW t \in Threads, NEW c \in workload[t], Invoke(t, c)
      PROVE  LfkvIInv'
    BY <1>2, AskedFor, InvokeOK
<1>3. CASE Tick
    <2>1. clock' \in 0 .. MaxClock
        BY <1>3 DEF Tick, LfkvIInv, LfkvTypeOK
    <2>2. UNCHANGED <<workload, table, slot, count, call, answer, pc, reg>>
        BY <1>3 DEF Tick, tableVars, callVars
    <2>3. LfkvTypeOK'
        BY <2>1, <2>2 DEF LfkvIInv, LfkvTypeOK
    <2>4. ThreadInv'
        BY <2>2 DEF LfkvIInv, ThreadInv, Shape, Serves, Reach, Owned
    <2>5. CellInv' /\ OnceInv' /\ CountInv'
        BY <2>2 DEF LfkvIInv, CellInv, OnceInv, CountInv, Counted, Settled, Raising, Lowering
    <2> QED
        BY <2>3, <2>4, <2>5 DEF LfkvIInv
<1>4. CASE UNCHANGED lfkvVars
    <2>1. UNCHANGED <<workload, table, slot, count, clock, call, answer, pc, reg>>
        BY <1>4 DEF lfkvVars, tableVars, callVars
    <2>2. LfkvTypeOK'
        BY <2>1 DEF LfkvIInv, LfkvTypeOK
    <2>3. ThreadInv'
        BY <2>1 DEF LfkvIInv, ThreadInv, Shape, Serves, Reach, Owned
    <2>4. CellInv' /\ OnceInv' /\ CountInv'
        BY <2>1 DEF LfkvIInv, CellInv, OnceInv, CountInv, Counted, Settled, Raising, Lowering
    <2> QED
        BY <2>2, <2>3, <2>4 DEF LfkvIInv
<1> QED
    BY <1>1, <1>2, <1>3, <1>4 DEF LfkvNext

\* What the invariant says of the records is RecordsRight.
LEMMA IInvRecords == LfkvIInv => RecordsRight
<1> SUFFICES ASSUME LfkvIInv
             PROVE  RecordsRight
    OBVIOUS
<1>1. SlotOnce
    <2>1. Published \cap Private = {}
        BY DEF LfkvIInv, OnceInv, Published, Private
    <2> QED
        BY <2>1 DEF LfkvIInv, OnceInv, SlotOnce
<1>2. {s \in Records \ Private : slot[s] # NULL /\ slot[s].entry # NULL} = Counted
    BY DEF Counted, Private
<1>3. CountsEntries
    BY <1>2 DEF CountsEntries, LfkvIInv, CountInv
<1> QED
    BY <1>1, <1>3 DEF RecordsRight

\* Whatever the reactors ask for, however many they are: a slot record is in
\* one cell or in one thread's hand, so that no two keys share it, and
\* kv->count, which follows the swaps of lfkv_set, set_nx, del and clear in an
\* access of its own (lfkv.c), differs from the number of records that have an
\* entry by the updates of it that are under way: none is lost or made twice,
\* even for a record that has lost its cell to another key.
THEOREM RecordsStayRight == LfkvSpec => []RecordsRight
<1>1. LfkvInit => LfkvIInv
    BY LfkvInitOK
<1>2. LfkvIInv /\ [LfkvNext]_lfkvVars => LfkvIInv'
    BY LfkvStepOK
<1>3. LfkvIInv => RecordsRight
    BY IInvRecords
<1> QED
    BY <1>1, <1>2, <1>3, PTL DEF LfkvSpec

-----------------------------------------------------------------------------
(* Reactors that insert, overwrite and read, and neither remove nor give a  *)
(* deadline, at which any access removes: the table has each key once, and  *)
(* the count, once the updates under way are in, is the number of keys.     *)
(* The slots of a key's probe fill up and stay, so that the first insertion *)
(* of a key is met by every later one.                                      *)

Inserting == {"get", "get_expiry", "set", "set_nx", "set_xx", "cas", "touch"}
OnlyInserts == \A t \in Threads : \A c \in workload[t] : c.op \in Inserting /\ c.expiry = 0

InsertPcs == {"idle", "probe", "probe_entry", "replace", "replace_cas", "claim", "scan",
              "nx_load", "load", "update", "raise"}
Probing == {"probe", "probe_entry", "claim", "scan"}
Counting == {"probe", "probe_entry", "scan"}
AtSlot == {"replace", "replace_cas", "nx_load", "load", "update"}

\* The place of cell c in the probe that starts at cell h.
Dist(h, c) == IF c >= h THEN c - h ELSE c - h + NSlots

\* A probe for k that has come to cell i has met other keys only.
Passed(k, i) == \A c \in Cells : Dist(Hash[k], c) < Dist(Hash[k], i) =>
                    table[c] # NULL /\ slot[table[c]].key # k

\* How far cell i is beyond cell c; a whole turn when they are the same.
Ahead(c, i) == IF c < i THEN i - c ELSE i - c + NSlots

\* The n cells before cell i hold other keys than k.
Behind(k, i, n) == \A c \in Cells : Ahead(c, i) <= n =>
                       table[c] # NULL /\ slot[table[c]].key # k

\* Slot s is in the table, under the key k.
Holds(s, k) == s # NULL /\ slot[s].key = k /\ \E c \in Cells : table[c] = s

\* A thread at p with the locals l, in the operation c.
Inserter(p, l, c) ==
    /\ p \in InsertPcs
    /\ p # "idle" => c.op \in Inserting /\ c.expiry = 0
    /\ l.tomb = None
    /\ p = "update" => c.op # "touch" /\ l.e.expiry = 0
    /\ p = "update" /\ c.op = "cas" => l.e.val = c.expected
    /\ p \in Probing => Passed(c.key, l.i)
    /\ p \in Counting => Behind(c.key, l.i, l.n)
    /\ p \in AtSlot => Holds(l.s, c.key)
    /\ p = "probe_entry" => table[l.i] # NULL /\ l.s = table[l.i]
    /\ l.f # NULL => slot[l.f].key = c.key /\ slot[l.f].entry = Entry(c.val, 0)

\* No slot loses its entry, no entry has a deadline.
NoTombstones == \A s \in Records : slot[s] # NULL => slot[s].entry # NULL /\ slot[s].entry.expiry = 0

\* No key is in two cells.
OneCell == \A c, d \in Cells :
               /\ table[c] # NULL /\ table[d] # NULL
               /\ slot[table[c]].key = slot[table[d]].key
               => c = d

\* A probe for a key meets no empty cell before it meets the key.
NoGap == \A c, d \in Cells :
             /\ table[c] # NULL
             /\ Dist(Hash[slot[table[c]].key], d) < Dist(Hash[slot[table[c]].key], c)
             => table[d] # NULL

\* Every slot is in the table or a thread's own.
Placed == \A s \in Records :
              slot[s] # NULL => (\E c \in Cells : table[c] = s) \/ (\E t \in Threads : reg[t].f = s)

InsertInv == /\ OnlyInserts
             /\ \A t \in Threads : Inserter(pc[t], reg[t], call[t])
             /\ NoTombstones /\ OneCell /\ NoGap /\ Placed

LEMMA DistFacts ==
    ASSUME NEW h \in Cells, NEW i \in Cells
    PROVE  /\ Dist(h, h) = 0
           /\ \A c \in Cells : Dist(h, c) \in 0 .. NSlots - 1
           /\ \A c \in Cells : Dist(h, c) = Dist(h, i) => c = i
           /\ Dist(h, next(i)) = 0 \/ Dist(h, next(i)) = Dist(h, i) + 1
<1>1. next(i) = IF i = NSlots - 1 THEN 0 ELSE i + 1
    BY DEF next, Cells
<1> QED
    BY <1>1 DEF Dist, Cells

\* A probe at the key's home has passed nothing.
LEMMA PassedHome ==
    ASSUME NEW k \in Keys
    PROVE  Passed(k, Hash[k])
BY DistFacts DEF Passed

\* A probe that finds another key in cell i passes it.
LEMMA PassedNext ==
    ASSUME NEW k \in Keys, NEW i \in Cells, Passed(k, i),
           table[i] # NULL, slot[table[i]].key # k
    PROVE  Passed(k, next(i))
<1>1. Hash[k] \in Cells
    OBVIOUS
<1> DEFINE h == Hash[k]
<1>2. SUFFICES ASSUME NEW c \in Cells, Dist(h, c) < Dist(h, next(i))
               PROVE  table[c] # NULL /\ slot[table[c]].key # k
    BY DEF Passed
<1>3. Dist(h, c) \in Nat /\ Dist(h, i) \in Nat /\ (Dist(h, c) = Dist(h, i) => c = i)
    BY <1>1, DistFacts
<1>4. Dist(h, next(i)) = 0 \/ Dist(h, next(i)) = Dist(h, i) + 1
    BY <1>1, DistFacts
<1>5. Dist(h, c) < Dist(h, i) \/ c = i
    BY <1>2, <1>3, <1>4
<1> QED
    BY <1>5 DEF Passed

LEMMA AheadFacts ==
    ASSUME NEW c \in Cells, NEW i \in Cells
    PROVE  /\ Ahead(c, i) \in 1 .. NSlots
           /\ c # i => Ahead(c, next(i)) = Ahead(c, i) + 1
           /\ c = i => Ahead(c, next(i)) = 1
<1>1. next(i) = IF i = NSlots - 1 THEN 0 ELSE i + 1
    BY DEF next, Cells
<1> QED
    BY <1>1 DEF Ahead, Cells

\* A probe starts with nothing behind it.
LEMMA BehindNone ==
    ASSUME NEW k, NEW i \in Cells
    PROVE  Behind(k, i, 0)
BY AheadFacts DEF Behind

LEMMA BehindNext ==
    ASSUME NEW k, NEW i \in Cells, NEW n \in Nat, Behind(k, i, n),
           table[i] # NULL, slot[table[i]].key # k
    PROVE  Behind(k, next(i), n + 1)
<1> SUFFICES ASSUME NEW c \in Cells, Ahead(c, next(i)) <= n + 1
             PROVE  table[c] # NULL /\ slot[table[c]].key # k
    BY DEF Behind
<1>1. Ahead(c, i) \in Nat /\ (c # i => Ahead(c, next(i)) = Ahead(c, i) + 1)
    BY AheadFacts
<1>2. c = i \/ Ahead(c, i) <= n
    BY <1>1
<1> QED
    BY <1>2 DEF Behind

\* What the threads other than t know stays true when the cells that are taken,
\* and the keys of slots in use, stay as they are.
LEMMA InsertersKept ==
    ASSUME LfkvIInv, InsertInv, NEW t \in Threads, NEW p, NEW l, NEW c,
           Moves(t, p, l, c), Inserter(p, l, c)',
           \A d \in Cells : table[d] # NULL =>
               table'[d] = table[d] /\ slot'[table[d]].key = slot[table[d]].key,
           \A u \in Threads \ {t} : reg[u].f # NULL => slot'[reg[u].f] = slot[reg[u].f]
    PROVE  \A u \in Threads : Inserter(pc[u], reg[u], call[u])'
<1> SUFFICES ASSUME NEW u \in Threads
             PROVE  Inserter(pc[u], reg[u], call[u])'
    OBVIOUS
<1>1. CASE u = t
    <2>1. pc'[u] = p /\ reg'[u] = l /\ call'[u] = c
        BY <1>1 DEF Moves, LfkvIInv, LfkvTypeOK
    <2> QED
        BY <2>1 DEF Inserter, Passed, Behind, Holds
<1>2. CASE u # t
    <2>1. pc'[u] = pc[u] /\ reg'[u] = reg[u] /\ call'[u] = call[u]
        BY <1>2 DEF Moves, LfkvIInv, LfkvTypeOK
    <2>2. Inserter(pc[u], reg[u], call[u]) /\ reg[u].i \in Cells
        BY DEF InsertInv, LfkvIInv, LfkvTypeOK, Locals
    <2>3. ASSUME pc[u] \in Probing
          PROVE  Passed(call[u].key, reg[u].i)'
        <3>1. Passed(call[u].key, reg[u].i)
            BY <2>2, <2>3 DEF Inserter
        <3> QED
            BY <2>1, <3>1 DEF Passed
    <2>4. ASSUME pc[u] \in Counting
          PROVE  Behind(call[u].key, reg[u].i, reg[u].n)'
        <3>1. Behind(call[u].key, reg[u].i, reg[u].n)
            BY <2>2, <2>4 DEF Inserter
        <3> QED
            BY <2>1, <3>1 DEF Behind
    <2>5. ASSUME pc[u] \in AtSlot
          PROVE  Holds(reg[u].s, call[u].key)'
        <3>1. Holds(reg[u].s, call[u].key)
            BY <2>2, <2>5 DEF Inserter
        <3> QED
            BY <2>1, <3>1 DEF Holds
    <2> QED
        BY <1>2, <2>1, <2>2, <2>3, <2>4, <2>5 DEF Inserter
<1> QED
    BY <1>1, <1>2

\* The five kinds of step again.
LEMMA InsertQuiet ==
    ASSUME LfkvIInv, InsertInv, NEW t \in Threads, NEW p, NEW l, NEW c,
           Moves(t, p, l, c), Inserter(p, l, c), l.f = reg[t].f, UNCHANGED <<table, slot>>
    PROVE  InsertInv'
<1>1. \A u \in Threads : reg'[u].f = reg[u].f
    BY DEF Moves, LfkvIInv, LfkvTypeOK
<1>2. Inserter(p, l, c)'
    BY DEF Inserter, Passed, Behind, Holds
<1>3. \A u \in Threads : Inserter(pc[u], reg[u], call[u])'
    BY <1>2, InsertersKept
<1>4. NoTombstones' /\ OneCell' /\ NoGap'
    BY DEF InsertInv, NoTombstones, OneCell, NoGap
<1>5. Placed'
    BY <1>1 DEF InsertInv, Placed
<1>6. OnlyInserts'
    BY DEF InsertInv, OnlyInserts, Moves
<1> QED
    BY <1>3, <1>4, <1>5, <1>6 DEF InsertInv

LEMMA InsertStore ==
    ASSUME LfkvIInv, InsertInv, NEW t \in Threads,
           Moves(t, "idle", Fresh(0), NULL), reg[t].f = NULL,
           NEW s \in Records, slot[s] # NULL, \A u \in Threads : reg[u].f # s,
           NEW e \in Entries, e.expiry = 0, Store(s, e)
    PROVE  InsertInv'
<1>0. 0 \in Cells
    BY DEF Cells
<1>1. \A u \in Threads : reg'[u].f = reg[u].f
    BY <1>0, IdleLocals DEF Moves, LfkvIInv, LfkvTypeOK
<1>2. slot \in [Records -> Slots \cup {NULL}] /\ slot[s] \in Slots
    BY DEF LfkvIInv, LfkvTypeOK
<1>3. slot' = [slot EXCEPT ![s] = [slot[s] EXCEPT !.entry = e]] /\ table' = table
    BY DEF Store
<1>4. [slot[s] EXCEPT !.entry = e].key = slot[s].key /\ [slot[s] EXCEPT !.entry = e].entry = e
      /\ [slot[s] EXCEPT !.entry = e] \in Slots
    BY <1>2 DEF Slots
<1>5. \A r \in Records : /\ slot'[r] # NULL <=> slot[r] # NULL
                         /\ r # s => slot'[r] = slot[r]
                         /\ slot'[r].key = slot[r].key
                         /\ slot'[r] = slot[r] \/ slot'[r].entry = e
    BY <1>2, <1>3, <1>4
<1>6. \A d \in Cells : table[d] \in Records \cup {NULL}
    BY DEF LfkvIInv, LfkvTypeOK
<1>7. \A u \in Threads : reg[u].f \in Records \cup {NULL}
    BY DEF LfkvIInv, LfkvTypeOK, Locals
<1>8. Inserter("idle", Fresh(0), NULL)'
    BY <1>0, IdleLocals DEF Inserter, InsertPcs, Probing, Counting, AtSlot
<1>9. \A u \in Threads : Inserter(pc[u], reg[u], call[u])'
    BY <1>3, <1>5, <1>6, <1>7, <1>8, InsertersKept
<1>10. NoTombstones'
    BY <1>5 DEF InsertInv, NoTombstones
<1>11. OneCell' /\ NoGap'
    BY <1>3, <1>5, <1>6 DEF InsertInv, OneCell, NoGap
<1>12. Placed'
    BY <1>1, <1>3, <1>5 DEF InsertInv, Placed
<1>13. OnlyInserts'
    BY DEF InsertInv, OnlyInserts, Moves
<1> QED
    BY <1>9, <1>10, <1>11, <1>12, <1>13 DEF InsertInv

LEMMA InsertAllocate ==
    ASSUME LfkvIInv, InsertInv, NEW t \in Threads, NEW p, NEW l, NEW c,
           Moves(t, p, l, c), Inserter(p, [l EXCEPT !.f = NULL], c), l \in Locals,
           reg[t].f = NULL, l.f \in Free,
           c.key \in Keys, p = "claim", NEW e \in Entries, e = Entry(c.val, 0),
           slot' = [slot EXCEPT ![l.f] = [key |-> c.key, entry |-> e]],
           UNCHANGED <<table, count>>
    PROVE  InsertInv'
<1> DEFINE f == l.f
<1>1. f \in Records /\ slot[f] = NULL
    BY DEF Free
<1>2. /\ [key |-> c.key, entry |-> e] \in Slots
      /\ [key |-> c.key, entry |-> e].entry = e /\ [key |-> c.key, entry |-> e].key = c.key
    BY DEF Slots
<1>3. /\ slot'[f] # NULL /\ slot'[f].entry = e /\ slot'[f].key = c.key
      /\ \A r \in Records \ {f} : slot'[r] = slot[r]
    BY <1>1, <1>2 DEF LfkvIInv, LfkvTypeOK
<1>4. \A d \in Cells : table[d] \in Records \cup {NULL} /\ table[d] # f
    BY <1>1 DEF LfkvIInv, CellInv, LfkvTypeOK
<1>5. \A u \in Threads : reg[u].f \in Records \cup {NULL} /\ reg[u].f # f
    BY <1>1 DEF LfkvIInv, ThreadInv, Owned, LfkvTypeOK, Locals
<1>6. reg'[t].f = f /\ \A u \in Threads \ {t} : reg'[u].f = reg[u].f
    BY DEF Moves, LfkvIInv, LfkvTypeOK
<1>7. table' = table
    OBVIOUS
<1>8. \A d \in Cells : table[d] # NULL => slot'[table[d]] = slot[table[d]]
    BY <1>3, <1>4
<1>9. Inserter(p, l, c)'
    <2> DEFINE m == [l EXCEPT !.f = NULL]
    <2>1. m.tomb = l.tomb /\ m.e = l.e /\ m.i = l.i
        BY DEF Locals
    <2> HIDE DEF m
    <2>2. p \in Probing => Passed(c.key, l.i)
        BY <2>1 DEF Inserter, m
    <2>3. (p \in Probing => Passed(c.key, l.i))'
        BY <2>2, <1>7, <1>8 DEF Passed
    <2>4. p \in InsertPcs /\ (p # "idle" => c.op \in Inserting /\ c.expiry = 0)
          /\ l.tomb = None /\ (p = "update" => c.op # "touch" /\ l.e.expiry = 0)
        BY <2>1 DEF Inserter, m
    <2> QED
        BY <2>3, <2>4, <1>3 DEF Inserter, Counting, AtSlot
<1>10. \A u \in Threads : Inserter(pc[u], reg[u], call[u])'
    <2>1. \A u \in Threads \ {t} : reg[u].f # NULL => slot'[reg[u].f] = slot[reg[u].f]
        BY <1>3, <1>5
    <2>2. \A d \in Cells : table[d] # NULL =>
              table'[d] = table[d] /\ slot'[table[d]].key = slot[table[d]].key
        BY <1>7, <1>8
    <2> QED
        BY <1>9, <2>1, <2>2, InsertersKept
<1> HIDE DEF f
<1>11. NoTombstones'
    <2>1. e.expiry = 0 /\ e # NULL
        BY DEF Entry
    <2> QED
        BY <1>1, <1>3, <2>1 DEF InsertInv, NoTombstones
<1>12. OneCell' /\ NoGap'
    BY <1>7, <1>8 DEF InsertInv, OneCell, NoGap
<1>13. Placed'
    <2> SUFFICES ASSUME NEW s \in Records, slot'[s] # NULL
                 PROVE  (\E d \in Cells : table'[d] = s) \/ (\E u \in Threads : reg'[u].f = s)
        BY DEF Placed
    <2>1. CASE s = f
        BY <2>1, <1>6
    <2>2. CASE s # f
        <3>1. (\E d \in Cells : table[d] = s) \/ (\E u \in Threads : reg[u].f = s)
            BY <2>2, <1>3 DEF InsertInv, Placed
        <3>2. reg[t].f # s
            OBVIOUS
        <3> QED
            BY <3>1, <3>2, <1>6, <1>7
    <2> QED
        BY <2>1, <2>2
<1>14. OnlyInserts'
    BY DEF InsertInv, OnlyInserts, Moves
<1> QED
    BY <1>10, <1>11, <1>12, <1>13, <1>14 DEF InsertInv

LEMMA InsertPublish ==
    ASSUME LfkvIInv, InsertInv, NEW t \in Threads,
           NEW c, c = call[t], Moves(t, "raise", Fresh(0), c),
           reg[t].f # NULL, call[t].key \in Keys, pc[t] # "idle",
           NEW d \in Cells, table[d] = NULL, Passed(call[t].key, d),
           table' = [table EXCEPT ![d] = reg[t].f], UNCHANGED slot
    PROVE  InsertInv'
<1> DEFINE f == reg[t].f
           k == call[t].key
<1>0. 0 \in Cells
    BY DEF Cells
<1>1. f \in Records /\ slot[f].key = k
    BY DEF LfkvIInv, LfkvTypeOK, Locals, InsertInv, Inserter
<1>2. /\ table \in [Cells -> Records \cup {NULL}]
      /\ table'[d] = f /\ \A b \in Cells \ {d} : table'[b] = table[b]
    BY <1>1 DEF LfkvIInv, LfkvTypeOK
<1>3. reg'[t].f = NULL /\ \A u \in Threads \ {t} : reg'[u].f = reg[u].f
    BY <1>0, IdleLocals DEF Moves, LfkvIInv, LfkvTypeOK
<1>4. slot' = slot
    OBVIOUS
<1>5. \A b \in Cells : table[b] # NULL => table'[b] = table[b]
    BY <1>2
<1>6. Inserter("raise", Fresh(0), c)'
    <2>1. c.op \in Inserting /\ c.expiry = 0
        BY DEF InsertInv, Inserter
    <2> QED
        BY <1>0, <2>1, IdleLocals DEF Inserter, InsertPcs, Probing, Counting, AtSlot
<1>7. \A u \in Threads : Inserter(pc[u], reg[u], call[u])'
    BY <1>4, <1>5, <1>6, InsertersKept
<1>8. NoTombstones'
    BY <1>4 DEF InsertInv, NoTombstones
<1> HIDE DEF f, k
<1>9. k \in Keys /\ Passed(k, d) /\ Hash[k] \in Cells
    BY DEF k
<1>10. \A b \in Cells : table[b] # NULL => slot[table[b]].key # k
    <2> SUFFICES ASSUME NEW b \in Cells, table[b] # NULL, slot[table[b]].key = k
                 PROVE  FALSE
        OBVIOUS
    <2>1. b # d
        OBVIOUS
    <2>2. Dist(Hash[k], b) \in Nat /\ Dist(Hash[k], d) \in Nat /\ Dist(Hash[k], b) # Dist(Hash[k], d)
        BY <2>1, <1>9, DistFacts
    <2>3. CASE Dist(Hash[k], b) < Dist(Hash[k], d)
        BY <2>3, <1>9 DEF Passed
    <2>4. CASE Dist(Hash[k], d) < Dist(Hash[k], b)
        BY <2>4 DEF InsertInv, NoGap
    <2> QED
        BY <2>2, <2>3, <2>4
<1>11. OneCell'
    <2> SUFFICES ASSUME NEW a \in Cells, NEW b \in Cells, table'[a] # NULL, table'[b] # NULL,
                        slot[table'[a]].key = slot[table'[b]].key
                 PROVE  a = b
        BY <1>4 DEF OneCell
    <2>1. CASE a = d /\ b # d
        BY <2>1, <1>1, <1>2, <1>10
    <2>2. CASE a # d /\ b = d
        BY <2>2, <1>1, <1>2, <1>10
    <2>3. CASE a # d /\ b # d
        BY <2>3, <1>2 DEF InsertInv, OneCell
    <2> QED
        BY <2>1, <2>2, <2>3
<1>12. NoGap'
    <2> SUFFICES ASSUME NEW a \in Cells, NEW b \in Cells, table'[a] # NULL,
                        Dist(Hash[slot[table'[a]].key], b) < Dist(Hash[slot[table'[a]].key], a)
                 PROVE  table'[b] # NULL
        BY <1>4 DEF NoGap
    <2>1. CASE a = d
        <3>1. table[b] # NULL
            BY <2>1, <1>1, <1>2, <1>9 DEF Passed
        <3> QED
            BY <3>1, <1>5
    <2>2. CASE a # d
        <3>1. table[b] # NULL
            BY <2>2, <1>2 DEF InsertInv, NoGap
        <3> QED
            BY <3>1, <1>5
    <2> QED
        BY <2>1, <2>2
<1>13. Placed'
    <2> SUFFICES ASSUME NEW s \in Records, slot[s] # NULL
                 PROVE  (\E b \in Cells : table'[b] = s) \/ (\E u \in Threads : reg'[u].f = s)
        BY <1>4 DEF Placed
    <2>1. CASE s = f
        BY <2>1, <1>2
    <2>2. CASE s # f
        <3>1. (\E b \in Cells : table[b] = s) \/ (\E u \in Threads : reg[u].f = s)
            BY DEF InsertInv, Placed
        <3>2. CASE \E b \in Cells : table[b] = s
            <4>1. PICK b \in Cells : table[b] = s
                BY <3>2
            <4>2. table'[b] = s
                BY <4>1, <1>5
            <4> QED
                BY <4>2
        <3>3. CASE \E u \in Threads : reg[u].f = s
            <4>1. PICK u \in Threads : reg[u].f = s
                BY <3>3
            <4>2. u # t
                BY <4>1, <2>2 DEF f
            <4> QED
                BY <4>1, <4>2, <1>3
        <3> QED
            BY <3>1, <3>2, <3>3
    <2> QED
        BY <2>1, <2>2
<1>14. OnlyInserts'
    BY DEF InsertInv, OnlyInserts, Moves
<1> QED
    BY <1>7, <1>8, <1>11, <1>12, <1>13, <1>14 DEF InsertInv

LEMMA InsertDiscard ==
    ASSUME LfkvIInv, InsertInv, NEW t \in Threads, NEW p, NEW l, NEW c,
           Moves(t, p, l, c), Inserter(p, l, c), l.f = NULL, reg[t].f # NULL, Discard(t)
    PROVE  InsertInv'
<1> DEFINE f == reg[t].f
<1>1. f \in Records
    BY DEF LfkvIInv, LfkvTypeOK, Locals
<1>2. /\ slot'[f] = NULL /\ table' = table
      /\ \A r \in Records \ {f} : slot'[r] = slot[r]
    BY <1>1 DEF Discard, LfkvIInv, LfkvTypeOK
<1>3. \A d \in Cells : table[d] \in Records \cup {NULL} /\ table[d] # f
    BY <1>1 DEF LfkvIInv, OnceInv, LfkvTypeOK
<1>4. \A u \in Threads \ {t} : reg[u].f \in Records \cup {NULL} /\ reg[u].f # f
    BY <1>1 DEF LfkvIInv, OnceInv, LfkvTypeOK, Locals
<1>5. reg'[t].f = NULL /\ \A u \in Threads \ {t} : reg'[u].f = reg[u].f
    BY DEF Moves, LfkvIInv, LfkvTypeOK
<1>6. \A d \in Cells : table[d] # NULL => slot'[table[d]] = slot[table[d]]
    BY <1>2, <1>3
<1>7. Inserter(p, l, c)'
    <2>1. (p \in Probing => Passed(c.key, l.i))'
        BY <1>2, <1>6 DEF Inserter, Passed
    <2>2. (p \in Counting => Behind(c.key, l.i, l.n))'
        BY <1>2, <1>6 DEF Inserter, Behind
    <2>3. (p \in AtSlot => Holds(l.s, c.key))'
        BY <1>2, <1>6 DEF Inserter, Holds
    <2> QED
        BY <2>1, <2>2, <2>3, <1>2 DEF Inserter
<1>8. \A u \in Threads : Inserter(pc[u], reg[u], call[u])'
    <2>1. \A u \in Threads \ {t} : reg[u].f # NULL => slot'[reg[u].f] = slot[reg[u].f]
        BY <1>2, <1>4
    <2>2. \A d \in Cells : table[d] # NULL =>
              table'[d] = table[d] /\ slot'[table[d]].key = slot[table[d]].key
        BY <1>2, <1>6
    <2> QED
        BY <1>7, <2>1, <2>2, InsertersKept
<1> HIDE DEF f
<1>9. NoTombstones'
    BY <1>2 DEF InsertInv, NoTombstones
<1>10. OneCell' /\ NoGap'
    BY <1>2, <1>6 DEF InsertInv, OneCell, NoGap
<1>11. Placed'
    <2> SUFFICES ASSUME NEW s \in Records, slot'[s] # NULL
                 PROVE  (\E d \in Cells : table'[d] = s) \/ (\E u \in Threads : reg'[u].f = s)
        BY DEF Placed
    <2>1. s # f /\ slot[s] # NULL
        BY <1>2
    <2>2. (\E d \in Cells : table[d] = s) \/ (\E u \in Threads : reg[u].f = s)
        BY <2>1 DEF InsertInv, Placed
    <2>3. reg[t].f # s
        BY <2>1 DEF f
    <2> QED
        BY <2>2, <2>3, <1>2, <1>5
<1>12. OnlyInserts'
    BY DEF InsertInv, OnlyInserts, Moves
<1> QED
    BY <1>8, <1>9, <1>10, <1>11, <1>12 DEF InsertInv

\* The two ways to go on without touching the table,
LEMMA InsertContinue ==
    ASSUME LfkvIInv, InsertInv, NEW t \in Threads, NEW p, NEW l, Continue(t, p, l),
           Inserter(p, l, call[t]), l.f = reg[t].f, UNCHANGED tableVars
    PROVE  InsertInv'
BY Continues, InsertQuiet DEF tableVars

LEMMA IdleInserter == Inserter("idle", Fresh(0), NULL)
<1>1. 0 \in Cells
    BY DEF Cells
<1> QED
    BY <1>1, IdleLocals DEF Inserter, InsertPcs, Probing, Counting, AtSlot

LEMMA InsertReturn ==
    ASSUME LfkvIInv, InsertInv, NEW t \in Threads, NEW x, Return(t, x),
           pc[t] \notin Owning, UNCHANGED tableVars
    PROVE  InsertInv'
<1>1. reg[t].f = NULL
    BY DEF LfkvIInv, ThreadInv, Shape
<1>2. Fresh(0).f = NULL
    BY DEF Fresh
<1> QED
    BY <1>1, <1>2, Returns, IdleInserter, InsertQuiet DEF tableVars

\* and the probe from the start.
LEMMA ReprobeInserter ==
    ASSUME LfkvIInv, InsertInv, NEW t \in Threads, pc[t] # "idle"
    PROVE  /\ Inserter("probe", Fresh(Home(t)), call[t])
           /\ Fresh(Home(t)).f = NULL
<1>1. call[t].key \in Keys /\ Home(t) = Hash[call[t].key] /\ Home(t) \in Cells
    BY Busy DEF Home, key
<1>2. call[t].op \in Inserting /\ call[t].expiry = 0
    BY DEF InsertInv, Inserter
<1> QED
    BY <1>1, <1>2, IdleLocals, PassedHome, BehindNone DEF Inserter, InsertPcs, AtSlot

LEMMA InsertReprobe ==
    ASSUME LfkvIInv, InsertInv, NEW t \in Threads, pc[t] \notin Owning \cup {"idle"},
           Reprobe(t), UNCHANGED tableVars
    PROVE  InsertInv'
<1>1. reg[t].f = NULL
    BY DEF LfkvIInv, ThreadInv, Shape
<1> QED
    BY <1>1, ReprobeInserter, InsertContinue DEF Reprobe

\* The entry of a slot found is there, and has no deadline.
LEMMA EntryLives ==
    ASSUME LfkvIInv, InsertInv, NEW t \in Threads, pc[t] \in Holding
    PROVE  /\ slot[reg[t].s].entry \in Entries /\ slot[reg[t].s].entry.expiry = 0
           /\ slot[reg[t].s].entry # NULL
           /\ ~ entry_expired(t, slot[reg[t].s].entry)
BY MayStore DEF InsertInv, NoTombstones, entry_expired

\* A swap of the entry of the slot found ends the operation.
LEMMA InsertSwap ==
    ASSUME LfkvIInv, InsertInv, NEW t \in Threads, pc[t] \in Holding \ Owning,
           NEW e \in Entries, NEW x, Swap(t, reg[t].s, e, x)
    PROVE  /\ Store(reg[t].s, e) /\ Return(t, x)
           /\ e.expiry = 0 => InsertInv'
<1>1. reg[t].f = NULL
    BY DEF LfkvIInv, ThreadInv, Shape
<1>2. Store(reg[t].s, e) /\ Return(t, x)
    BY EntryLives DEF Swap
<1> QED
    BY <1>1, <1>2, Returns, MayStore, InsertStore

LEMMA MissedInserts ==
    ASSUME LfkvIInv, InsertInv, NEW t \in Threads, pc[t] = "probe", NEW i \in Cells,
           Passed(call[t].key, i), Missed(t, i)
    PROVE  InsertInv'
<1> DEFINE l == [reg[t] EXCEPT !.i = i]
<1>0. pc[t] # "idle" /\ pc[t] \notin Owning
    BY DEF Owning
<1>1. /\ l \in Locals /\ l.i = i /\ l.tomb = reg[t].tomb /\ l.e = reg[t].e
      /\ reg[t].tomb = None /\ reg[t].f = NULL
      /\ call[t].op \in Inserting /\ call[t].expiry = 0
    BY <1>0, Busy DEF Locals, Shape, InsertInv, Inserter
<1> HIDE DEF l
<1>2. ASSUME call[t].op \in {"set", "set_nx"}, Allocate(t, "claim", l)
      PROVE  InsertInv'
    <2>1. CASE Free = {}
        BY <1>0, <1>2, <2>1, InsertReturn DEF Allocate, Fails, tableVars
    <2>2. CASE Free # {}
        <3> DEFINE f == CHOOSE s \in Free : TRUE
                   m == [l EXCEPT !.f = f]
                   e == Entry(call[t].val, 0)
        <3>1. /\ slot' = [slot EXCEPT ![f] = [key |-> call[t].key, entry |-> e]]
              /\ Continue(t, "claim", m)
              /\ UNCHANGED <<table, count>>
            BY <1>2, <2>2 DEF Allocate, key
        <3>2. f \in Free
            BY <2>2
        <3> HIDE DEF f
        <3>3. /\ m \in Locals /\ m.f = f /\ m.i = i /\ m.tomb = None
              /\ [m EXCEPT !.f = NULL].f = NULL /\ [m EXCEPT !.f = NULL].i = i
              /\ [m EXCEPT !.f = NULL].tomb = None
            BY <1>1, <3>2 DEF Locals, Free
        <3> HIDE DEF m
        <3>4. call[t].val \in Vals /\ call[t].key \in Keys
            BY <1>0, <1>2, Busy DEF Serves, Calls, Writes
        <3>5. e \in Entries
            BY <3>4, EntryFact
        <3>6. Inserter("claim", [m EXCEPT !.f = NULL], call[t])
            BY <1>1, <3>3 DEF Inserter, InsertPcs, Counting, AtSlot
        <3>7. Moves(t, "claim", m, call[t])
            BY <3>1, Continues
        <3> QED
            BY <1>1, <3>1, <3>2, <3>3, <3>4, <3>5, <3>6, <3>7, InsertAllocate
    <2> QED
        BY <2>1, <2>2
<1>3. CASE call[t].op \in {"set", "set_nx"}
    BY <1>1, <1>2, <1>3 DEF Missed, l
<1>4. CASE call[t].op \notin {"set", "set_nx"}
    <2>1. Return(t, Absent(t)) /\ UNCHANGED tableVars
        BY <1>4 DEF Missed
    <2> QED
        BY <1>0, <2>1, InsertReturn
<1> QED
    BY <1>3, <1>4

LEMMA ProbeSlotInserts ==
    ASSUME LfkvIInv, InsertInv, NEW t \in Threads, ProbeSlot(t)
    PROVE  InsertInv'
<1>1. pc[t] = "probe" /\ pc[t] # "idle"
    BY DEF ProbeSlot
<1>2. /\ reg[t] \in Locals /\ reg[t].i \in Cells /\ Home(t) = Hash[call[t].key] /\ Home(t) \in Cells
      /\ call[t].key \in Keys
    BY <1>1, Busy DEF Locals, Home, key
<1>3. /\ Passed(call[t].key, reg[t].i) /\ Passed(call[t].key, Home(t))
      /\ Behind(call[t].key, reg[t].i, reg[t].n)
    BY <1>1, <1>2, PassedHome DEF InsertInv, Inserter, Probing, Counting
<1>4. CASE Full(t) \/ table[reg[t].i] = NULL
    BY <1>1, <1>2, <1>3, <1>4, MissedInserts DEF ProbeSlot
<1>5. CASE ~ Full(t) /\ table[reg[t].i] # NULL
    <2> DEFINE l == [reg[t] EXCEPT !.s = table[reg[t].i]]
    <2>1. Continue(t, "probe_entry", l) /\ UNCHANGED tableVars
        BY <1>5 DEF ProbeSlot
    <2>2. /\ l.f = reg[t].f /\ l.i = reg[t].i /\ l.s = table[l.i] /\ l.tomb = reg[t].tomb
          /\ l.n = reg[t].n
        BY <1>2 DEF Locals
    <2> HIDE DEF l
    <2>3. Inserter("probe_entry", l, call[t])
        BY <1>1, <1>3, <1>5, <2>2 DEF InsertInv, Inserter, InsertPcs, AtSlot
    <2> QED
        BY <2>1, <2>2, <2>3, InsertContinue
<1> QED
    BY <1>4, <1>5

LEMMA ProbeEntryInserts ==
    ASSUME LfkvIInv, InsertInv, NEW t \in Threads, ProbeEntry(t)
    PROVE  InsertInv'
<1>1. pc[t] = "probe_entry" /\ pc[t] # "idle" /\ UNCHANGED tableVars
    BY DEF ProbeEntry
<1>2. reg[t] \in Locals /\ reg[t].i \in Cells /\ call[t].key \in Keys /\ reg[t].n \in Nat
    BY <1>1, Busy DEF Locals
<1>3. /\ Passed(call[t].key, reg[t].i) /\ table[reg[t].i] # NULL /\ reg[t].s = table[reg[t].i]
      /\ Inserter(pc[t], reg[t], call[t]) /\ Behind(call[t].key, reg[t].i, reg[t].n)
    BY <1>1 DEF InsertInv, Inserter, Probing, Counting
<1>4. slot[reg[t].s].entry # NULL
    BY <1>2, <1>3, CellSlot DEF InsertInv, NoTombstones
<1>5. CASE slot_key_eq(reg[t].s, t)
    <2>1. Continue(t, Found(t), reg[t])
        BY <1>4, <1>5 DEF ProbeEntry
    <2>2. Found(t) \in {"replace", "nx_load", "load"}
        BY DEF Found
    <2>3. Holds(reg[t].s, call[t].key)
        BY <1>2, <1>3, <1>5 DEF Holds, slot_key_eq, key
    <2>4. Inserter(Found(t), reg[t], call[t])
        BY <1>1, <1>3, <2>2, <2>3 DEF Inserter, InsertPcs, Probing, Counting
    <2> QED
        BY <1>1, <2>1, <2>4, InsertContinue
<1>6. CASE ~ slot_key_eq(reg[t].s, t)
    <2> DEFINE l == [reg[t] EXCEPT !.i = next(@), !.n = @ + 1, !.s = NULL]
    <2>1. Continue(t, "probe", l)
        BY <1>4, <1>6 DEF ProbeEntry
    <2>2. l.f = reg[t].f /\ l.i = next(reg[t].i) /\ l.tomb = reg[t].tomb /\ l.n = reg[t].n + 1
        BY <1>2 DEF Locals
    <2> HIDE DEF l
    <2>3. Passed(call[t].key, l.i) /\ Behind(call[t].key, l.i, l.n)
        BY <1>2, <1>3, <1>6, <2>2, PassedNext, BehindNext DEF slot_key_eq, key
    <2>4. Inserter("probe", l, call[t])
        BY <1>1, <1>3, <2>2, <2>3 DEF Inserter, InsertPcs, AtSlot
    <2> QED
        BY <1>1, <2>1, <2>2, <2>4, InsertContinue
<1> QED
    BY <1>5, <1>6

LEMMA ReplaceInserts ==
    ASSUME LfkvIInv, InsertInv, NEW t \in Threads, Replace(t) \/ ReplaceCas(t)
    PROVE  InsertInv'
<1>1. CASE Replace(t)
    <2> DEFINE l == [reg[t] EXCEPT !.e = slot[reg[t].s].entry]
    <2>1. pc[t] = "replace" /\ UNCHANGED tableVars /\ Continue(t, "replace_cas", l)
        BY <1>1 DEF Replace
    <2>2. l.f = reg[t].f /\ l.tomb = reg[t].tomb /\ l.s = reg[t].s
        BY <2>1, Busy DEF Locals
    <2> HIDE DEF l
    <2>3. Inserter("replace_cas", l, call[t])
        <3>1. /\ call[t].op \in Inserting /\ call[t].expiry = 0
              /\ l.tomb = None /\ Holds(l.s, call[t].key)
            BY <2>1, <2>2 DEF InsertInv, Inserter, AtSlot
        <3>2. l.f = NULL
            BY <2>1, <2>2, Busy DEF Shape, Owning
        <3> QED
            BY <3>1, <3>2 DEF Inserter, InsertPcs, Probing, Counting
    <2> QED
        BY <2>1, <2>2, <2>3, InsertContinue
<1>2. CASE ReplaceCas(t) /\ Same(t)
    <2>1. pc[t] = "replace_cas" /\ Swap(t, reg[t].s, Entry(call[t].val, 0), 0)
        BY <1>2 DEF ReplaceCas
    <2>2. call[t].val \in Vals
        BY <2>1, Busy DEF Serves, Calls, Writes
    <2>3. Entry(call[t].val, 0) \in Entries /\ Entry(call[t].val, 0).expiry = 0
        BY <2>2, EntryFact DEF Entry
    <2> QED
        BY <2>1, <2>3, InsertSwap DEF Holding, Owning
<1>3. CASE ReplaceCas(t) /\ ~ Same(t)
    <2>1. pc[t] = "replace_cas" /\ Continue(t, "replace", reg[t]) /\ UNCHANGED tableVars
        BY <1>3 DEF ReplaceCas
    <2>2. Inserter("replace", reg[t], call[t])
        BY <2>1 DEF InsertInv, Inserter, InsertPcs, Probing, Counting, AtSlot
    <2> QED
        BY <2>1, <2>2, InsertContinue
<1> QED
    BY <1>1, <1>2, <1>3

LEMMA BeatenInserts ==
    ASSUME LfkvIInv, InsertInv, NEW t \in Threads, pc[t] \in {"claim", "scan"}, NEW d \in Cells,
           table[d] # NULL, Claimed(t, table[d]), Beaten(t, table[d])
    PROVE  InsertInv'
<1>1. reg[t].f # NULL /\ pc[t] # "idle" /\ Discard(t)
    BY DEF LfkvIInv, ThreadInv, Shape, Owning, Beaten
<1>2. CASE call[t].op = "set"
    <2> DEFINE l == [reg[t] EXCEPT !.s = table[d], !.f = NULL]
    <2>1. Continue(t, "replace", l)
        BY <1>2 DEF Beaten
    <2>2. l.f = NULL /\ l.tomb = reg[t].tomb /\ l.s = table[d]
        BY <1>1, Busy DEF Locals
    <2> HIDE DEF l
    <2>3. Holds(l.s, call[t].key)
        BY <2>2 DEF Holds, Claimed, slot_key_eq, key
    <2>5. Inserter("replace", l, call[t])
        BY <1>1, <2>2, <2>3 DEF InsertInv, Inserter, InsertPcs, Probing, Counting
    <2>4. Moves(t, "replace", l, call[t])
        BY <2>1, Continues
    <2> QED
        BY <1>1, <2>2, <2>4, <2>5, InsertDiscard
<1>3. CASE call[t].op # "set"
    <2>1. Continue(t, "probe", Fresh(Home(t)))
        BY <1>3 DEF Beaten, Reprobe
    <2>2. Moves(t, "probe", Fresh(Home(t)), call[t])
        BY <2>1, Continues
    <2> QED
        BY <1>1, <2>2, ReprobeInserter, InsertDiscard
<1> QED
    BY <1>2, <1>3

LEMMA ScanInserts ==
    ASSUME LfkvIInv, InsertInv, NEW t \in Threads, pc[t] \in {"claim", "scan"}, NEW n,
           table[reg[t].i] # NULL, ~ Claimed(t, table[reg[t].i]),
           Behind(call[t].key, next(reg[t].i), n),
           Continue(t, "scan", [reg[t] EXCEPT !.i = next(@), !.n = n]), UNCHANGED tableVars
    PROVE  InsertInv'
<1> DEFINE l == [reg[t] EXCEPT !.i = next(@), !.n = n]
<1>1. pc[t] # "idle"
    OBVIOUS
<1>2. reg[t] \in Locals /\ reg[t].i \in Cells /\ call[t].key \in Keys
    BY <1>1, Busy DEF Locals
<1>3. l.f = reg[t].f /\ l.i = next(reg[t].i) /\ l.tomb = reg[t].tomb /\ l.n = n
    BY <1>2 DEF Locals
<1>4. Continue(t, "scan", l)
    OBVIOUS
<1> HIDE DEF l
<1>5. Passed(call[t].key, reg[t].i)
    BY DEF InsertInv, Inserter, Probing
<1>6. Passed(call[t].key, l.i)
    BY <1>2, <1>3, <1>5, PassedNext DEF Claimed, slot_key_eq, key
<1>7. Inserter("scan", l, call[t])
    BY <1>1, <1>3, <1>6 DEF InsertInv, Inserter, InsertPcs, AtSlot
<1> QED
    BY <1>3, <1>4, <1>7, InsertContinue

LEMMA ClaimInserts ==
    ASSUME LfkvIInv, InsertInv, NEW t \in Threads, Claim(t)
    PROVE  InsertInv'
<1>1. pc[t] = "claim" /\ pc[t] # "idle"
    BY DEF Claim
<1>2. reg[t].i \in Cells /\ call[t].key \in Keys
    BY <1>1, Busy DEF Locals
<1>3. CASE table[reg[t].i] = NULL
    <2>1. Publish(t, reg[t].i)
        BY <1>3 DEF Claim
    <2>2. reg[t].f # NULL /\ Passed(call[t].key, reg[t].i)
        BY <1>1, Busy DEF Shape, Owning, InsertInv, Inserter, Probing
    <2>3. Moves(t, "raise", Fresh(0), call[t])
        BY <2>1, Continues DEF Publish
    <2> QED
        BY <1>1, <1>2, <1>3, <2>1, <2>2, <2>3, InsertPublish DEF Publish
<1>4. CASE table[reg[t].i] # NULL /\ Claimed(t, table[reg[t].i])
    BY <1>1, <1>2, <1>4, BeatenInserts DEF Claim
<1>5. CASE table[reg[t].i] # NULL /\ ~ Claimed(t, table[reg[t].i])
    BY <1>1, <1>2, <1>5, NextCell, BehindNone, ScanInserts DEF Claim
<1> QED
    BY <1>3, <1>4, <1>5

LEMMA ScanOnInserts ==
    ASSUME LfkvIInv, InsertInv, NEW t \in Threads, Scan(t)
    PROVE  InsertInv'
<1>1. pc[t] = "scan" /\ pc[t] # "idle"
    BY DEF Scan
<1>2. reg[t].i \in Cells /\ reg[t].n \in Nat
    BY <1>1, Busy DEF Locals
<1>3. CASE Full(t)
    <2>1. Discard(t) /\ Fails(t)
        BY <1>3 DEF Scan
    <2>2. Moves(t, "idle", Fresh(0), NULL)
        BY <2>1, Returns DEF Fails
    <2>3. reg[t].f # NULL
        BY <1>1, Busy DEF Shape, Owning
    <2>4. Fresh(0).f = NULL
        BY DEF Fresh
    <2> QED
        BY <2>1, <2>2, <2>3, <2>4, IdleInserter, InsertDiscard
<1>4. CASE ~ Full(t) /\ table[reg[t].i] = NULL
    <2>1. Continue(t, "claim", reg[t]) /\ UNCHANGED tableVars
        BY <1>4 DEF Scan
    <2>2. Inserter("claim", reg[t], call[t])
        BY <1>1 DEF InsertInv, Inserter, InsertPcs, Probing, Counting, AtSlot
    <2> QED
        BY <2>1, <2>2, InsertContinue
<1>5. CASE ~ Full(t) /\ table[reg[t].i] # NULL /\ Claimed(t, table[reg[t].i])
    BY <1>1, <1>2, <1>5, BeatenInserts DEF Scan
<1>6. CASE ~ Full(t) /\ table[reg[t].i] # NULL /\ ~ Claimed(t, table[reg[t].i])
    <2> DEFINE n == reg[t].n + 1
    <2>1. /\ Continue(t, "scan", [reg[t] EXCEPT !.i = next(@), !.n = n])
          /\ UNCHANGED tableVars
        BY <1>6 DEF Scan
    <2>2. Behind(call[t].key, reg[t].i, reg[t].n)
        BY <1>1 DEF InsertInv, Inserter, Counting
    <2>3. Behind(call[t].key, next(reg[t].i), n)
        BY <1>2, <1>6, <2>2, BehindNext DEF Claimed, slot_key_eq, key
    <2> HIDE DEF n
    <2> QED
        BY <1>1, <1>6, <2>1, <2>3, ScanInserts
<1> QED
    BY <1>3, <1>4, <1>5, <1>6

LEMMA NxLoadInserts ==
    ASSUME LfkvIInv, InsertInv, NEW t \in Threads, NxLoad(t)
    PROVE  InsertInv'
<1>1. pc[t] = "nx_load" /\ pc[t] \in Holding /\ pc[t] \notin Owning /\ UNCHANGED tableVars
    BY DEF NxLoad, Holding, Owning
<1>2. Return(t, 0)
    BY <1>1, EntryLives DEF NxLoad
<1> QED
    BY <1>1, <1>2, InsertReturn

LEMMA LoadInserts ==
    ASSUME LfkvIInv, InsertInv, NEW t \in Threads, Load(t)
    PROVE  InsertInv'
<1> DEFINE e == slot[reg[t].s].entry
           l == [reg[t] EXCEPT !.e = e]
<1>1. pc[t] = "load" /\ pc[t] # "idle" /\ pc[t] \in Holding /\ pc[t] \notin Owning /\ UNCHANGED tableVars
    BY DEF Load, Holding, Owning
<1>2. e.expiry = 0 /\ ~ entry_expired(t, e)
    BY <1>1, EntryLives
<1>3. l.f = reg[t].f /\ l.tomb = reg[t].tomb /\ l.e = e /\ l.s = reg[t].s
    BY <1>1, Busy DEF Locals
<1>4. \/ \E x : Return(t, x)
      \/ /\ ~ (call[t].op = "touch" /\ call[t].expiry = 0 /\ e.expiry = 0)
         /\ (Compares(t) => e.val = call[t].expected) /\ Continue(t, "update", l)
    BY <1>2, Zenon DEF Load
<1> HIDE DEF e, l
<1>5. CASE \E x : Return(t, x)
    BY <1>1, <1>5, InsertReturn
<1>6. CASE /\ ~ (call[t].op = "touch" /\ call[t].expiry = 0 /\ e.expiry = 0)
           /\ (Compares(t) => e.val = call[t].expected) /\ Continue(t, "update", l)
    <2>1. Inserter("update", l, call[t])
        BY <1>1, <1>2, <1>3, <1>6 DEF InsertInv, Inserter, InsertPcs, Probing, Counting, AtSlot,
                                      Compares, Comparing
    <2> QED
        BY <1>1, <1>3, <1>6, <2>1, InsertContinue
<1> QED
    BY <1>4, <1>5, <1>6

LEMMA UpdateInserts ==
    ASSUME LfkvIInv, InsertInv, NEW t \in Threads, Update(t)
    PROVE  InsertInv'
<1>1. pc[t] = "update" /\ pc[t] # "idle" /\ pc[t] \notin Owning /\ pc[t] \in Holding
    BY DEF Update, Owning, Holding
<1>2. /\ call[t].op \in Inserting /\ call[t].op # "touch" /\ call[t].op \in Updates
      /\ reg[t].e.expiry = 0
    BY <1>1, Busy DEF InsertInv, Inserter, Serves
<1>3. call[t].op \in {"set_xx", "cas"}
    BY <1>2 DEF Inserting, Updates
<1>4. CASE Same(t)
    <2>1. Swap(t, reg[t].s, Updated(t, reg[t].e), 1)
        BY <1>4 DEF Update
    <2>2. call[t].val \in Vals
        BY <1>1, <1>3, Busy DEF Serves, Calls, Writes
    <2>3. Updated(t, reg[t].e) = Entry(call[t].val, 0)
        BY <1>2, <1>3 DEF Updated, KeptExpiry
    <2>4. Entry(call[t].val, 0) \in Entries /\ Entry(call[t].val, 0).expiry = 0
        BY <2>2, EntryFact DEF Entry
    <2> QED
        BY <1>1, <2>1, <2>3, <2>4, InsertSwap
<1>5. CASE ~ Same(t) /\ Compares(t)
    <2>1. Continue(t, "load", reg[t]) /\ UNCHANGED tableVars
        BY <1>5 DEF Update, Retry
    <2>2. Inserter("load", reg[t], call[t])
        BY <1>1 DEF InsertInv, Inserter, InsertPcs, Probing, Counting, AtSlot
    <2> QED
        BY <2>1, <2>2, InsertContinue
<1>6. CASE ~ Same(t) /\ ~ Compares(t)
    BY <1>1, <1>6, InsertReprobe DEF Update, Retry
<1> QED
    BY <1>4, <1>5, <1>6

\* The count after the claim of a cell.
LEMMA RaiseInserts ==
    ASSUME LfkvIInv, InsertInv, NEW t \in Threads, Raise(t)
    PROVE  InsertInv'
<1>1. pc[t] = "raise" /\ UNCHANGED <<table, slot>> /\ Moves(t, "idle", Fresh(0), NULL)
    BY Returns DEF Raise
<1>2. reg[t].f = NULL /\ Fresh(0).f = NULL
    BY <1>1 DEF LfkvIInv, ThreadInv, Shape, Owning, Fresh
<1> QED
    BY <1>1, <1>2, IdleInserter, InsertQuiet

LEMMA InvokeInserts ==
    ASSUME LfkvIInv, InsertInv, NEW t \in Threads, NEW c \in workload[t], Invoke(t, c)
    PROVE  InsertInv'
<1> DEFINE b == [op |-> c.op, key |-> c.key, val |-> c.val, expected |-> c.expected,
                 expiry |-> c.expiry, now |-> clock]
           l == Fresh(Hash[c.key])
<1>1. c.op \in Inserting /\ c.expiry = 0 /\ c.op \notin Walks
    BY DEF InsertInv, OnlyInserts, Inserting, Walks
<1>2. pc[t] = "idle" /\ UNCHANGED tableVars /\ Moves(t, "probe", l, b)
    BY <1>1 DEF Invoke, Moves, Goto, Locally
<1>3. b.op = c.op /\ b.expiry = c.expiry /\ b.key = c.key /\ c.key \in Keys /\ Hash[c.key] \in Cells
    BY AskedFor DEF Requests
<1>4. l.i = Hash[c.key] /\ l.f = NULL /\ l.tomb = None /\ l.n = 0
    BY <1>3, IdleLocals
<1>5. reg[t].f = NULL
    BY <1>2 DEF LfkvIInv, ThreadInv, Shape, Owning
<1> HIDE DEF b, l
<1>6. Inserter("probe", l, b)
    BY <1>1, <1>3, <1>4, PassedHome, BehindNone DEF Inserter, InsertPcs, AtSlot
<1> QED
    BY <1>2, <1>4, <1>5, <1>6, InsertQuiet DEF tableVars

LEMMA InsertStepOK ==
    LfkvIInv /\ InsertInv /\ [LfkvNext]_lfkvVars => InsertInv'
<1> SUFFICES ASSUME LfkvIInv, InsertInv, [LfkvNext]_lfkvVars
             PROVE  InsertInv'
    OBVIOUS
<1>1. ASSUME NEW t \in Threads, Step(t)
      PROVE  InsertInv'
    <2>1. pc[t] \in InsertPcs
        BY DEF InsertInv, Inserter
    <2>2. \/ ProbeSlot(t) \/ ProbeEntry(t) \/ Replace(t) \/ ReplaceCas(t)
          \/ Claim(t) \/ Scan(t) \/ NxLoad(t) \/ Load(t) \/ Update(t) \/ Raise(t)
        BY <1>1, <2>1 DEF Step, InsertPcs, TombLoad, TombEntry, TombCas, NxInstall, Expire,
                          WalkSlot, WalkEntry, WalkCas, Lower
    <2> QED
        BY <2>2, ProbeSlotInserts, ProbeEntryInserts, ReplaceInserts, ClaimInserts,
           ScanOnInserts, NxLoadInserts, LoadInserts, UpdateInserts, RaiseInserts
<1>2. ASSUME NEW t \in Threads, NEW c \in workload[t], Invoke(t, c)
      PROVE  InsertInv'
    BY <1>2, InvokeInserts
<1>3. CASE Tick \/ UNCHANGED lfkvVars
    <2>1. UNCHANGED <<workload, table, slot, call, pc, reg>>
        BY <1>3 DEF Tick, lfkvVars, tableVars, callVars
    <2>2. \A t \in Threads : Inserter(pc[t], reg[t], call[t])'
        BY <2>1 DEF InsertInv, Inserter, Passed, Behind, Holds
    <2>3. NoTombstones' /\ OneCell' /\ NoGap' /\ Placed' /\ OnlyInserts'
        BY <2>1 DEF InsertInv, NoTombstones, OneCell, NoGap, Placed, OnlyInserts
    <2> QED
        BY <2>2, <2>3 DEF InsertInv
<1> QED
    BY <1>1, <1>2, <1>3 DEF LfkvNext

LEMMA InsertInitOK == LfkvInit /\ OnlyInserts => InsertInv
<1> SUFFICES ASSUME LfkvInit, OnlyInserts
             PROVE  InsertInv
    OBVIOUS
<1>1. \A t \in Threads : Inserter(pc[t], reg[t], call[t])
    BY IdleInserter DEF LfkvInit
<1>2. NoTombstones /\ OneCell /\ NoGap /\ Placed
    BY DEF LfkvInit, NoTombstones, OneCell, NoGap, Placed
<1> QED
    BY <1>1, <1>2 DEF InsertInv

\* The table of the two invariants is right: no key has two live slots, and
\* the count is the number of keys but for the updates under way.
LEMMA InsertSlots == LfkvIInv /\ InsertInv => SlotsRight
<1> SUFFICES ASSUME LfkvIInv, InsertInv
             PROVE  SlotsRight
    OBVIOUS
<1> DEFINE K == {k \in Keys : Live(k) # {}}
           g == [k \in K |-> CHOOSE s \in Live(k) : TRUE]
<1>1. \A k \in Keys : \A s \in Live(k) : s \in Counted /\ slot[s].key = k
    <2> SUFFICES ASSUME NEW k \in Keys, NEW s \in Live(k)
                 PROVE  s \in Counted /\ slot[s].key = k
        OBVIOUS
    <2>1. s \in Published /\ slot[s].key = k /\ slot[s].entry # NULL
        BY DEF Live
    <2>2. PICK c \in Cells : s = table[c] /\ table[c] # NULL
        BY <2>1 DEF Published
    <2> QED
        BY <2>1, <2>2, CellSlot DEF Counted
<1>2. \A k \in Keys : \A r, s \in Live(k) : r = s
    <2> SUFFICES ASSUME NEW k \in Keys, NEW r \in Live(k), NEW s \in Live(k)
                 PROVE  r = s
        OBVIOUS
    <2>1. PICK c \in Cells : r = table[c] /\ table[c] # NULL /\ slot[r].key = k
        BY DEF Live, Published
    <2>2. PICK d \in Cells : s = table[d] /\ table[d] # NULL /\ slot[s].key = k
        BY DEF Live, Published
    <2>3. c = d
        BY <2>1, <2>2 DEF InsertInv, OneCell
    <2> QED
        BY <2>1, <2>2, <2>3
<1>3. \A k \in Keys : Cardinality(Live(k)) <= 1
    <2> SUFFICES ASSUME NEW k \in Keys
                 PROVE  Cardinality(Live(k)) <= 1
        OBVIOUS
    <2>1. CASE Live(k) = {}
        BY <2>1, FS_EmptySet
    <2>2. CASE Live(k) # {}
        <3>1. PICK s \in Live(k) : TRUE
            BY <2>2
        <3>2. Live(k) = {s}
            BY <1>2, <3>1
        <3>3. Cardinality({s}) = 1
            BY FS_Singleton
        <3> QED
            BY <3>2, <3>3
    <2> QED
        BY <2>1, <2>2
<1>4. \A k \in K : g[k] \in Live(k)
    OBVIOUS
<1>5. \A s \in Counted : s \in Live(slot[s].key) /\ slot[s].key \in K
    <2> SUFFICES ASSUME NEW s \in Counted
                 PROVE  s \in Live(slot[s].key) /\ slot[s].key \in K
        OBVIOUS
    <2>1. s \in Records /\ slot[s] # NULL /\ slot[s].entry # NULL /\ ~ \E t \in Threads : reg[t].f = s
        BY DEF Counted
    <2>2. PICK c \in Cells : table[c] = s
        BY <2>1 DEF InsertInv, Placed
    <2>3. s \in Published
        BY <2>1, <2>2 DEF Published
    <2>4. slot[s].key \in Keys
        BY <2>1 DEF LfkvIInv, LfkvTypeOK, Slots
    <2> QED
        BY <2>1, <2>3, <2>4 DEF Live
<1>6. g \in Bijection(K, Counted)
    <2>1. g \in [K -> Counted]
        BY <1>1, <1>4
    <2>2. \A j, k \in K : g[j] = g[k] => j = k
        BY <1>1, <1>4
    <2>3. \A s \in Counted : \E k \in K : g[k] = s
        BY <1>2, <1>4, <1>5
    <2> HIDE DEF g, K
    <2> QED
        BY <2>1, <2>2, <2>3 DEF Bijection, Injection, Surjection, IsInjective
<1>7. Cardinality(K) = Cardinality(Counted)
    <2>1. /\ Cardinality(K) <= Cardinality(Counted)
          /\ Cardinality(K) = Cardinality(Counted) <=> g \in Surjection(K, Counted)
        BY <1>6, CountedFinite, FS_Injection DEF Bijection
    <2> QED
        BY <1>6, <2>1 DEF Bijection
<1>8. CountsLive
    BY <1>7 DEF CountsLive, LfkvIInv, CountInv
<1> QED
    BY <1>3, <1>8 DEF SlotsRight, OneLiveSlot

\* Reactors that insert, overwrite, compare and swap, and read, as many as
\* there are and in any interleaving: no key ever has two live slots, although
\* each looks for the key before it claims a cell (lfkv_set and lfkv_set_nx,
\* lfkv.c), and kv->count lacks as many keys as there are insertions that have
\* claimed their cell and not yet counted it.
THEOREM InsertsKeepSlots == LfkvSpec /\ OnlyInserts => []SlotsRight
<1>1. LfkvInit => LfkvIInv
    BY LfkvInitOK
<1>2. LfkvIInv /\ [LfkvNext]_lfkvVars => LfkvIInv'
    BY LfkvStepOK
<1>3. LfkvInit /\ OnlyInserts => InsertInv
    BY InsertInitOK
<1>4. LfkvIInv /\ InsertInv /\ [LfkvNext]_lfkvVars => InsertInv'
    BY InsertStepOK
<1>5. LfkvIInv /\ InsertInv => SlotsRight
    BY InsertSlots
<1> QED
    BY <1>1, <1>2, <1>3, <1>4, <1>5, PTL DEF LfkvSpec

-----------------------------------------------------------------------------
(* The same reactors and the map: every operation takes effect in one step, *)
(* an insertion at the claim of a cell, before it is counted, an            *)
(* overwriting at the swap of the entry, and a miss when the probe has come *)
(* to an end.                                                               *)

Nowhere(k) == \A d \in Cells : table[d] # NULL => slot[table[d]].key # k

\* What the map has under a key is in the key's cell.
MapRight ==
    /\ \A d \in Cells : table[d] # NULL => Contents[slot[table[d]].key] = slot[table[d]].entry
    /\ \A k \in Keys : Nowhere(k) => Contents[k] = NULL

LEMMA MapIsRight == LfkvIInv /\ InsertInv => MapRight
<1> SUFFICES ASSUME LfkvIInv, InsertInv
             PROVE  MapRight
    OBVIOUS
<1>1. ASSUME NEW d \in Cells, table[d] # NULL
      PROVE  Contents[slot[table[d]].key] = slot[table[d]].entry
    <2> DEFINE k == slot[table[d]].key
    <2>1. table[d] \in Records /\ slot[table[d]] # NULL /\ k \in Keys /\ slot[table[d]].entry # NULL
        BY <1>1, CellSlot DEF InsertInv, NoTombstones, LfkvIInv, LfkvTypeOK, Slots
    <2>2. table[d] \in Live(k)
        BY <1>1, <2>1 DEF Live, Published
    <2>3. \A s \in Live(k) : s = table[d]
        <3> SUFFICES ASSUME NEW s \in Live(k)
                     PROVE  s = table[d]
            OBVIOUS
        <3>1. PICK c \in Cells : s = table[c] /\ table[c] # NULL /\ slot[s].key = k
            BY DEF Live, Published
        <3> QED
            BY <1>1, <3>1 DEF InsertInv, OneCell
    <2>4. (CHOOSE s \in Live(k) : TRUE) = table[d]
        BY <2>2, <2>3
    <2> QED
        BY <2>1, <2>2, <2>4 DEF Contents
<1>2. ASSUME NEW k \in Keys, Nowhere(k)
      PROVE  Contents[k] = NULL
    <2>1. Live(k) = {}
        BY <1>2 DEF Nowhere, Live, Published
    <2> QED
        BY <2>1 DEF Contents
<1> QED
    BY <1>1, <1>2 DEF MapRight

\* A step is a step of the map, or leaves it alone.
Simulates == Linear!KvNext \/ UNCHANGED <<Contents, Running, Results, clock>>

\* The answers are a function of the threads.
AnswerFun == answer = [u \in Threads |-> answer[u]]

\* Every step goes on inside an operation or returns from it.
LEMMA OnOrBack ==
    ASSUME NEW t \in Threads, Step(t)
    PROVE  (\E p, l : Continue(t, p, l)) \/ (\E x : Return(t, x))
<1> DEFINE Goal == (\E p, l : Continue(t, p, l)) \/ (\E x : Return(t, x))
<1>1. ASSUME NEW p, NEW l, Allocate(t, p, l)
      PROVE  Goal
    BY <1>1, Zenon DEF Allocate, Fails
<1>2. ASSUME NEW i, Missed(t, i)
      PROVE  Goal
    BY <1>1, <1>2 DEF Missed
<1>3. ASSUME NEW s, NEW e, NEW x, Swap(t, s, e, x)
      PROVE  Goal
    BY <1>3, Zenon DEF Swap
<1>4. ASSUME NEW s, Beaten(t, s)
      PROVE  Goal
    BY <1>4, Zenon DEF Beaten, Reprobe
<1>5. CASE ProbeSlot(t) \/ ProbeEntry(t) \/ Replace(t) \/ ReplaceCas(t)
    BY <1>2, <1>3, <1>5, Zenon DEF ProbeSlot, ProbeEntry, Replace, ReplaceCas
<1>6. CASE TombLoad(t) \/ TombEntry(t) \/ TombCas(t) \/ Claim(t) \/ Scan(t)
    BY <1>4, <1>6, Zenon DEF TombLoad, TombEntry, TombCas, Claim, Scan, Publish, Fails
<1>7. CASE NxLoad(t) \/ NxInstall(t)
    BY <1>3, <1>7, Zenon DEF NxLoad, NxInstall, Reprobe
<1>8. CASE Load(t)
    BY <1>8, Zenon DEF Load
<1>9. CASE Expire(t) \/ Update(t)
    BY <1>3, <1>9, Zenon DEF Expire, Update, Retry, Reprobe
<1>10. CASE WalkSlot(t) \/ WalkEntry(t) \/ WalkCas(t)
    BY <1>3, <1>10, Zenon DEF WalkSlot, WalkEntry, WalkCas, Onward
<1>11. CASE Raise(t) \/ Lower(t)
    BY <1>11 DEF Raise, Lower, Onward, Reprobe
<1> QED
    BY <1>5, <1>6, <1>7, <1>8, <1>9, <1>10, <1>11 DEF Step

LEMMA AnswerStep == AnswerFun /\ [LfkvNext]_lfkvVars => AnswerFun'
<1> SUFFICES ASSUME AnswerFun, [LfkvNext]_lfkvVars
             PROVE  AnswerFun'
    OBVIOUS
<1>1. ASSUME NEW t, NEW x, answer' = [answer EXCEPT ![t] = x]
      PROVE  AnswerFun'
    BY <1>1 DEF AnswerFun
<1>2. CASE answer' = answer
    BY <1>2 DEF AnswerFun
<1>3. ASSUME NEW t \in Threads, Step(t)
      PROVE  AnswerFun'
    BY <1>1, <1>2, <1>3, OnOrBack DEF Continue, Return, callVars
<1>4. ASSUME NEW t \in Threads, NEW c \in workload[t], Invoke(t, c)
      PROVE  AnswerFun'
    BY <1>1, <1>4 DEF Invoke
<1> QED
    BY <1>2, <1>3, <1>4 DEF LfkvNext, Tick, lfkvVars, callVars

\* What the map is shown of an operation, before its swap and after.
LEMMA Shown ==
    ASSUME NEW t \in Threads
    PROVE  /\ pc[t] \notin {"raise", "lower"} => Running[t] = call[t] /\ Results[t] = answer[t]
           /\ pc[t] = "raise" => Running[t] = NULL /\ Results[t] = Inserted(t)
BY DEF Running, Results, Decided, Result

\* A step of thread t changes that for no other thread.
LEMMA ShownMoves ==
    ASSUME LfkvIInv, NEW t \in Threads, NEW p, NEW l, NEW c, Moves(t, p, l, c),
           \A u \in Threads \ {t} : answer'[u] = answer[u]
    PROVE  /\ Running' = [Running EXCEPT ![t] = Running'[t]]
           /\ Results' = [Results EXCEPT ![t] = Results'[t]]
<1>1. \A u \in Threads \ {t} : pc'[u] = pc[u] /\ call'[u] = call[u] /\ reg'[u] = reg[u]
    BY DEF Moves, LfkvIInv, LfkvTypeOK
<1>2. ASSUME NEW u \in Threads \ {t}
      PROVE  Running'[u] = Running[u] /\ Results'[u] = Results[u]
    <2>1. Decided(u)' = Decided(u) /\ Result(u)' = Result(u)
        BY <1>1 DEF Decided, Result, Inserted, Removed, Absent, entry_expired
    <2> QED
        BY <1>1, <2>1 DEF Running, Results
<1>3. /\ Running = [u \in Threads |-> Running[u]] /\ Running' = [u \in Threads |-> Running'[u]]
      /\ Results = [u \in Threads |-> Results[u]] /\ Results' = [u \in Threads |-> Results'[u]]
    BY DEF Running, Results
<1> QED
    BY <1>2, <1>3

\* An operation that goes on before its swap shows nothing.
LEMMA ShownSame ==
    ASSUME LfkvIInv, NEW t \in Threads, NEW p, NEW l, Continue(t, p, l),
           pc[t] \notin {"raise", "lower"}, p \notin {"raise", "lower"}
    PROVE  Running' = Running /\ Results' = Results
<1>1. pc'[t] = p /\ call' = call /\ answer' = answer
    BY DEF Continue, Goto, callVars, LfkvIInv, LfkvTypeOK
<1>2. Running[t] = call[t] /\ Results[t] = answer[t]
    BY Shown
<1>3. Running'[t] = call[t] /\ Results'[t] = answer[t]
    BY <1>1 DEF Running, Results, Decided
<1>4. /\ Running' = [Running EXCEPT ![t] = Running'[t]]
      /\ Results' = [Results EXCEPT ![t] = Results'[t]]
    BY <1>1, Continues, ShownMoves
<1>5. Running = [u \in Threads |-> Running[u]] /\ Results = [u \in Threads |-> Results[u]]
    BY DEF Running, Results
<1> QED
    BY <1>2, <1>3, <1>4, <1>5

\* The cells in use keep their slots: the map stays.
LEMMA MapKept ==
    ASSUME table' = table, \A d \in Cells : table[d] # NULL => slot'[table[d]] = slot[table[d]]
    PROVE  Contents' = Contents
<1>1. \A k \in Keys : Live(k)' = Live(k)
    BY DEF Live, Published
<1>2. \A k \in Keys : \A s \in Live(k) : slot'[s] = slot[s]
    BY DEF Live, Published
<1>3. ASSUME NEW k \in Keys
      PROVE  Contents'[k] = Contents[k]
    <2>1. CASE Live(k) = {}
        BY <1>1, <2>1 DEF Contents
    <2>2. CASE Live(k) # {}
        <3>1. (CHOOSE s \in Live(k)' : TRUE) = (CHOOSE s \in Live(k) : TRUE)
            BY <1>1
        <3>2. (CHOOSE s \in Live(k) : TRUE) \in Live(k)
            BY <2>2
        <3>3. Contents'[k] = slot'[CHOOSE s \in Live(k)' : TRUE].entry
            BY <1>1, <2>2 DEF Contents
        <3>4. Contents[k] = slot[CHOOSE s \in Live(k) : TRUE].entry
            BY <2>2 DEF Contents
        <3> QED
            BY <1>2, <3>1, <3>2, <3>3, <3>4
    <2> QED
        BY <2>1, <2>2
<1> QED
    BY <1>3 DEF Contents

LEMMA ContinueSim ==
    ASSUME LfkvIInv, NEW t \in Threads, NEW p, NEW l, Continue(t, p, l), Contents' = Contents,
           pc[t] \notin {"raise", "lower"}, p \notin {"raise", "lower"}
    PROVE  Simulates
BY ShownSame DEF Continue, Simulates

LEMMA ContentsFun ==
    /\ Contents = [k \in Keys |-> Contents[k]]
    /\ Contents' = [k \in Keys |-> Contents'[k]]
BY DEF Contents

\* An operation returns, or is in and has only to be counted: for the map it
\* ends.
LEMMA ReturnSim ==
    ASSUME LfkvIInv, AnswerFun, NEW t \in Threads, NEW x, NEW e, pc[t] \notin {"raise", "lower"},
           \/ Return(t, x)
           \/ Continue(t, "raise", Fresh(0)) /\ x = Inserted(t),
           Contents' = [Contents EXCEPT ![call[t].key] = e]
    PROVE  Linear!Finish(t, x, e)
<1>1. Running[t] = call[t]
    BY Shown
<1>2. Running'[t] = NULL /\ Results'[t] = x /\ clock' = clock
    <2>1. CASE Return(t, x)
        <3>1. pc'[t] = "idle" /\ call'[t] = NULL /\ answer'[t] = x
            BY <2>1 DEF Return, Goto, LfkvIInv, LfkvTypeOK, AnswerFun
        <3> QED
            BY <2>1, <3>1 DEF Running, Results, Decided, Return
    <2>2. CASE Continue(t, "raise", Fresh(0)) /\ x = Inserted(t)
        <3>1. pc'[t] = "raise" /\ Inserted(t)' = Inserted(t)
            BY <2>2 DEF Continue, Goto, callVars, Inserted, LfkvIInv, LfkvTypeOK
        <3> QED
            BY <2>2, <3>1 DEF Running, Results, Decided, Result, Continue
    <2> QED
        BY <2>1, <2>2
<1>3. /\ Running' = [Running EXCEPT ![t] = NULL]
      /\ Results' = [Results EXCEPT ![t] = x]
    <2>1. \A u \in Threads \ {t} : answer'[u] = answer[u]
        BY DEF Return, Continue, callVars, AnswerFun
    <2> QED
        BY <1>2, <2>1, Returns, Continues, ShownMoves
<1> QED
    BY <1>1, <1>2, <1>3 DEF Linear!Finish

\* An operation that returns what it found, and leaves it.
LEMMA ReturnSame ==
    ASSUME LfkvIInv, AnswerFun, NEW t \in Threads, NEW x, pc[t] \notin {"raise", "lower"},
           Return(t, x), Contents' = Contents
    PROVE  Linear!Finish(t, x, Contents[call[t].key])
<1> DEFINE k == call[t].key
<1>1. Contents' = [Contents EXCEPT ![k] = Contents[k]]
    BY ContentsFun
<1> QED
    BY <1>1, ReturnSim

LEMMA HitSim ==
    ASSUME LfkvIInv, NEW t \in Threads, pc[t] \notin {"idle", "raise", "lower"},
           call[t].op \in Inserting,
           NEW e, Contents[call[t].key] = e, e # NULL, e.expiry = 0,
           Linear!Hit(t, call[t], e)
    PROVE  Simulates
<1>1. call[t] # NULL /\ Running[t] = call[t]
    BY Shown DEF LfkvIInv, LfkvTypeOK
<1>2. Linear!Apply(t)
    BY <1>1 DEF Linear!Apply, Linear!Stale, Inserting
<1>3. Running'[t] = NULL
    BY DEF Linear!Hit, Linear!Finish, Running
<1> QED
    BY <1>2, <1>3 DEF Simulates, Linear!KvNext

LEMMA MissSim ==
    ASSUME LfkvIInv, NEW t \in Threads, pc[t] \notin {"idle", "raise", "lower"},
           call[t].op \in Inserting, Contents[call[t].key] = NULL,
           Linear!Miss(t, call[t], NULL) \/ Linear!NoRoom(t, call[t], NULL)
    PROVE  Simulates
<1>1. call[t] # NULL /\ Running[t] = call[t]
    BY Shown DEF LfkvIInv, LfkvTypeOK
<1>2. Linear!Apply(t)
    BY <1>1 DEF Linear!Apply, Linear!Stale, Inserting
<1>3. Running'[t] = NULL
    BY DEF Linear!Miss, Linear!NoRoom, Linear!Finish, Running
<1> QED
    BY <1>2, <1>3 DEF Simulates, Linear!KvNext

\* A swap of the entry of the slot that holds k.
LEMMA MapStore ==
    ASSUME LfkvIInv, InsertInv, MapRight, MapRight',
           NEW s, NEW k \in Keys, Holds(s, k), NEW e \in Entries, Store(s, e)
    PROVE  Contents' = [Contents EXCEPT ![k] = e]
<1>1. PICK d \in Cells : table[d] = s /\ table[d] # NULL /\ slot[table[d]].key = k
    BY DEF Holds
<1>2. s \in Records /\ slot[s] \in Slots
    BY <1>1, CellSlot DEF LfkvIInv, LfkvTypeOK
<1>3. slot' = [slot EXCEPT ![s] = [slot[s] EXCEPT !.entry = e]] /\ table' = table
    BY DEF Store
<1>4. [slot[s] EXCEPT !.entry = e].key = k /\ [slot[s] EXCEPT !.entry = e].entry = e
    BY <1>1, <1>2 DEF Slots
<1>5. /\ slot'[s].key = k /\ slot'[s].entry = e
      /\ \A r \in Records \ {s} : slot'[r] = slot[r]
    BY <1>2, <1>3, <1>4 DEF LfkvIInv, LfkvTypeOK
<1>6. Contents'[k] = e
    BY <1>1, <1>3, <1>5 DEF MapRight
<1>7. ASSUME NEW j \in Keys, j # k
      PROVE  Contents'[j] = Contents[j]
    <2>1. \A c \in Cells : table[c] # NULL /\ slot[table[c]].key = j =>
                               table[c] \in Records \ {s} /\ slot'[table[c]] = slot[table[c]]
        BY <1>1, <1>5, <1>7, CellSlot
    <2>2. CASE Nowhere(j)
        <3>1. Nowhere(j)'
            <4> SUFFICES ASSUME NEW c \in Cells, table[c] # NULL
                         PROVE  slot'[table[c]].key # j
                BY <1>3 DEF Nowhere
            <4>1. table[c] \in Records /\ slot[table[c]].key # j
                BY <2>2, CellSlot DEF Nowhere
            <4> QED
                BY <4>1, <1>5, <1>7
        <3> QED
            BY <2>2, <3>1 DEF MapRight
    <2>3. CASE ~ Nowhere(j)
        <3>1. PICK c \in Cells : table[c] # NULL /\ slot[table[c]].key = j
            BY <2>3 DEF Nowhere
        <3> QED
            BY <2>1, <3>1, <1>3 DEF MapRight
    <2> QED
        BY <2>2, <2>3
<1> QED
    BY <1>6, <1>7, ContentsFun

\* A fresh slot in an empty cell.
LEMMA MapPublish ==
    ASSUME LfkvIInv, InsertInv, MapRight, MapRight',
           NEW d \in Cells, table[d] = NULL, NEW f \in Records,
           NEW k \in Keys, slot[f].key = k, Nowhere(k),
           table' = [table EXCEPT ![d] = f], UNCHANGED slot
    PROVE  Contents' = [Contents EXCEPT ![k] = slot[f].entry]
<1>1. slot' = slot /\ table'[d] = f /\ \A c \in Cells \ {d} : table'[c] = table[c]
    BY DEF LfkvIInv, LfkvTypeOK
<1>2. Contents'[k] = slot[f].entry
    BY <1>1 DEF MapRight
<1>3. ASSUME NEW j \in Keys, j # k
      PROVE  Contents'[j] = Contents[j]
    <2>1. CASE Nowhere(j)
        <3>1. Nowhere(j)'
            BY <2>1, <1>1, <1>3 DEF Nowhere
        <3> QED
            BY <2>1, <3>1 DEF MapRight
    <2>2. CASE ~ Nowhere(j)
        <3>1. PICK c \in Cells : table[c] # NULL /\ slot[table[c]].key = j
            BY <2>2 DEF Nowhere
        <3>2. table'[c] = table[c]
            BY <3>1, <1>1
        <3> QED
            BY <3>1, <3>2, <1>1 DEF MapRight
    <2> QED
        BY <2>1, <2>2
<1> QED
    BY <1>2, <1>3, ContentsFun

\* The key that a thread looks for is not in the table, when the thread has
\* come to an empty cell or has looked at all of them.
LEMMA EndOfProbe ==
    ASSUME LfkvIInv, InsertInv, NEW t \in Threads,
           \/ pc[t] \in {"probe", "scan"} /\ Full(t)
           \/ pc[t] \in {"probe", "claim"} /\ table[reg[t].i] = NULL
    PROVE  Nowhere(call[t].key)
<1> DEFINE k == call[t].key
           i == reg[t].i
<1>0. pc[t] # "idle"
    OBVIOUS
<1>1. k \in Keys /\ i \in Cells /\ Hash[k] \in Cells
    BY <1>0, Busy DEF Locals
<1>2. ASSUME pc[t] \in {"probe", "scan"}, Full(t)
      PROVE  Nowhere(k)
    <2>1. Behind(k, i, NSlots)
        BY <1>2 DEF InsertInv, Inserter, Counting, Full
    <2> QED
        BY <1>1, <2>1, AheadFacts DEF Behind, Nowhere
<1>3. ASSUME pc[t] \in {"probe", "claim"}, table[i] = NULL
      PROVE  Nowhere(k)
    <2>1. Passed(k, i)
        BY <1>3 DEF InsertInv, Inserter, Probing
    <2> HIDE DEF k, i
    <2> SUFFICES ASSUME NEW b \in Cells, table[b] # NULL, slot[table[b]].key = k
                 PROVE  FALSE
        BY DEF Nowhere
    <2>2. Dist(Hash[k], b) \in Nat /\ Dist(Hash[k], i) \in Nat /\ Dist(Hash[k], b) # Dist(Hash[k], i)
        BY <1>1, <1>3, DistFacts
    <2>3. CASE Dist(Hash[k], b) < Dist(Hash[k], i)
        BY <2>1, <2>3 DEF Passed
    <2>4. CASE Dist(Hash[k], i) < Dist(Hash[k], b)
        BY <1>1, <1>3, <2>4 DEF InsertInv, NoGap
    <2> QED
        BY <2>2, <2>3, <2>4
<1> QED
    BY <1>2, <1>3

\* The entry of the slot that a thread has found is what the map has.
LEMMA EntryFound ==
    ASSUME LfkvIInv, InsertInv, MapRight, NEW t \in Threads, pc[t] \in AtSlot
    PROVE  /\ Contents[call[t].key] = slot[reg[t].s].entry
           /\ Holds(reg[t].s, call[t].key) /\ call[t].key \in Keys
           /\ call[t].op \in Inserting /\ call[t].expiry = 0
           /\ pc[t] # "idle" /\ pc[t] \in Holding \ Owning
           /\ slot[reg[t].s].entry \in Entries /\ slot[reg[t].s].entry # NULL
           /\ slot[reg[t].s].entry.expiry = 0
<1>1. pc[t] # "idle" /\ pc[t] \in Holding \ Owning
    BY DEF AtSlot, Holding, Owning
<1>2. Holds(reg[t].s, call[t].key) /\ call[t].op \in Inserting /\ call[t].expiry = 0
    BY <1>1 DEF InsertInv, Inserter
<1>3. Contents[call[t].key] = slot[reg[t].s].entry
    BY <1>2 DEF Holds, MapRight
<1> QED
    BY <1>1, <1>2, <1>3, Busy, EntryLives

\* A step that leaves the table, or takes or gives back a fresh slot.
LEMMA QuietMap ==
    ASSUME LfkvIInv, UNCHANGED tableVars
    PROVE  Contents' = Contents
BY MapKept DEF tableVars

LEMMA FreshMap ==
    ASSUME LfkvIInv, NEW f \in Records, \A d \in Cells : table[d] # f,
           NEW x, slot' = [slot EXCEPT ![f] = x], UNCHANGED table
    PROVE  Contents' = Contents
<1>1. \A d \in Cells : table[d] # NULL => table[d] \in Records \ {f}
    BY CellSlot
<1>2. \A r \in Records \ {f} : slot'[r] = slot[r]
    BY DEF LfkvIInv, LfkvTypeOK
<1> QED
    BY <1>1, <1>2, MapKept

LEMMA DiscardMap ==
    ASSUME LfkvIInv, NEW t \in Threads, reg[t].f # NULL, Discard(t)
    PROVE  Contents' = Contents
<1>1. reg[t].f \in Records /\ \A d \in Cells : table[d] # reg[t].f
    BY DEF LfkvIInv, LfkvTypeOK, Locals, OnceInv
<1> QED
    BY <1>1, FreshMap DEF Discard

\* An operation on a key that is nowhere.
LEMMA FailsSim ==
    ASSUME LfkvIInv, InsertInv, AnswerFun, MapRight, NEW t \in Threads, pc[t] # "idle", pc[t] # "raise", pc[t] # "lower",
           call[t].op \in {"set", "set_nx"}, Nowhere(call[t].key),
           Fails(t), Contents' = Contents
    PROVE  Simulates
<1>1. call[t].key \in Keys
    BY Busy
<1>2. Contents[call[t].key] = NULL
    BY <1>1 DEF MapRight
<1>3. Linear!NoRoom(t, call[t], NULL)
    BY <1>2, ReturnSame DEF Fails, Linear!NoRoom
<1> QED
    BY <1>2, <1>3, MissSim DEF Inserting

LEMMA MissedSim ==
    ASSUME LfkvIInv, InsertInv, AnswerFun, MapRight, NEW t \in Threads, pc[t] = "probe",
           NEW i \in Cells, Nowhere(call[t].key), Missed(t, i)
    PROVE  Simulates
<1> DEFINE l == [reg[t] EXCEPT !.i = i]
<1>0. pc[t] # "idle"
    OBVIOUS
<1>1. reg[t].tomb = None /\ l.tomb = None /\ call[t].op \in Inserting
    BY <1>0, Busy DEF InsertInv, Inserter, Locals
<1>2. CASE call[t].op \in {"set", "set_nx"}
    <2>1. Allocate(t, "claim", l)
        BY <1>1, <1>2 DEF Missed
    <2>2. CASE Free = {}
        BY <1>0, <1>2, <2>1, <2>2, QuietMap, FailsSim DEF Allocate
    <2>3. CASE Free # {}
        <3> DEFINE f == CHOOSE s \in Free : TRUE
        <3>1. /\ slot' = [slot EXCEPT ![f] = [key |-> key(t), entry |-> Entry(call[t].val, 0)]]
              /\ Continue(t, "claim", [l EXCEPT !.f = f])
              /\ UNCHANGED table
            BY <2>1, <2>3 DEF Allocate
        <3>2. f \in Free
            BY <2>3
        <3> HIDE DEF f
        <3>3. f \in Records /\ \A d \in Cells : table[d] # f
            BY <3>2 DEF Free, LfkvIInv, CellInv
        <3>4. Contents' = Contents
            BY <3>1, <3>3, FreshMap
        <3> QED
            BY <3>1, <3>4, ContinueSim
    <2> QED
        BY <2>2, <2>3
<1>3. CASE call[t].op \notin {"set", "set_nx"}
    <2>1. Return(t, Absent(t)) /\ Contents' = Contents
        BY <1>3, QuietMap DEF Missed
    <2>2. Contents[call[t].key] = NULL
        BY <1>0, Busy DEF MapRight
    <2>3. Linear!Finish(t, Absent(t), NULL)
        BY <2>1, <2>2, ReturnSame
    <2>4. Linear!Miss(t, call[t], NULL)
        BY <1>1, <1>3, <2>3 DEF Absent, Linear!Miss, Inserting
    <2> QED
        BY <1>0, <1>1, <2>2, <2>4, MissSim
<1> QED
    BY <1>2, <1>3

LEMMA ProbeSlotSim ==
    ASSUME LfkvIInv, InsertInv, AnswerFun, MapRight, NEW t \in Threads, ProbeSlot(t)
    PROVE  Simulates
<1>1. pc[t] = "probe" /\ pc[t] # "idle"
    BY DEF ProbeSlot
<1>2. reg[t].i \in Cells /\ Home(t) \in Cells
    BY <1>1, Busy DEF Locals
<1>3. CASE Full(t)
    BY <1>1, <1>2, <1>3, EndOfProbe, MissedSim DEF ProbeSlot
<1>4. CASE ~ Full(t) /\ table[reg[t].i] = NULL
    BY <1>1, <1>2, <1>4, EndOfProbe, MissedSim DEF ProbeSlot
<1>5. CASE ~ Full(t) /\ table[reg[t].i] # NULL
    BY <1>1, <1>5, QuietMap, ContinueSim DEF ProbeSlot
<1> QED
    BY <1>3, <1>4, <1>5

LEMMA ProbeEntrySim ==
    ASSUME LfkvIInv, AnswerFun, NEW t \in Threads, ProbeEntry(t)
    PROVE  Simulates
<1>1. Contents' = Contents
    BY QuietMap DEF ProbeEntry
<1>2. \E p, l : Continue(t, p, l) /\ p \in {"probe", Found(t)}
    BY DEF ProbeEntry
<1>3. pc[t] = "probe_entry" /\ Found(t) \in {"replace", "nx_load", "load"}
    BY DEF ProbeEntry, Found
<1> QED
    BY <1>1, <1>2, <1>3, ContinueSim

LEMMA ReplaceSim ==
    ASSUME LfkvIInv, InsertInv, AnswerFun, MapRight, MapRight', NEW t \in Threads,
           Replace(t) \/ ReplaceCas(t)
    PROVE  Simulates
<1>1. CASE Replace(t)
    BY <1>1, QuietMap, ContinueSim DEF Replace
<1>2. CASE ReplaceCas(t) /\ ~ Same(t)
    BY <1>2, QuietMap, ContinueSim DEF ReplaceCas
<1>3. CASE ReplaceCas(t) /\ Same(t)
    <2> DEFINE e == Entry(call[t].val, 0)
    <2>1. pc[t] = "replace_cas" /\ pc[t] \in AtSlot /\ Swap(t, reg[t].s, e, 0)
        BY <1>3 DEF ReplaceCas, AtSlot
    <2>2. call[t].op = "set" /\ call[t].val \in Vals
        BY <2>1, Busy DEF Serves, Calls, Writes
    <2>3. e \in Entries
        BY <2>2, EntryFact
    <2> HIDE DEF e
    <2>4. Store(reg[t].s, e) /\ Return(t, 0)
        BY <2>1, <2>3, EntryFound, InsertSwap
    <2>7. Contents' = [Contents EXCEPT ![call[t].key] = e]
        BY <2>1, <2>3, <2>4, EntryFound, MapStore
    <2>5. Linear!Finish(t, 0, Entry(call[t].val, 0))
        BY <2>1, <2>4, <2>7, ReturnSim DEF e
    <2>6. Linear!Hit(t, call[t], slot[reg[t].s].entry)
        BY <2>2, <2>5 DEF Linear!Hit, Linear!Entry, Entry
    <2> QED
        BY <2>1, <2>6, EntryFound, HitSim
<1> QED
    BY <1>1, <1>2, <1>3

LEMMA BeatenSim ==
    ASSUME LfkvIInv, NEW t \in Threads, pc[t] \in Owning, NEW s, Beaten(t, s)
    PROVE  Simulates
<1>1. reg[t].f # NULL
    BY DEF LfkvIInv, ThreadInv, Shape
<1>2. Contents' = Contents
    BY <1>1, DiscardMap DEF Beaten
<1>3. \E p, l : Continue(t, p, l) /\ p \in {"replace", "probe"}
    BY DEF Beaten, Reprobe
<1>4. pc[t] \notin {"raise", "lower"}
    BY DEF Owning
<1> QED
    BY <1>2, <1>3, <1>4, ContinueSim

LEMMA ClaimSim ==
    ASSUME LfkvIInv, InsertInv, AnswerFun, MapRight, MapRight', NEW t \in Threads, Claim(t)
    PROVE  Simulates
<1>1. pc[t] = "claim" /\ pc[t] # "idle" /\ pc[t] \in Owning
    BY DEF Claim, Owning
<1>2. CASE table[reg[t].i] = NULL
    <2> DEFINE f == reg[t].f
               e == slot[f].entry
    <2>1. Publish(t, reg[t].i)
        BY <1>2 DEF Claim
    <2>2. /\ reg[t].i \in Cells /\ f \in Records /\ call[t].key \in Keys
          /\ call[t].op \in {"set", "set_nx"} /\ call[t].op \in Inserting
        BY <1>1, Busy DEF Locals, Shape, Serves, Inserting
    <2>3. slot[f].key = call[t].key
        BY <2>2 DEF InsertInv, Inserter
    <2>4. Nowhere(call[t].key)
        BY <1>1, <1>2, EndOfProbe
    <2>5. Contents' = [Contents EXCEPT ![call[t].key] = e]
        BY <1>2, <2>1, <2>2, <2>3, <2>4, MapPublish DEF Publish
    <2>6. Contents[call[t].key] = NULL
        BY <2>2, <2>4 DEF MapRight
    <2>7. Linear!Finish(t, IF call[t].op = "set" THEN 0 ELSE 1, e)
        BY <1>1, <2>1, <2>5, ReturnSim DEF Publish, Inserted
    <2>8. e = Entry(call[t].val, 0)
        BY <1>1, <2>2 DEF InsertInv, Inserter
    <2>9. Linear!Miss(t, call[t], NULL)
        BY <2>2, <2>7, <2>8 DEF Linear!Miss, Linear!Entry, Entry
    <2> QED
        BY <1>1, <2>2, <2>6, <2>9, MissSim
<1>3. CASE table[reg[t].i] # NULL /\ Claimed(t, table[reg[t].i])
    BY <1>1, <1>3, BeatenSim DEF Claim
<1>4. CASE table[reg[t].i] # NULL /\ ~ Claimed(t, table[reg[t].i])
    BY <1>1, <1>4, QuietMap, ContinueSim DEF Claim
<1> QED
    BY <1>2, <1>3, <1>4

LEMMA ScanSim ==
    ASSUME LfkvIInv, InsertInv, AnswerFun, MapRight, NEW t \in Threads, Scan(t)
    PROVE  Simulates
<1>1. pc[t] = "scan" /\ pc[t] # "idle" /\ pc[t] \in Owning
    BY DEF Scan, Owning
<1>2. CASE Full(t)
    <2>1. Discard(t) /\ Fails(t)
        BY <1>2 DEF Scan
    <2>2. reg[t].f # NULL /\ call[t].op \in {"set", "set_nx"}
        BY <1>1, Busy DEF Shape, Serves
    <2>3. Contents' = Contents
        BY <2>1, <2>2, DiscardMap
    <2>4. Nowhere(call[t].key)
        BY <1>1, <1>2, EndOfProbe
    <2> QED
        BY <1>1, <2>1, <2>2, <2>3, <2>4, FailsSim
<1>3. CASE ~ Full(t) /\ table[reg[t].i] # NULL /\ Claimed(t, table[reg[t].i])
    BY <1>1, <1>3, BeatenSim DEF Scan
<1>4. CASE ~ Full(t) /\ (table[reg[t].i] = NULL \/ ~ Claimed(t, table[reg[t].i]))
    BY <1>1, <1>4, QuietMap, ContinueSim DEF Scan
<1> QED
    BY <1>2, <1>3, <1>4

LEMMA NxLoadSim ==
    ASSUME LfkvIInv, InsertInv, AnswerFun, MapRight, NEW t \in Threads, NxLoad(t)
    PROVE  Simulates
<1>1. pc[t] = "nx_load" /\ pc[t] \in AtSlot /\ pc[t] \in Holding /\ UNCHANGED tableVars
    BY DEF NxLoad, AtSlot, Holding
<1>2. Return(t, 0)
    BY <1>1, EntryLives DEF NxLoad
<1>3. Linear!Finish(t, 0, slot[reg[t].s].entry)
    BY <1>1, <1>2, QuietMap, EntryFound, ReturnSame
<1>4. call[t].op = "set_nx"
    BY <1>1, Busy DEF Serves
<1>5. Linear!Hit(t, call[t], slot[reg[t].s].entry)
    BY <1>3, <1>4 DEF Linear!Hit
<1> QED
    BY <1>1, <1>5, EntryFound, HitSim

LEMMA LoadSim ==
    ASSUME LfkvIInv, InsertInv, AnswerFun, MapRight, NEW t \in Threads, Load(t)
    PROVE  Simulates
<1> DEFINE e == slot[reg[t].s].entry
           c == call[t]
<1>1. pc[t] = "load" /\ pc[t] \in AtSlot /\ pc[t] \in Holding /\ UNCHANGED tableVars
    BY DEF Load, AtSlot, Holding
<1>2. /\ Contents[c.key] = e /\ Contents' = Contents
      /\ c.op \in Inserting /\ c.expiry = 0 /\ pc[t] # "idle"
      /\ e \in Entries /\ e # NULL /\ e.expiry = 0 /\ ~ entry_expired(t, e)
    BY <1>1, QuietMap, EntryFound, EntryLives
<1> HIDE DEF e
<1>3. CASE Compares(t) /\ e.val # c.expected
    <2>1. Return(t, Absent(t))
        BY <1>3 DEF Load, e
    <2>2. c.op \in {"cas", "touch"}
        BY <1>2, <1>3 DEF Compares, Comparing, Inserting
    <2>3. Linear!Finish(t, 0, e)
        BY <1>1, <1>2, <2>1, <2>2, ReturnSame DEF Absent
    <2>4. Linear!Hit(t, c, e)
        BY <1>3, <2>2, <2>3 DEF Linear!Hit
    <2> QED
        BY <1>1, <1>2, <2>4, HitSim
<1>4. CASE ~ (Compares(t) /\ e.val # c.expected) /\ c.op = "get"
    <2>1. Return(t, e.val)
        BY <1>2, <1>4 DEF Load, e
    <2>2. Linear!Hit(t, c, e)
        BY <1>2, <1>4, <2>1, <1>1, ReturnSame DEF Linear!Hit
    <2> QED
        BY <1>1, <1>2, <2>2, HitSim
<1>5. CASE ~ (Compares(t) /\ e.val # c.expected) /\ c.op = "get_expiry"
    <2>1. Return(t, e.expiry)
        BY <1>2, <1>5 DEF Load, e
    <2>2. Linear!Hit(t, c, e)
        BY <1>2, <1>5, <2>1, <1>1, ReturnSame DEF Linear!Hit
    <2> QED
        BY <1>1, <1>2, <2>2, HitSim
<1>6. CASE ~ (Compares(t) /\ e.val # c.expected) /\ c.op = "touch"
    <2>1. Return(t, 1)
        BY <1>2, <1>6 DEF Load, e
    <2>2. e = Linear!Entry(e.val, c.expiry) /\ e.val = c.expected
        BY <1>2, <1>6 DEF Entries, Linear!Entry, Compares, Comparing
    <2>3. Linear!Finish(t, 1, e)
        BY <1>1, <1>2, <2>1, ReturnSame
    <2>4. Linear!Hit(t, c, e)
        BY <1>6, <2>2, <2>3 DEF Linear!Hit
    <2> QED
        BY <1>1, <1>2, <2>4, HitSim
<1>7. CASE ~ (Compares(t) /\ e.val # c.expected) /\ c.op \notin {"get", "get_expiry", "touch"}
    <2>1. Continue(t, "update", [reg[t] EXCEPT !.e = e])
        BY <1>2, <1>7 DEF Load, e
    <2> QED
        BY <1>1, <1>2, <2>1, ContinueSim
<1> QED
    BY <1>3, <1>4, <1>5, <1>6, <1>7

LEMMA UpdateSim ==
    ASSUME LfkvIInv, InsertInv, AnswerFun, MapRight, MapRight', NEW t \in Threads, Update(t)
    PROVE  Simulates
<1> DEFINE e == slot[reg[t].s].entry
           c == call[t]
           new == Entry(c.val, 0)
<1>1. pc[t] = "update" /\ pc[t] # "idle" /\ pc[t] \in AtSlot /\ pc[t] \in Holding
    BY DEF Update, AtSlot, Holding
<1>2. /\ c.op \in Inserting /\ c.op # "touch" /\ c.op \in Updates /\ reg[t].e.expiry = 0
      /\ c.op = "cas" => reg[t].e.val = c.expected
    BY <1>1, Busy DEF InsertInv, Inserter, Serves
<1>3. c.op \in {"set_xx", "cas"} /\ c.val \in Vals
    BY <1>1, <1>2, Busy DEF Inserting, Updates, Serves, Calls, Writes
<1>4. CASE Same(t)
    <2>1. Swap(t, reg[t].s, Updated(t, reg[t].e), 1)
        BY <1>4 DEF Update
    <2>2. Updated(t, reg[t].e) = new /\ reg[t].e = e
        BY <1>2, <1>3, <1>4 DEF Updated, KeptExpiry, Same
    <2>3. new \in Entries
        BY <1>3, EntryFact
    <2> HIDE DEF new
    <2>7. Store(reg[t].s, new) /\ Return(t, 1)
        BY <1>1, <2>1, <2>2, <2>3, EntryFound, InsertSwap
    <2>4. Contents' = [Contents EXCEPT ![c.key] = new]
        BY <1>1, <2>3, <2>7, EntryFound, MapStore
    <2>5. Linear!Finish(t, 1, new)
        BY <1>1, <2>4, <2>7, ReturnSim
    <2>6. Linear!Hit(t, c, e)
        <3>1. new = Linear!Entry(c.val, 0)
            BY DEF new, Entry, Linear!Entry
        <3>2. e.expiry = 0 /\ (c.op = "cas" => e.val = c.expected)
            BY <1>2, <2>2
        <3> QED
            BY <1>3, <2>5, <3>1, <3>2 DEF Linear!Hit
    <2> QED
        BY <1>1, <2>6, EntryFound, HitSim
<1>5. CASE ~ Same(t)
    <2>1. \E p, l : Continue(t, p, l) /\ p \in {"load", "probe"}
        BY <1>5 DEF Update, Retry, Reprobe
    <2>2. Contents' = Contents
        BY <1>5, QuietMap DEF Update
    <2> QED
        BY <1>1, <2>1, <2>2, ContinueSim
<1> QED
    BY <1>4, <1>5

\* The count of an insertion that has taken effect.
LEMMA RaiseSim ==
    ASSUME LfkvIInv, AnswerFun, NEW t \in Threads, Raise(t)
    PROVE  Simulates
<1>1. pc[t] = "raise" /\ UNCHANGED <<table, slot>> /\ Return(t, Inserted(t))
    BY DEF Raise
<1>2. Contents' = Contents
    BY <1>1, MapKept
<1>3. pc'[t] = "idle" /\ call'[t] = NULL /\ answer'[t] = Inserted(t)
    BY <1>1 DEF Return, Goto, LfkvIInv, LfkvTypeOK, AnswerFun
<1>4. Running[t] = Running'[t] /\ Results[t] = Results'[t]
    <2>1. Running[t] = NULL /\ Results[t] = Inserted(t)
        BY <1>1, Shown
    <2>2. Running'[t] = NULL /\ Results'[t] = Inserted(t)
        BY <1>3 DEF Running, Results, Decided
    <2> QED
        BY <2>1, <2>2
<1>5. \A u \in Threads \ {t} : answer'[u] = answer[u]
    BY <1>1 DEF Return, AnswerFun
<1>6. Running' = Running /\ Results' = Results
    <2>1. Running = [u \in Threads |-> Running[u]] /\ Results = [u \in Threads |-> Results[u]]
        BY DEF Running, Results
    <2> QED
        BY <1>1, <1>4, <1>5, <2>1, Returns, ShownMoves
<1> QED
    BY <1>1, <1>2, <1>6 DEF Simulates, Return

LEMMA InvokeSim ==
    ASSUME LfkvIInv, AnswerFun, NEW t \in Threads, NEW c \in Requests, Invoke(t, c)
    PROVE  Simulates
<1> DEFINE b == Linear!At(c, clock)
           p == IF c.op \in Walks THEN "walk" ELSE "probe"
<1>1. pc[t] = "idle" /\ call[t] = NULL /\ Running[t] = NULL
    BY Shown DEF Invoke, LfkvIInv, LfkvTypeOK
<1>2. Contents' = Contents
    BY QuietMap DEF Invoke
<1>3. call' = [call EXCEPT ![t] = b] /\ answer' = [answer EXCEPT ![t] = NULL] /\ clock' = clock
    BY DEF Invoke, Linear!At
<1>4. b \in Calls /\ b # NULL
    <2>1. clock \in 0 .. MaxClock
        BY DEF LfkvIInv, LfkvTypeOK
    <2> QED
        BY <2>1 DEF Linear!At, Requests, Calls
<1> HIDE DEF b
<1>5. pc'[t] \in {"walk", "probe"} /\ call'[t] = b /\ answer'[t] = NULL
    BY <1>3 DEF Invoke, Goto, LfkvIInv, LfkvTypeOK, AnswerFun
<1>6. Running'[t] = b /\ Results'[t] = NULL
    BY <1>5 DEF Running, Results, Decided
<1>7. \E l : Moves(t, p, l, b)
    BY <1>3 DEF Invoke, Moves, Goto, Locally
<1>8. \A u \in Threads \ {t} : answer'[u] = answer[u]
    BY <1>3 DEF AnswerFun
<1>9. Running' = [Running EXCEPT ![t] = b] /\ Results' = [Results EXCEPT ![t] = NULL]
    BY <1>6, <1>7, <1>8, ShownMoves
<1>10. Linear!Invoke(t)
    BY <1>1, <1>2, <1>3, <1>9 DEF Linear!Invoke, b
<1> QED
    BY <1>4, <1>6, <1>10 DEF Simulates, Linear!KvNext

LEMMA ShownStill ==
    ASSUME UNCHANGED <<call, answer, pc, reg>>
    PROVE  Running' = Running /\ Results' = Results
BY DEF Running, Results, Decided, Result, Inserted, Removed, Absent, entry_expired

LEMMA StepSim ==
    LfkvIInv /\ InsertInv /\ AnswerFun /\ MapRight /\ MapRight' /\ [LfkvNext]_lfkvVars => Simulates
<1> SUFFICES ASSUME LfkvIInv, InsertInv, AnswerFun, MapRight, MapRight', [LfkvNext]_lfkvVars
             PROVE  Simulates
    OBVIOUS
<1>1. ASSUME NEW t \in Threads, Step(t)
      PROVE  Simulates
    <2>1. pc[t] \in InsertPcs
        BY DEF InsertInv, Inserter
    <2>2. \/ ProbeSlot(t) \/ ProbeEntry(t) \/ Replace(t) \/ ReplaceCas(t)
          \/ Claim(t) \/ Scan(t) \/ NxLoad(t) \/ Load(t) \/ Update(t) \/ Raise(t)
        BY <1>1, <2>1 DEF Step, InsertPcs, TombLoad, TombEntry, TombCas, NxInstall, Expire,
                          WalkSlot, WalkEntry, WalkCas, Lower
    <2> QED
        BY <2>2, ProbeSlotSim, ProbeEntrySim, ReplaceSim, ClaimSim, ScanSim, NxLoadSim,
           LoadSim, UpdateSim, RaiseSim
<1>2. ASSUME NEW t \in Threads, NEW c \in workload[t], Invoke(t, c)
      PROVE  Simulates
    BY <1>2, AskedFor, InvokeSim
<1>3. CASE Tick
    <2>1. Contents' = Contents
        BY <1>3, QuietMap DEF Tick
    <2>2. clock' > clock
        BY <1>3 DEF Tick, LfkvIInv, LfkvTypeOK
    <2>3. Running' = Running /\ Results' = Results
        BY <1>3, ShownStill DEF Tick, callVars
    <2>4. Linear!Tick
        BY <2>1, <2>2, <2>3 DEF Linear!Tick
    <2> QED
        BY <2>4 DEF Simulates, Linear!KvNext
<1>4. CASE UNCHANGED lfkvVars
    BY <1>4, QuietMap, ShownStill DEF Simulates, lfkvVars, callVars
<1> QED
    BY <1>1, <1>2, <1>3, <1>4 DEF LfkvNext

LEMMA InitSim == LfkvInit => Linear!KvInit /\ AnswerFun
<1> SUFFICES ASSUME LfkvInit
             PROVE  Linear!KvInit /\ AnswerFun
    OBVIOUS
<1>1. \A k \in Keys : Live(k) = {}
    BY DEF LfkvInit, Live, Published
<1>2. Contents = [k \in Keys |-> NULL]
    BY <1>1 DEF Contents
<1>3. Running = [t \in Threads |-> NULL] /\ Results = [t \in Threads |-> NULL]
    BY DEF LfkvInit, Running, Results, Decided
<1> QED
    BY <1>2, <1>3 DEF LfkvInit, Linear!KvInit, AnswerFun

\* The history variable knows of the moment that the state shows, and nothing
\* of a thread that runs no operation.
HistoryInv ==
    /\ absent \in [Threads -> BOOLEAN]
    /\ \A t \in Threads : /\ Linear!Observed(t) => absent[t]
                          /\ absent[t] => Running[t] # NULL

LEMMA HistoryInit0 == HistoryInit => HistoryInv
BY InitSim DEF HistoryInit, HistoryInv, Linear!KvInit, Linear!Observed

LEMMA HistoryStep ==
    ASSUME HistoryInv, Linear!Observe
    PROVE  HistoryInv'
<1>1. \A t \in Threads : absent'[t] <=> Linear!Observed(t)' \/ (absent[t] /\ Running'[t] # NULL)
    BY DEF Linear!Observe
<1>2. \A t \in Threads : Linear!Observed(t)' => Running'[t] # NULL
    BY DEF Linear!Observed
<1>3. absent' \in [Threads -> BOOLEAN]
    BY DEF Linear!Observe, Linear!Observed, Linear!Lacks, Linear!Stale
<1> QED
    BY <1>1, <1>2, <1>3 DEF HistoryInv

\* A step that leaves the map alone leaves the history alone.
LEMMA HistorySim ==
    ASSUME HistoryInv, UNCHANGED <<Contents, Running, Results, clock>>, Linear!Observe
    PROVE  absent' = absent
<1>1. \A t \in Threads : Linear!Observed(t)' = Linear!Observed(t)
    BY DEF Linear!Observed, Linear!Lacks, Linear!Stale
<1>2. \A t \in Threads : absent'[t] = absent[t]
    BY <1>1 DEF HistoryInv, Linear!Observe
<1>3. absent' = [t \in Threads |-> absent'[t]]
    BY DEF Linear!Observe
<1> QED
    BY <1>2, <1>3 DEF HistoryInv

LEMMA LinearStep ==
    ASSUME LfkvIInv, InsertInv, AnswerFun, MapRight, MapRight', HistoryInv,
           [HistoryNext]_historyVars
    PROVE  [Linear!LinNext]_(Linear!linVars)
<1>1. CASE HistoryNext
    <2>1. Simulates /\ Linear!Observe
        BY <1>1, StepSim DEF HistoryNext
    <2>2. CASE Linear!KvNext
        BY <2>1, <2>2 DEF Linear!LinNext
    <2>3. CASE UNCHANGED <<Contents, Running, Results, clock>>
        BY <2>1, <2>3, HistorySim DEF Linear!linVars, Linear!kvVars
    <2> QED
        BY <2>1, <2>2, <2>3 DEF Simulates
<1>2. CASE UNCHANGED historyVars
    <2>1. Contents' = Contents /\ Running' = Running /\ Results' = Results /\ clock' = clock
        BY <1>2, QuietMap, ShownStill DEF historyVars, lfkvVars, callVars
    <2> QED
        BY <1>2, <2>1 DEF historyVars, Linear!linVars, Linear!kvVars
<1> QED
    BY <1>1, <1>2

\* For the same reactors the lock-free table is a map: whatever get, set,
\* set_nx, set_xx, cas and a touch without a deadline return, however many run at the same time, is what
\* they would return if each had run alone, at one moment between its call and
\* its return (the swaps of lfkv.c are where that moment is; the update of
\* kv->count comes after it).
THEOREM InsertsLinearize == HistorySpec /\ OnlyInserts => Linearizable
<1>1. HistoryInit => LfkvIInv /\ Linear!LinInit /\ AnswerFun /\ HistoryInv
    BY LfkvInitOK, InitSim, HistoryInit0 DEF HistoryInit, Linear!LinInit
<1>2. HistoryInit /\ OnlyInserts => InsertInv
    BY InsertInitOK DEF HistoryInit
<1>3. [HistoryNext]_historyVars => [LfkvNext]_lfkvVars
    BY DEF HistoryNext, historyVars
<1>4. LfkvIInv /\ [LfkvNext]_lfkvVars => LfkvIInv'
    BY LfkvStepOK
<1>5. LfkvIInv /\ InsertInv /\ [LfkvNext]_lfkvVars => InsertInv'
    BY InsertStepOK
<1>6. AnswerFun /\ [LfkvNext]_lfkvVars => AnswerFun'
    BY AnswerStep
<1>7. LfkvIInv /\ InsertInv => MapRight
    BY MapIsRight
<1>8. HistoryInv /\ [HistoryNext]_historyVars => HistoryInv'
    <2> SUFFICES ASSUME HistoryInv, [HistoryNext]_historyVars
                 PROVE  HistoryInv'
        OBVIOUS
    <2>1. CASE HistoryNext
        BY <2>1, HistoryStep DEF HistoryNext
    <2>2. CASE UNCHANGED historyVars
        <3>1. Contents' = Contents /\ Running' = Running /\ absent' = absent
            BY <2>2, MapKept, ShownStill DEF historyVars, lfkvVars, callVars, tableVars
        <3> QED
            BY <3>1 DEF HistoryInv, Linear!Observed, Linear!Lacks, Linear!Stale
    <2> QED
        BY <2>1, <2>2
<1>9. LfkvIInv /\ InsertInv /\ AnswerFun /\ MapRight /\ MapRight' /\ HistoryInv
          /\ [HistoryNext]_historyVars => [Linear!LinNext]_(Linear!linVars)
    BY LinearStep
<1> QED
    BY <1>1, <1>2, <1>3, <1>4, <1>5, <1>6, <1>7, <1>8, <1>9, PTL
    DEF HistorySpec, Linearizable, Linear!LinSpec

=============================================================================

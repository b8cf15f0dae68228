---------------------------- MODULE EpochProofs ----------------------------
(* Type correctness and absence of use-after-free of Epoch, for every      *)
(* number of reactors, cells, entries and registration slots.              *)
EXTENDS Epoch, FiniteSetTheorems, TLAPS

-----------------------------------------------------------------------------
(* The inductive invariant                                                 *)

RegisteredSet == {t \in Threads : Registered(t)}
OverflowSet == {t \in Threads : pc[t] = "overflow"}

Serving == {"turn", "retire", "tick_store", "gc_begin", "gc_scan", "gc_free"}

\* Registration hands out distinct slots below the count; the count exceeds the
\* registered threads only by those about to roll it back.
SlotsInv ==
    /\ epoch_nthreads = Cardinality(RegisteredSet) + Cardinality(OverflowSet)
    /\ Cardinality(RegisteredSet) <= EPOCH_MAX_THREADS
    /\ OverflowSet # {} => Cardinality(RegisteredSet) = EPOCH_MAX_THREADS
    /\ \A t \in RegisteredSet : epoch_my_idx[t] < Cardinality(RegisteredSet)
    /\ \A t, u \in RegisteredSet : epoch_my_idx[t] = epoch_my_idx[u] => t = u

\* What the control state of a thread says of its registration and registers.
ControlInv ==
    \A t \in Threads :
        /\ pc[t] \in {"off", "overflow"} => ~ Registered(t)
        /\ pc[t] \in Serving \cup {"seed_load", "seed_store"} => Registered(t)
        /\ pc[t] \in Serving => quiescent[epoch_my_idx[t]] # 0
        /\ pc[t] \in {"seed_store", "tick_store"} => reg[t].g # 0
        /\ held[t] # {} => pc[t] \in {"turn", "retire"}
        /\ pc[t] = "retire" => reg[t].old # NULL

\* Nothing published or stamped is ahead of the global epoch.
EpochInv ==
    /\ epoch_global >= 1
    /\ \A s \in Slots : quiescent[s] <= epoch_global
    /\ \A t \in Threads : reg[t].g <= epoch_global

\* The entries a thread has displaced and not collected yet.
Displaced(t) == {e.ptr : e \in retire_list[t]}
                \cup (IF pc[t] = "retire" THEN {reg[t].old} ELSE {})

\* Cells and displaced entries are disjoint owners, and own allocated entries.
OwnerInv ==
    /\ \A c \in Cells : cells[c] \in allocated \cup {NULL}
    /\ \A c, d \in Cells : cells[c] = cells[d] /\ cells[c] # NULL => c = d
    /\ \A t \in Threads : \A p \in Displaced(t) :
          /\ p \in allocated
          /\ \A c \in Cells : cells[c] # p
          /\ \A u \in Threads : p \in Displaced(u) => t = u
    /\ \A t \in Threads :
          /\ \A e, f \in retire_list[t] : e.ptr = f.ptr => e = f
          /\ pc[t] = "retire" => \A e \in retire_list[t] : e.ptr # reg[t].old

\* A thread that can reach a retired entry has not published a later epoch, and
\* a scan that has passed its slot has taken that into account.
GraceInv ==
    \A t, u \in Threads : \A e \in retire_list[t] :
        e.ptr \in held[u] =>
            /\ quiescent[epoch_my_idx[u]] <= e.epoch
            /\ pc[t] = "gc_scan" => \/ /\ reg[t].i <= epoch_my_idx[u]
                                       /\ epoch_my_idx[u] < reg[t].n
                                    \/ reg[t].min <= e.epoch
            /\ pc[t] = "gc_free" => reg[t].min <= e.epoch

IInv == /\ TypeOK
        /\ SlotsInv
        /\ ControlInv
        /\ EpochInv
        /\ OwnerInv
        /\ \A t \in Threads : held[t] \subseteq allocated
        /\ GraceInv

-----------------------------------------------------------------------------
USE EpochAssumption DEF Goto, Registered

\* Steps that neither register a thread nor roll one back keep the slots.
LEMMA SlotsKept ==
    ASSUME SlotsInv,
           UNCHANGED <<epoch_my_idx, epoch_nthreads>>,
           OverflowSet' = OverflowSet
    PROVE  SlotsInv'
<1>1. RegisteredSet' = RegisteredSet
  BY DEF RegisteredSet
<1>. QED
  BY <1>1 DEF SlotsInv

\* A registered thread has a slot below the count.
LEMMA SlotBelowCount ==
    ASSUME TypeOK, SlotsInv, NEW u \in Threads, Registered(u)
    PROVE  /\ epoch_my_idx[u] \in Slots
           /\ epoch_my_idx[u] < epoch_nthreads
<1>1. IsFiniteSet(RegisteredSet) /\ IsFiniteSet(OverflowSet)
  BY FS_Subset DEF RegisteredSet, OverflowSet
<1>2. Cardinality(RegisteredSet) \in Nat /\ Cardinality(OverflowSet) \in Nat
  BY <1>1, FS_CardinalityType
<1>3. u \in RegisteredSet /\ epoch_my_idx[u] \in Slots
  BY DEF RegisteredSet, TypeOK
<1>. QED
  BY <1>2, <1>3 DEF SlotsInv, Slots

LEMMA SeedLoadStep ==
    ASSUME IInv, NEW t \in Threads, SeedLoad(t)
    PROVE  IInv'
<1>. USE DEF IInv, SeedLoad, sharedVars, ReadGlobal
<1>1. TypeOK'
  BY DEF TypeOK, Registers, Steps, Retired
<1>2. SlotsInv'
  <2>1. OverflowSet' = OverflowSet
    BY DEF OverflowSet, TypeOK
  <2>. QED
    BY <2>1, SlotsKept
<1>3. ControlInv'
  BY DEF ControlInv, TypeOK, Registers, Steps, Serving, EpochInv
<1>4. EpochInv'
  BY DEF EpochInv, TypeOK, Registers, ControlInv, Serving
<1>5. OwnerInv'
  <2>1. \A u \in Threads : Displaced(u)' = Displaced(u)
    BY DEF Displaced, TypeOK, Registers
  <2>. QED
    BY <2>1 DEF OwnerInv, TypeOK, Registers
<1>6. \A u \in Threads : held'[u] \subseteq allocated'
  BY DEF TypeOK
<1>7. GraceInv'
  BY DEF GraceInv, TypeOK, Registers, ControlInv, Serving
<1>. QED
  BY <1>1, <1>2, <1>3, <1>4, <1>5, <1>6, <1>7

LEMMA SeedStoreStep ==
    ASSUME IInv, NEW t \in Threads, SeedStore(t)
    PROVE  IInv'
<1>. USE DEF IInv, SeedStore, Publish
<1>1. TypeOK'
  BY DEF TypeOK, Registers, Steps, Retired
<1>2. SlotsInv'
  <2>1. \A u \in Threads : pc'[u] = "overflow" <=> pc[u] = "overflow"
    BY DEF TypeOK
  <2>2. OverflowSet' = OverflowSet
    BY <2>1 DEF OverflowSet
  <2>. QED
    BY <2>2, SlotsKept
<1>3. ControlInv'
  BY DEF ControlInv, TypeOK, Registers, Steps, Serving, EpochInv, SlotsInv, RegisteredSet
<1>4. EpochInv'
  BY DEF EpochInv, TypeOK, Registers, ControlInv, Serving
<1>5. OwnerInv'
  <2>1. \A u \in Threads : Displaced(u)' \subseteq Displaced(u)
    BY DEF Displaced, TypeOK, Registers
  <2>. QED
    BY <2>1 DEF OwnerInv, TypeOK, Registers
<1>6. \A u \in Threads : held'[u] \subseteq allocated'
  BY DEF TypeOK
<1>7. GraceInv'
  BY DEF GraceInv, TypeOK, Registers, ControlInv, Serving, SlotsInv, RegisteredSet
<1>. QED
  BY <1>1, <1>2, <1>3, <1>4, <1>5, <1>6, <1>7

LEMMA TickLoadStep ==
    ASSUME IInv, NEW t \in Threads, TickLoad(t)
    PROVE  IInv'
<1>. USE DEF IInv, TickLoad, sharedVars, ReadGlobal
<1>1. TypeOK'
  BY DEF TypeOK, Registers, Steps, Retired
<1>2. SlotsInv'
  <2>1. OverflowSet' = OverflowSet
    BY DEF OverflowSet, TypeOK
  <2>. QED
    BY <2>1, SlotsKept
<1>3. ControlInv'
  BY DEF ControlInv, TypeOK, Registers, Steps, Serving, EpochInv
<1>4. EpochInv'
  BY DEF EpochInv, TypeOK, Registers, ControlInv, Serving
<1>5. OwnerInv'
  <2>1. \A u \in Threads : Displaced(u)' = Displaced(u)
    BY DEF Displaced, TypeOK, Registers
  <2>. QED
    BY <2>1 DEF OwnerInv, TypeOK, Registers
<1>6. \A u \in Threads : held'[u] \subseteq allocated'
  BY DEF TypeOK
<1>7. GraceInv'
  BY DEF GraceInv, TypeOK, Registers, ControlInv, Serving
<1>. QED
  BY <1>1, <1>2, <1>3, <1>4, <1>5, <1>6, <1>7

LEMMA TickStoreStep ==
    ASSUME IInv, NEW t \in Threads, TickStore(t)
    PROVE  IInv'
<1>. USE DEF IInv, TickStore, Publish
<1>1. TypeOK'
  BY DEF TypeOK, Registers, Steps, Retired
<1>2. SlotsInv'
  <2>1. OverflowSet' = OverflowSet
    BY DEF OverflowSet, TypeOK
  <2>. QED
    BY <2>1, SlotsKept
<1>3. ControlInv'
  BY DEF ControlInv, TypeOK, Registers, Steps, Serving, EpochInv, SlotsInv, RegisteredSet
<1>4. EpochInv'
  BY DEF EpochInv, TypeOK, Registers, ControlInv, Serving
<1>5. OwnerInv'
  <2>1. \A u \in Threads : Displaced(u)' = Displaced(u)
    BY DEF Displaced, TypeOK, Registers
  <2>. QED
    BY <2>1 DEF OwnerInv, TypeOK, Registers
<1>6. \A u \in Threads : held'[u] \subseteq allocated'
  BY DEF TypeOK
<1>7. GraceInv'
  BY DEF GraceInv, TypeOK, Registers, ControlInv, Serving, SlotsInv, RegisteredSet
<1>. QED
  BY <1>1, <1>2, <1>3, <1>4, <1>5, <1>6, <1>7

LEMMA ReactorExitStep ==
    ASSUME IInv, NEW t \in Threads, ReactorExit(t)
    PROVE  IInv'
<1>. USE DEF IInv, ReactorExit, sharedVars
<1>1. TypeOK'
  BY DEF TypeOK, Registers, Steps, Retired
<1>2. SlotsInv'
  <2>1. OverflowSet' = OverflowSet
    BY DEF OverflowSet, TypeOK
  <2>. QED
    BY <2>1, SlotsKept
<1>3. ControlInv'
  BY DEF ControlInv, TypeOK, Registers, Steps, Serving, EpochInv
<1>4. EpochInv'
  BY DEF EpochInv, TypeOK, Registers, ControlInv, Serving
<1>5. OwnerInv'
  <2>1. \A u \in Threads : Displaced(u)' = Displaced(u)
    BY DEF Displaced, TypeOK, Registers
  <2>. QED
    BY <2>1 DEF OwnerInv, TypeOK, Registers
<1>6. \A u \in Threads : held'[u] \subseteq allocated'
  BY DEF TypeOK
<1>7. GraceInv'
  BY DEF GraceInv, TypeOK, Registers, ControlInv, Serving
<1>. QED
  BY <1>1, <1>2, <1>3, <1>4, <1>5, <1>6, <1>7

LEMMA GcBeginStep ==
    ASSUME IInv, NEW t \in Threads, GcBegin(t)
    PROVE  IInv'
<1>. USE DEF IInv, GcBegin, Scan, sharedVars
<1>1. TypeOK'
  <2>1. ScanLength \in 0 .. EPOCH_MAX_THREADS
    BY DEF ScanLength, TypeOK
  <2>2. reg' \in [Threads -> Registers]
    BY <2>1 DEF TypeOK, Registers
  <2>. QED
    BY <2>2 DEF TypeOK, Steps
<1>2. SlotsInv'
  <2>1. OverflowSet' = OverflowSet
    BY DEF OverflowSet, TypeOK
  <2>. QED
    BY <2>1, SlotsKept
<1>3. ControlInv'
  BY DEF ControlInv, TypeOK, Registers, Steps, Serving, EpochInv
<1>4. EpochInv'
  BY DEF EpochInv, TypeOK, Registers, ControlInv, Serving
<1>5. OwnerInv'
  <2>1. \A u \in Threads : Displaced(u)' = Displaced(u)
    BY DEF Displaced, TypeOK, Registers
  <2>. QED
    BY <2>1 DEF OwnerInv, TypeOK, Registers
<1>6. \A u \in Threads : held'[u] \subseteq allocated'
  BY DEF TypeOK
<1>7. GraceInv'
  <2>1. \A u \in Threads : held[u] # {} => Registered(u)
    BY DEF ControlInv, Serving
  <2>2. \A u \in Threads : held[u] # {} =>
           /\ epoch_my_idx[u] < ScanLength
           /\ 0 <= epoch_my_idx[u]
    BY <2>1, SlotBelowCount DEF ScanLength, Slots, TypeOK
  <2>. QED
    BY <2>2 DEF GraceInv, TypeOK, Registers
<1>. QED
  BY <1>1, <1>2, <1>3, <1>4, <1>5, <1>6, <1>7

LEMMA GcScanStep ==
    ASSUME IInv, NEW t \in Threads, GcScan(t)
    PROVE  IInv'
<1>. USE DEF IInv, GcScan, Scan, sharedVars, Lower
<1>1. TypeOK'
  <2>1. CASE reg[t].i < reg[t].n
    <3>1. quiescent[reg[t].i] \in Nat
      BY <2>1 DEF TypeOK, Registers, Slots
    <3>2. reg' \in [Threads -> Registers]
      BY <2>1, <3>1 DEF TypeOK, Registers
    <3>. QED
      BY <2>1, <3>2 DEF TypeOK
  <2>2. CASE ~ (reg[t].i < reg[t].n)
    BY <2>2 DEF TypeOK, Steps
  <2>. QED
    BY <2>1, <2>2
<1>2. SlotsInv'
  <2>1. \A u \in Threads : pc'[u] = "overflow" <=> pc[u] = "overflow"
    BY DEF TypeOK
  <2>2. OverflowSet' = OverflowSet
    BY <2>1 DEF OverflowSet
  <2>. QED
    BY <2>2, SlotsKept
<1>3. ControlInv'
  BY DEF ControlInv, TypeOK, Registers, Steps, Serving, EpochInv
<1>4. EpochInv'
  BY DEF EpochInv, TypeOK, Registers, ControlInv, Serving
<1>5. OwnerInv'
  <2>1. \A u \in Threads : pc'[u] = "retire" <=> pc[u] = "retire"
    BY DEF TypeOK
  <2>2. \A u \in Threads : pc[u] = "retire" => reg'[u].old = reg[u].old
    BY DEF TypeOK
  <2>3. \A u \in Threads : Displaced(u)' = Displaced(u)
    BY <2>1, <2>2 DEF Displaced
  <2>. QED
    BY <2>1, <2>2, <2>3 DEF OwnerInv
<1>6. \A u \in Threads : held'[u] \subseteq allocated'
  BY DEF TypeOK
<1>7. GraceInv'
  <2>. SUFFICES ASSUME NEW w \in Threads, NEW u \in Threads, NEW e \in retire_list[w],
                       e.ptr \in held[u]
                PROVE  /\ quiescent[epoch_my_idx[u]] <= e.epoch
                       /\ pc'[w] = "gc_scan" => \/ /\ reg'[w].i <= epoch_my_idx[u]
                                                   /\ epoch_my_idx[u] < reg'[w].n
                                                \/ reg'[w].min <= e.epoch
                       /\ pc'[w] = "gc_free" => reg'[w].min <= e.epoch
    BY DEF GraceInv
  <2>1. CASE w # t
    BY <2>1 DEF GraceInv, TypeOK
  <2>2. CASE w = t /\ ~ (reg[t].i < reg[t].n)
    <3>1. epoch_my_idx[u] \in Int /\ reg[t].i \in Int /\ reg[t].n \in Int
      <4>1. epoch_my_idx[u] \in Slots \cup {-1} /\ reg[t] \in Registers
        BY DEF TypeOK
      <4>. QED
        BY <4>1 DEF Slots, Registers
    <3>. QED
      BY <2>2, <3>1 DEF GraceInv, TypeOK
  <2>3. CASE w = t /\ reg[t].i < reg[t].n
    <3>1. /\ epoch_my_idx[u] \in Slots
          /\ quiescent[epoch_my_idx[u]] # 0
          /\ quiescent[epoch_my_idx[u]] <= e.epoch
      BY DEF ControlInv, Serving, GraceInv, TypeOK
    <3>2. /\ reg'[t].i = reg[t].i + 1
          /\ reg'[t].n = reg[t].n
          /\ reg'[t].min = Lower(reg[t].min, quiescent[reg[t].i])
          /\ pc' = pc
      BY <2>3 DEF TypeOK, Registers
    <3>3. e.epoch \in Nat /\ quiescent[reg[t].i] \in Nat /\ reg[t].min \in Nat
          /\ reg[t].i \in Nat
      BY <2>3 DEF TypeOK, Registers, Retired, Slots
    <3>4. Lower(reg[t].min, quiescent[reg[t].i]) <= reg[t].min
      BY <3>3
    <3>5. CASE reg[t].i = epoch_my_idx[u]
      BY <2>3, <3>1, <3>2, <3>3, <3>5
    <3>6. CASE reg[t].i # epoch_my_idx[u]
      <4>1. \/ reg[t].i <= epoch_my_idx[u] /\ epoch_my_idx[u] < reg[t].n
            \/ reg[t].min <= e.epoch
        BY <2>3 DEF GraceInv
      <4>2. epoch_my_idx[u] \in Nat
        BY <3>1 DEF Slots
      <4>3. reg'[t].min <= reg[t].min /\ reg'[t].min \in Nat
        BY <3>2, <3>3, <3>4
      <4>. QED
        BY <2>3, <3>1, <3>2, <3>3, <3>6, <4>1, <4>2, <4>3
    <3>. QED
      BY <3>5, <3>6
  <2>. QED
    BY <2>1, <2>2, <2>3
<1>. QED
  BY <1>1, <1>2, <1>3, <1>4, <1>5, <1>6, <1>7

LEMMA GcFreeStep ==
    ASSUME IInv, NEW t \in Threads, GcFree(t)
    PROVE  IInv'
<1>. USE DEF IInv, GcFree, Scan, Remaining, Collectable, Cleared
<1>1. TypeOK'
  BY DEF TypeOK, Registers, Steps, Retired
<1>2. SlotsInv'
  <2>1. OverflowSet' = OverflowSet
    BY DEF OverflowSet, TypeOK
  <2>. QED
    BY <2>1, SlotsKept
<1>3. ControlInv'
  BY DEF ControlInv, TypeOK, Registers, Steps, Serving, EpochInv
<1>4. EpochInv'
  BY DEF EpochInv, TypeOK, Registers, ControlInv, Serving
<1>5. OwnerInv'
  <2>1. \A u \in Threads : retire_list'[u] \subseteq retire_list[u]
    BY DEF TypeOK
  <2>2. \A u \in Threads : Displaced(u)' \subseteq Displaced(u)
    BY <2>1 DEF Displaced, TypeOK, Steps
  <2>3. \A u \in Threads : pc'[u] = "retire" => pc[u] = "retire" /\ reg'[u].old = reg[u].old
    BY DEF TypeOK
  <2>4. /\ \A c \in Cells : cells[c] # NULL => cells[c] \in allocated'
        /\ \A u \in Threads : \A p \in Displaced(u)' : p \in allocated'
    <3>1. CASE reg[t].min = UINT64_MAX
      BY <2>2, <3>1 DEF OwnerInv
    <3>2. CASE reg[t].min # UINT64_MAX
      <4>. DEFINE Freed == {e.ptr : e \in {d \in retire_list[t] : d.epoch < reg[t].min}}
      <4>1. allocated' = allocated \ Freed
        BY <3>2
      <4>2. Freed \subseteq Displaced(t)
        BY DEF Displaced
      <4>3. \A c \in Cells : cells[c] \notin Freed
        BY <4>2 DEF OwnerInv
      <4>4. \A p \in Displaced(t)' : p \notin Freed
        <5>1. Displaced(t)' = {e.ptr : e \in {d \in retire_list[t] : ~ (d.epoch < reg[t].min)}}
          BY <3>2 DEF Displaced, TypeOK
        <5>. QED
          BY <5>1 DEF OwnerInv
      <4>5. \A u \in Threads \ {t} : \A p \in Displaced(u)' : p \notin Freed
        BY <2>2, <4>2 DEF OwnerInv
      <4>. HIDE DEF Freed
      <4>. QED
        BY <2>2, <4>1, <4>3, <4>4, <4>5 DEF OwnerInv
    <3>. QED
      BY <3>1, <3>2
  <2>. QED
    BY <2>1, <2>2, <2>3, <2>4 DEF OwnerInv
<1>6. \A u \in Threads : held'[u] \subseteq allocated'
  <2>1. \A u \in Threads : \A e \in retire_list[t] :
           e.ptr \in held[u] => ~ (e.epoch < reg[t].min)
    BY DEF GraceInv, TypeOK, Registers, Retired
  <2>. QED
    BY <2>1
<1>7. GraceInv'
  BY DEF GraceInv, TypeOK, Registers, ControlInv, Serving
<1>. QED
  BY <1>1, <1>2, <1>3, <1>4, <1>5, <1>6, <1>7

LEMMA LoadStep ==
    ASSUME IInv, NEW t \in Threads, NEW c \in Cells, Load(t, c)
    PROVE  IInv'
<1>. USE DEF IInv, Load, sharedVars
<1>1. TypeOK'
  BY DEF TypeOK, Registers, Steps, Retired
<1>2. SlotsInv'
  <2>1. OverflowSet' = OverflowSet
    BY DEF OverflowSet, TypeOK
  <2>. QED
    BY <2>1, SlotsKept
<1>3. ControlInv'
  BY DEF ControlInv, TypeOK, Registers, Steps, Serving, EpochInv
<1>4. EpochInv'
  BY DEF EpochInv, TypeOK, Registers, ControlInv, Serving
<1>5. OwnerInv'
  <2>1. \A u \in Threads : Displaced(u)' = Displaced(u)
    BY DEF Displaced, TypeOK, Registers
  <2>. QED
    BY <2>1 DEF OwnerInv, TypeOK, Registers
<1>6. \A u \in Threads : held'[u] \subseteq allocated'
  BY DEF TypeOK, OwnerInv
<1>7. GraceInv'
  <2>1. \A w \in Threads : \A e \in retire_list[w] : e.ptr # cells[c]
    BY DEF OwnerInv, Displaced
  <2>. QED
    BY <2>1 DEF GraceInv, TypeOK
<1>. QED
  BY <1>1, <1>2, <1>3, <1>4, <1>5, <1>6, <1>7

LEMMA SwapStep ==
    ASSUME IInv, NEW t \in Threads, NEW c \in Cells,
           NEW new \in (Ptrs \ allocated) \cup {NULL}, Swap(t, c, new)
    PROVE  IInv'
<1>. USE DEF IInv, Swap
<1>1. TypeOK'
  <2>1. cells' \in [Cells -> Ptrs \cup {NULL}] /\ allocated' \subseteq Ptrs
    BY DEF TypeOK
  <2>2. pc' \in [Threads -> Steps]
    BY DEF TypeOK, Steps
  <2>3. reg' \in [Threads -> Registers]
    BY DEF TypeOK, Registers
  <2>. QED
    BY <2>1, <2>2, <2>3 DEF TypeOK
<1>2. SlotsInv'
  <2>1. OverflowSet' = OverflowSet
    BY DEF OverflowSet, TypeOK
  <2>. QED
    BY <2>1, SlotsKept
<1>3. ControlInv'
  BY DEF ControlInv, TypeOK, Registers, Steps, Serving, EpochInv
<1>4. EpochInv'
  BY DEF EpochInv, TypeOK, Registers, ControlInv, Serving
<1>5. OwnerInv'
  <2>1. \A u \in Threads : \A p \in Displaced(u) : p \in allocated
    BY DEF OwnerInv
  <2>2. \A u \in Threads \ {t} : Displaced(u)' = Displaced(u)
    BY DEF Displaced, TypeOK
  <2>3. /\ \A d \in Cells \ {c} : cells'[d] = cells[d]
        /\ cells'[c] = new
        /\ allocated \subseteq allocated'
        /\ new \in allocated' \cup {NULL}
    BY DEF TypeOK
  <2>4. \A d, f \in Cells : cells'[d] = cells'[f] /\ cells'[d] # NULL => d = f
    BY <2>3 DEF OwnerInv
  <2>5. CASE cells[c] = NULL
    <3>1. \A u \in Threads : Displaced(u)' = Displaced(u)
      BY <2>5 DEF Displaced
    <3>. QED
      BY <2>1, <2>3, <2>4, <2>5, <3>1 DEF OwnerInv
  <2>6. CASE cells[c] # NULL
    <3>1. reg'[t].old = cells[c] /\ pc'[t] = "retire"
      BY <2>6 DEF TypeOK, Registers
    <3>2. Displaced(t) = {e.ptr : e \in retire_list[t]}
      BY DEF Displaced
    <3>3. Displaced(t)' = Displaced(t) \cup {cells[c]}
      BY <3>1, <3>2 DEF Displaced
    <3>4. \A d \in Cells : cells'[d] # cells[c]
      BY <2>3, <2>6 DEF OwnerInv
    <3>5. \A u \in Threads : \A p \in Displaced(u)' :
             /\ p \in allocated'
             /\ \A d \in Cells : cells'[d] # p
             /\ \A v \in Threads : p \in Displaced(v)' => u = v
      <4>1. \A u \in Threads : cells[c] \notin Displaced(u)
        BY DEF OwnerInv
      <4>2. \A u \in Threads : \A p \in Displaced(u) :
               /\ p \in allocated' /\ p # new
               /\ \A d \in Cells : cells'[d] # p
        BY <2>1, <2>3 DEF OwnerInv, TypeOK
      <4>3. cells[c] \in allocated'
        BY <2>3, <2>6 DEF OwnerInv
      <4>. QED
        BY <2>2, <3>3, <3>4, <4>1, <4>2, <4>3 DEF OwnerInv
    <3>6. \A u \in Threads :
             /\ \A e, f \in retire_list'[u] : e.ptr = f.ptr => e = f
             /\ pc'[u] = "retire" => \A e \in retire_list'[u] : e.ptr # reg'[u].old
      <4>1. \A e \in retire_list[t] : e.ptr # cells[c]
        BY <3>2 DEF OwnerInv
      <4>. QED
        BY <3>1, <4>1 DEF OwnerInv, TypeOK
    <3>. QED
      BY <2>3, <2>4, <3>5, <3>6 DEF OwnerInv
  <2>. QED
    BY <2>5, <2>6
<1>6. \A u \in Threads : held'[u] \subseteq allocated'
  BY DEF TypeOK
<1>7. GraceInv'
  BY DEF GraceInv, TypeOK, Registers, ControlInv, Serving
<1>. QED
  BY <1>1, <1>2, <1>3, <1>4, <1>5, <1>6, <1>7

LEMMA RetireStep ==
    ASSUME IInv, NEW t \in Threads, Retire(t)
    PROVE  IInv'
<1>. USE DEF IInv, Retire, RetireEpoch
<1>1. TypeOK'
  <2>1. [ptr |-> reg[t].old, epoch |-> epoch_global] \in Retired
    BY DEF TypeOK, Registers, Retired, ControlInv
  <2>2. retire_list' \in [Threads -> SUBSET Retired]
    BY <2>1 DEF TypeOK
  <2>3. reg' \in [Threads -> Registers] /\ epoch_global' \in Nat
    BY DEF TypeOK, Registers
  <2>. QED
    BY <2>2, <2>3 DEF TypeOK, Steps
<1>2. SlotsInv'
  <2>1. OverflowSet' = OverflowSet
    BY DEF OverflowSet, TypeOK
  <2>. QED
    BY <2>1, SlotsKept
<1>3. ControlInv'
  BY DEF ControlInv, TypeOK, Registers, Steps, Serving, EpochInv
<1>4. EpochInv'
  BY DEF EpochInv, TypeOK, Registers, ControlInv, Serving
<1>5. OwnerInv'
  <2>. DEFINE stamped == [ptr |-> reg[t].old, epoch |-> epoch_global]
  <2>1. retire_list'[t] \subseteq retire_list[t] \cup {stamped}
    BY DEF TypeOK
  <2>2. \A u \in Threads \ {t} : /\ retire_list'[u] = retire_list[u]
                                 /\ Displaced(u)' = Displaced(u)
    BY DEF Displaced, TypeOK
  <2>3. Displaced(t) = {e.ptr : e \in retire_list[t]} \cup {reg[t].old}
    BY DEF Displaced
  <2>4. Displaced(t)' = {e.ptr : e \in retire_list'[t]}
    BY DEF Displaced, TypeOK
  <2>5. Displaced(t)' \subseteq Displaced(t)
    BY <2>1, <2>3, <2>4
  <2>6. \A e, f \in retire_list'[t] : e.ptr = f.ptr => e = f
    BY <2>1 DEF OwnerInv
  <2>7. \A u \in Threads : pc'[u] = "retire" =>
           pc[u] = "retire" /\ u # t /\ reg'[u].old = reg[u].old
    BY DEF TypeOK
  <2>. QED
    BY <2>2, <2>5, <2>6, <2>7 DEF OwnerInv
<1>6. \A u \in Threads : held'[u] \subseteq allocated'
  BY DEF TypeOK
<1>7. GraceInv'
  <2>. SUFFICES ASSUME NEW w \in Threads, NEW u \in Threads, NEW e \in retire_list'[w],
                       e.ptr \in held[u]
                PROVE  /\ quiescent[epoch_my_idx[u]] <= e.epoch
                       /\ pc'[w] = "gc_scan" => \/ /\ reg'[w].i <= epoch_my_idx[u]
                                                   /\ epoch_my_idx[u] < reg'[w].n
                                                \/ reg'[w].min <= e.epoch
                       /\ pc'[w] = "gc_free" => reg'[w].min <= e.epoch
    BY DEF GraceInv
  <2>1. CASE e \in retire_list[w]
    BY <2>1 DEF GraceInv, TypeOK
  <2>2. CASE e \notin retire_list[w]
    <3>1. w = t /\ e = [ptr |-> reg[t].old, epoch |-> epoch_global]
      BY <2>2 DEF TypeOK
    <3>2. epoch_my_idx[u] \in Slots
      BY DEF ControlInv, Serving, TypeOK
    <3>. QED
      BY <3>1, <3>2 DEF EpochInv, TypeOK
  <2>. QED
    BY <2>1, <2>2
<1>. QED
  BY <1>1, <1>2, <1>3, <1>4, <1>5, <1>6, <1>7

\* The two cardinalities of SlotsInv are natural numbers.
LEMMA SlotCardinalities ==
    ASSUME NEW S \in SUBSET Threads, NEW t \in Threads
    PROVE  /\ IsFiniteSet(S) /\ Cardinality(S) \in Nat
           /\ t \notin S => Cardinality(S \cup {t}) = Cardinality(S) + 1
           /\ t \in S => Cardinality(S \ {t}) = Cardinality(S) - 1
           /\ Cardinality(S) = 0 <=> S = {}
<1>1. IsFiniteSet(S)
  BY FS_Subset
<1>. QED
  BY <1>1, FS_CardinalityType, FS_AddElement, FS_RemoveElement, FS_EmptySet

LEMMA RegisterSlotStep ==
    ASSUME IInv, NEW t \in Threads, RegisterSlot(t)
    PROVE  IInv'
<1>. USE DEF IInv, RegisterSlot, HasSlot
<1>1. TypeOK'
  <2>1. epoch_nthreads < EPOCH_MAX_THREADS => epoch_nthreads \in Slots
    BY DEF TypeOK, Slots
  <2>. QED
    BY <2>1 DEF TypeOK, Steps
<1>2. SlotsInv'
  <2>. DEFINE R == Cardinality(RegisteredSet)
              O == Cardinality(OverflowSet)
  <2>1. t \notin RegisteredSet /\ t \notin OverflowSet
    BY DEF RegisteredSet, OverflowSet, ControlInv
  <2>2. RegisteredSet \in SUBSET Threads /\ OverflowSet \in SUBSET Threads
    BY DEF RegisteredSet, OverflowSet
  <2>3. /\ R \in Nat /\ O \in Nat
        /\ Cardinality(RegisteredSet \cup {t}) = R + 1
        /\ Cardinality(OverflowSet \cup {t}) = O + 1
        /\ O = 0 <=> OverflowSet = {}
    BY <2>1, <2>2, SlotCardinalities
  <2>4. CASE epoch_nthreads < EPOCH_MAX_THREADS
    <3>1. RegisteredSet' = RegisteredSet \cup {t}
      BY <2>4 DEF RegisteredSet, TypeOK, Slots
    <3>2. OverflowSet' = OverflowSet
      BY <2>1, <2>4 DEF OverflowSet, TypeOK
    <3>3. OverflowSet = {} /\ O = 0 /\ epoch_nthreads = R
      BY <2>3, <2>4 DEF SlotsInv
    <3>4. \A u \in RegisteredSet : epoch_my_idx'[u] = epoch_my_idx[u] /\ epoch_my_idx[u] < R
      BY <2>1, <2>2, <2>4 DEF SlotsInv, TypeOK
    <3>5. epoch_my_idx'[t] = R
      BY <2>4, <3>3 DEF TypeOK
    <3>6. \A u \in RegisteredSet : epoch_my_idx[u] \in Int
      BY <2>2 DEF TypeOK, Slots
    <3>. QED
      <4>1. Cardinality(RegisteredSet') = R + 1 /\ Cardinality(OverflowSet') = 0
        BY <2>3, <3>1, <3>2, <3>3
      <4>2. epoch_nthreads' = R + 1 /\ R + 1 <= EPOCH_MAX_THREADS
        BY <2>3, <2>4, <3>3
      <4>3. \A u \in RegisteredSet' : epoch_my_idx'[u] < R + 1
        BY <2>3, <3>1, <3>4, <3>5, <3>6
      <4>4. \A u, v \in RegisteredSet' : epoch_my_idx'[u] = epoch_my_idx'[v] => u = v
        <5>1. \A u \in RegisteredSet : epoch_my_idx'[u] # epoch_my_idx'[t]
          BY <2>3, <3>4, <3>5, <3>6
        <5>2. \A u, v \in RegisteredSet : epoch_my_idx'[u] = epoch_my_idx'[v] => u = v
          BY <3>4 DEF SlotsInv
        <5>. QED
          BY <3>1, <5>1, <5>2
      <4>. QED
        BY <2>3, <3>2, <3>3, <4>1, <4>2, <4>3, <4>4 DEF SlotsInv
  <2>5. CASE ~ (epoch_nthreads < EPOCH_MAX_THREADS)
    <3>1. RegisteredSet' = RegisteredSet
      BY <2>5 DEF RegisteredSet
    <3>2. OverflowSet' = OverflowSet \cup {t}
      BY <2>5 DEF OverflowSet, TypeOK
    <3>3. R = EPOCH_MAX_THREADS
      BY <2>3, <2>5 DEF SlotsInv
    <3>. QED
      BY <2>3, <2>5, <3>1, <3>2, <3>3 DEF SlotsInv
  <2>. QED
    BY <2>4, <2>5
<1>3. ControlInv'
  BY DEF ControlInv, TypeOK, Registers, Steps, Serving, EpochInv
<1>4. EpochInv'
  BY DEF EpochInv, TypeOK, Registers, ControlInv, Serving
<1>5. OwnerInv'
  <2>1. \A u \in Threads : Displaced(u)' = Displaced(u)
    BY DEF Displaced, TypeOK, Registers
  <2>. QED
    BY <2>1 DEF OwnerInv, TypeOK, Registers
<1>6. \A u \in Threads : held'[u] \subseteq allocated'
  BY DEF TypeOK
<1>7. GraceInv'
  BY DEF GraceInv, TypeOK, Registers, ControlInv, Serving
<1>. QED
  BY <1>1, <1>2, <1>3, <1>4, <1>5, <1>6, <1>7

LEMMA RegisterRollbackStep ==
    ASSUME IInv, NEW t \in Threads, RegisterRollback(t)
    PROVE  IInv'
<1>. USE DEF IInv, RegisterRollback
<1>1. TypeOK'
  <2>1. t \in OverflowSet /\ RegisteredSet \in SUBSET Threads /\ OverflowSet \in SUBSET Threads
    BY DEF OverflowSet, RegisteredSet
  <2>2. /\ Cardinality(RegisteredSet) \in Nat
        /\ Cardinality(OverflowSet) \in Nat
        /\ Cardinality(OverflowSet) # 0
    BY <2>1, SlotCardinalities
  <2>3. epoch_nthreads - 1 \in Nat
    BY <2>2 DEF SlotsInv
  <2>. QED
    BY <2>3 DEF TypeOK, Steps
<1>2. SlotsInv'
  <2>1. t \in OverflowSet /\ RegisteredSet \in SUBSET Threads /\ OverflowSet \in SUBSET Threads
    BY DEF OverflowSet, RegisteredSet
  <2>2. RegisteredSet' = RegisteredSet /\ OverflowSet' = OverflowSet \ {t}
    BY DEF OverflowSet, RegisteredSet, TypeOK
  <2>3. /\ Cardinality(RegisteredSet) \in Nat
        /\ Cardinality(OverflowSet) \in Nat
        /\ Cardinality(OverflowSet \ {t}) = Cardinality(OverflowSet) - 1
    BY <2>1, SlotCardinalities
  <2>. QED
    BY <2>1, <2>2, <2>3 DEF SlotsInv
<1>3. ControlInv'
  BY DEF ControlInv, TypeOK, Registers, Steps, Serving, EpochInv
<1>4. EpochInv'
  BY DEF EpochInv, TypeOK, Registers, ControlInv, Serving
<1>5. OwnerInv'
  <2>1. \A u \in Threads : Displaced(u)' = Displaced(u)
    BY DEF Displaced, TypeOK, Registers
  <2>. QED
    BY <2>1 DEF OwnerInv, TypeOK, Registers
<1>6. \A u \in Threads : held'[u] \subseteq allocated'
  BY DEF TypeOK
<1>7. GraceInv'
  BY DEF GraceInv, TypeOK, Registers, ControlInv, Serving
<1>. QED
  BY <1>1, <1>2, <1>3, <1>4, <1>5, <1>6, <1>7

LEMMA TeardownStep ==
    ASSUME IInv, Teardown
    PROVE  IInv'
<1>. USE DEF IInv, Teardown, AllJoined
<1>1. TypeOK'
  BY DEF TypeOK, Registers, Steps, Retired
<1>2. SlotsInv'
  <2>1. OverflowSet' = OverflowSet
    BY DEF OverflowSet, TypeOK
  <2>. QED
    BY <2>1, SlotsKept
<1>3. ControlInv'
  BY DEF ControlInv, TypeOK, Registers, Steps, Serving, EpochInv
<1>4. EpochInv'
  BY DEF EpochInv, TypeOK, Registers, ControlInv, Serving
<1>5. OwnerInv'
  <2>1. \A u \in Threads : Displaced(u) = {e.ptr : e \in retire_list[u]}
    BY DEF Displaced
  <2>2. /\ Displaced(Main)' = {}
        /\ \A u \in Threads \ {Main} : Displaced(u)' = Displaced(u)
    BY <2>1 DEF Displaced, TypeOK
  <2>3. \A u \in Threads \ {Main} : \A p \in Displaced(u) : p \in allocated'
    BY <2>1 DEF OwnerInv
  <2>4. \A u \in Threads : retire_list'[u] \subseteq retire_list[u]
    BY DEF TypeOK
  <2>. QED
    BY <2>2, <2>3, <2>4 DEF OwnerInv, TypeOK
<1>6. \A u \in Threads : held'[u] \subseteq allocated'
  BY DEF ControlInv
<1>7. GraceInv'
  BY DEF GraceInv, TypeOK, Registers, ControlInv, Serving
<1>. QED
  BY <1>1, <1>2, <1>3, <1>4, <1>5, <1>6, <1>7

-----------------------------------------------------------------------------
(* The theorems                                                            *)

LEMMA InitIInv == Init => IInv
<1>. SUFFICES ASSUME Init PROVE IInv
  OBVIOUS
<1>. USE DEF Init
<1>1. TypeOK
  BY DEF TypeOK, Registers, Steps, Slots, Cleared, Scan
<1>2. SlotsInv
  <2>1. RegisteredSet = {} /\ OverflowSet = {}
    BY DEF RegisteredSet, OverflowSet
  <2>. QED
    BY <2>1, FS_EmptySet DEF SlotsInv
<1>3. ControlInv /\ EpochInv /\ GraceInv
  BY DEF ControlInv, EpochInv, GraceInv, Serving, Cleared, Scan, Slots
<1>4. OwnerInv
  BY DEF OwnerInv, Displaced
<1>. QED
  BY <1>1, <1>2, <1>3, <1>4 DEF IInv

LEMMA NextIInv == IInv /\ [Next]_vars => IInv'
<1>. SUFFICES ASSUME IInv, [Next]_vars PROVE IInv'
  OBVIOUS
<1>1. ASSUME NEW t \in Threads, Loop(t) PROVE IInv'
  BY <1>1, SeedLoadStep, SeedStoreStep, TickLoadStep, TickStoreStep, RetireStep,
     GcBeginStep, GcScanStep, GcFreeStep DEF Loop
<1>2. ASSUME NEW t \in Threads, Turn(t) PROVE IInv'
  BY <1>2, LoadStep, SwapStep DEF Turn
<1>3. ASSUME NEW t \in Threads,
             RegisterSlot(t) \/ RegisterRollback(t) \/ ReactorExit(t)
      PROVE IInv'
  BY <1>3, RegisterSlotStep, RegisterRollbackStep, ReactorExitStep
<1>4. CASE Teardown
  BY <1>4, TeardownStep
<1>5. CASE UNCHANGED vars
  BY <1>5 DEF vars, sharedVars, IInv, TypeOK, SlotsInv, ControlInv, EpochInv, OwnerInv,
     GraceInv, RegisteredSet, OverflowSet, Displaced
<1>. QED
  BY <1>1, <1>2, <1>3, <1>4, <1>5 DEF Next

LEMMA Invariance == Spec => []IInv
<1>. QED
  BY InitIInv, NextIInv, PTL DEF Spec

\* Every variable keeps its type: in particular a registration slot is never
\* out of the array, and no count or epoch goes below zero.
THEOREM TypeCorrect == Spec => []TypeOK
<1>1. IInv => TypeOK
  BY DEF IInv
<1>. QED
  BY <1>1, Invariance, PTL

\* No pointer a reactor loaded in its turn, and no published entry, is freed
\* memory, whatever the interleaving of ticks, scans, swaps and registrations.
THEOREM ReclamationSafe == Spec => []NoUseAfterFree
<1>1. IInv => NoUseAfterFree
  BY DEF IInv, OwnerInv, NoUseAfterFree
<1>. QED
  BY <1>1, Invariance, PTL

\* No entry has two owners among the cells and the retire lists, so its freer
\* runs at most once and never on a published entry.
THEOREM SingleOwner == Spec => []OwnedOnce
<1>1. IInv => OwnedOnce
  <2>. SUFFICES ASSUME IInv PROVE OwnedOnce
    OBVIOUS
  <2>1. \A t \in Threads : \A e \in retire_list[t] : e.ptr \in Displaced(t)
    BY DEF Displaced
  <2>. QED
    BY <2>1 DEF IInv, OwnerInv, OwnedOnce
<1>. QED
  BY <1>1, Invariance, PTL

\* The grace-period argument of epoch.h: whoever can still reach a retired
\* entry has not published an epoch beyond the entry's.
THEOREM GracePeriod == Spec => []ReaderBehindRetire
<1>1. IInv => ReaderBehindRetire
  BY DEF IInv, GraceInv, ControlInv, Serving, ReaderBehindRetire
<1>. QED
  BY <1>1, Invariance, PTL
=============================================================================

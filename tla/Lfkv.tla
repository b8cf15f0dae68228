-------------------------------- MODULE Lfkv --------------------------------
(* The lock-free keyspace of lfkv.c: an open-addressed table of slots with  *)
(* linear probing.  A slot has an immutable key and an atomic entry (value  *)
(* and expiry); a slot without an entry is a tombstone.  One access to the  *)
(* table, to a slot or to the count per step: the count follows the swap in *)
(* an access of its own, so that others run in between.  The addresses of   *)
(* entries are not modelled: Epoch shows that an entry an operation has     *)
(* loaded is not freed and used again.                                      *)
EXTENDS Integers, FiniteSets

CONSTANTS Threads,  \* the reactors
          Keys,
          Vals,     \* the addresses of stored values
          NSlots,   \* cells of the table
          Hash,     \* the home cell of each key
          Records,  \* the slot records that malloc can provide
          Workloads,\* what the threads may ask for: per thread, a set of requests
          Expiries, \* the deadlines they give
          MaxClock, \* the bound on time
          NULL

Cells == 0 .. NSlots - 1

Writes == {"set", "set_nx", "set_xx", "cas"}
Comparing == {"cas", "cas_null", "touch"}
Walks == {"evict", "clear"}
Ops == Writes \cup Comparing \cup Walks \cup {"get", "get_expiry", "del", "set_expiry"}

\* A caller passes a value to store, one to compare with, a deadline to set;
\* cas_null is a cas with a null value, a deletion.
Requests == {c \in [op : Ops, key : Keys, val : Vals \cup {NULL}, expected : Vals \cup {NULL},
                    expiry : Expiries \cup {0}] :
               /\ (c.op \in Writes) = (c.val # NULL)
               /\ (c.op \in Comparing) = (c.expected # NULL)
               /\ c.op \notin {"set_expiry", "touch"} => c.expiry = 0}

ASSUME LfkvAssumption ==
    /\ NSlots \in Nat \ {0}
    /\ Hash \in [Keys -> Cells]
    /\ Expiries \subseteq Nat
    /\ MaxClock \in Nat
    /\ IsFiniteSet(Records) /\ IsFiniteSet(Threads)
    /\ Workloads \subseteq [Threads -> SUBSET Requests]

VARIABLES workload, \* what this behaviour's threads ask for; never changes
          table,   \* per cell: the slot it points to, or NULL
          slot,    \* per record: its key and entry, or NULL when not allocated
          count,   \* kv->count, which wraps where this one is below zero
          clock,   \* gettimeusec
          call,    \* per thread: the operation with its arguments and its `now'
          answer,  \* per thread: what its last operation returned
          pc,      \* per thread: its next access
          reg      \* per thread: its locals

tableVars == <<table, slot, count>>
callVars == <<call, answer>>
lfkvVars == <<workload, tableVars, clock, callVars, pc, reg>>

Entries == [val : Vals, expiry : Expiries \cup {0}]
Entry(v, x) == [val |-> v, expiry |-> x]
None == -1
Slots == [key : Keys, entry : Entries \cup {NULL}]
\* An operation in progress: its arguments, and the time it was called at.
Calls == [op : Ops, key : Keys, val : Vals \cup {NULL}, expected : Vals \cup {NULL},
          expiry : Expiries \cup {0}, now : 0 .. MaxClock]

\* NULL is none of the things that it stands for the absence of.
ASSUME NullAssumption ==
    /\ NULL \notin Records \cup Vals
    /\ NULL \notin Entries
    /\ NULL \notin Slots
    /\ NULL \notin Calls

\* Locals: i the cell, n the cells seen, tomb the first tombstone, s the slot
\* found, e the entry loaded, f the fresh slot.
Locals == [i : Cells, n : 0 .. NSlots, tomb : Cells \cup {None},
           s : Records \cup {NULL}, e : Entries \cup {NULL}, f : Records \cup {NULL}]
Fresh(c) == [i |-> c, n |-> 0, tomb |-> None, s |-> NULL, e |-> NULL, f |-> NULL]

LfkvInit == /\ workload \in Workloads
            /\ table = [c \in Cells |-> NULL]
            /\ slot = [s \in Records |-> NULL]
            /\ count = 0
            /\ clock = 0
            /\ call = [t \in Threads |-> NULL]
            /\ answer = [t \in Threads |-> NULL]
            /\ pc = [t \in Threads |-> "idle"]
            /\ reg = [t \in Threads |-> Fresh(0)]

-----------------------------------------------------------------------------
nextMut(c) == c + 1
\* (i + 1) & mask
next(c) == (c + 1) % NSlots
key(t) == call[t].key
Home(t) == Hash[key(t)]
entry_expired(t, e) == e # NULL /\ e.expiry # 0 /\ call[t].now >= e.expiry
slot_key_eqMut(s, t) == Hash[slot[s].key] = Home(t)
slot_key_eq(s, t) == slot[s].key = key(t)

Goto(t, step) == pc' = [pc EXCEPT ![t] = step]
Locally(t, l) == reg' = [reg EXCEPT ![t] = l]

Return(t, x) ==
    /\ answer' = [answer EXCEPT ![t] = x]
    /\ call' = [call EXCEPT ![t] = NULL]
    /\ Goto(t, "idle")
    /\ Locally(t, Fresh(0))
    /\ UNCHANGED <<workload, clock>>

\* Go on inside the operation.
Continue(t, step, l) ==
    /\ Goto(t, step)
    /\ Locally(t, l)
    /\ UNCHANGED <<workload, clock, callVars>>

Reprobe(t) == Continue(t, "probe", Fresh(Home(t)))

\* The swap of an entry.
Store(s, e) ==
    /\ slot' = [slot EXCEPT ![s].entry = e]
    /\ UNCHANGED <<table, count>>

\* A compare-and-swap that finds the entry this thread loaded.
Same(t) == slot[reg[t].s].entry = reg[t].e

\* The result when the key has no live entry.
Absent(t) == CASE call[t].op = "get" -> NULL
               [] call[t].op = "get_expiry" -> -1
               [] OTHER -> 0

\* The result of an insertion, and of a removal: of what the operation was
\* asked to remove, or of an expired entry.
Inserted(t) == IF call[t].op = "set" THEN 0 ELSE 1
Removed(t) == IF entry_expired(t, reg[t].e) THEN Absent(t) ELSE 1

-----------------------------------------------------------------------------
Invoke(t, c) ==
    /\ pc[t] = "idle"
    /\ call' = [call EXCEPT ![t] = [op |-> c.op, key |-> c.key, val |-> c.val,
                                    expected |-> c.expected, expiry |-> c.expiry,
                                    now |-> clock]]
    /\ answer' = [answer EXCEPT ![t] = NULL]
    /\ Goto(t, IF c.op \in Walks THEN "walk" ELSE "probe")
    /\ Locally(t, Fresh(IF c.op \in Walks THEN 0 ELSE Hash[c.key]))
    /\ UNCHANGED <<workload, tableVars, clock>>

-----------------------------------------------------------------------------
(* probe *)

FreeMut == {s \in Records : slot[s] = NULL \/ slot[s].entry = NULL}
\* The records malloc can return: a tombstone's is never given back.
Free == {s \in Records : slot[s] = NULL}

Fails(t) == Return(t, IF call[t].op = "set" THEN -1 ELSE 0)

\* slot_alloc: the record for a new key, if there is memory for one.
Allocate(t, then, l) ==
    IF Free = {}
    THEN Fails(t) /\ UNCHANGED tableVars
    ELSE LET f == CHOOSE s \in Free : TRUE
         IN  /\ slot' = [slot EXCEPT ![f] = [key |-> key(t), entry |-> Entry(call[t].val, 0)]]
             /\ Continue(t, then, [l EXCEPT !.f = f])
             /\ UNCHANGED <<table, count>>

\* The key is not in the table; i is where it would go.
Missed(t, i) ==
    LET l == [reg[t] EXCEPT !.i = i] IN
    CASE call[t].op = "set" -> Allocate(t, IF l.tomb # None THEN "tomb_load" ELSE "claim", l)
      [] call[t].op = "set_nx" -> Allocate(t, "claim", l)
      [] OTHER -> Return(t, Absent(t)) /\ UNCHANGED tableVars

\* Every cell has been looked at.
Full(t) == reg[t].n = NSlots

ProbeSlot(t) ==
    /\ pc[t] = "probe"
    /\ IF Full(t)
       THEN Missed(t, Home(t))
       ELSE IF table[reg[t].i] = NULL
            THEN Missed(t, reg[t].i)
            ELSE /\ Continue(t, "probe_entry", [reg[t] EXCEPT !.s = table[reg[t].i]])
                 /\ UNCHANGED tableVars

\* Where each operation goes with the slot it found.
Found(t) == CASE call[t].op = "set" -> "replace"
              [] call[t].op = "set_nx" -> "nx_load"
              [] OTHER -> "load"

ProbeEntry(t) ==
    LET l == reg[t]
        past == [l EXCEPT !.i = next(@), !.n = @ + 1, !.s = NULL]
    IN  /\ pc[t] = "probe_entry"
        /\ IF slot[l.s].entry = NULL
           THEN Continue(t, "probe", IF l.tomb = None THEN [past EXCEPT !.tomb = l.i] ELSE past)
           ELSE IF slot_key_eq(l.s, t)
                THEN Continue(t, Found(t), l)
                ELSE Continue(t, "probe", past)
        /\ UNCHANGED tableVars

-----------------------------------------------------------------------------
(* The count, after the swap *)

\* atomic_fetch_add after a slot or a cell was filled.
Raise(t) ==
    /\ pc[t] = "raise"
    /\ count' = count + 1
    /\ UNCHANGED <<table, slot>>
    /\ Return(t, Inserted(t))

OnwardMut(t) == Continue(t, "walk", [reg[t] EXCEPT !.s = NULL, !.e = NULL])
\* The walks go on to the next cell.
Onward(t) == Continue(t, "walk", [reg[t] EXCEPT !.i = next(@), !.n = @ + 1, !.s = NULL, !.e = NULL])

\* atomic_fetch_sub after an entry was taken out; set_nx, which only swept an
\* expired one, starts again.
Lower(t) ==
    /\ pc[t] = "lower"
    /\ count' = count - 1
    /\ UNCHANGED <<table, slot>>
    /\ CASE call[t].op \in Walks -> Onward(t)
         [] call[t].op = "set_nx" -> Reprobe(t)
         [] OTHER -> Return(t, Removed(t))

\* Store e in slot s; where that fills or empties the slot the count is due,
\* else the operation returns x.
Swap(t, s, e, x) ==
    /\ Store(s, e)
    /\ IF e = NULL THEN Continue(t, "lower", reg[t])
       ELSE IF slot[s].entry = NULL THEN Continue(t, "raise", Fresh(0))
       ELSE Return(t, x)

-----------------------------------------------------------------------------
(* slot_replace_entry, for set *)

Replace(t) ==
    /\ pc[t] = "replace"
    /\ Continue(t, "replace_cas", [reg[t] EXCEPT !.e = slot[reg[t].s].entry])
    /\ UNCHANGED tableVars

ReplaceCas(t) ==
    /\ pc[t] = "replace_cas"
    /\ IF Same(t)
       THEN Swap(t, reg[t].s, Entry(call[t].val, 0), 0)
       ELSE Continue(t, "replace", reg[t]) /\ UNCHANGED tableVars

-----------------------------------------------------------------------------
(* The insertion of a fresh slot, for set and set_nx *)

\* The cell takes the fresh slot.
Publish(t, c) ==
    /\ table' = [table EXCEPT ![c] = reg[t].f]
    /\ UNCHANGED <<slot, count>>
    /\ Continue(t, "raise", Fresh(0))

Discard(t) == slot' = [slot EXCEPT ![reg[t].f] = NULL] /\ UNCHANGED <<table, count>>

\* Another thread has published the key: set replaces its entry, set_nx starts
\* again.
Beaten(t, s) ==
    /\ Discard(t)
    /\ IF call[t].op = "set"
       THEN Continue(t, "replace", [reg[t] EXCEPT !.s = s, !.f = NULL])
       ELSE Reprobe(t)

TombLoad(t) ==
    /\ pc[t] = "tomb_load"
    /\ Continue(t, "tomb_entry", [reg[t] EXCEPT !.s = table[reg[t].tomb]])
    /\ UNCHANGED tableVars

TombEntry(t) ==
    /\ pc[t] = "tomb_entry"
    /\ Continue(t, IF slot[reg[t].s].entry = NULL THEN "tomb_cas" ELSE "claim", reg[t])
    /\ UNCHANGED tableVars

ReuseMut(t) == TRUE
\* The cell of the tombstone has not changed.
Reuse(t) == table[reg[t].tomb] = reg[t].s

TombCas(t) ==
    /\ pc[t] = "tomb_cas"
    /\ IF Reuse(t)
       THEN Publish(t, reg[t].tomb)
       ELSE Continue(t, "claim", reg[t]) /\ UNCHANGED tableVars

ClaimedMut(t, s) == FALSE
\* A cell that holds this key already.
Claimed(t, s) == slot_key_eq(s, t)

Claim(t) ==
    LET s == table[reg[t].i] IN
    /\ pc[t] = "claim"
    /\ IF s = NULL
       THEN Publish(t, reg[t].i)
       ELSE IF Claimed(t, s)
            THEN Beaten(t, s)
            ELSE /\ Continue(t, "scan", [reg[t] EXCEPT !.i = next(@), !.n = 0])
                 /\ UNCHANGED tableVars

Scan(t) ==
    LET s == table[reg[t].i] IN
    /\ pc[t] = "scan"
    /\ IF Full(t)
       THEN Discard(t) /\ Fails(t)
       ELSE IF s = NULL
            THEN Continue(t, "claim", reg[t]) /\ UNCHANGED tableVars
            ELSE IF Claimed(t, s)
                 THEN Beaten(t, s)
                 ELSE /\ Continue(t, "scan", [reg[t] EXCEPT !.i = next(@), !.n = @ + 1])
                      /\ UNCHANGED tableVars

-----------------------------------------------------------------------------
(* set_nx on a slot that the probe found *)

NxLoad(t) ==
    LET e == slot[reg[t].s].entry IN
    /\ pc[t] = "nx_load"
    /\ UNCHANGED tableVars
    /\ IF e = NULL THEN Continue(t, "nx_install", reg[t])
       ELSE IF entry_expired(t, e) THEN Continue(t, "expire", [reg[t] EXCEPT !.e = e])
       ELSE Return(t, 0)

\* slot_install_if_null
NxInstall(t) ==
    /\ pc[t] = "nx_install"
    /\ IF slot[reg[t].s].entry = NULL
       THEN Swap(t, reg[t].s, Entry(call[t].val, 0), 1)
       ELSE Reprobe(t) /\ UNCHANGED tableVars

-----------------------------------------------------------------------------
(* get, get_expiry, del, set_xx, set_expiry, cas, touch on the slot found *)

\* cas and touch compare the value before they look at the deadline.
Compares(t) == call[t].op \in Comparing

Load(t) ==
    LET e == slot[reg[t].s].entry
        c == call[t]
    IN  /\ pc[t] = "load"
        /\ UNCHANGED tableVars
        /\ IF e = NULL \/ (Compares(t) /\ e.val # c.expected)
           THEN Return(t, Absent(t))
           ELSE IF entry_expired(t, e) THEN Continue(t, "expire", [reg[t] EXCEPT !.e = e])
           ELSE IF c.op = "get" THEN Return(t, e.val)
           ELSE IF c.op = "get_expiry" THEN Return(t, e.expiry)
           ELSE IF c.op = "touch" /\ c.expiry = 0 /\ e.expiry = 0 THEN Return(t, 1)
           ELSE Continue(t, "update", [reg[t] EXCEPT !.e = e])

\* After a failed swap: cas and touch load the entry again, the others probe.
Retry(t) == IF Compares(t) THEN Continue(t, "load", reg[t]) ELSE Reprobe(t)

\* slot_retire_entry of an expired entry.
Expire(t) ==
    /\ pc[t] = "expire"
    /\ IF Same(t)
       THEN Swap(t, reg[t].s, NULL, Absent(t))
       ELSE Retry(t) /\ UNCHANGED tableVars

KeptExpiryMut(e) == 0
\* cas keeps the deadline of the entry it replaces.
KeptExpiry(e) == e.expiry

Updated(t, e) ==
    CASE call[t].op \in {"del", "cas_null"} -> NULL
      [] call[t].op = "set_xx" -> Entry(call[t].val, 0)
      [] call[t].op \in {"set_expiry", "touch"} -> Entry(e.val, call[t].expiry)
      [] call[t].op = "cas" -> Entry(call[t].val, KeptExpiry(e))

Update(t) ==
    /\ pc[t] = "update"
    /\ IF Same(t)
       THEN Swap(t, reg[t].s, Updated(t, reg[t].e), 1)
       ELSE Retry(t) /\ UNCHANGED tableVars

-----------------------------------------------------------------------------
(* evict_expired and clear walk the whole table *)

WalkSlot(t) ==
    LET l == reg[t] IN
    /\ pc[t] = "walk"
    /\ IF Full(t) THEN Return(t, NULL)
       ELSE IF table[l.i] = NULL
            THEN Continue(t, "walk", [l EXCEPT !.i = next(@), !.n = @ + 1])
            ELSE Continue(t, "walk_entry", [l EXCEPT !.s = table[l.i]])
    /\ UNCHANGED tableVars

WalkEntry(t) ==
    LET e == slot[reg[t].s].entry IN
    /\ pc[t] = "walk_entry"
    /\ IF e # NULL /\ (call[t].op = "clear" \/ entry_expired(t, e))
       THEN Continue(t, "walk_cas", [reg[t] EXCEPT !.e = e])
       ELSE Onward(t)
    /\ UNCHANGED tableVars

WalkCas(t) ==
    /\ pc[t] = "walk_cas"
    /\ IF Same(t)
       THEN Swap(t, reg[t].s, NULL, NULL)
       ELSE /\ UNCHANGED tableVars
            /\ IF call[t].op = "clear" THEN Continue(t, "walk_entry", reg[t]) ELSE Onward(t)

-----------------------------------------------------------------------------
\* Time is of no consequence where nobody gives a deadline.
Tick == /\ clock < MaxClock
        /\ \E t \in Threads : \E c \in workload[t] : c.expiry # 0
        /\ clock' = clock + 1
        /\ UNCHANGED <<workload, tableVars, callVars, pc, reg>>

Step(t) == \/ ProbeSlot(t) \/ ProbeEntry(t) \/ Replace(t) \/ ReplaceCas(t)
           \/ TombLoad(t) \/ TombEntry(t) \/ TombCas(t) \/ Claim(t) \/ Scan(t)
           \/ NxLoad(t) \/ NxInstall(t) \/ Load(t) \/ Expire(t) \/ Update(t)
           \/ WalkSlot(t) \/ WalkEntry(t) \/ WalkCas(t)
           \/ Raise(t) \/ Lower(t)

LfkvNext ==
    \/ \E t \in Threads : Step(t)
    \/ \E t \in Threads : \E c \in workload[t] : Invoke(t, c)
    \/ Tick

LfkvSpec == LfkvInit /\ [][LfkvNext]_lfkvVars
FairLfkvSpec == LfkvSpec /\ \A t \in Threads : WF_lfkvVars(Step(t))

-----------------------------------------------------------------------------
Published == {table[c] : c \in Cells} \ {NULL}
Private == {reg[t].f : t \in Threads} \ {NULL}
Live(k) == {s \in Published : slot[s].key = k /\ slot[s].entry # NULL}

LfkvTypeOK ==
    /\ workload \in Workloads
    /\ table \in [Cells -> Records \cup {NULL}]
    /\ slot \in [Records -> Slots \cup {NULL}]
    /\ count \in Int
    /\ clock \in 0 .. MaxClock
    /\ call \in [Threads -> Calls \cup {NULL}]
    /\ \A t \in Threads : (call[t] = NULL) = (pc[t] = "idle")
    /\ pc \in [Threads -> {"idle", "probe", "probe_entry", "replace", "replace_cas",
                           "tomb_load", "tomb_entry", "tomb_cas", "claim", "scan",
                           "nx_load", "nx_install", "load", "expire", "update",
                           "walk", "walk_entry", "walk_cas", "raise", "lower"}]
    /\ reg \in [Threads -> Locals]

\* A slot record is in one cell, and no thread still has it as its own.
SlotOnce ==
    /\ \A c, d \in Cells : table[c] = table[d] /\ table[c] # NULL => c = d
    /\ Published \cap Private = {}
    /\ \A t, u \in Threads : reg[t].f = reg[u].f /\ reg[t].f # NULL => t = u

\* lfkv.h: a slot record is allocated once, on the first insert of its key, so
\* that a key has one live slot.
OneLiveSlot == \A k \in Keys : Cardinality(Live(k)) <= 1

\* The threads that have filled or emptied a slot and not yet counted it, and
\* the count once they have.
Raising == {t \in Threads : pc[t] = "raise"}
Lowering == {t \in Threads : pc[t] = "lower"}
Settled == count + Cardinality(Raising) - Cardinality(Lowering)

\* count, "live keys" (lfkv.h), lags behind the swaps ("approximate is fine"):
\* it is the number of live keys but for the updates under way, so that none
\* is lost or made twice and at rest it is exact.
CountsLive == Settled = Cardinality({k \in Keys : Live(k) # {}})

\* When several reactors insert and remove keys, it is in the same way that of
\* the records that have an entry and are in the table, or have lost their cell.
CountsEntries ==
    Settled = Cardinality({s \in Records \ Private : slot[s] # NULL /\ slot[s].entry # NULL})

\* The unsigned count does not wrap.  (It does for a moment, when a removal is
\* counted before the insertion of what it removed.)
NeverWraps == count >= 0

\* The table and its count, where at most one reactor inserts or none removes,
SlotsRight == OneLiveSlot /\ CountsLive
\* and what is left of that when several do both.
RecordsRight == SlotOnce /\ CountsEntries

\* The swap by which a set_nx inserts.
NxSucceeds(t) == call[t] # NULL /\ call[t].op = "set_nx" /\ pc[t] # "raise" /\ pc'[t] = "raise"

\* lfkv.h on set_nx: insert only if no live value exists for the key.
NxOnlyIfAbsent == [][\A t \in Threads : NxSucceeds(t) => Live(key(t)) = {}]_lfkvVars

\* lfkv.h on set_nx: 1 means that the key has been inserted.
NxInserts ==
    [][\A t \in Threads : NxSucceeds(t) =>
          \E s \in Published' : slot'[s].key = key(t) /\ slot'[s].entry # NULL]_lfkvVars

\* Every operation but set_nx returns when no other reactor writes: in a table
\* full of tombstones and of other keys as well.  (Under contention a retry
\* means that another reactor has succeeded.)
Alone(t) == \A u \in Threads \ {t} : workload[u] = {}
OpsReturn ==
    \A t \in Threads :
        Alone(t) /\ call[t] # NULL /\ call[t].op # "set_nx" ~> call[t] = NULL

\* lfkv.h on set_nx: it returns 1 on insert and 0 if there is a value.
NxReturns ==
    \A t \in Threads :
        Alone(t) /\ call[t] # NULL /\ call[t].op = "set_nx" ~> call[t] = NULL

\* What the table holds, key by key.
Contents == [k \in Keys |-> IF Live(k) = {} THEN NULL
                            ELSE slot[CHOOSE s \in Live(k) : TRUE].entry]

\* An operation whose swap is in has its result: only the count is left to do.
Decided(t) == \/ pc[t] = "raise"
              \/ pc[t] = "lower" /\ call[t].op \notin Walks \cup {"set_nx"}
Result(t) == IF pc[t] = "raise" THEN Inserted(t) ELSE Removed(t)
Running == [t \in Threads |-> IF Decided(t) THEN NULL ELSE call[t]]
Results == [t \in Threads |-> IF Decided(t) THEN Result(t) ELSE answer[t]]
=============================================================================

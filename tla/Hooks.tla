-------------------------------- MODULE Hooks -------------------------------
(***************************************************************************)
(* The registry of watch.h: an open-addressed table from the address of a  *)
(* container to its watchers, newest first, and its validator.  A registry *)
(* is [cap, used, slot]; a slot is [target, fns, validator], the target    *)
(* Empty or Tombstone when nobody is there.  "used" counts tombstones too. *)
(***************************************************************************)
EXTENDS Integers, Sequences, SequencesExt, FiniteSetsExt

CONSTANTS
  Home,        \* watch_hash, for each address
  FirstCap,    \* the slots of the first table, 32 in the code
  LoadNum, LoadDen   \* the table grows beyond LoadNum / LoadDen, 7 / 10

Empty == 0
Tombstone == -1
NoFn == "none"
Vacant == [target |-> Empty, fns |-> << >>, validator |-> NoFn]
NewRegistry == [cap |-> 0, used |-> 0, slot |-> << >>]

\* The slots a search for address o looks at, in order, up to the empty one.
Step(r, o, i) == ((Home[o] + i) % r.cap) + 1
ProbeLength(r, o) == Min({i \in 0 .. r.cap - 1 : r.slot[Step(r, o, i)].target = Empty})
Probe(r, o) == [i \in 1 .. ProbeLength(r, o) |-> Step(r, o, i - 1)]

\* watch_find: the slot of o, 0 when it has none.
Find(r, o) ==
  IF r.cap = 0 THEN 0
  ELSE LET at == SelectInSeq(Probe(r, o), LAMBDA i : r.slot[i].target = o)
       IN IF at = 0 THEN 0 ELSE Probe(r, o)[at]

\* watch_grow: the live slots move, the tombstones go.
Grow(r) ==
  LET cap == IF r.cap = 0 THEN FirstCap ELSE 2 * r.cap
      live == SelectSeq(r.slot, LAMBDA s : s.target \notin {Empty, Tombstone})
      Move(t, s) == [t EXCEPT !.slot[Step(t, s.target, ProbeLength(t, s.target))] = s]
  IN FoldLeft(Move, [cap |-> cap, used |-> Len(live), slot |-> [i \in 1 .. cap |-> Vacant]], live)

\* watch_ensure_slot: the first tombstone on the way is taken again.
Roomy(r) == IF r.cap = 0 \/ (r.used + 1) * LoadDen > r.cap * LoadNum THEN Grow(r) ELSE r
Taken(r, o, probe) ==
  LET tomb == SelectInSeq(probe, LAMBDA i : r.slot[i].target = Tombstone)
      taken == [Vacant EXCEPT !.target = o]
  IN CASE Find(r, o) # 0 -> r
       [] Find(r, o) = 0 /\ tomb # 0 -> [r EXCEPT !.slot[probe[tomb]] = taken]
       [] OTHER -> [r EXCEPT !.slot[Step(r, o, Len(probe))] = taken, !.used = @ + 1]
TakenIn(r, o) == Taken(r, o, Probe(r, o))
EnsureSlot(r, o) == TakenIn(Roomy(r), o)

\* watch_insert.
FnFirst(r, o, fn) == [r EXCEPT !.slot[Find(r, o)].fns = <<fn>> \o @]
Insert(r, o, fn) == FnFirst(EnsureSlot(r, o), o, fn)
\* watch_on_target_free.
FreedMut(r, o) ==
  IF Find(r, o) = 0 THEN r ELSE [r EXCEPT !.slot[Find(r, o)] = Vacant, !.used = @ - 1]
Freed(r, o) ==
  IF Find(r, o) = 0 THEN r ELSE [r EXCEPT !.slot[Find(r, o)] = [Vacant EXCEPT !.target = Tombstone]]
\* unwatch!: the slot stays for a validator.
Unwatched(r, o) ==
  IF Find(r, o) = 0 THEN r
  ELSE [r EXCEPT !.slot[Find(r, o)].fns = << >>,
                 !.slot[Find(r, o)].target = IF r.slot[Find(r, o)].validator = NoFn THEN Tombstone ELSE @]
\* set-validator!, and with nil.
ValidatorSet(r, at, fn) == [r EXCEPT !.slot[at].validator = fn]
ValidatorIn(r, o, fn) == ValidatorSet(r, Find(r, o), fn)
Validated(r, o, fn) == ValidatorIn(IF Find(r, o) # 0 THEN r ELSE EnsureSlot(r, o), o, fn)
ClearedAt(r, at) ==
  IF at = 0 \/ r.slot[at].validator = NoFn THEN r
  ELSE [r EXCEPT !.slot[at].validator = NoFn,
                 !.slot[at].target = IF r.slot[at].fns = << >> THEN Tombstone ELSE @]
Unvalidated(r, o) == ClearedAt(r, Find(r, o))

WatchersOf(r, o) == IF Find(r, o) = 0 THEN << >> ELSE r.slot[Find(r, o)].fns
ValidatorOf(r, o) == IF Find(r, o) = 0 THEN NoFn ELSE r.slot[Find(r, o)].validator
=============================================================================

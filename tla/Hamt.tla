-------------------------------- MODULE Hamt --------------------------------
(***************************************************************************)
(* The persistent map of hamt.h: a trie over the bits of the key's hash,   *)
(* whose nodes are counted and shared between the versions of a map.       *)
(*                                                                         *)
(* A heap maps the address of a node to [nref, bits, slots]: "bits" is the *)
(* set of the indices present (the bitmap), {} in a collision bucket, and  *)
(* "slots" has one element for each of them, an entry [key, val, child |-> *)
(* 0] or a child [key |-> NoKey, val |-> NoKey, child].  0 is NULL.  An    *)
(* operation on nodes answers [heap, node, changed].                       *)
(***************************************************************************)
EXTENDS Integers, Sequences, SequencesExt, FiniteSetsExt

CONSTANTS
  Bits,    \* HAMT_BITS, the bits of the hash a level uses
  Width,   \* the bits of the hash
  HashKey  \* hamt_hashkey, for each key

NoKey == <<"none", 0>>
Entry(k, v) == [key |-> k, val |-> v, child |-> 0]
ChildSlot(n) == [key |-> NoKey, val |-> NoKey, child |-> n]
IsBucket(node) == node.bits = {}
IsEntry(node, i) == node.slots[i].key # NoKey

Index(key, shift) == (HashKey[key] \div 2 ^ shift) % 2 ^ Bits
\* The place of an index among the slots: the popcount of the lower bits.
Place(node, i) == Cardinality({b \in node.bits : b < i}) + 1

\* hamt_node_alloc, which gives an address not in use.
Alloc(h, bits, slots) ==
  LET a == Min(1 .. Cardinality(DOMAIN h) + 1 \ DOMAIN h)
  IN [node |-> a,
      heap |-> [x \in DOMAIN h \cup {a} |->
                  IF x = a THEN [nref |-> 1, bits |-> bits, slots |-> slots] ELSE h[x]]]

\* hamt_node_ref and hamt_node_unref.
Ref(h, n) == IF n = 0 THEN h ELSE [h EXCEPT ![n].nref = @ + 1]
RECURSIVE Unref(_, _)
Unref(h, n) ==
  IF n = 0 THEN h
  ELSE IF h[n].nref > 1 THEN [h EXCEPT ![n].nref = @ - 1]
  ELSE FoldLeft(LAMBDA g, s : Unref(g, s.child),
                [x \in DOMAIN h \ {n} |-> h[x]], h[n].slots)
RefAll(h, slots) == FoldLeft(LAMBDA g, s : Ref(g, s.child), h, slots)

\* hamt_node_copy with one slot replaced: the copy holds every other child
\* once more and the new one as it is.
CopyWithMut(h, n, at, slot) ==
  Alloc(RefAll(h, h[n].slots), h[n].bits, [h[n].slots EXCEPT ![at] = slot])
CopyWith(h, n, at, slot) ==
  Alloc(RefAll(h, RemoveAt(h[n].slots, at)), h[n].bits, [h[n].slots EXCEPT ![at] = slot])
\* hamt_node_without, and the bucket that loses an entry.
Without(h, n, at, bits) ==
  LET rest == RemoveAt(h[n].slots, at) IN Alloc(RefAll(h, rest), bits, rest)

\* hamt_merge: the nodes that tell two entries apart below "shift".
RECURSIVE Split(_, _, _, _)
Split(h, e1, e2, shift) ==
  LET i1 == Index(e1.key, shift)
      i2 == Index(e2.key, shift)
  IN IF shift >= Width THEN Alloc(h, {}, <<e1, e2>>)
     ELSE IF i1 = i2
       THEN LET below == Split(h, e1, e2, shift + Bits)
            IN Alloc(below.heap, {i1}, <<ChildSlot(below.node)>>)
     ELSE Alloc(h, {i1, i2}, IF i1 < i2 THEN <<e1, e2>> ELSE <<e2, e1>>)

\* hamt_node_get, NoKey when the key is absent.
RECURSIVE GetIn(_, _, _, _)
GetIn(h, n, key, shift) ==
  IF n = 0 THEN NoKey
  ELSE LET node == h[n]
           at == Place(node, Index(key, shift))
       IN IF IsBucket(node)
            THEN LET same == SelectSeq(node.slots, LAMBDA s : s.key = key)
                 IN IF same = << >> THEN NoKey ELSE Head(same).val
          ELSE IF Index(key, shift) \notin node.bits THEN NoKey
          ELSE IF IsEntry(node, at)
            THEN IF node.slots[at].key = key THEN node.slots[at].val ELSE NoKey
          ELSE GetIn(h, node.slots[at].child, key, shift + Bits)

\* hamt_node_assoc.
RECURSIVE AssocIn(_, _, _, _)
AssocIn(h, n, e, shift) ==
  LET Made(r, added) == [heap |-> r.heap, node |-> r.node, changed |-> added]
      i == Index(e.key, shift)
  IN IF n = 0 THEN Made(Alloc(h, {i}, <<e>>), TRUE)
     ELSE LET node == h[n]
              same == SelectInSeq(node.slots, LAMBDA s : s.key = e.key)
              at == Place(node, i)
          IN CASE IsBucket(node) /\ same # 0 -> Made(CopyWith(h, n, same, e), FALSE)
               [] IsBucket(node) /\ same = 0 -> Made(Alloc(h, {}, Append(node.slots, e)), TRUE)
               [] ~IsBucket(node) /\ i \notin node.bits ->
                    Made(Alloc(RefAll(h, node.slots), node.bits \cup {i},
                               InsertAt(node.slots, at, e)), TRUE)
               [] ~IsBucket(node) /\ i \in node.bits /\ IsEntry(node, at) ->
                    IF node.slots[at].key = e.key THEN Made(CopyWith(h, n, at, e), FALSE)
                    ELSE LET below == Split(h, node.slots[at], e, shift + Bits)
                         IN Made(CopyWith(below.heap, n, at, ChildSlot(below.node)), TRUE)
               [] OTHER ->
                    LET below == AssocIn(h, node.slots[at].child, e, shift + Bits)
                    IN Made(CopyWith(below.heap, n, at, ChildSlot(below.node)), below.changed)

\* hamt_node_dissoc: the node itself, held once more, when the key is absent.
RECURSIVE DissocIn(_, _, _, _)
DissocIn(h, n, key, shift) ==
  LET Gone(r) == [heap |-> r.heap, node |-> r.node, changed |-> TRUE]
      Same == [heap |-> Ref(h, n), node |-> n, changed |-> FALSE]
      Drop(g, at, bits) == IF Len(h[n].slots) = 1 THEN Gone([heap |-> g, node |-> 0])
                           ELSE Gone(Without(g, n, at, bits))
      i == Index(key, shift)
  IN IF n = 0 THEN Same
     ELSE LET node == h[n]
              same == SelectInSeq(node.slots, LAMBDA s : s.key = key)
              at == Place(node, i)
          IN CASE IsBucket(node) -> IF same = 0 THEN Same ELSE Drop(h, same, {})
               [] ~IsBucket(node) /\ i \notin node.bits -> Same
               [] ~IsBucket(node) /\ i \in node.bits /\ IsEntry(node, at) ->
                    IF node.slots[at].key # key THEN Same ELSE Drop(h, at, node.bits \ {i})
               [] OTHER ->
                    LET below == DissocIn(h, node.slots[at].child, key, shift + Bits)
                    IN IF ~below.changed
                         THEN [heap |-> Ref(Unref(below.heap, below.node), n), node |-> n, changed |-> FALSE]
                       ELSE IF below.node = 0 THEN Drop(below.heap, at, node.bits \ {i})
                       ELSE Gone(CopyWith(below.heap, n, at, ChildSlot(below.node)))

\* hamt_node_foreach: the entries, depth first.
RECURSIVE Walk(_, _)
Walk(h, n) ==
  IF n = 0 THEN << >>
  ELSE FoldLeft(LAMBDA es, s : es \o IF s.key # NoKey THEN <<s>> ELSE Walk(h, s.child), << >>, h[n].slots)

-----------------------------------------------------------------------------
(* Maps: a map is [root, count] over a heap; an operation that builds one  *)
(* answers [heap, map].                                                    *)

Empty(h) == [heap |-> h, map |-> [root |-> 0, count |-> 0]]
\* hamt-assoc: m keeps its root.
Rooted(r, m, more) ==
  [heap |-> r.heap, map |-> [root |-> r.node, count |-> m.count + IF r.changed THEN more ELSE 0]]
Assoc(h, m, k, v) == Rooted(AssocIn(h, m.root, Entry(k, v), 0), m, 1)
Dissoc(h, m, k) == Rooted(DissocIn(h, m.root, k, 0), m, -1)
\* One turn of the loops of hamt, hamt-merge and the reader of images: the
\* map built so far gives its root up.
Instead(m, next) == [heap |-> Unref(next.heap, m.root), map |-> next.map]
Added(acc, e) == Instead(acc.map, Assoc(acc.heap, acc.map, e.key, e.val))
HamtOf(h, entries) == FoldLeft(Added, Empty(h), entries)
\* hamt-merge: it begins as a, whose nodes it shares.
Merge(h, a, b) == FoldLeft(Added, [heap |-> Ref(h, a.root), map |-> a], Walk(h, b.root))
Lookup(h, m, k, default) == IF GetIn(h, m.root, k, 0) = NoKey THEN default ELSE GetIn(h, m.root, k, 0)
\* hamt_iso.
Iso(h, a, b) ==
  a.count = b.count /\ \A i \in 1 .. Len(Walk(h, a.root)) :
    LET e == Walk(h, a.root)[i] IN GetIn(h, b.root, e.key, 0) = e.val

-----------------------------------------------------------------------------
(* The address of a node means nothing: the model names the nodes in the   *)
(* order in which the maps reach them, those that none reaches last.       *)

RECURSIVE Visit(_, _, _)
Visit(h, seen, n) ==
  IF n = 0 \/ Contains(seen, n) THEN seen
  ELSE FoldLeft(LAMBDA acc, s : Visit(h, acc, s.child), Append(seen, n), h[n].slots)
Reached(h, maps) == FoldLeft(LAMBDA acc, m : Visit(h, acc, m.root), << >>, maps)
Completed(h, reached) == reached \o SetToSortSeq(DOMAIN h \ Range(reached), <)
NameIn(order, n) == IF n = 0 THEN 0 ELSE SelectInSeq(order, LAMBDA x : x = n)
Reordered(h, maps, order) ==
  [heap |-> [a \in 1 .. Len(order) |->
               [h[order[a]] EXCEPT !.slots = [i \in DOMAIN @ |-> [@[i] EXCEPT !.child = NameIn(order, @)]]]],
   maps |-> [i \in DOMAIN maps |-> [maps[i] EXCEPT !.root = NameIn(order, @)]]]
Renamed(h, maps) == Reordered(h, maps, Completed(h, Reached(h, maps)))
=============================================================================

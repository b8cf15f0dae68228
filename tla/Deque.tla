------------------------------- MODULE Deque --------------------------------
(***************************************************************************)
(* The doubly linked list of deque.h.  A deque is [head, tail, len, node], *)
(* "node" mapping the addresses in use to [val, prev, next]; 0 is NULL.    *)
(***************************************************************************)
EXTENDS Integers, Sequences, SequencesExt, FiniteSetsExt

NewDeque == [head |-> 0, tail |-> 0, len |-> 0, node |-> << >>]

\* The address memalloc gives the next node.
Fresh(l) == Min(1 .. l.len + 1 \ DOMAIN l.node)
With(f, a, n) == [x \in DOMAIN f \cup {a} |-> IF x = a THEN n ELSE f[x]]

\* alc_list_push_right and alc_list_push_left.
PushRight(l, v) ==
  LET a == Fresh(l)
      linked == IF l.tail = 0 THEN l.node ELSE [l.node EXCEPT ![l.tail].next = a]
  IN [head |-> IF l.tail = 0 THEN a ELSE l.head, tail |-> a, len |-> l.len + 1,
      node |-> With(linked, a, [val |-> v, prev |-> l.tail, next |-> 0])]
PushLeft(l, v) ==
  LET a == Fresh(l)
      linked == IF l.head = 0 THEN l.node ELSE [l.node EXCEPT ![l.head].prev = a]
  IN [tail |-> IF l.head = 0 THEN a ELSE l.tail, head |-> a, len |-> l.len + 1,
      node |-> With(linked, a, [val |-> v, prev |-> 0, next |-> l.head])]

\* The pop of DEQUE_POP_CMD at each end of a deque that is not empty.
Freed(f, a) == [x \in DOMAIN f \ {a} |-> f[x]]
PopRight(l) ==
  LET a == l.node[l.tail].prev
      rest == Freed(l.node, l.tail)
  IN [l EXCEPT !.tail = a, !.len = @ - 1, !.head = IF a = 0 THEN 0 ELSE @,
               !.node = IF a = 0 THEN rest ELSE [rest EXCEPT ![a].next = 0]]
PopLeft(l) ==
  LET a == l.node[l.head].next
      rest == Freed(l.node, l.head)
  IN [l EXCEPT !.head = a, !.len = @ - 1, !.tail = IF a = 0 THEN 0 ELSE @,
               !.node = IF a = 0 THEN rest ELSE [rest EXCEPT ![a].prev = 0]]

\* deque, peek-left and peek-right.
DequeOf(vs) == FoldLeft(PushRight, NewDeque, vs)
Peek(l, end) == IF end = 0 THEN <<"nil", 0>> ELSE l.node[end].val

\* The elements, as one walks the list each way.
Forward(l) ==
  LET From[a \in {0} \cup DOMAIN l.node] ==
        IF a = 0 THEN << >> ELSE <<l.node[a].val>> \o From[l.node[a].next]
  IN From[l.head]
Backward(l) ==
  LET From[a \in {0} \cup DOMAIN l.node] ==
        IF a = 0 THEN << >> ELSE Append(From[l.node[a].prev], l.node[a].val)
  IN From[l.tail]

\* isoequal on two deques.
IsoDeques(a, b) == a.len = b.len /\ Forward(a) = Forward(b)
=============================================================================

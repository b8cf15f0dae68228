----------------------------- MODULE Collections -----------------------------
(***************************************************************************)
(* What the containers of the language promise: maps, sets and sequences.  *)
(* The content of a container is <<kind, data>>: a function for "dict", a  *)
(* set for "set", a sequence for "deque" and "vec", and two functions, the *)
(* versions a program holds, for "hamt".  A fixnum and the double equal to *)
(* it are one number here.                                                 *)
(***************************************************************************)
EXTENDS Integers, Sequences, SequencesExt, FiniteSetsExt, TLC

CONSTANTS
  Calls,       \* the calls [kind, op, args, means] a program makes, "means"
               \* the content of a container among the arguments
  Starts,      \* the contents it may start from
  KeyOf(_),    \* the name of a hash-map key, Absent when it cannot be one
  KeyFor(_),   \* the key that a name reads back as
  Scalar(_),   \* may the value be a member of a set?
  Curve        \* the function vec-exp!, vec-sigmoid! or vec-tanh! applies

VARIABLE content

Absent == <<"absent", 0>>
Failed == <<"err", 0>>
Self == <<"self", 0>>
Truth(b) == IF b THEN <<"t", 0>> ELSE <<"nil", 0>>
IsNum(x) == x[1] = "num"
Num(n) == <<"num", n>>
Plain(x) == IF x[1] \in {"fix", "flo"} THEN Num(x[2]) ELSE x
PlainSeq(xs) == [i \in 1 .. Len(xs) |-> Plain(xs[i])]
Nums(xs) == \A i \in 1 .. Len(xs) : IsNum(xs[i])
Without(f, k) == [x \in DOMAIN f \ {k} |-> f[x]]
Total(S, f(_)) == MapThenSumSet(f, S)
Ordinals(n) == [i \in 1 .. n |-> i]

-----------------------------------------------------------------------------
(* Sequences of numbers.                                                   *)

\* An operation fails when shapes differ or an element is no number.
Misfit(x, c) ==
  LET a == c.args
  IN CASE c.op \in {"vec-axpy!", "vec-count-le!"} -> Len(a[2]) # Len(x) \/ ~Nums(x) \/ ~Nums(PlainSeq(a[2]))
       [] c.op \in {"vec-add!", "vec-sub!", "vec-mul!"} -> Len(a[1]) # Len(x) \/ ~Nums(x) \/ ~Nums(PlainSeq(a[1]))
       [] c.op = "vec-dot" -> Len(a[1]) # Len(x) \/ ~Nums(x) \/ ~Nums(PlainSeq(a[1]))
       [] c.op = "vec-copy!" -> Len(a[1]) # Len(x)
       [] c.op = "vec-from-blob!" -> a[2] < 0 \/ a[2] + Len(x) > Len(a[1])
       [] c.op \in {"mat-vec!", "mat-vec-t!"} ->
            \/ Len(x) = 0 \/ Len(a[2]) = 0 \/ Len(a[1]) # Len(x) * Len(a[2])
            \/ ~Nums(PlainSeq(a[1])) \/ ~Nums(PlainSeq(a[2]))
       [] c.op = "vec-ger!" -> \/ Len(x) = 0 \/ Len(x) # Len(a[2]) * Len(a[3])
                               \/ ~Nums(x) \/ ~Nums(PlainSeq(a[2])) \/ ~Nums(PlainSeq(a[3]))
       [] c.op = "mat-vec" -> \/ Len(a[1]) = 0 \/ Len(x) % Len(a[1]) # 0
                              \/ ~Nums(x) \/ ~Nums(PlainSeq(a[1]))
       [] c.op = "mat-mul" -> \/ a[2] = 0 \/ Len(x) % a[2] # 0 \/ Len(a[1]) % a[2] # 0
                              \/ ~Nums(x) \/ ~Nums(PlainSeq(a[1]))
       [] c.op = "vec-fill!" -> FALSE
       [] c.op \in {"vec-max", "vec-min"} -> x = << >> \/ ~Nums(x)
       [] OTHER -> ~Nums(x)

\* What an operation in place makes of element i.
Target(x, c, i) ==
  LET a == c.args
      n == x[i][2]
      Of(v, j) == v[j][2]
      cols == Len(a[2])
  IN CASE c.op = "vec-axpy!" -> n + a[1] * Of(a[2], i)
       [] c.op = "vec-scale!" -> n * a[1]
       [] c.op = "vec-add!" -> n + Of(a[1], i)
       [] c.op = "vec-sub!" -> n - Of(a[1], i)
       [] c.op = "vec-mul!" -> n * Of(a[1], i)
       [] c.op = "vec-count-le!" -> IF Of(a[2], i) <= a[1] THEN n + 1 ELSE n
       [] c.op = "vec-fill!" -> a[1]
       [] c.op = "vec-relu!" -> IF n < 0 THEN 0 ELSE n
       [] c.op = "vec-exp!" -> Curve[n]
       [] c.op = "vec-from-blob!" -> a[3] * a[1][a[2] + i]
       [] c.op = "mat-vec!" -> Total(1 .. cols, LAMBDA j : Of(a[1], (i - 1) * cols + j) * Of(a[2], j))
       [] c.op = "mat-vec-t!" -> Total(1 .. cols, LAMBDA j : Of(a[1], (j - 1) * Len(x) + i) * Of(a[2], j))
       [] c.op = "vec-ger!" -> n + a[1] * Of(a[2], ((i - 1) \div Len(a[3])) + 1) * Of(a[3], ((i - 1) % Len(a[3])) + 1)
Whole(x, c) == IF c.op = "vec-copy!" THEN PlainSeq(c.args[1]) ELSE [i \in 1 .. Len(x) |-> Num(Target(x, c, i))]
InPlaceOps == {"vec-axpy!", "vec-scale!", "vec-add!", "vec-sub!", "vec-mul!", "vec-count-le!", "vec-fill!",
               "vec-relu!", "vec-exp!", "vec-copy!", "vec-from-blob!", "mat-vec!", "mat-vec-t!", "vec-ger!"}
\* A failed operation leaves as many elements, some of them new numbers.
Spoilt(x, to) == Len(to) = Len(x) /\ \A i \in 1 .. Len(x) : to[i] = x[i] \/ IsNum(to[i])

\* The first index, from zero, of a largest element.
First(x, better(_, _)) ==
  Min({i \in 1 .. Len(x) : \A j \in 1 .. Len(x) : ~better(x[j][2], x[i][2])}) - 1
Reduced(x, c) ==
  CASE c.op = "vec-sum" -> Num(Total(1 .. Len(x), LAMBDA i : x[i][2]))
    [] c.op = "vec-dot" -> Num(Total(1 .. Len(x), LAMBDA i : x[i][2] * c.args[1][i][2]))
    [] c.op = "vec-argmax" -> Num(IF x = << >> THEN -1 ELSE First(x, LAMBDA p, q : p > q))
    [] c.op = "vec-argmin" -> Num(IF x = << >> THEN -1 ELSE First(x, LAMBDA p, q : p < q))
    [] c.op = "vec-max" -> x[First(x, LAMBDA p, q : p > q) + 1]
    [] c.op = "vec-min" -> x[First(x, LAMBDA p, q : p < q) + 1]
    [] c.op = "mat-vec" ->
         LET n == Len(c.args[1])
         IN <<"seq", [i \in 1 .. Len(x) \div n |->
                        Num(Total(1 .. n, LAMBDA j : x[(i - 1) * n + j][2] * c.args[1][j][2]))]>>
    [] c.op = "mat-mul" ->
         LET k == c.args[2]
             n == Len(c.args[1]) \div k
         IN <<"seq", [e \in 1 .. (Len(x) \div k) * n |->
                        Num(Total(1 .. k, LAMBDA p : x[((e - 1) \div n) * k + p][2]
                                                     * c.args[1][(p - 1) * n + ((e - 1) % n) + 1][2]))]>>
Reductions == {"vec-sum", "vec-dot", "vec-argmax", "vec-argmin", "vec-max", "vec-min", "mat-vec", "mat-mul"}

-----------------------------------------------------------------------------
(* What a call does to the content x of a container, and what it answers.  *)

InBounds(x, i) == 0 <= i /\ i < Len(x)
Effect(x, c, to) ==
  LET a == c.args
  IN CASE c.op = "assoc!" -> to = IF KeyOf(a[1]) = Absent THEN x ELSE (KeyOf(a[1]) :> a[2]) @@ x
       [] c.op = "dissoc!" -> to = Without(x, KeyOf(a[1]))
       [] c.op = "set-add!" -> to = IF Scalar(a[1]) THEN x \cup {a[1]} ELSE x
       [] c.op = "set-del!" -> to = x \ {a[1]}
       [] c.op = "push-right!" -> to = Append(x, a[1])
       [] c.op = "push-left!" -> to = <<a[1]>> \o x
       [] c.op = "vec-push!" -> to = Append(x, Plain(a[1]))
       [] c.op = "vec-unshift!" -> to = <<Plain(a[1])>> \o x
       [] c.op \in {"pop-right!", "vec-pop!"} -> to = IF x = << >> THEN x ELSE Front(x)
       [] c.op \in {"pop-left!", "vec-shift!"} -> to = IF x = << >> THEN x ELSE Tail(x)
       [] c.op = "vec-set!" -> to = IF InBounds(x, a[1]) THEN [x EXCEPT ![a[1] + 1] = Plain(a[2])] ELSE x
       [] c.op = "hamt-assoc" -> to = [x EXCEPT ![a[2]] = (a[3] :> a[4]) @@ x[a[1]]]
       [] c.op = "hamt-dissoc" -> to = [x EXCEPT ![a[2]] = Without(x[a[1]], a[3])]
       [] c.op = "hamt-merge" -> to = [x EXCEPT ![a[2]] = x[a[1]] @@ x[a[2]]]
       [] c.op \in InPlaceOps -> IF Misfit(x, c) THEN Spoilt(x, to) ELSE to = Whole(x, c)
       [] OTHER -> to = x

\* A sequence that lists each element of S once.
Lists(ret, S) == ret[1] = "list" /\ Len(ret[2]) = Cardinality(S) /\ Range(ret[2]) = S
Answer(x, c, ret) ==
  LET a == c.args
      Found(f, k, default) == Plain(IF k \in DOMAIN f THEN f[k] ELSE default)
  IN CASE c.op = "assoc!" -> ret = IF KeyOf(a[1]) = Absent THEN Failed ELSE Self
       [] c.op = "set-add!" -> ret = IF Scalar(a[1]) THEN Self ELSE Failed
       [] c.op \in {"dissoc!", "set-del!", "push-right!", "push-left!"} -> ret = Self
       [] c.op = "get" -> ret = Found(x, KeyOf(a[1]), a[2])
       [] c.op = "contains?" -> ret = Truth(KeyOf(a[1]) \in DOMAIN x)
       [] c.op = "keys" -> Lists(ret, {KeyFor(k) : k \in DOMAIN x})
       [] c.op = "vals" -> ret[1] = "list" /\ Len(ret[2]) = Cardinality(DOMAIN x) /\ Range(ret[2]) = Range(x)
       [] c.op = "set-has?" -> ret = Truth(a[1] \in x)
       [] c.op = "set->list" -> Lists(ret, x)
       [] c.op = "set-union" -> ret = <<"members", x \cup c.means>>
       [] c.op = "set-intersection" -> ret = <<"members", x \cap c.means>>
       [] c.op = "set-difference" -> ret = <<"members", x \ c.means>>
       [] c.op \in {"peek-right", "pop-right!"} -> ret = IF x = << >> THEN Truth(FALSE) ELSE Plain(Last(x))
       [] c.op \in {"peek-left", "pop-left!"} -> ret = IF x = << >> THEN Truth(FALSE) ELSE Plain(Head(x))
       [] c.op \in {"vec-push!", "vec-unshift!"} -> ret = Plain(a[1])
       [] c.op = "vec-pop!" -> ret = IF x = << >> THEN Failed ELSE Last(x)
       [] c.op = "vec-shift!" -> ret = IF x = << >> THEN Failed ELSE Head(x)
       [] c.op = "vec-set!" -> ret = IF InBounds(x, a[1]) THEN Plain(a[2]) ELSE Failed
       [] c.op = "vec-ref" -> ret = IF InBounds(x, a[1]) THEN x[a[1] + 1] ELSE Failed
       [] c.op \in {"hamt-assoc", "hamt-dissoc", "hamt-merge"} -> ret = Self
       [] c.op = "hamt-get" -> ret = Found(x[a[1]], a[2], a[3])
       [] c.op = "hamt-count" -> ret = Num(Cardinality(DOMAIN x[a[1]]))
       [] c.op = "hamt-keys" -> Lists(ret, DOMAIN x[a[1]])
       [] c.op = "count" -> ret = Num(IF c.kind = "set" THEN Cardinality(x)
                                      ELSE IF c.kind = "dict" THEN Cardinality(DOMAIN x) ELSE Len(x))
       [] c.op = "iso" -> \/ ret = Truth(IF c.kind = "hamt" THEN x[1] = x[2] ELSE x = c.means)
                          \/ c.kind = "vec" /\ ret = Truth(FALSE)   \* 1 is not iso to 1.0
       [] c.op \in InPlaceOps -> ret = IF Misfit(x, c) THEN Failed ELSE Self
       [] c.op \in Reductions -> ret = IF Misfit(x, c) THEN Failed ELSE Reduced(x, c)

Init == content \in Starts
Next ==
  \E from \in {content}, to \in {content'} :
     from[1] = to[1] /\ \E c \in Calls : c.kind = from[1] /\ Effect(from[2], c, to[2])
Spec == Init /\ [][Next]_content
=============================================================================

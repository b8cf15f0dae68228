------------------------------ MODULE Vectors -------------------------------
(***************************************************************************)
(* The vector of vector.h: a buffer of "cap" cells of which the window     *)
(* [start, end) is live.  The kind says what the cells are: boxed values   *)
(* ("gen"), raw integers ("i64") or raw doubles ("f64").  A raw cell is    *)
(* <<"i64", n>> or <<"f64", n>>, a boxed one the value itself; a double is *)
(* modelled by the integer it equals.                                      *)
(***************************************************************************)
EXTENDS Integers, Sequences, FiniteSetsExt

\* A cell that calloc cleared, or outside the window: nothing reads it.
Zero == <<"zero", 0>>
IsNumber(v) == v[1] \in {"fix", "flo"}

LenOf(v) == v.end - v.start
Live(v) == v.start + 1 .. v.end
Storage(cap) == [a \in 1 .. cap |-> Zero]             \* vec_alloc_storage

\* What a cell means to a vector of kind k, and the cell a value makes.
Boxed(k, c) == CASE k = "gen" -> c
                 [] k = "i64" -> <<"fix", c[2]>>
                 [] k = "f64" -> <<"flo", c[2]>>
Cell(k, x) == CASE k = "gen" -> x
                [] k = "i64" -> <<"i64", x[2]>>
                [] k = "f64" -> <<"f64", x[2]>>

\* make_vector: the kind is the filler's.
KindFor(x) == CASE x[1] = "fix" -> "i64" [] x[1] = "flo" -> "f64" [] OTHER -> "gen"
MakeVector(n, fill) ==
  [kind |-> KindFor(fill), cap |-> n, start |-> 0, end |-> n,
   cells |-> [a \in 1 .. n |-> Cell(KindFor(fill), fill)]]

\* vec_promote_i64_to_f64 and vec_promote_to_gen: the live cells move to a
\* buffer of the same capacity.
Converted(v, kind) ==
  [v EXCEPT !.kind = kind,
            !.cells = [a \in 1 .. v.cap |-> IF a \in Live(v) THEN Cell(kind, Boxed(v.kind, v.cells[a]))
                                            ELSE Zero]]
PromoteToFloat(v) == IF v.kind = "i64" THEN Converted(v, "f64") ELSE v
PromoteToGen(v) == IF v.kind = "gen" THEN v ELSE Converted(v, "gen")

\* vec_get_boxed; vec_set_boxed, which promotes when the cell cannot hold x.
BoxedAt(v, i) == Boxed(v.kind, v.cells[v.start + i + 1])
Fits(v, x) == v.kind = "gen" \/ (v.kind = "i64" /\ x[1] = "fix") \/ (v.kind = "f64" /\ IsNumber(x))
StoreAt(v, i, x) ==
  LET w == IF Fits(v, x) THEN v ELSE PromoteToGen(v)
  IN [w EXCEPT !.cells[v.start + i + 1] = Cell(w.kind, x)]

\* vec_tighten, and vector, which builds a boxed vector and tightens it.
Tightened(v) ==
  LET xs == {BoxedAt(v, i) : i \in 0 .. LenOf(v) - 1}
  IN IF v.kind # "gen" \/ xs = {} \/ \E x \in xs : ~IsNumber(x) THEN v
     ELSE Converted(v, IF \A x \in xs : x[1] = "fix" THEN "i64" ELSE "f64")
VectorOf(xs) == Tightened([kind |-> "gen", cap |-> Len(xs), start |-> 0, end |-> Len(xs), cells |-> xs])

-----------------------------------------------------------------------------
(* The window at both ends.                                                *)

Moved(v, cap, to) ==          \* vec_realloc: the live window now starts at "to"
  [v EXCEPT !.cap = cap, !.start = to, !.end = to + LenOf(v),
            !.cells = [a \in 1 .. cap |-> IF a \in to + 1 .. to + LenOf(v)
                                          THEN v.cells[a - to + v.start] ELSE Zero]]
Slid(v) == Moved(v, v.cap, 0)                 \* vec_slide_left
Grown(v) == IF v.cap < 4 THEN 8 ELSE v.cap + v.cap \div 2
\* vec_grow_back and vec_grow_front.
GrowBack(v) == IF v.start > 0 /\ v.start >= v.cap \div 4 THEN Slid(v) ELSE Moved(v, Grown(v), 0)
GrowFront(v) == Moved(v, Grown(v), (Grown(v) - LenOf(v)) \div 2)

\* vec-push!: the cell is written before the window takes it in.
Push(v, x) ==
  LET w == IF v.end = v.cap THEN GrowBack(v) ELSE v
      blank == IF w.kind = "gen" THEN [w EXCEPT !.cells[w.end + 1] = <<"nil", 0>>] ELSE w
  IN [StoreAt(blank, LenOf(w), x) EXCEPT !.end = @ + 1]
\* vec-unshift!: the window takes the cell in before it is written.
UnshiftMut(v, x) ==
  LET w == IF v.start = 0 THEN GrowFront(v) ELSE v
      blank == IF w.kind = "gen" THEN [w EXCEPT !.cells[w.start] = <<"nil", 0>>] ELSE w
  IN [StoreAt(blank, 0, x) EXCEPT !.start = @ - 1]
Unshift(v, x) ==
  LET w == IF v.start = 0 THEN GrowFront(v) ELSE v
      wide == [w EXCEPT !.start = @ - 1]
      blank == IF w.kind = "gen" THEN [wide EXCEPT !.cells[w.start] = <<"nil", 0>>] ELSE wide
  IN StoreAt(blank, 0, x)
\* vec-pop! and vec-shift! of a vector that is not empty.
Pop(v) == [v EXCEPT !.end = @ - 1, !.cells[v.end] = Zero]
Shift(v) == [v EXCEPT !.start = @ + 1, !.cells[v.start + 1] = Zero]

InRange(v, i) == 0 <= i /\ i < LenOf(v)
Elements(v) == [i \in 1 .. LenOf(v) |-> BoxedAt(v, i - 1)]
\* isoequal on two vectors; a fixnum is not iso to a float.
IsoVectors(a, b) == LenOf(a) = LenOf(b) /\ Elements(a) = Elements(b)
=============================================================================

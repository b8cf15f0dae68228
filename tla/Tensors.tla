------------------------------ MODULE Tensors -------------------------------
(***************************************************************************)
(* The numeric operations of vector.h.  They read and write doubles        *)
(* whatever the kind of the vectors, promote an integer target to floats,  *)
(* and stop at the first element that is no number.  The answer of an      *)
(* operation is [v, ret]: the target and the value, Error when it fails.   *)
(***************************************************************************)
EXTENDS Vectors, SequencesExt

Error == <<"err", 0>>
Done == <<"vec", 0>>                      \* the operation returns its target
Flo(n) == <<"flo", n>>

\* vec_read_double, and whether the element is a number.
Readable(v, i) == IsNumber(BoxedAt(v, i))
At(v, i) == IF Readable(v, i) THEN BoxedAt(v, i)[2] ELSE 0
AllReadable(v) == \A i \in 0 .. LenOf(v) - 1 : Readable(v, i)
\* vec_write_double.
Write(v, i, x) == [v EXCEPT !.cells[v.start + i + 1] = Cell(v.kind, Flo(x))]
Sum(n, term(_)) == FoldLeft(LAMBDA s, i : s + term(i - 1), 0, [i \in 1 .. n |-> i])

\* The loop the in-place operations share, over a target that floats may be
\* written to: element i becomes new(i), up to the first unreadable one.
InPlace(y, readable(_), new(_)) ==
  LET bad == {i \in 0 .. LenOf(y) - 1 : ~readable(i)}
      stop == IF bad = {} THEN LenOf(y) ELSE Min(bad)
  IN [v |-> FoldLeft(LAMBDA v, i : Write(v, i - 1, new(i - 1)), y, [i \in 1 .. stop |-> i]),
      ret |-> IF bad = {} THEN Done ELSE Error]
Refused(v) == [v |-> v, ret |-> Error]

Axpy(y, a, x) ==
  IF LenOf(y) # LenOf(x) THEN Refused(y)
  ELSE LET w == PromoteToFloat(y)
       IN InPlace(w, LAMBDA i : Readable(w, i) /\ Readable(x, i), LAMBDA i : At(w, i) + a * At(x, i))
Scale(v, a) ==
  LET w == PromoteToFloat(v) IN InPlace(w, LAMBDA i : Readable(w, i), LAMBDA i : At(w, i) * a)
\* vec-add!, vec-sub! and vec-mul!.
Binary(y, op, x) ==
  IF LenOf(y) # LenOf(x) THEN Refused(y)
  ELSE LET w == PromoteToFloat(y)
       IN InPlace(w, LAMBDA i : Readable(w, i) /\ Readable(x, i),
                  LAMBDA i : CASE op = "vec-add!" -> At(w, i) + At(x, i)
                               [] op = "vec-sub!" -> At(w, i) - At(x, i)
                               [] op = "vec-mul!" -> At(w, i) * At(x, i))
CountLe(c, s, lim) ==
  IF LenOf(c) # LenOf(s) THEN Refused(c)
  ELSE LET w == PromoteToFloat(c)
       IN InPlace(w, LAMBDA i : Readable(w, i) /\ Readable(s, i),
                  LAMBDA i : At(w, i) + IF At(s, i) <= lim THEN 1 ELSE 0)
Fill(v, a) == InPlace(PromoteToFloat(v), LAMBDA i : TRUE, LAMBDA i : a)
\* vec-relu! writes only the elements it changes.
Relu(v) ==
  LET w == PromoteToFloat(v)
      bad == {i \in 0 .. LenOf(w) - 1 : ~Readable(w, i)}
      stop == IF bad = {} THEN LenOf(w) ELSE Min(bad)
  IN [v |-> FoldLeft(LAMBDA u, i : IF At(w, i - 1) < 0 THEN Write(u, i - 1, 0) ELSE u,
                     w, [i \in 1 .. stop |-> i]),
      ret |-> IF bad = {} THEN Done ELSE Error]
\* vec-exp!, vec-sigmoid! and vec-tanh!: f is the function they apply.
Activate(v, f) ==
  LET w == PromoteToFloat(v) IN InPlace(w, LAMBDA i : Readable(w, i), LAMBDA i : f[At(w, i)])
\* vec-copy!: cell by cell when the kinds agree, else through boxes, which
\* may promote the target on the way.
CopyInto(d, s) ==
  IF LenOf(d) # LenOf(s) THEN Refused(d)
  ELSE [v |-> FoldLeft(LAMBDA v, i : StoreAt(v, i - 1, BoxedAt(s, i - 1)), d, [i \in 1 .. LenOf(d) |-> i]),
        ret |-> Done]
\* vec-from-blob!.
FromBlob(v, bytes, off, scale) ==
  IF off < 0 \/ off + LenOf(v) > Len(bytes) THEN Refused(v)
  ELSE InPlace(PromoteToFloat(v), LAMBDA i : TRUE, LAMBDA i : scale * bytes[off + i + 1])

-----------------------------------------------------------------------------
(* Reductions.                                                             *)

Dot(a, b) ==
  IF LenOf(a) # LenOf(b) \/ ~AllReadable(a) \/ ~AllReadable(b) THEN Error
  ELSE Flo(Sum(LenOf(a), LAMBDA i : At(a, i) * At(b, i)))
SumOf(v) == IF AllReadable(v) THEN Flo(Sum(LenOf(v), LAMBDA i : At(v, i))) ELSE Error

\* The index of the first largest (sign 1) or smallest (sign -1) element.
BestIndex(v, sign) ==
  FoldLeft(LAMBDA b, i : IF b < 0 \/ sign * At(v, i - 1) > sign * At(v, b) THEN i - 1 ELSE b,
           -1, [i \in 1 .. LenOf(v) |-> i])
ArgMax(v) == IF AllReadable(v) THEN <<"fix", BestIndex(v, 1)>> ELSE Error
ArgMin(v) == IF AllReadable(v) THEN <<"fix", BestIndex(v, -1)>> ELSE Error
MaxOf(v) == IF LenOf(v) = 0 \/ ~AllReadable(v) THEN Error ELSE Flo(At(v, BestIndex(v, 1)))
MinOf(v) == IF LenOf(v) = 0 \/ ~AllReadable(v) THEN Error ELSE Flo(At(v, BestIndex(v, -1)))

-----------------------------------------------------------------------------
(* Matrices, stored row after row.                                         *)

Floats(xs) == [kind |-> "f64", cap |-> Len(xs), start |-> 0, end |-> Len(xs),
               cells |-> [i \in 1 .. Len(xs) |-> <<"f64", xs[i]>>]]
RowDot(a, i, x) == Sum(LenOf(x), LAMBDA j : At(a, i * LenOf(x) + j) * At(x, j))

MatVec(a, x) ==
  LET n == LenOf(x)
  IN IF n = 0 \/ LenOf(a) % n # 0 \/ ~AllReadable(a) \/ ~AllReadable(x) THEN Error
     ELSE <<"vec", Floats([i \in 1 .. LenOf(a) \div n |-> RowDot(a, i - 1, x)])>>

\* The optional bias is << >> or <<vector>>.
BiasAt(bias, i) == IF bias = << >> THEN 0 ELSE At(bias[1], i)
BiasReadable(bias, i) == bias = << >> \/ Readable(bias[1], i)
Misshapen(out, a, x, bias) ==
  \/ LenOf(out) = 0 \/ LenOf(x) = 0 \/ LenOf(a) # LenOf(out) * LenOf(x)
  \/ bias # << >> /\ LenOf(bias[1]) # LenOf(out)
\* The sums are stored as raw doubles, whatever the target holds.
Stored(w, count, sum(_)) ==
  [w EXCEPT !.cells = [c \in 1 .. w.cap |->
     IF c \in w.start + 1 .. w.start + count THEN <<"f64", sum(c - w.start - 1)>> ELSE w.cells[c]]]

\* mat-vec!: row by row, the row that could not be read included.
MatVecInto(out, a, x, bias) ==
  LET n == LenOf(x)
      bad == {i \in 0 .. LenOf(out) - 1 : ~BiasReadable(bias, i)
                \/ \E j \in 0 .. n - 1 : ~Readable(a, i * n + j) \/ ~Readable(x, j)}
  IN IF Misshapen(out, a, x, bias) THEN Refused(out)
     ELSE [v |-> Stored(PromoteToFloat(out), IF bad = {} THEN LenOf(out) ELSE Min(bad) + 1,
                        LAMBDA i : BiasAt(bias, i) + RowDot(a, i, x)),
           ret |-> IF bad = {} THEN Done ELSE Error]
\* mat-vec-t!: every sum is open until the last row is in.
MatVecTInto(out, a, x, bias) ==
  LET n == LenOf(out)
      bad == {i \in 0 .. LenOf(x) - 1 : ~Readable(x, i) \/ \E j \in 0 .. n - 1 : ~Readable(a, i * n + j)}
      biased == \A j \in 0 .. n - 1 : BiasReadable(bias, j)
      rows == CASE ~biased -> 0 [] bad = {} -> LenOf(x) [] OTHER -> Min(bad) + 1
  IN IF Misshapen(out, a, x, bias) THEN Refused(out)
     ELSE [v |-> Stored(PromoteToFloat(out), n,
                        LAMBDA j : BiasAt(bias, j) + Sum(rows, LAMBDA i : At(x, i) * At(a, i * n + j))),
           ret |-> IF biased /\ bad = {} THEN Done ELSE Error]
\* vec-ger!: A[i][j] += alpha * u[i] * v[j], to the end of the row that
\* could not be read.
Ger(a, alpha, u, x) ==
  LET n == LenOf(x)
      w == PromoteToFloat(a)
      bad == {i \in 0 .. LenOf(u) - 1 : ~Readable(u, i)
                \/ \E j \in 0 .. n - 1 : ~Readable(x, j) \/ ~Readable(w, i * n + j)}
      rows == IF bad = {} THEN LenOf(u) ELSE Min(bad) + 1
  IN IF Misshapen(u, a, x, << >>) THEN Refused(a)
     ELSE [v |-> FoldLeft(LAMBDA v, c : Write(v, c - 1, At(w, c - 1) + alpha * At(u, (c - 1) \div n)
                                                                         * At(x, (c - 1) % n)),
                          w, [c \in 1 .. rows * n |-> c]),
           ret |-> IF bad = {} THEN Done ELSE Error]
\* mat-mul of an m x k matrix and a k x n one.
MatMul(a, b, k) ==
  LET m == LenOf(a) \div k
      n == LenOf(b) \div k
      entry(c) == Sum(k, LAMBDA p : At(a, (c \div n) * k + p) * At(b, p * n + (c % n)))
  IN IF k <= 0 \/ LenOf(a) % k # 0 \/ LenOf(b) % k # 0 \/ ~AllReadable(a) \/ ~AllReadable(b) THEN Error
     ELSE <<"vec", Floats([c \in 1 .. m * n |-> entry(c - 1)])>>
=============================================================================

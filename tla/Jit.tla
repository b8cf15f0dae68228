-------------------------------- MODULE Jit ---------------------------------
(***************************************************************************)
(* The native code of jit_common.h and jit_amd64.h.  jit_compile looks for *)
(* one of a fixed list of shapes in the bytecode of a function and emits a *)
(* kernel for it: a loop over machine words that answers a value, or NULL  *)
(* to have the bytecode run after all, on the frame the kernel leaves.     *)
(*                                                                         *)
(* A kernel takes an activation m that has not started and answers what    *)
(* the operators of Evaluator answer, a value and a store.  Vectors and    *)
(* floats are not values of this model, nor are the shapes over them.      *)
(***************************************************************************)
EXTENDS Evaluator

Deopt == <<"null">>

-----------------------------------------------------------------------------
(* Reading a shape.                                                        *)

Code(f) == f[2].code.code
CmpFix == {"SLOT_GT_FIX", "SLOT_LT_FIX", "SLOT_GE_FIX", "SLOT_LE_FIX"}
CmpIsFix == CmpFix \cup {"SLOT_IS_FIX"}
CmpOps == {"LT", "GT", "LE", "GE"}
StepFix == {"SLOT_ADD_FIX", "SLOT_SUB_FIX"}

\* The opcodes of f, one after the other, are among those of the shape.
Fits(f, shape) ==
  /\ Len(Code(f)) = Len(shape)
  /\ \A pc \in DOMAIN shape : Code(f)[pc][1] \in shape[pc]
Op1(f, pc) == Code(f)[pc][1]
Arg1(f, pc) == IF Len(Code(f)[pc]) > 1 THEN Code(f)[pc][2] ELSE 0
Arg2(f, pc) == Code(f)[pc][3]
ConstAt(f, pc) == f[2].code.consts[Arg1(f, pc)]
\* The instructions at pcs work on one slot of the frame (env_slot_off_checked).
OnSlot(f, pcs) == \E s \in 1 .. InlineSlots : \A pc \in pcs : Arg1(f, pc) = s
ConstIs(f, k, s) == f[2].code.consts[k] = Sym(s)
CallsSelf(f, pc) == f[2].name # "" /\ ConstIs(f, Arg1(f, pc), f[2].name)

Delta(f, pc) == IF Op1(f, pc) = "SLOT_ADD_FIX" THEN Arg2(f, pc) ELSE -Arg2(f, pc)
Holds(op, a, b) == CASE op \in {"SLOT_LT_FIX", "LT"} -> a < b [] op \in {"SLOT_GT_FIX", "GT"} -> a > b
                     [] op \in {"SLOT_LE_FIX", "LE"} -> a <= b [] op \in {"SLOT_GE_FIX", "GE"} -> a >= b
                     [] op = "SLOT_IS_FIX" -> a = b

\* A word register: int64_t arithmetic that wraps.
Word(n) == LET w == 2 * (WordMax + 1)
               r == n % w
           IN IF r > WordMax THEN r - w ELSE r
InSlot(m, j, v) == [m.st EXCEPT !.env[m.k].slots[j][2] = v]

-----------------------------------------------------------------------------
(* Counter loops.                                                          *)

MatchSimpleTailLoop(f) ==
  /\ Fits(f, <<CmpIsFix, {"BR_IF_FALSE"}, StepFix, {"TAIL_SELF"}, {"JUMP"}, {"LOAD_SLOT"}, {"RET"}>>)
  /\ Arg1(f, 4) = 1 /\ OnSlot(f, {1, 3, 6})
MatchSimpleTailLoopEq(f) ==
  /\ Fits(f, <<{"SLOT_IS_FIX"}, {"BR_IF_FALSE"}, {"LOAD_SLOT"}, {"JUMP"}, StepFix, {"TAIL_SELF"}, {"RET"}>>)
  /\ Arg1(f, 6) = 1 /\ OnSlot(f, {1, 3, 5})
MatchWideCounterLoop(f) ==
  /\ Fits(f, <<{"LOAD_SLOT"}, {"LOAD_CONST"}, CmpOps, {"BR_IF_FALSE"}, StepFix, {"TAIL_SELF"}, {"JUMP"}, {"LOAD_SLOT"}, {"RET"}>>)
  /\ Arg1(f, 6) = 1 /\ OnSlot(f, {1, 5, 8}) /\ IsFix(ConstAt(f, 2))

\* From c by steps of d to the first number of exits, or the last one a
\* fixnum holds (jo).
Counted(c, d, exits) ==
  LET at(j) == c + j * d
      last == Min({j \in 0 .. 2 * FixMax + 2 : at(j) \in exits \/ ~FixFits(at(j + 1))})
  IN [n |-> at(last), out |-> at(last) \in exits]
\* The kernel of all three: the counter is stored at every turn.
CounterLoop(m, j, d, exits) ==
  LET v == SlotVal(m, j)
      r == Counted(v[2], d, exits)
  IN IF ~IsFix(v) THEN R(Deopt, m.st)
     ELSE R(IF r.out THEN Fix(r.n) ELSE Deopt, InSlot(m, j, Fix(r.n)))

\* The exit branch of a comparison: its inverse, but je for SLOT_IS_FIX.
Exits(f, pc, n) == IF Op1(f, pc) = "SLOT_IS_FIX" THEN n = Arg2(f, pc) ELSE ~Holds(Op1(f, pc), n, Arg2(f, pc))
Fixnums == FixMin .. FixMax
SimpleTailLoop(m) == CounterLoop(m, Arg1(m.fn, 1), Delta(m.fn, 3), {n \in Fixnums : Exits(m.fn, 1, n)})
SimpleTailLoopEq(m) == CounterLoop(m, Arg1(m.fn, 1), Delta(m.fn, 5), {Arg2(m.fn, 1)})
WideCounterLoop(m) ==
  CounterLoop(m, Arg1(m.fn, 1), Delta(m.fn, 5),
              {n \in Fixnums : ~Holds(Op1(m.fn, 3), n, ConstAt(m.fn, 2)[2])})

-----------------------------------------------------------------------------
(* Calls out of a kernel.                                                  *)

\* jit_call_global1_value: the callee is looked up as CALL_GLOBAL does.
CallFound1(callee, v, k) == IF IsErr(callee.v) THEN callee ELSE VmInvokeValues(callee.v, <<v>>, k, callee.st)
CallGlobal1(m, pc, v, st) == CallFound1(LookupCached([m EXCEPT !.st = st], Arg1(m.fn, pc)), v, m.k)

MatchTailLoopWithCall(f) ==
  /\ Fits(f, <<CmpIsFix, {"BR_IF_FALSE"}, {"LOAD_FIX"}, {"CALL_GLOBAL"}, {"POP"}, StepFix, {"TAIL_SELF"}, {"JUMP"},
               {"LOAD_SLOT"}, {"RET"}>>)
  /\ Arg2(f, 4) = 1 /\ Arg1(f, 7) = 1 /\ OnSlot(f, {1, 6, 9})

\* The answer of the call is dropped, unless it is an error; the slot is read
\* again after it.  An overflow leaves the call made.
RECURSIVE TailLoopWithCall(_)
StepAfterCall(m, j, next) ==
  IF ~FixFits(next) THEN R(Deopt, m.st) ELSE TailLoopWithCall([m EXCEPT !.st = InSlot(m, j, Fix(next))])
AfterCall(m, j, r) ==
  IF IsErr(r.v) THEN r
  ELSE StepAfterCall([m EXCEPT !.st = r.st], j, SlotVal([m EXCEPT !.st = r.st], j)[2] + Delta(m.fn, 6))
TailLoopTurn(m, j, v) ==
  IF ~IsFix(v) THEN R(Deopt, m.st)
  ELSE IF Exits(m.fn, 1, v[2]) THEN R(v, m.st)
  ELSE AfterCall(m, j, CallGlobal1(m, 4, Fix(Arg1(m.fn, 3)), m.st))
TailLoopWithCall(m) == TailLoopTurn(m, Arg1(m.fn, 1), SlotVal(m, Arg1(m.fn, 1)))

-----------------------------------------------------------------------------
(* Recursions folded into loops.                                           *)

MatchRecurseAddTwo(f) ==
  /\ Fits(f, <<CmpIsFix, {"BR_IF_FALSE"}, {"LOAD_SLOT"}, {"JUMP"}, StepFix, {"CALL_GLOBAL"}, StepFix, {"CALL_GLOBAL"},
               {"ADD"}, {"RET"}>>)
  /\ Arg2(f, 6) = 1 /\ Arg2(f, 8) = 1 /\ OnSlot(f, {1, 3, 5, 7})
IsFibLike(f) ==
  /\ CallsSelf(f, 6) /\ CallsSelf(f, 8) /\ Op1(f, 1) # "SLOT_IS_FIX"
  /\ {Delta(f, 5), Delta(f, 7)} = {-1, -2}

FibFoldMut(m) ==   \* one turn too few
  LET f == m.fn
      v == SlotVal(m, Arg1(f, 1))
      K == Arg2(f, 1)
      turn(ab, i) == <<ab[2], Word(ab[1] + ab[2])>>
      b == FoldLeft(turn, <<K - 2, K - 1>>, [i \in 1 .. v[2] - K |-> i])[2]
  IN R(CASE ~IsFix(v) -> Deopt
         [] IsFix(v) /\ Holds(Op1(f, 1), v[2], K) -> v
         [] OTHER -> IF FixFits(b) THEN Fix(b) ELSE Deopt, m.st)

\* f(n) = f(n-1) + f(n-2) from the seeds K-2 and K-1, in words that wrap;
\* only the last sum is checked.
FibFold(m) ==
  LET f == m.fn
      v == SlotVal(m, Arg1(f, 1))
      K == Arg2(f, 1)
      turn(ab, i) == <<ab[2], Word(ab[1] + ab[2])>>
      b == FoldLeft(turn, <<K - 2, K - 1>>, [i \in 1 .. v[2] - K + 1 |-> i])[2]
  IN R(CASE ~IsFix(v) -> Deopt
         [] IsFix(v) /\ Holds(Op1(f, 1), v[2], K) -> v
         [] OTHER -> IF FixFits(b) THEN Fix(b) ELSE Deopt, m.st)

\* Two calls: an answer that is no fixnum is the answer of the kernel.
Sum2(a, r) == IF ~IsFix(r.v) THEN r ELSE R(IF FixFits(a[2] + r.v[2]) THEN Fix(a[2] + r.v[2]) ELSE Deopt, r.st)
SecondCall(m, v, r) ==
  IF ~IsFix(r.v) THEN r ELSE Sum2(r.v, CallGlobal1(m, 8, MakeFix(v[2] + Delta(m.fn, 7)), r.st))
RecurseAddTwo(m) ==
  LET f == m.fn
      v == SlotVal(m, Arg1(f, 1))
  IN CASE ~IsFix(v) -> R(Deopt, m.st)
       [] IsFix(v) /\ Holds(Op1(f, 1), v[2], Arg2(f, 1)) -> R(v, m.st)
       [] OTHER -> SecondCall(m, v, CallGlobal1(m, 6, MakeFix(v[2] + Delta(f, 5)), m.st))

MatchRecurseMulOne(f) ==
  /\ Fits(f, <<CmpFix, {"BR_IF_FALSE"}, {"LOAD_FIX"}, {"JUMP"}, {"LOAD_SLOT"}, StepFix, {"CALL_GLOBAL"}, {"MUL"}, {"RET"}>>)
  /\ Arg2(f, 7) = 1 /\ OnSlot(f, {1, 5, 6})
\* The product from n towards the base, in words; an overflow is jo.
RECURSIVE Product(_, _, _)
Product(f, acc, n) ==
  IF Holds(Op1(f, 1), n, Arg2(f, 1)) THEN IF FixFits(acc) THEN Fix(acc) ELSE Deopt
  ELSE IF ~WordFits(acc * n) THEN Deopt ELSE Product(f, acc * n, n + Delta(f, 6))
RecurseMulOne(m) ==
  LET v == SlotVal(m, Arg1(m.fn, 1))
  IN R(IF IsFix(v) THEN Product(m.fn, Arg1(m.fn, 3), v[2]) ELSE Deopt, m.st)

\* (let s K (for i I n (= s (+ s S)))): the offsets are matched too.
MatchForLoopInc(f) ==
  /\ Fits(f, <<{"LOAD_FIX"}, {"BIND_SLOT_NAMED"}, {"LOAD_FIX"}, {"BIND_SLOT_NAMED"}, {"LOAD_SLOT"}, {"BIND_SLOT"}, {"LOAD_CONST"},
               {"SLOT_LE_SLOT"}, {"BR_IF_FALSE"}, {"POP"}, StepFix, {"STORE_SLOT"}, {"LOAD_SLOT"}, {"LOAD_FIX"}, {"ADD"},
               {"STORE_SLOT"}, {"POP"}, {"JUMP"}, {"UNBIND_SLOT"}, {"UNBIND_SLOT"}, {"UNBIND_SLOT"}, {"RET"}>>)
  /\ OnSlot(f, {2, 11, 12}) /\ OnSlot(f, {4, 8, 13, 16}) /\ Arg2(f, 8) = Arg1(f, 6)
  /\ Arg1(f, 14) = 1 /\ OnSlot(f, {5})
ForLoopInc(m) ==
  LET f == m.fn
      v == SlotVal(m, Arg1(f, 5))
      turns == Max({0, v[2] - Arg1(f, 3) + 1})
      s == Arg1(f, 1) + turns * Delta(f, 11)
  IN R(IF IsFix(v) /\ FixFits(s) THEN Fix(s) ELSE Deopt, m.st)

-----------------------------------------------------------------------------
(* Leaves.                                                                 *)

MatchModeqLeaf(f) == Fits(f, <<{"LOAD_SLOT"}, {"LOAD_SLOT"}, {"MOD"}, {"LOAD_FIX"}, {"IS"}, {"RET"}>>)
ModeqLeaf(m) ==
  LET a == SlotVal(m, Arg1(m.fn, 1))
      b == SlotVal(m, Arg1(m.fn, 2))
  IN R(IF IsFix(a) /\ IsFix(b) /\ b[2] # 0 THEN Bool(Rem(a[2], b[2]) = Arg1(m.fn, 4)) ELSE Deopt, m.st)

LeafOps == {"ADD", "SUB", "MUL"}
MatchLeafConst(f) == Fits(f, <<{"LOAD_FIX"}, {"RET"}>>)
MatchLeafSlotOp(f) == Fits(f, <<{"LOAD_SLOT"}, {"LOAD_FIX"}, LeafOps, {"RET"}>>)
MatchLeafSlotFix(f) == Fits(f, <<StepFix, {"RET"}>>)
Leaf(m) ==
  LET f == m.fn
      v == SlotVal(m, Arg1(f, 1))
      n == CASE MatchLeafSlotFix(f) -> v[2] + Delta(f, 1)
             [] MatchLeafSlotOp(f) /\ Op1(f, 3) = "ADD" -> v[2] + Arg1(f, 2)
             [] MatchLeafSlotOp(f) /\ Op1(f, 3) = "SUB" -> v[2] - Arg1(f, 2)
             [] OTHER -> v[2] * Arg1(f, 2)
  IN R(IF MatchLeafConst(f) THEN Fix(Arg1(f, 1)) ELSE IF IsFix(v) /\ FixFits(n) THEN Fix(n) ELSE Deopt, m.st)

-----------------------------------------------------------------------------
(* Recursions that call their own entry: the slots of the frame are the    *)
(* arguments of every call, written in place.                              *)

\* The code without the targets of its branches, which no matcher reads.
Plain(f) == [pc \in DOMAIN Code(f) |->
               IF Op1(f, pc) \in {"BR_IF_FALSE", "JUMP"} THEN <<Op1(f, pc)>> ELSE Code(f)[pc]]
Branch == <<"BR_IF_FALSE">>
Skip == <<"JUMP">>

MatchAckermann(f) ==
  /\ Len(Code(f)) = 16
  /\ LET m == Arg1(f, 1) n == Arg1(f, 3) g == Arg1(f, 14) IN
     Plain(f) = <<<<"SLOT_IS_FIX", m, 0>>, Branch, <<"SLOT_ADD_FIX", n, 1>>, Skip, <<"SLOT_IS_FIX", n, 0>>, Branch,
                 <<"SLOT_SUB_FIX", m, 1>>, <<"LOAD_FIX", 1>>, <<"TAIL_SELF", 2>>, Skip,
                 <<"SLOT_SUB_FIX", m, 1>>, <<"LOAD_SLOT", m>>, <<"SLOT_SUB_FIX", n, 1>>, <<"CALL_GLOBAL", g, 2>>,
                 <<"TAIL_SELF", 2>>, <<"RET">>>>
  /\ CallsSelf(f, 14)
\* n + 1 is not checked: it wraps past the largest fixnum.
RECURSIVE Ack(_, _)
Ack(a, b) == IF a = Fix(0) THEN MakeFix(b[2] + 1)
             ELSE IF b = Fix(0) THEN Ack(MakeFix(a[2] - 1), Fix(1))
             ELSE Ack(MakeFix(a[2] - 1), Ack(a, MakeFix(b[2] - 1)))
Ackermann(m) ==
  LET a == SlotVal(m, Arg1(m.fn, 1))
      b == SlotVal(m, Arg1(m.fn, 3))
  IN R(IF IsFix(a) /\ IsFix(b) THEN Ack(a, b) ELSE Deopt, m.st)

MatchTak(f) ==
  /\ Len(Code(f)) = 21
  /\ LET x == Arg1(f, 2) y == Arg1(f, 1) z == Arg1(f, 6) a == Arg1(f, 11) b == Arg1(f, 15) c == Arg1(f, 19) IN
     Plain(f) = <<<<"LOAD_SLOT", y>>, <<"LOAD_SLOT", x>>, <<"LT">>, <<"NOT">>, Branch, <<"LOAD_SLOT", z>>, Skip,
                 <<"SLOT_SUB_FIX", x, 1>>, <<"LOAD_SLOT", y>>, <<"LOAD_SLOT", z>>, <<"CALL_GLOBAL", a, 3>>,
                 <<"SLOT_SUB_FIX", y, 1>>, <<"LOAD_SLOT", z>>, <<"LOAD_SLOT", x>>, <<"CALL_GLOBAL", b, 3>>,
                 <<"SLOT_SUB_FIX", z, 1>>, <<"LOAD_SLOT", x>>, <<"LOAD_SLOT", y>>, <<"CALL_GLOBAL", c, 3>>,
                 <<"TAIL_SELF", 3>>, <<"RET">>>>
  /\ \A pc \in {11, 15, 19} : CallsSelf(f, pc)
\* The answer and the slots <<x, y, z>> it leaves.  An answer that is no
\* fixnum leaves every call at once, NULL too, with the slots as they are.
RECURSIVE TakFrom(_)
TakFrom(q) ==
  LET Down(v) == MakeFix(v[2] - 1)
      t1 == TakFrom(<<Down(q[1]), q[2], q[3]>>)
      t2 == TakFrom(<<Down(q[2]), q[3], q[1]>>)
      t3 == TakFrom(<<Down(q[3]), q[1], q[2]>>)
  IN CASE ~ (IsFix(q[1]) /\ IsFix(q[2])) -> [v |-> Deopt, q |-> q]
       [] IsFix(q[1]) /\ IsFix(q[2]) /\ ~ (q[2][2] < q[1][2]) -> [v |-> q[3], q |-> q]
       [] OTHER -> IF ~ IsFix(t1.v) THEN t1 ELSE IF ~ IsFix(t2.v) THEN t2 ELSE IF ~ IsFix(t3.v) THEN t3
                   ELSE TakFrom(<<t1.v, t2.v, t3.v>>)
Tak(m) ==
  LET js == <<Arg1(m.fn, 2), Arg1(m.fn, 1), Arg1(m.fn, 6)>>
      r == TakFrom([k \in 1 .. 3 |-> SlotVal(m, js[k])])
  IN R(r.v, FoldLeft(LAMBDA st, k : InSlot([m EXCEPT !.st = st], js[k], r.q[k]), m.st, <<1, 2, 3>>))

-----------------------------------------------------------------------------
(* Walks of a list.  A walk that drops the last reference of a node leaves *)
(* too; the lists of this model have other owners than the frame.          *)

MatchIsPrimeGiven(f) ==
  /\ Len(Code(f)) = 19
  /\ LET acc == Arg1(f, 1) i == Arg1(f, 6) t == Arg1(f, 4) n == Arg1(f, 13) IN
     Plain(f) = <<<<"LOAD_SLOT", acc>>, <<"NOT">>, Branch, <<"LOAD_GLOBAL", t>>, Skip,
                    <<"LOAD_SLOT", i>>, <<"LOAD_SLOT", acc>>, <<"CAR">>, <<"MOD">>, <<"LOAD_FIX", 0>>, <<"IS">>, Branch,
                    <<"LOAD_GLOBAL", n>>, Skip,
                    <<"LOAD_SLOT", acc>>, <<"CDR">>, <<"LOAD_SLOT", i>>, <<"TAIL_SELF", 2>>, <<"RET">>>>
  /\ ConstIs(f, Arg1(f, 4), "t") /\ ConstIs(f, Arg1(f, 13), "nil")
\* The slot holds what is left of the list.
RECURSIVE IsPrimeGiven(_)
IsPrimeGiven(m) ==
  LET acc == SlotVal(m, Arg1(m.fn, 1))
      i == SlotVal(m, Arg1(m.fn, 6))
  IN CASE acc = Nil -> R(T, m.st)
       [] acc # Nil /\ (~ IsFix(Car(acc)) \/ ~ IsFix(i) \/ Car(acc) = Fix(0)) -> R(Deopt, m.st)
       [] OTHER -> IF Rem(i[2], Car(acc)[2]) = 0 THEN R(Nil, m.st)
                   ELSE IsPrimeGiven([m EXCEPT !.st = InSlot(m, Arg1(m.fn, 1), Cdr(acc))])

MatchSafeP(f) ==
  /\ Len(Code(f)) = 36
  /\ LET qs == Arg1(f, 1) c == Arg1(f, 6) off == Arg1(f, 14)
         Conflict(test, pc) ==
           test \o <<<<"LOAD_SLOT", qs>>, <<"CAR">>, <<"IS">>, Branch, <<"LOAD_GLOBAL", Arg1(f, pc)>>, Skip>>
         Diagonal(op) == <<<<"LOAD_SLOT", c>>, <<"LOAD_SLOT", off>>, <<op>>>>
     IN Plain(f) = <<<<"LOAD_SLOT", qs>>, <<"NOT">>, Branch, <<"LOAD_GLOBAL", Arg1(f, 4)>>, Skip>>
                   \o Conflict(<<<<"LOAD_SLOT", c>>>>, 11) \o Conflict(Diagonal("ADD"), 20)
                   \o Conflict(Diagonal("SUB"), 29)
                   \o <<<<"LOAD_SLOT", c>>, <<"LOAD_SLOT", qs>>, <<"CDR">>, <<"SLOT_ADD_FIX", off, 1>>,
                          <<"TAIL_SELF", 3>>, <<"RET">>>>
  /\ ConstIs(f, Arg1(f, 4), "t") /\ \A pc \in {11, 20, 29} : ConstIs(f, Arg1(f, pc), "nil")
\* The column is not checked: one that is no fixnum conflicts with none.
RECURSIVE SafeP(_)
SafeP(m) ==
  LET f == m.fn
      qs == SlotVal(m, Arg1(f, 1))
      c == SlotVal(m, Arg1(f, 6))
      off == SlotVal(m, Arg1(f, 14))
      Meets(d) == IsFix(c) /\ MakeFix(c[2] + d) = Car(qs)
      walked == InSlot(m, Arg1(f, 1), Cdr(qs))
  IN CASE qs = Nil -> R(T, m.st)
       [] qs # Nil /\ ~ IsFix(Car(qs)) -> R(Deopt, m.st)
       [] OTHER -> IF c = Car(qs) THEN R(Nil, m.st)
                   ELSE IF ~ IsFix(off) THEN R(Deopt, m.st)
                   ELSE IF Meets(off[2]) \/ Meets(-off[2]) THEN R(Nil, m.st)
                   ELSE SafeP([m EXCEPT !.st = InSlot([m EXCEPT !.st = walked], Arg1(f, 14), MakeFix(off[2] + 1))])

-----------------------------------------------------------------------------
(* Kernels written in C.                                                   *)

\* The node of a cons onto a value that is false ends the list.
ConsNode(a, b) == IF IsTrue(b) THEN ConsVal(a, b) ELSE List(<<a>>)

MatchBuildIncCons(f) ==
  /\ Len(f[2].params) = 3
  /\ Code(f) = <<<<"LOAD_SLOT", 1>>, <<"LOAD_SLOT", 2>>, <<"GT">>, <<"BR_IF_FALSE", 2>>, <<"LOAD_SLOT", 3>>,
                 <<"JUMP", 6>>, <<"SLOT_ADD_FIX", 1, 1>>, <<"LOAD_SLOT", 2>>, <<"LOAD_SLOT", 1>>, <<"LOAD_SLOT", 3>>,
                 <<"CONS">>, <<"TAIL_SELF", 3>>, <<"RET">>>>
Counting(m) == LET i == SlotVal(m, 1)
                   n == SlotVal(m, 2)
               IN [k \in 1 .. Max({0, n[2] - i[2] + 1}) |-> Fix(i[2] + k - 1)]
Counts(m) == IsFix(SlotVal(m, 1)) /\ IsFix(SlotVal(m, 2))
BuildIncCons(m) ==
  R(IF Counts(m) THEN FoldLeft(LAMBDA out, i : ConsNode(i, out), SlotVal(m, 3), Counting(m)) ELSE Deopt, m.st)

MatchPredicateCons(f) ==
  /\ Len(f[2].params) = 3
  /\ Plain(f) = <<<<"LOAD_SLOT", 1>>, <<"LOAD_SLOT", 2>>, <<"GT">>, Branch, <<"LOAD_SLOT", 3>>, Skip,
                  <<"LOAD_SLOT", 3>>, <<"LOAD_SLOT", 1>>, <<"CALL_GLOBAL", 1, 2>>, Branch,
                  <<"SLOT_ADD_FIX", 1, 1>>, <<"LOAD_SLOT", 2>>, <<"LOAD_SLOT", 1>>, <<"LOAD_SLOT", 3>>, <<"CONS">>,
                  <<"TAIL_SELF", 3>>, Skip,
                  <<"SLOT_ADD_FIX", 1, 1>>, <<"LOAD_SLOT", 2>>, <<"LOAD_SLOT", 3>>, <<"TAIL_SELF", 3>>, <<"RET">>>>
\* The predicate is looked up once, before the loop.
Kept(acc, i, p) == IF IsErr(p.v) THEN p ELSE R(IF IsTrue(p.v) THEN ConsNode(i, acc) ELSE acc, p.st)
PredicateTurns(m, callee) ==
  IF ~ Counts(m) \/ IsErr(callee.v) THEN R(Deopt, m.st)
  ELSE FoldLeft(LAMBDA r, i : IF IsErr(r.v) THEN r ELSE Kept(r.v, i, VmInvokeValues(callee.v, <<r.v, i>>, m.k, r.st)),
                R(SlotVal(m, 3), callee.st), Counting(m))
PredicateConsLoop(m) == PredicateTurns(m, LookupCached(m, 1))

\* Two names make a solver: the code of try-cols is not looked at.
MatchNqueensSolve(f) ==
  /\ f[2].name = "solve" /\ Len(f[2].params) = 2
  /\ Code(f) = <<<<"LOAD_SLOT", 2>>, <<"LENGTH">>, <<"LOAD_SLOT", 1>>, <<"IS">>, <<"BR_IF_FALSE", 2>>,
                 <<"LOAD_FIX", 1>>, <<"JUMP", 6>>, <<"LOAD_GLOBAL", 1>>, <<"LOAD_SLOT", 1>>, <<"LOAD_FIX", 1>>,
                 <<"LOAD_SLOT", 2>>, <<"LOAD_FIX", 0>>, <<"TAIL_CALL", 4>>, <<"RET">>>>
  /\ ConstIs(f, 1, "try-cols")
Distance(a, b) == IF a < b THEN b - a ELSE a - b
Peaceful(q) == \A i, j \in DOMAIN q : i < j => q[i] # q[j] /\ Distance(q[i], q[j]) # j - i
\* The ways to complete the queens of the list, the last one placed first.
NqueensSolve(m) ==
  LET n == SlotVal(m, 1)
      qs == SlotVal(m, 2)
      cols == [k \in DOMAIN Elems(qs) |-> Reverse(Elems(qs))[k]]
      placed == [k \in DOMAIN cols |-> cols[k][2]]
      seeded == /\ IsFix(n) /\ n[2] \in 0 .. 32 /\ (IsTrue(qs) => Tag(qs) = "list" /\ ~ IsTrue(qs[3]))
                /\ Len(cols) <= n[2] /\ \A k \in DOMAIN cols : IsFix(cols[k])
                /\ \A k \in DOMAIN cols : placed[k] \in 1 .. n[2]
                /\ Peaceful(placed)
      Completes(q) == SubSeq(q, 1, Len(placed)) = placed /\ Peaceful(q)
  IN R(IF seeded THEN Fix(Cardinality({q \in [1 .. n[2] -> 1 .. n[2]] : Completes(q)})) ELSE Deopt, m.st)

-----------------------------------------------------------------------------
(* The numeric loop: any code of comparisons, steps and self calls over    *)
(* parameters that are fixnums, which no other shape took.                 *)

NlPool == 8   \* the general registers of the amd64 kernel
Loads == {"LOAD_SLOT", "LOAD_CONST", "LOAD_FIX"}
Jumps == {"BR_IF_FALSE", "BR_IF_TRUE"}
Shorter(s, n) == SubSeq(s, 1, Len(s) - n)
Ints(s) == Len(SelectSeq(s, LAMBDA c : c = "int"))

\* The classes on the operand stack after an instruction.
NlAfter(ins, s) ==
  CASE ins[1] \in Loads \cup StepFix -> Append(s, "int")
    [] ins[1] \in CmpFix -> Append(s, "bool")
    [] ins[1] \in CmpOps -> Append(Shorter(s, 2), "bool")
    [] ins[1] \in Jumps \cup {"RET"} -> Shorter(s, 1)
    [] ins[1] = "TAIL_SELF" -> Shorter(s, ins[2])
    [] OTHER -> s
\* What the strict pass of numloop_analyze takes: a comparison feeds a
\* branch, and a self call has an integer for each parameter.
NlTakes(f, ins, s) ==
  LET np == Len(f[2].params)
      Top2 == SubSeq(s, Len(s) - 1, Len(s))
  IN CASE ins[1] \in {"LOAD_SLOT"} \cup StepFix \cup CmpFix -> ins[2] <= np
       [] ins[1] = "LOAD_CONST" -> IsFix(f[2].code.consts[ins[2]])
       [] ins[1] \in {"LOAD_FIX", "JUMP"} -> TRUE
       [] ins[1] \in CmpOps -> Len(s) >= 2 /\ Top2 = <<"int", "int">>
       [] ins[1] \in Jumps -> s # << >> /\ Last(s) = "bool"
       [] ins[1] = "RET" -> s # << >> /\ Last(s) = "int"
       [] ins[1] = "TAIL_SELF" -> /\ ins[2] = np /\ Len(s) >= np
                                  /\ "bool" \notin ToSet(SubSeq(s, Len(s) - np + 1, Len(s)))
       [] OTHER -> FALSE
NlSuccs(f, pc) == LET op == Op1(f, pc) IN
  (IF op \in {"JUMP"} \cup Jumps THEN {pc + 1 + Arg1(f, pc)} ELSE {})
  \cup (IF op \in {"JUMP", "TAIL_SELF", "RET"} THEN {} ELSE {pc + 1})
\* The stacks with which control comes to each instruction; none where the
\* analysis does not come.
NlStacks(f) ==
  FoldLeft(LAMBDA at, pc :
             [q \in DOMAIN at |->
                at[q] \cup IF q > pc /\ q \in NlSuccs(f, pc)
                          THEN {NlAfter(Code(f)[pc], s) : s \in {x \in at[pc] : NlTakes(f, Code(f)[pc], x)}}
                          ELSE {}],
           [q \in DOMAIN Code(f) |-> IF q = 1 THEN {<< >>} ELSE {}],
           [pc \in DOMAIN Code(f) |-> pc])
MatchNumloop(f) ==
  LET np == Len(f[2].params)
      at == NlStacks(f)
  IN /\ np \in 1 .. InlineSlots
     /\ \A pc \in DOMAIN Code(f) : \A s \in at[pc] :
          /\ at[pc] = {s} /\ NlTakes(f, Code(f)[pc], s)
          /\ NlSuccs(f, pc) \subseteq DOMAIN Code(f)
          /\ np + Ints(NlAfter(Code(f)[pc], s)) <= NlPool
     /\ \E pc \in DOMAIN Code(f) : Op1(f, pc) = "TAIL_SELF" /\ at[pc] # {}

\* A comparison emits nothing: the next branch of the code emits the last one
\* before it.
NlPending(f, at, pc) == Max({q \in 1 .. pc - 1 : Op1(f, q) \in CmpOps \cup CmpFix /\ at[q] # {}})
\* One pass over the code, in registers: homes for the slots, temps for the
\* operands.  The frame is never written.
RECURSIVE NlRun(_, _, _, _, _)
NlRun(f, at, homes, temps, pc) ==
  LET ins == Code(f)[pc]
      s == CHOOSE x \in at[pc] : TRUE
      d == Ints(s)
      q == NlPending(f, at, pc)
      dq == Ints(CHOOSE x \in at[q] : TRUE)
      holds == IF Op1(f, q) \in CmpFix THEN Holds(Op1(f, q), homes[Arg1(f, q)], Arg2(f, q))
               ELSE Holds(Op1(f, q), temps[dq - 1], temps[dq])
      next == homes[ins[2]] + Delta(f, pc)
      Into(n) == NlRun(f, at, homes, [temps EXCEPT ![d + 1] = n], pc + 1)
  IN CASE ins[1] = "LOAD_SLOT" -> Into(homes[ins[2]])
       [] ins[1] = "LOAD_CONST" -> Into(ConstAt(f, pc)[2])
       [] ins[1] = "LOAD_FIX" -> Into(ins[2])
       [] ins[1] \in StepFix -> IF FixFits(next) THEN Into(next) ELSE Deopt
       [] ins[1] \in CmpOps \cup CmpFix -> NlRun(f, at, homes, temps, pc + 1)
       [] ins[1] \in Jumps ->
            NlRun(f, at, homes, temps, IF holds = (ins[1] = "BR_IF_TRUE") THEN pc + 1 + ins[2] ELSE pc + 1)
       [] ins[1] = "JUMP" -> NlRun(f, at, homes, temps, pc + 1 + ins[2])
       [] ins[1] = "TAIL_SELF" -> NlRun(f, at, [j \in 1 .. ins[2] |-> temps[j]], temps, 1)
       [] ins[1] = "RET" -> Fix(temps[d])
Numloop(m) ==
  LET f == m.fn
      np == Len(f[2].params)
      homes == [j \in 1 .. np |-> SlotVal(m, j)]
  IN R(IF \A j \in 1 .. np : IsFix(homes[j])
       THEN NlRun(f, NlStacks(f), [j \in 1 .. np |-> homes[j][2]], [j \in 1 .. NlPool |-> 0], 1) ELSE Deopt, m.st)

-----------------------------------------------------------------------------
(* jit_compile: the first shape that fits.                                 *)

\* The kernel of f run on an activation of it, or no kernel.
NoKernel == <<"miss">>
Kernel(f, m) ==
  CASE MatchBuildIncCons(f) -> BuildIncCons(m)
    [] MatchNqueensSolve(f) -> NqueensSolve(m)
    [] MatchSimpleTailLoop(f) -> SimpleTailLoop(m)
    [] MatchSimpleTailLoopEq(f) -> SimpleTailLoopEq(m)
    [] MatchWideCounterLoop(f) -> WideCounterLoop(m)
    [] MatchPredicateCons(f) -> PredicateConsLoop(m)
    [] MatchTailLoopWithCall(f) -> TailLoopWithCall(m)
    [] MatchRecurseAddTwo(f) -> IF IsFibLike(f) THEN FibFold(m) ELSE RecurseAddTwo(m)
    [] MatchRecurseMulOne(f) -> RecurseMulOne(m)
    [] MatchForLoopInc(f) -> ForLoopInc(m)
    [] MatchAckermann(f) -> Ackermann(m)
    [] MatchTak(f) -> Tak(m)
    [] MatchIsPrimeGiven(f) -> IsPrimeGiven(m)
    [] MatchSafeP(f) -> SafeP(m)
    [] MatchModeqLeaf(f) -> ModeqLeaf(m)
    [] MatchLeafConst(f) \/ MatchLeafSlotOp(f) \/ MatchLeafSlotFix(f) -> Leaf(m)
    [] OTHER -> IF MatchNumloop(f) THEN Numloop(m) ELSE R(NoKernel, m.st)

\* The call of a function of the top level: its kernel, and its bytecode on
\* the frame as the kernel leaves it when there is none or it gives up.
OrBytecode(m, r) == IF r.v \in {Deopt, NoKernel} THEN VmLoop([m EXCEPT !.st = r.st]) ELSE r
Jitted(m) == OrBytecode(m, IF m.fn[2].env = Root THEN Kernel(m.fn, m) ELSE R(NoKernel, m.st))
=============================================================================

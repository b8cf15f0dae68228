------------------------------ MODULE Compiler ------------------------------
(***************************************************************************)
(* The bytecode compiler of compiler_impl.h.  compile_lambda turns the     *)
(* body of a lambda into a sequence of instructions, or gives up, and then *)
(* the lambda stays with the tree walker.                                  *)
(*                                                                         *)
(* An instruction is a tuple <<opcode, operand, ...>>.  The compiler state *)
(* c threads through every operator:                                       *)
(*                                                                         *)
(*   c.code, c.consts   what has been emitted, and the constant pool       *)
(*   c.slots            the names of the live slots, "" for a hidden one   *)
(*   c.nlet             how many let/with/for bodies enclose this point    *)
(*   c.self, c.unsafe   the lambda's own name; whether its body may        *)
(*                      capture its frame or push a handler                *)
(*   c.failed           the compiler has given up (checked once, at the    *)
(*                      end: what is emitted after a failure is dropped)   *)
(*                                                                         *)
(* Offsets count instructions rather than bytes, and none overflows.       *)
(* User macros, vectors and type hints are not modelled.                   *)
(***************************************************************************)
EXTENDS Env

CONSTANTS
  MaxConsts,     \* entries of a constant pool: 256 in the code
  MaxPatches,    \* COND_MAX_PATCHES: forward branches of one form
  TailAware      \* builtins registered with LISPCMD_TAIL

Args(e) == Tail(Elems(e))
Arg(e, k) == Elems(e)[k + 1]
NArgs(e) == Len(Elems(e)) - 1
HasArg(e, k) == k <= NArgs(e)

Fail(c) == [c EXCEPT !.failed = TRUE]
FailIf(b, c) == IF b THEN Fail(c) ELSE c
Emit(c, ins) == [c EXCEPT !.code = Append(@, ins)]
Here(c) == Len(c.code)

\* A branch is emitted with offset 0 and patched when its target is known:
\* the offset is relative to the instruction after the branch.
PatchI16Mut(c, at, target) ==
  IF c.failed THEN c ELSE [c EXCEPT !.code[at][2] = target - at - 1]
PatchI16(c, at, target) ==
  IF c.failed THEN c ELSE [c EXCEPT !.code[at][2] = target - at]
\* Every branch of r.ends comes here.
PatchAll(r) == FoldSet(LAMBDA at, acc : PatchI16(acc, at, Here(acc)), r.c, r.ends)
\* Two arms that meet: c1 ends in the branch to the second, c2 in the jump
\* over it, c3 is the end of both.
PatchArms(c1, c2, c3) == PatchI16(PatchI16(c3, Here(c1), Here(c2)), Here(c2), Here(c3))

\* Constants are shared by identity: the immediates and the two singletons.
Shared(v) == Tag(v) \in {"fix", "nil", "t"}
AddConst(c, v) ==
  IF Shared(v) /\ \E k \in DOMAIN c.consts : c.consts[k] = v THEN c
  ELSE IF Len(c.consts) >= MaxConsts THEN Fail(c)
  ELSE [c EXCEPT !.consts = Append(@, v)]
ConstOf(c, v) == IF Shared(v) THEN CHOOSE k \in DOMAIN c.consts : c.consts[k] = v
                 ELSE Len(c.consts)

\* Intern v and emit op with the index of v as its first operand.
EmitConst(c, op, v, rest) == IF c.failed THEN c ELSE Emit(c, <<op, ConstOf(c, v)>> \o rest)
EmitWithConst(c, op, v, rest) == EmitConst(AddConst(c, v), op, v, rest)
EmitLoadConst(c, v) == EmitWithConst(c, "LOAD_CONST", v, << >>)
EmitNil(c) == EmitLoadConst(c, Nil)
EmitBindNamed(c, slot, s) == Emit(AddConst(c, Sym(s)), <<"BIND_SLOT_NAMED", slot, s>>)

\* The innermost slot of that name, 0 if there is none.
FindSlot(c, s) ==
  LET ks == {k \in DOMAIN c.slots : c.slots[k] = s}
  IN IF s = "" \/ ks = {} THEN 0 ELSE Max(ks)

NativeOps == {"+", "-", "*", "/", "<", ">", "<=", ">=", "is", "iso", "isnt", "mod"}
IsNativeOpSymbol(e) == IsSym(e) /\ e[2] \in NativeOps

\* (A OP B) becomes (OP A B) when A is a sub-expression, a number or a name
\* the compiler knows as a slot.
InfixRewrites(c, e) ==
  /\ NArgs(e) = 2
  /\ IsNativeOpSymbol(Arg(e, 1))
  /\ LET a == Arg(e, 0) IN \/ Tag(a) \in {"list", "nil", "fix"}
                           \/ IsSym(a) /\ FindSlot(c, a[2]) # 0
CompileInfixRewrite(e) == List(<<Arg(e, 1), Arg(e, 0), Arg(e, 2)>>)

OpForHead == [s \in {"+", "-", "*", "/", "mod", "<", ">", "<=", ">=", "is", "iso"} |->
  CASE s = "+" -> "ADD" [] s = "-" -> "SUB" [] s = "*" -> "MUL" [] s = "/" -> "DIV"
    [] s = "mod" -> "MOD" [] s = "<" -> "LT" [] s = ">" -> "GT" [] s = "<=" -> "LE"
    [] s = ">=" -> "GE" [] s = "is" -> "IS" [] s = "iso" -> "ISO"]

\* The instruction that fuses a slot, an operator and a small number.
Fusible == {"ADD", "SUB", "LT", "LE", "GT", "GE", "IS"}
FuseSlotFix(op) == "SLOT_" \o op \o "_FIX"
Imm(v) == IsFix(v) /\ -ImmMax - 1 <= v[2] /\ v[2] <= ImmMax

\* let_classify: the shape of the first argument of let.
IsLetName(v) == IsSym(v)
LetClassify(first) ==
  LET q == Elems(first) IN
  CASE IsSym(first) -> "single"
    [] Tag(first) = "nil" -> "flat"
    [] Tag(first) # "list" -> "bad"
    [] \A k \in DOMAIN q : Len(Elems(q[k])) >= 2 /\ IsLetName(q[k][2][1]) -> "clojure"
    [] \A k \in DOMAIN q : IsLetName(q[k]) -> "destructure"
    [] Len(q) % 2 = 0 /\ \A k \in DOMAIN q : k % 2 = 1 => IsLetName(q[k]) -> "flat"
    [] OTHER -> "bad"

\* The names and the values of a list of bindings.
FlatVars(q) == [k \in 1 .. Len(q) \div 2 |-> q[2 * k - 1]]
FlatVals(q) == [k \in 1 .. Len(q) \div 2 |-> q[2 * k]]
LetVars(shape, q) == IF shape = "clojure" THEN [k \in DOMAIN q |-> q[k][2][1]] ELSE FlatVars(q)
LetVals(shape, q) == IF shape = "clojure" THEN [k \in DOMAIN q |-> q[k][2][2]] ELSE FlatVals(q)

CaptureForms == {"fn", "lambda", "def", "defn", "defc", "defmacro", "macro"}
RECURSIVE BodyCaptureUnsafe(_)
BodyCaptureUnsafe(e) ==
  /\ Tag(e) = "list"
  /\ \/ IsSym(e[2][1]) /\ e[2][1][2] \in CaptureForms \cup {"try"}
     \/ \E k \in DOMAIN e[2] : BodyCaptureUnsafe(e[2][k])

-----------------------------------------------------------------------------
RECURSIVE CompileExpr(_, _, _)

CompileAll(c, q) == FoldLeft(LAMBDA acc, e : CompileExpr(acc, e, FALSE), c, q)

\* A sequence of forms: all but the last are popped, the last keeps the tail.
CompileBodySeq(c, q, tail) ==
  IF q = << >> THEN EmitNil(c)
  ELSE FoldLeftDomain(
         LAMBDA acc, k :
           CompileExpr(IF k > 1 THEN Emit(acc, <<"POP">>) ELSE acc, q[k], tail /\ k = Len(q)),
         c, q)

\* A test and the branch past what it guards.
CompileTest(c, f) == Emit(CompileExpr(c, f, FALSE), <<"BR_IF_FALSE", 0>>)

IfElse(c1, c2, e, tail) ==
  PatchArms(c1, c2, IF HasArg(e, 3) THEN CompileExpr(c2, Arg(e, 3), tail) ELSE EmitNil(c2))
IfThen(c1, e, tail) == IfElse(c1, Emit(CompileExpr(c1, Arg(e, 2), tail), <<"JUMP", 0>>), e, tail)
CompileIf(c, e, tail) ==
  IF HasArg(e, 4) THEN Fail(c) ELSE IfThen(CompileTest(c, Arg(e, 1)), e, tail)

\* One of four calls: rebind this frame and restart, replace it by another
\* function's, call through the global cache, or call what is on the stack.
CallKind(c, head, tail) ==
  CASE tail /\ c.self # "" /\ (c.nlet = 0 \/ ~ c.unsafe) /\ head = Sym(c.self) -> "TAIL_SELF"
    [] ~ tail /\ IsSym(head) /\ FindSlot(c, head[2]) = 0 -> "CALL_GLOBAL"
    [] OTHER -> IF tail THEN "TAIL_CALL" ELSE "CALL"
CallHead(c, head, kind) == CASE kind = "TAIL_SELF" -> c
                             [] kind = "CALL_GLOBAL" -> AddConst(c, head)
                             [] OTHER -> CompileExpr(c, head, FALSE)
CallArgs(c1, e, kind) ==
  Emit(CompileAll(c1, Args(e)),
       IF kind = "CALL_GLOBAL" THEN <<kind, Len(c1.consts), NArgs(e)>> ELSE <<kind, NArgs(e)>>)
CallAs(c, e, kind) == CallArgs(CallHead(c, Arg(e, 0), kind), e, kind)
CompileCall(c, e, tail) == CallAs(c, e, CallKind(c, Arg(e, 0), tail))

\* Left fold of a binary operator.  (+ K x) is turned round, and a slot with
\* a small number takes one fused instruction.
Swaps(q, op) == Len(q) = 2 /\ op \in {"ADD", "MUL", "IS"} /\ IsFix(q[1]) /\ IsSym(q[2])
EmitAfter(c, k, op) == IF k = 1 THEN c ELSE Emit(c, <<op>>)
ArithFold(c, q, op) ==
  IF Len(q) = 2 /\ op \in Fusible /\ IsSym(q[1]) /\ Imm(q[2]) /\ FindSlot(c, q[1][2]) # 0
  THEN Emit(c, <<FuseSlotFix(op), FindSlot(c, q[1][2]), q[2][2]>>)
  ELSE FoldLeftDomain(LAMBDA acc, k : EmitAfter(CompileExpr(acc, q[k], FALSE), k, op), c, q)
ArithForm(c, q, op) ==
  IF Len(q) < 2 \/ (Len(q) > 2 /\ op \in {"LT", "GT", "LE", "GE", "IS", "ISO", "MOD"}) THEN Fail(c)
  ELSE ArithFold(c, IF Swaps(q, op) THEN <<q[2], q[1]>> ELSE q, op)
CompileArith(c, e, op) == ArithForm(c, Args(e), op)

\* (= sym val): a slot is stored in place, any other name by a walk at run time.
EmitStore(c, slot, s, free) ==
  IF slot # 0 THEN Emit(c, <<"STORE_SLOT", slot>>) ELSE Emit(AddConst(c, Sym(s)), <<free, s>>)
CompileStore(c, s, value, free) == EmitStore(CompileExpr(c, value, FALSE), FindSlot(c, s), s, free)
CompileAssign(c, e) ==
  IF ~ HasArg(e, 2) \/ ~ IsSym(Arg(e, 1)) THEN Fail(c)
  ELSE CompileStore(c, Arg(e, 1)[2], Arg(e, 2), "STORE_FREE")

\* (setq s v s v ...)
PopUnless(c, last) == IF last THEN c ELSE Emit(c, <<"POP">>)
SetqPairs(c, q) ==
  IF q = << >> \/ Len(q) % 2 = 1 \/ \E k \in DOMAIN q : k % 2 = 1 /\ ~ IsSym(q[k]) THEN Fail(c)
  ELSE FoldLeftDomain(LAMBDA acc, k :
         IF k % 2 = 1 THEN acc
         ELSE PopUnless(CompileStore(acc, q[k - 1][2], q[k], "SETQ_DYN"), k = Len(q)), c, q)
CompileSetq(c, e) == SetqPairs(c, Args(e))

\* The end of a binding form: its slots go, from the last one down.
Unbind(c, start, n) ==
  [c EXCEPT !.code = @ \o [k \in 1 .. n |-> <<"UNBIND_SLOT", start + n + 1 - k>>],
            !.slots = SubSeq(@, 1, start)]

\* The body of a binding form, with n slots bound after the first start.
CompileScope(c, start, n, body, tail) ==
  Unbind([CompileBodySeq([c EXCEPT !.nlet = @ + 1], body, tail) EXCEPT !.nlet = @ - 1], start, n)
CanBind(c, vars) == Len(c.slots) + Len(vars) <= InlineSlots /\ \A k \in DOMAIN vars : IsSym(vars[k])

\* Every value is compiled before any of the names is in scope.
BindSlots(c, start, names) ==
  [FoldLeftDomain(LAMBDA acc, k : EmitBindNamed(acc, start + Len(names) + 1 - k, names[Len(names) + 1 - k]),
                  c, names) EXCEPT !.slots = @ \o names]
CompileParallelLet(c, vars, vals, body, tail) ==
  IF ~ CanBind(c, vars) THEN Fail(c)
  ELSE CompileScope(BindSlots(CompileAll(c, vals), Len(c.slots), [k \in DOMAIN vars |-> vars[k][2]]),
                    Len(c.slots), Len(vars), body, tail)

\* Slots are bound one at a time: let* sees the earlier ones.
CompileSequentialLet(c, vars, vals, body, tail) ==
  IF ~ CanBind(c, vars) THEN Fail(c)
  ELSE CompileScope(
         FoldLeftDomain(LAMBDA acc, k : BindSlots(CompileExpr(acc, vals[k], FALSE), Len(acc.slots), <<vars[k][2]>>),
                        c, vars),
         Len(c.slots), Len(vars), body, tail)

\* A form (head bindings body ...).
BodyOf(e) == SubSeq(Args(e), 2, NArgs(e))

CompileLetAs(shape, c, e, tail) ==
  CASE shape = "single" /\ NArgs(e) >= 3 ->
         CompileSequentialLet(c, <<Arg(e, 1)>>, <<Arg(e, 2)>>, SubSeq(Args(e), 3, NArgs(e)), tail)
    [] shape \in {"flat", "clojure"} /\ NArgs(e) >= 2 ->
         CompileParallelLet(c, LetVars(shape, Elems(Arg(e, 1))), LetVals(shape, Elems(Arg(e, 1))), BodyOf(e), tail)
    [] OTHER -> Fail(c)
CompileLet(c, e, tail) == CompileLetAs(LetClassify(Arg(e, 1)), c, e, tail)

\* with and let*: names and values in turn.
FlatBindings(e) == IsPair(Arg(e, 1)) /\ NArgs(e) >= 2 /\ Len(Elems(Arg(e, 1))) % 2 = 0
CompileWith(c, e, tail) ==
  IF ~ FlatBindings(e) THEN Fail(c)
  ELSE CompileParallelLet(c, FlatVars(Elems(Arg(e, 1))), FlatVals(Elems(Arg(e, 1))), BodyOf(e), tail)
CompileLetstar(c, e, tail) ==
  IF ~ FlatBindings(e) THEN Fail(c)
  ELSE CompileSequentialLet(c, FlatVars(Elems(Arg(e, 1))), FlatVals(Elems(Arg(e, 1))), BodyOf(e), tail)

\* One arm is the body and the other nil.
CompileArm(c, body, tail) == IF body = << >> THEN EmitNil(c) ELSE CompileBodySeq(c, body, tail)
WhenElse(c1, c2, body, tail) == PatchArms(c1, c2, CompileArm(c2, body, tail))
WhenThen(c1, run, tail, negate) ==
  WhenElse(c1, Emit(CompileArm(c1, IF negate THEN << >> ELSE run, tail), <<"JUMP", 0>>),
           IF negate THEN run ELSE << >>, tail)
CompileWhenUnless(c, e, tail, negate) ==
  IF ~ HasArg(e, 1) THEN Fail(c) ELSE WhenThen(CompileTest(c, Arg(e, 1)), BodyOf(e), tail, negate)

\* The value that decides is duplicated, so that it survives the branch.
AddEnd(acc, c2) == [c |-> FailIf(Cardinality(acc.ends) >= MaxPatches, Emit(c2, <<"POP">>)),
                    ends |-> acc.ends \cup {Here(c2)}]
AfterOperand(acc, c1, br, last) ==
  IF last THEN [acc EXCEPT !.c = c1] ELSE AddEnd(acc, Emit(Emit(c1, <<"DUP">>), <<br, 0>>))
AndOrOperands(c, q, tail, br) ==
  FoldLeftDomain(LAMBDA acc, k : AfterOperand(acc, CompileExpr(acc.c, q[k], tail /\ k = Len(q)), br, k = Len(q)),
                 [c |-> c, ends |-> {}], q)
CompileAndOr(c, e, tail, br, unit) ==
  IF NArgs(e) = 0 THEN EmitLoadConst(c, unit) ELSE PatchAll(AndOrOperands(c, Args(e), tail, br))

\* The clauses of cond and case: pairs of a test and an expression, and the
\* default, a lone last form.  The key of case is on the stack: each literal
\* is compared with a copy of it by OP_IS, and the selected expression finds
\* it gone.
ClauseTest(c, f, keyed) ==
  IF keyed THEN Emit(Emit(EmitLoadConst(Emit(c, <<"DUP">>), f), <<"IS">>), <<"BR_IF_FALSE", 0>>)
  ELSE CompileTest(c, f)
DropKey(c, keyed) == IF keyed THEN Emit(c, <<"POP">>) ELSE c
\* A clause ends in a jump to the end of the form.
AfterClause(acc, c1, c2) ==
  [c |-> FailIf(Cardinality(acc.ends) >= MaxPatches, PatchI16(c2, Here(c1), Here(c2))),
   ends |-> acc.ends \cup {Here(c2)}]
CompileDefault(r, q, tail, keyed) ==
  [r EXCEPT !.c = IF Len(q) % 2 = 1 THEN CompileExpr(DropKey(@, keyed), q[Len(q)], tail)
                  ELSE EmitNil(DropKey(@, keyed))]
ClauseBody(acc, c1, f, tail, keyed) ==
  AfterClause(acc, c1, Emit(CompileExpr(DropKey(c1, keyed), f, tail), <<"JUMP", 0>>))
CompileClauses(c, q, tail, keyed) ==
  PatchAll(CompileDefault(
    FoldLeftDomain(LAMBDA acc, k : IF k % 2 = 1 THEN acc
                                   ELSE ClauseBody(acc, ClauseTest(acc.c, q[k - 1], keyed), q[k], tail, keyed),
                   [c |-> c, ends |-> {}], q),
    q, tail, keyed))

CompileCond(c, e, tail) == CompileClauses(c, Args(e), tail, FALSE)
CompileCase(c, e, tail) ==
  IF ~ HasArg(e, 1) THEN Fail(c)
  ELSE CompileClauses(CompileExpr(c, Arg(e, 1), FALSE), BodyOf(e), tail, TRUE)

\* (for var start end body ...): the counter and the end in two slots, the
\* result of the last iteration on the stack.
ForSteps(i) == <<<<"LOAD_SLOT", i>>, <<"LOAD_FIX", 1>>, <<"ADD">>, <<"STORE_SLOT", i>>, <<"POP">>, <<"JUMP", 0>>>>
\* The branch out of the loop, at the end of c1, and the jump back to top.
CloseFor(c1, c2, top, i) ==
  Unbind(PatchI16(PatchI16(c2, Here(c1), Here(c2)), Here(c2), top), i - 1, 2)
ForBody(c1, body, top, i) ==
  LET c2 == IF body = << >> THEN c1 ELSE CompileBodySeq(Emit(c1, <<"POP">>), body, FALSE)
  IN CloseFor(c1, [c2 EXCEPT !.code = @ \o ForSteps(i), !.nlet = @ - 1], top, i)
ForTop(c, body, i) ==
  ForBody(Emit(Emit(c, <<"SLOT_LE_SLOT", i, i + 1>>), <<"BR_IF_FALSE", 0>>), body, Here(c), i)
ForStart(c, var, i) == [EmitBindNamed(c, i, var) EXCEPT !.slots = Append(@, var)]
ForEnd(c, i) == [Emit(c, <<"BIND_SLOT", i + 1>>) EXCEPT !.slots = Append(@, ""), !.nlet = @ + 1]
ForSlots(c, e, i) ==
  EmitNil(ForEnd(CompileExpr(ForStart(CompileExpr(c, Arg(e, 2), FALSE), Arg(e, 1)[2], i), Arg(e, 3), FALSE), i))
CompileFor(c, e) ==
  IF ~ HasArg(e, 3) \/ ~ IsSym(Arg(e, 1)) \/ Len(c.slots) + 2 > InlineSlots THEN Fail(c)
  ELSE ForTop(ForSlots(c, e, Len(c.slots) + 1), SubSeq(Args(e), 4, NArgs(e)), Len(c.slots) + 1)

\* Only a try in tail position pushes a handler; the body keeps the tail.
CompilesTry(e, tail) == tail /\ NArgs(e) \in {2, 3}
TryConsts(c, e) == IF HasArg(e, 3) THEN AddConst(AddConst(c, Arg(e, 2)), Arg(e, 3)) ELSE AddConst(c, Arg(e, 2))
CompileTry(c, e) ==
  CompileExpr(Emit(TryConsts(c, e), <<"PUSH_HANDLER", Arg(e, 2), IF HasArg(e, 3) THEN Arg(e, 3) ELSE NoBinding>>),
              Arg(e, 1), TRUE)

\* A head whose operands are computed in order and consumed by one instruction.
Strict == [s \in {"cons", "car", "cdr", "sqrt-int", "length", "abs", "max", "min", "no"} |->
  CASE s = "cons" -> <<"CONS", 2>> [] s = "car" -> <<"CAR", 1>> [] s = "cdr" -> <<"CDR", 1>>
    [] s = "sqrt-int" -> <<"SQRT_INT", 1>> [] s = "length" -> <<"LENGTH", 1>>
    [] s = "abs" -> <<"ABS", 1>> [] s = "max" -> <<"NMAX", 2>> [] s = "min" -> <<"NMIN", 2>>
    [] s = "no" -> <<"NOT", 1>>]
ExactArity == {"abs", "max", "min"}
CompileStrict(c, e, s) ==
  LET n == Strict[s][2] IN
  IF NArgs(e) < n THEN Fail(c) ELSE Emit(CompileAll(c, SubSeq(Args(e), 1, n)), <<Strict[s][1]>>)

CompileList(c, e) == Emit(CompileAll(c, Args(e)), <<"LIST", NArgs(e)>>)

\* A builtin without an instruction: the tree walker evaluates this one form,
\* unless it needs the tail or builds a closure, and then the whole lambda.
CompileBuiltin(c, e, s) ==
  IF s \in TailAware \cup CaptureForms THEN Fail(c) ELSE EmitWithConst(c, "EVAL_AST", e, << >>)

\* The forms of compile_expr, in the order it tries them.
CompileSpecial(c, e, s, tail) ==
  CASE s = "if" -> CompileIf(c, e, tail)
    [] s = "try" -> CompileTry(c, e)
    [] s = "let" -> CompileLet(c, e, tail)
    [] s = "let*" -> CompileLetstar(c, e, tail)
    [] s = "with" -> CompileWith(c, e, tail)
    [] s \in {"when", "unless"} -> CompileWhenUnless(c, e, tail, s = "unless")
    [] s = "and" -> CompileAndOr(c, e, tail, "BR_IF_FALSE", T)
    [] s = "or" -> CompileAndOr(c, e, tail, "BR_IF_TRUE", Nil)
    [] s = "cond" -> CompileCond(c, e, tail)
    [] s = "case" -> CompileCase(c, e, tail)
    [] s = "for" -> CompileFor(c, e)
    [] s \in {"=", "setf"} -> CompileAssign(c, e)
    [] s = "setq" -> CompileSetq(c, e)
    [] s = "do" -> CompileBodySeq(c, Args(e), tail)
    [] s = "list" -> CompileList(c, e)
    [] s = "quote" -> EmitLoadConst(c, Arg(e, 1))
Special == {"if", "let", "let*", "with", "when", "unless", "and", "or", "cond", "case", "for",
            "=", "setf", "setq", "do", "list", "quote"}
IsStrict(e, s) == s \in DOMAIN Strict /\ (s \in ExactArity => NArgs(e) = Strict[s][2])

CompileForm(c, e, s, tail) ==
  IF s \in Special \/ (s = "try" /\ CompilesTry(e, tail)) THEN CompileSpecial(c, e, s, tail)
  ELSE IF IsStrict(e, s) THEN CompileStrict(c, e, s)
  ELSE IF s \in DOMAIN OpForHead THEN CompileArith(c, e, OpForHead[s])
  ELSE IF s \in Reserved THEN CompileBuiltin(c, e, s)
  ELSE CompileCall(c, e, tail)

CompileName(c, e, k) == IF k # 0 THEN Emit(c, <<"LOAD_SLOT", k>>) ELSE EmitWithConst(c, "LOAD_GLOBAL", e, << >>)
CompileExpr(c, e, tail) ==
  CASE c.failed -> c
    [] ~ c.failed /\ Imm(e) -> Emit(c, <<"LOAD_FIX", e[2]>>)
    [] ~ c.failed /\ ~ Imm(e) /\ Tag(e) \in {"fix", "nil", "t"} -> EmitLoadConst(c, e)
    [] ~ c.failed /\ IsSym(e) -> CompileName(c, e, FindSlot(c, e[2]))
    [] ~ c.failed /\ Tag(e) = "list" ->
         CASE InfixRewrites(c, e) -> CompileExpr(c, CompileInfixRewrite(e), tail)
           [] ~ InfixRewrites(c, e) /\ IsSym(Arg(e, 0)) -> CompileForm(c, e, Arg(e, 0)[2], tail)
           [] OTHER -> Fail(c)
    [] OTHER -> Fail(c)

NoCode == [code |-> << >>]

\* compile_lambda: plain parameters only, and a body.  A closure (a frame
\* below the root) does without the global cache.
IsPlain(params) == /\ Len(params) <= InlineSlots
                   /\ \A k \in DOMAIN params : IsSym(params[k]) /\ params[k][2] # "."
StartLambda(name, names, body) ==
  [code |-> << >>, consts |-> << >>, slots |-> names, nlet |-> 0, self |-> name,
   unsafe |-> \E k \in DOMAIN body : BodyCaptureUnsafe(body[k]), failed |-> body = << >>]
Assembled(c, names, closure) ==
  IF c.failed THEN NoCode
  ELSE [code |-> c.code, consts |-> c.consts, keys |-> names, self |-> c.self, nogcache |-> closure]
CompilePlain(name, names, body, closure) ==
  Assembled(Emit(CompileBodySeq(StartLambda(name, names, body), body, TRUE), <<"RET">>), names, closure)
CompileLambda(name, params, body, closure) ==
  IF IsPlain(params) THEN CompilePlain(name, [k \in DOMAIN params |-> params[k][2]], body, closure) ELSE NoCode
=============================================================================

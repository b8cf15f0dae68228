----------------------------- MODULE Evaluator -----------------------------
(***************************************************************************)
(* The two tiers that run a lambda: the tree walker (evaluate and invoke   *)
(* of debugger.h) and the bytecode machine (vm_run of compiler_impl.h).    *)
(* Each calls the other: a compiled body sends a builtin it has no         *)
(* instruction for to the tree walker, and a call from either tier runs    *)
(* the callee in the tier it belongs to.                                   *)
(*                                                                         *)
(* An activation of the machine is a record m:                             *)
(*   m.fn, m.k      the lambda being run and its frame                     *)
(*   m.pc, m.stack  the next instruction, and the operands                 *)
(*   m.hs           the try handlers this activation has pushed            *)
(*   m.leaving      whether it has stopped, and has the handlers to run    *)
(*   m.st           the store                                              *)
(*   m.done, m.ret  whether it has returned, and what                      *)
(*                                                                         *)
(* The C stack is unbounded here, and no time or memory limit is set.      *)
(***************************************************************************)
EXTENDS Builtins

CONSTANT MaxDepth    \* VM_STACK_MAX: the operand stack of one activation

\* The functions that call each other are the jobs of one recursive operator,
\* at the end of the module.  Evaluate(e, i, tail, st) evaluates e in frame i;
\* tail says whether its value is the value of the function around it.
RECURSIVE Perform(_, _)
Evaluate(e, i, tail, st) == Perform(<<"evaluate", e, i, tail>>, st)
InvokeBody(f, vs, st) == Perform(<<"invoke", f, vs>>, st)
RunBody(f, k, st) == Perform(<<"body", f, k>>, st)
VmInvokeValues(f, vs, i, st) == Perform(<<"values", f, vs, i>>, st)
AlcApplyN(f, vs, i, st) == Perform(<<"apply", f, vs, i>>, st)
VmLoop(m) == Perform(<<"loop", m>>, m.st)
EvalBody(q, i, tail, st) == Perform(<<"forms", q, i, tail>>, st)
Clauses(q, i, tail, st) == Perform(<<"clauses", q, i, tail>>, st)

\* Evaluate q from left to right, up to the first error: the values so far
\* and that error, or nil.
EvalArgs(q, i, st) == Perform(<<"operands", q, i, << >>>>, st)
MoreOperands(q, i, vs, r) ==
  IF IsErr(r.v) THEN [vs |-> vs, v |-> r.v, st |-> r.st]
  ELSE Perform(<<"operands", q, i, Append(vs, r.v)>>, r.st)
Operands(q, i, vs, st) ==
  IF q = << >> THEN [vs |-> vs, v |-> Nil, st |-> st]
  ELSE MoreOperands(Tail(q), i, vs, Evaluate(q[1], i, FALSE, st))
OnArgs(a, F(_)) == R(IF IsErr(a.v) THEN a.v ELSE F(a.vs), a.st)

\* A body: every form in order, the last one in tail position.
InOrder(q, i, tail, st) ==
  CASE q = << >> -> R(Nil, st)
    [] Len(q) = 1 -> Evaluate(q[1], i, tail, st)
    [] OTHER -> Then(Evaluate(q[1], i, FALSE, st), LAMBDA v, s : EvalBody(Tail(q), i, tail, s))

\* The clause of a defn wrapper that takes n arguments, or NoBinding.
Positional(params) == Min({Len(params)} \cup {j - 1 : j \in {x \in DOMAIN params : params[x] = Sym(".")}})
MultiPick(clauses, n) ==
  LET Takes(ps) == IF Positional(ps) < Len(ps) THEN n >= Positional(ps) ELSE n = Len(ps)
      ks == {k \in DOMAIN clauses : Takes(clauses[k][2].params)}
  IN IF ks = {} THEN NoBinding ELSE clauses[Min(ks)]
\* The lambda that runs a call with n arguments.
Resolve(f, n) == IF Tag(f) = "multi" THEN MultiPick(f[3], n) ELSE f

-----------------------------------------------------------------------------
(* Applying a value.                                                       *)

\* A symbol or a pair would be evaluated again: it is quoted.
Quoted(v) == IF IsSym(v) \/ Tag(v) = "list" THEN List(<<Op("quote"), v>>) ELSE v
Form(head, vs) == List(<<head>> \o [k \in DOMAIN vs |-> Quoted(vs[k])])

\* alc_apply_n: a builtin gets a form whose head is the builtin itself.
Apply(f, vs, i, st) ==
  CASE IsFn(f) -> VmInvokeValues(f, vs, i, st)
    [] Tag(f) = "op" -> Evaluate(Form(f, vs), i, FALSE, st)
    [] Tag(f) = "cont" -> R(<<"esc", f[2], IF vs = << >> THEN Nil ELSE vs[1]>>, st)
    [] OTHER -> R(Err("illegal"), st)

\* infix_apply, infix_apply_fn: a binary operator is evaluated by name, any
\* other function is applied.
InfixFn(op) == IsFn(op) \/ Tag(op) = "op"
InfixApply(op, a, b, i, st) ==
  IF Tag(op) = "op" /\ op[2] \in NativeOps THEN Evaluate(Form(Sym(op[2]), <<a, b>>), i, FALSE, st)
  ELSE AlcApplyN(op, <<a, b>>, i, st)

\* (head op rhs) with a head that is no function.
InfixRhs(op, head, e, i) ==
  IF ~ InfixFn(op.v) THEN R(Err("illegal"), op.st)
  ELSE Then(Evaluate(Arg(e, 2), i, FALSE, op.st), LAMBDA b, s : InfixApply(op.v, head, b, i, s))
AstTryInfix(head, e, i, st) ==
  IF NArgs(e) # 2 THEN R(Err("illegal"), st) ELSE InfixRhs(Evaluate(Arg(e, 1), i, FALSE, st), head, e, i)

-----------------------------------------------------------------------------
(* Calling a lambda.                                                       *)

\* The names of a pattern take a list apart, nil where it is too short.
BindPattern(names, v, k, st) ==
  BindAll(st, k, [j \in DOMAIN names |-> names[j][2]],
          [j \in DOMAIN names |-> IF j <= Len(Elems(v)) THEN Elems(v)[j] ELSE Nil])

\* var2env: the parameters in order.  A plain one and one with a default
\* take a value, a pattern takes a list apart, `.` collects the rest.
BindParam(p, v, k, st) ==
  IF IsSym(p) \/ IsDefault(p) THEN Bind(st, k, IF IsSym(p) THEN p[2] ELSE p[2][1][2], v)
  ELSE BindPattern(Elems(p), v, k, st)
BindDefault(p, k, st) ==
  IF IsDefault(p) THEN Then(Evaluate(p[2][2], k, FALSE, st), LAMBDA v, s : R(Nil, BindParam(p, v, k, s)))
  ELSE R(Err("missing"), st)
BindRest(r, params, n, vs, k) ==
  CASE IsErr(r.v) -> r
    [] ~ IsErr(r.v) /\ n < Len(params) -> R(Nil, Bind(r.st, k, params[n + 2][2], List(SubSeq(vs, n + 1, Len(vs)))))
    [] OTHER -> IF Len(vs) > n THEN R(Err("missing"), r.st) ELSE r
Var2Env(params, vs, k, st) ==
  BindRest(FoldLeftDomain(LAMBDA a, j :
             CASE IsErr(a.v) \/ j > Positional(params) -> a
               [] ~ IsErr(a.v) /\ j <= Positional(params) /\ j <= Len(vs) -> R(Nil, BindParam(params[j], vs[j], k, a.st))
               [] OTHER -> BindDefault(params[j], k, a.st), R(Nil, st), params),
           params, Positional(params), vs, k)

\* make_tail_marker: the call is left to the function that is running.
MakeTailMarker(f, e, i, st) == OnArgs(EvalArgs(Args(e), i, st), LAMBDA vs : <<"tail", f, vs>>)

\* A body in frame k, whose last form may leave a marker.  A call of the
\* function itself empties the frame, binds the names among its parameters
\* pairwise and starts again; a call of another one takes its place.
BindPairwise(params, k, vs, st) ==
  FoldLeftDomain(LAMBDA s, j : IF j <= Len(vs) /\ IsSym(params[j]) THEN Bind(s, k, params[j][2], vs[j]) ELSE s,
                 st, params)
Rebind(f, k, vs, st) == BindPairwise(f[2].params, k, vs, ClearFrame(st, k))
InvokePicked(callee, vs, st) == IF callee = NoBinding THEN R(Err("missing"), st) ELSE InvokeBody(callee, vs, st)
AfterBody(f, k, r) ==
  CASE Tag(r.v) # "tail" -> r
    [] Tag(r.v) = "tail" /\ r.v[2] = f -> RunBody(f, k, Rebind(f, k, r.v[3], r.st))
    [] OTHER -> InvokePicked(Resolve(r.v[2], Len(r.v[3])), r.v[3], r.st)
Trampoline(f, k, st) == AfterBody(f, k, EvalBody(f[2].body, k, TRUE, st))

Activation(f, k, st) == [fn |-> f, k |-> k, pc |-> 1, stack |-> << >>, hs |-> << >>, st |-> st,
                         leaving |-> FALSE, done |-> FALSE, ret |-> Nil]
Compiled(f) == f[2].code # NoCode
VmRun(f, k, st) == VmLoop(Activation(f, k, st))

\* A lambda with its arguments, in a new frame below the one it captured.
RunIn(f, vs, k, st) ==
  Then(Var2Env(f[2].params, vs, k, st),
       LAMBDA v, s : IF Compiled(f) THEN VmRun(f, k, s) ELSE RunBody(f, k, s))
InvokeIn(f, vs, st1) == RunIn(f, vs, LastEnv(st1), st1)

\* invoke: the clause is chosen before the arguments are evaluated.
InvokeArgs(callee, a) == IF IsErr(a.v) THEN R(a.v, a.st) ELSE InvokeBody(callee, a.vs, a.st)
InvokeWith(callee, e, i, st) ==
  IF callee = NoBinding THEN R(Err("missing"), st) ELSE InvokeArgs(callee, EvalArgs(Args(e), i, st))
Invoke(e, f, i, st) == InvokeWith(Resolve(f, NArgs(e)), e, i, st)

\* vm_invoke_values, with a lambda: a compiled one takes exactly its
\* parameters.  Another one drops the values it has no parameter for, takes
\* no pattern, and its body runs without a trampoline.
BindValues(f, vs, k, st) ==
  LET ps == f[2].params
  IN IF Compiled(f) /\ Len(vs) # Len(ps) THEN R(Err("missing"), st)
     ELSE IF \E j \in DOMAIN ps : ~ IsSym(ps[j]) /\ ~ IsDefault(ps[j]) THEN R(Err("illegal"), st)
     ELSE Var2Env(ps, IF Sym(".") \in ToSet(ps) THEN vs ELSE SubSeq(vs, 1, Min({Len(vs), Len(ps)})), k, st)
RunValues(f, vs, k, st) ==
  Then(BindValues(f, vs, k, st),
       LAMBDA v, s : IF Compiled(f) THEN VmRun(f, k, s) ELSE EvalBody(f[2].body, k, FALSE, s))
ValuesIn(f, vs, st1) == RunValues(f, vs, LastEnv(st1), st1)
CallPicked(f, vs, st) ==
  IF f = NoBinding THEN R(Err("missing"), st) ELSE ValuesIn(f, vs, MakeEnv(st, f[2].env))
InvokeValues(f, vs, i, st) ==
  CASE IsFn(f) -> CallPicked(Resolve(f, Len(vs)), vs, st)
    [] Tag(f) \in {"op", "cont"} -> AlcApplyN(f, vs, i, st)
    [] ~ IsFn(f) /\ Tag(f) \notin {"op", "cont"} /\ Len(vs) = 2 /\ InfixFn(vs[1]) ->
         InfixApply(vs[1], f, vs[2], i, st)
    [] OTHER -> R(Err("illegal"), st)

-----------------------------------------------------------------------------
(* Control.                                                                *)

\* if and cond: pairs of a test and an expression, a lone last form is the
\* default.  Only the chosen expression is in tail position.
AfterTest(r, q, i, tail) ==
  CASE IsErr(r.v) -> r
    [] ~ IsErr(r.v) /\ IsTrue(r.v) -> Evaluate(q[2], i, tail, r.st)
    [] OTHER -> Clauses(SubSeq(q, 3, Len(q)), i, tail, r.st)
Tested(q, i, tail, st) ==
  CASE q = << >> -> R(Nil, st)
    [] Len(q) = 1 -> Evaluate(q[1], i, tail, st)
    [] OTHER -> AfterTest(Evaluate(q[1], i, FALSE, st), q, i, tail)
IfCmd(e, i, tail, st) == Clauses(Args(e), i, tail, st)
CondCmd(e, i, tail, st) == Clauses(Args(e), i, tail, st)

WhenUnless(e, i, tail, st, neg) ==
  Then(Evaluate(Arg(e, 1), i, FALSE, st),
       LAMBDA v, s : IF IsTrue(v) # neg THEN EvalBody(BodyOf(e), i, tail, s) ELSE R(Nil, s))

WhileCmd(e, i, st) ==
  LET RECURSIVE Loop(_)
      Loop(s) == Then(Evaluate(Arg(e, 1), i, FALSE, s),
                      LAMBDA v, s1 : IF ~ IsTrue(v) THEN R(Nil, s1)
                                     ELSE Then(EvalBody(BodyOf(e), i, FALSE, s1),
                                               LAMBDA w, s2 : Loop(s2)))
  IN Loop(st)

\* repeat answers nil, whatever its body does.
RepeatCmd(e, i, st) ==
  Then(Evaluate(Arg(e, 1), i, FALSE, st),
       LAMBDA c, s : IF ~ IsFix(c) THEN R(Err("illegal"), s)
                     ELSE Then(FoldLeft(LAMBDA a, k : IF IsErr(a.v) THEN a ELSE EvalBody(BodyOf(e), i, FALSE, a.st),
                                        R(Nil, s), [k \in 1 .. c[2] |-> k]),
                               LAMBDA v, s1 : R(Nil, s1)))

\* and stops at the first false value, or at the first true one.
Connective(q, i, tail, st, unit) ==
  FoldLeftDomain(LAMBDA a, k : IF k > 1 /\ (IsErr(a.v) \/ IsTrue(a.v) # IsTrue(unit)) THEN a
                               ELSE Evaluate(q[k], i, tail /\ k = Len(q), a.st),
                 R(unit, st), q)
AndCmd(e, i, tail, st) == Connective(Args(e), i, tail, st, T)
OrCmd(e, i, tail, st) == Connective(Args(e), i, tail, st, Nil)

\* The literals of case are not evaluated.
CaseOf(q, v, i, tail, st) ==
  LET hits == {k \in DOMAIN q : k % 2 = 1 /\ k < Len(q) /\ IsEqual(v, q[k])}
  IN CASE hits # {} -> Evaluate(q[Min(hits) + 1], i, tail, st)
       [] hits = {} /\ Len(q) % 2 = 1 -> Evaluate(q[Len(q)], i, tail, st)
       [] OTHER -> R(Nil, st)
CaseCmd(e, i, tail, st) ==
  Then(Evaluate(Arg(e, 1), i, FALSE, st), LAMBDA v, s : CaseOf(BodyOf(e), v, i, tail, s))

\* The counter is a number of the loop, copied to the dictionary of the
\* loop's frame before each iteration: the body cannot change it.
ForTurn(a, var, body, k, new) ==
  IF body = << >> THEN R(a.v, SetDict(a.st, new, var, Fix(k)))
  ELSE EvalBody(body, new, FALSE, SetDict(a.st, new, var, Fix(k)))
ForRun(var, body, from, to, new, st) ==
  FoldLeft(LAMBDA a, k : IF IsErr(a.v) THEN a ELSE ForTurn(a, var, body, k, new),
           R(Nil, st), [k \in 1 .. to - from + 1 |-> from + k - 1])
ForFrom(e, i, from, new, st) ==
  IF ~ IsFix(from) THEN R(Err("illegal"), st)
  ELSE Then(Evaluate(Arg(e, 3), i, FALSE, st),
            LAMBDA to, s : IF ~ IsFix(to) THEN R(Err("illegal"), s)
                           ELSE ForRun(Arg(e, 1)[2], SubSeq(Args(e), 4, NArgs(e)), from[2], to[2], new, s))
ForCmd(e, i, st) ==
  IF Arg(e, 1)[2] \in Reserved THEN R(Err("illegal"), st)
  ELSE Then(Evaluate(Arg(e, 2), i, FALSE, MakeEnv(st, i)),
            LAMBDA from, s : ForFrom(e, i, from, LastEnv(st) + 1, s))

DoCmd(e, i, tail, st) == EvalBody(Args(e), i, tail, st)

-----------------------------------------------------------------------------
(* Binding.                                                                *)

\* let and with bind every value, computed outside, in a new frame; let*
\* computes each in the new frame.  The names are tested one at a time,
\* between the values.
BindForms(vars, vals, i, new, sequential, st) ==
  FoldLeftDomain(LAMBDA a, k :
      IF IsErr(a.v) THEN a
      ELSE IF ~ IsSym(vars[k]) \/ vars[k][2] \in Reserved THEN R(Err("illegal"), a.st)
      ELSE Then(Evaluate(vals[k], IF sequential THEN new ELSE i, FALSE, a.st),
                LAMBDA v, s : R(Nil, Bind(s, new, vars[k][2], v))),
    R(Nil, MakeEnv(st, i)), vars)
RunBound(body, new, tail, st) ==
  IF body = << >> THEN R(Err("missing"), st) ELSE EvalBody(body, new, tail, st)
BindAndRun(vars, vals, body, i, sequential, tail, st) ==
  Then(BindForms(vars, vals, i, LastEnv(st) + 1, sequential, st),
       LAMBDA v, s : RunBound(body, LastEnv(st) + 1, tail, s))

\* A list of names and a value: element by element, nil when the list ends.
DestructuringLet(e, i, tail, st) ==
  Then(Evaluate(Arg(e, 2), i, FALSE, MakeEnv(st, i)),
       LAMBDA v, s : RunBound(SubSeq(Args(e), 3, NArgs(e)), LastEnv(st) + 1, tail,
                              BindPattern(Elems(Arg(e, 1)), v, LastEnv(st) + 1, s)))

LetAs(shape, e, i, tail, st) ==
  CASE shape = "single" ->
         BindAndRun(<<Arg(e, 1)>>, <<Arg(e, 2)>>, SubSeq(Args(e), 3, NArgs(e)), i, FALSE, tail, st)
    [] shape = "destructure" -> DestructuringLet(e, i, tail, st)
    [] shape = "bad" -> R(Err("illegal"), st)
    [] OTHER -> BindAndRun(LetVars(shape, Elems(Arg(e, 1))), LetVals(shape, Elems(Arg(e, 1))),
                           BodyOf(e), i, FALSE, tail, st)
LetCmd(e, i, tail, st) == LetAs(LetClassify(Arg(e, 1)), e, i, tail, st)

FlatLet(e, i, sequential, tail, st) ==
  BindAndRun(FlatVars(Elems(Arg(e, 1))), FlatVals(Elems(Arg(e, 1))), BodyOf(e), i, sequential, tail, st)
WithCmd(e, i, tail, st) == FlatLet(e, i, FALSE, tail, st)
LetstarCmd(e, i, tail, st) == FlatLet(e, i, TRUE, tail, st)

\* (= sym val): the value is computed before the name is tested.
EqualCmd(e, i, st) ==
  IF NArgs(e) # 2 THEN R(Err("missing"), st)
  ELSE Then(Evaluate(Arg(e, 2), i, FALSE, st),
            LAMBDA v, s : IF Arg(e, 1)[2] \in Reserved THEN R(Err("illegal"), s)
                          ELSE R(Named(v, Arg(e, 1)[2]), UpdateBang(s, i, Arg(e, 1)[2], v)))

\* (setq sym val ...): each name is tested before its value is computed.
SetqPair(x, f, i, st) ==
  IF ~ IsSym(x) \/ x[2] \in Reserved THEN R(Err("illegal"), st)
  ELSE Then(Evaluate(f, i, FALSE, st), LAMBDA v, s : R(v, SetqStoreSymbol(s, i, x[2], v)))
SetqCmd(e, i, st) ==
  FoldLeftDomain(LAMBDA a, k : IF IsErr(a.v) \/ k % 2 = 1 THEN a ELSE SetqPair(Args(e)[k - 1], Args(e)[k], i, a.st),
                 R(Nil, st), Args(e))

-----------------------------------------------------------------------------
(* Arithmetic and lists.                                                   *)

\* MATH_CMD: a fold in int64_t that checks each operand before it evaluates
\* the next, and the fixnum range only once, at the end.
MathBad(op, v, k) == IF op = "/" /\ k > 1 /\ v = Fix(0) THEN Err("div0")
                     ELSE IF IsFix(v) THEN Nil ELSE Err("illegal")
MathResult(n) == IF FixFits(n) THEN Fix(n) ELSE Err("illegal")
MathEnd(op, count, n) ==
  CASE count = 0 /\ op \in {"-", "/"} -> Err("missing")
    [] count = 1 /\ op = "/" -> IF n = 0 THEN Err("div0") ELSE Fix(Quot(1, n))
    [] OTHER -> MathResult(IF count = 1 /\ op = "-" THEN -n ELSE n)
MathFrom(op, e, i, k, n, st) == Perform(<<"math", op, e, i, k, n>>, st)
MathStep(op, e, i, k, n, r, bad, seed) ==
  CASE IsErr(r.v) -> r
    [] ~ IsErr(r.v) /\ IsErr(bad) -> R(bad, r.st)
    [] ~ IsErr(r.v) /\ ~ IsErr(bad) /\ ~ seed /\ FixOpOvf(op, n, r.v[2]) -> R(Err("illegal"), r.st)
    [] OTHER -> MathFrom(op, e, i, k + 1, IF seed THEN r.v[2] ELSE FixOp(op, n, r.v[2]), r.st)
MathOperand(op, e, i, k, n, r) == MathStep(op, e, i, k, n, r, MathBad(op, r.v, k), k = 1 /\ op # "*")
MathFold(op, e, i, k, n, st) ==
  IF k > NArgs(e) THEN R(MathEnd(op, NArgs(e), n), st)
  ELSE MathOperand(op, e, i, k, n, Evaluate(Arg(e, k), i, FALSE, st))
MathCmd(op, e, i, st) == MathFrom(op, e, i, 1, IF op = "*" THEN 1 ELSE 0, st)

\* cmpcmd: pair by pair, up to the first that fails.  The operator is read
\* from the head of the form, which must be its symbol.
CmpFrom(e, i, k, prev, st) == Perform(<<"compare", e, i, k, prev>>, st)
CmpValue(op, k, prev, v) == CASE IsErr(v) -> v [] ~ IsErr(v) /\ k = 1 -> T [] OTHER -> Compare(op, prev, v)
CmpNext(e, i, k, r, v) == IF v = T THEN CmpFrom(e, i, k + 1, r.v, r.st) ELSE R(v, r.st)
CmpOperand(e, i, k, prev, r) == CmpNext(e, i, k, r, CmpValue(Arg(e, 0)[2], k, prev, r.v))
CmpFold(e, i, k, prev, st) ==
  IF k > NArgs(e) THEN R(T, st) ELSE CmpOperand(e, i, k, prev, Evaluate(Arg(e, k), i, FALSE, st))
CmpCmd(e, i, st) ==
  IF ~ IsSym(Arg(e, 0)) \/ Arg(e, 0)[2] \notin {"<", ">", "<=", ">="} THEN R(Err("illegal"), st)
  ELSE CmpFrom(e, i, 1, Nil, st)

\* max and min keep the first of two equal numbers.
Better(a, v, k, st, sign) ==
  IF k = 1 THEN R(v, st)
  ELSE IF ~ IsFix(v) \/ ~ IsFix(a) THEN R(Err("illegal"), st)
  ELSE R(IF sign * v[2] > sign * a[2] THEN v ELSE a, st)
MinMax(e, i, st, sign) ==
  FoldLeftDomain(LAMBDA a, k :
      IF k > 1 /\ IsErr(a.v) THEN a
      ELSE Then(Evaluate(Args(e)[k], i, FALSE, a.st), LAMBDA v, s : Better(a.v, v, k, s, sign)),
    R(Err("missing"), st), Args(e))

PrCmd(e, i, st) ==
  FoldLeft(LAMBDA a, x : IF IsErr(a.v) THEN a
                         ELSE Then(Evaluate(x, i, FALSE, a.st),
                                   LAMBDA v, s : R(Nil, [s EXCEPT !.out = Append(@, v)])),
           R(Nil, st), Args(e))
Arity(s, e) == CASE s \in {"is", "iso", "isnt", "mod", "cons"} -> 2 [] s = "list" -> NArgs(e) [] OTHER -> 1
ApplicativeCmd(s, e, i, st) ==
  OnArgs(EvalArgs(SubSeq(Args(e), 1, Arity(s, e)), i, st), LAMBDA vs : ValueOf(s, vs))

-----------------------------------------------------------------------------
(* Errors and escapes.                                                     *)

\* The handler is evaluated only when the body fails, in the frame of the
\* try; nil is no handler, an escape passes it by.  finally runs on every
\* path, and its own failure wins.
OnHandler(a, f, i) ==
  CASE f.v = Nil -> R(a.v, f.st)
    [] f.v # Nil /\ IsErr(f.v) -> f
    [] OTHER -> AlcApplyN(f.v, <<a.v>>, i, f.st)
OnError(a, handler, i, st) == IF Tag(a.v) = "err" THEN OnHandler(a, Evaluate(handler, i, FALSE, st), i) ELSE a
AfterFinal(a, f) == IF IsErr(f.v) THEN f ELSE R(a.v, f.st)
TryFinal(a, e, i) == IF HasArg(e, 3) THEN AfterFinal(a, Evaluate(Arg(e, 3), i, FALSE, a.st)) ELSE a
TryBody(a, e, i) == TryFinal(OnError(a, Arg(e, 2), i, a.st), e, i)
TryCmd(e, i, st) ==
  IF NArgs(e) < 2 THEN R(Err("missing"), st) ELSE TryBody(Evaluate(Arg(e, 1), i, FALSE, st), e, i)

\* call/cc: the token of its own escape becomes the value, another goes on.
Escaped(r, k) == IF Tag(r.v) = "esc" /\ r.v[2] = k THEN R(r.v[3], r.st) ELSE r
CallCcCmd(e, i, st) ==
  Then(Evaluate(Arg(e, 1), i, FALSE, st),
       LAMBDA f, s : IF ~ (IsFn(f) \/ Tag(f) = "op") THEN R(Err("illegal"), s)
                     ELSE Escaped(AlcApplyN(f, <<<<"cont", s.conts + 1>>>>, i, [s EXCEPT !.conts = @ + 1]),
                                  s.conts + 1))
EvalContCall(k, e, i, st) ==
  IF NArgs(e) = 0 THEN R(<<"esc", k[2], Nil>>, st)
  ELSE Then(Evaluate(Arg(e, 1), i, FALSE, st), LAMBDA v, s : R(<<"esc", k[2], v>>, s))

-----------------------------------------------------------------------------
(* The tree walker.                                                        *)

\* invoke_internal: only a tail-aware builtin sees the tail position.
InvokeInternal(s, e, i, tail, st) ==
  CASE s = "if" -> IfCmd(e, i, tail, st)
    [] s = "cond" -> CondCmd(e, i, tail, st)
    [] s \in {"when", "unless"} -> WhenUnless(e, i, tail, st, s = "unless")
    [] s = "while" -> WhileCmd(e, i, st)
    [] s = "repeat" -> RepeatCmd(e, i, st)
    [] s = "and" -> AndCmd(e, i, tail, st)
    [] s = "or" -> OrCmd(e, i, tail, st)
    [] s = "case" -> CaseCmd(e, i, tail, st)
    [] s = "for" -> ForCmd(e, i, st)
    [] s = "do" -> DoCmd(e, i, tail, st)
    [] s = "quote" -> QuoteCmd(e, st)
    [] s = "let" -> LetCmd(e, i, tail, st)
    [] s = "with" -> WithCmd(e, i, tail, st)
    [] s = "let*" -> LetstarCmd(e, i, tail, st)
    [] s \in {"=", "setf"} -> EqualCmd(e, i, st)
    [] s = "setq" -> SetqCmd(e, i, st)
    [] s \in {"fn", "def", "defn"} -> LambdaCmd(s, e, i, st)
    [] s \in {"+", "-", "*", "/"} -> MathCmd(s, e, i, st)
    [] s \in {"<", ">", "<=", ">="} -> CmpCmd(e, i, st)
    [] s = "max" -> MinMax(e, i, st, 1)
    [] s = "min" -> MinMax(e, i, st, -1)
    [] s = "pr" -> PrCmd(e, i, st)
    [] s = "try" -> TryCmd(e, i, st)
    [] s = "call/cc" -> CallCcCmd(e, i, st)
    [] s \in Applicative -> ApplicativeCmd(s, e, i, st)

Bound(v) == IF v = NoBinding THEN Err("unbound") ELSE v
\* The callee of a form; a head that is a form is never in tail position.
EvalHead(h, i, st) ==
  CASE Tag(h) = "list" -> Evaluate(h, i, FALSE, st)
    [] IsSym(h) -> R(Bound(Lookup(st, i, h[2])), st)
    [] OTHER -> R(h, st)

\* A value that is no function may be the left operand of an infix form.
\* The stepping debugger keeps a real frame for every call.
EvalForm(f, e, i, tail, st) ==
  CASE Tag(f) = "op" -> InvokeInternal(f[2], e, i, tail /\ f[2] \in TailAware, st)
    [] IsFn(f) -> IF tail /\ st.tier # "debug" THEN MakeTailMarker(f, e, i, st) ELSE Invoke(e, f, i, st)
    [] Tag(f) = "cont" -> EvalContCall(f, e, i, st)
    [] OTHER -> AstTryInfix(f, e, i, st)

WithHead(h, e, i, tail) == IF IsErr(h.v) THEN h ELSE EvalForm(h.v, e, i, tail, h.st)
EvalExpr(e, i, tail, st) ==
  CASE Tag(e) = "list" -> WithHead(EvalHead(e[2][1], i, st), e, i, tail)
    [] IsSym(e) -> EvalHead(e, i, st)
    [] OTHER -> R(e, st)

-----------------------------------------------------------------------------
(* The bytecode machine.                                                   *)

Ins(m) == m.fn[2].code.code[m.pc]
Consts(m) == m.fn[2].code.consts
SlotVal(m, j) == m.st.env[m.k].slots[j][2]
Top(m, n) == SubSeq(m.stack, Len(m.stack) - n + 1, Len(m.stack))
Drop(m, n) == [m EXCEPT !.stack = SubSeq(@, 1, Len(@) - n)]
Fetch(m) == [m EXCEPT !.pc = @ + 1]

\* vm_handler_make_env: a frame with the bindings the try saw when it began.
SnapshotEnv(h, st) == [st EXCEPT !.env = Append(@, h.frame)]

\* vm_unwind_handlers: from the innermost try out, a handler for an error,
\* and finally for whatever comes through.
Handle(h, a, st) == OnError(a, h.handler, LastEnv(st), st)
Finally(h, a, st) ==
  IF h.final = NoBinding THEN a ELSE AfterFinal(a, Evaluate(h.final, LastEnv(st), FALSE, st))
VmUnwindHandlers(hs, r) ==
  FoldRight(LAMBDA h, a : LET b == IF Tag(a.v) = "err" THEN Handle(h, a, SnapshotEnv(h, a.st)) ELSE a
                          IN Finally(h, b, SnapshotEnv(h, b.st)), hs, r)

\* The activation stops with v, and at vm_return unwinds what it pushed.
Finish(m, v) == [m EXCEPT !.leaving = TRUE, !.ret = v, !.stack = << >>]
Returned(m, r) == [m EXCEPT !.done = TRUE, !.ret = r.v, !.st = r.st, !.hs = << >>]
VmReturn(m) == Returned(m, VmUnwindHandlers(m.hs, R(m.ret, m.st)))

Push(m, v) == IF IsErr(v) THEN Finish(m, v)
              ELSE IF Len(m.stack) >= MaxDepth THEN Finish(m, Err("illegal"))
              ELSE [m EXCEPT !.stack = Append(@, v)]
PushResult(m, r) == Push([m EXCEPT !.st = r.st], r.v)

\* lookup through the cache of this bytecode, which answers while nothing
\* global has changed since it was filled.
Cached(st, key, v) ==
  [st EXCEPT !.gc = [x \in DOMAIN @ \cup {key} |-> IF x = key THEN [v |-> v, gen |-> st.gen] ELSE @[x]]]
LookupMiss(m, key, l) ==
  R(Bound(l.v), IF l.global /\ ~ m.fn[2].code.nogcache THEN Cached(m.st, key, l.v) ELSE m.st)
LookupKeyed(m, key) ==
  IF key \in DOMAIN m.st.gc /\ m.st.gc[key].gen = m.st.gen THEN R(m.st.gc[key].v, m.st)
  ELSE LookupMiss(m, key, LookupScoped(m.st, m.k, key[4]))
LookupCached(m, idx) == LookupKeyed(m, <<m.fn[2].name, m.fn[2].params, m.fn[2].body, Consts(m)[idx][2]>>)

LoadFix(m) == Push(Fetch(m), Fix(Ins(m)[2]))
LoadConst(m) == Push(Fetch(m), Consts(m)[Ins(m)[2]])
LoadSlot(m) == Push(Fetch(m), SlotVal(m, Ins(m)[2]))
LoadGlobal(m) == PushResult(Fetch(m), LookupCached(m, Ins(m)[2]))

\* A store leaves its value on the stack.
StoreSlot(m) == [Fetch(m) EXCEPT !.st.env[m.k].slots[Ins(m)[2]][2] = Top(m, 1)[1]]
StoreSymbol(m, stored) ==
  IF Ins(m)[2] \in Reserved THEN Finish(Drop(m, 1), Err("illegal"))
  ELSE [Fetch(m) EXCEPT !.st = stored]
SetqDyn(m) == StoreSymbol(m, SetqStoreSymbol(m.st, m.k, Ins(m)[2], Top(m, 1)[1]))
StoreFree(m) == StoreSymbol(m, AssignStoreSymbol(m.st, m.k, Ins(m)[2], Top(m, 1)[1]))

\* A slot is bound at its index, hidden from lookup when it has no name; one
\* that is unbound keeps its place until it is the last.
Hidden == <<"", Nil>>
BindSlot(m, s) ==
  LET j == Ins(m)[2]
      old == m.st.env[m.k].slots
      bound == <<s, Top(m, 1)[1]>>
      new == IF j <= Len(old) THEN [old EXCEPT ![j] = bound]
             ELSE (old \o [x \in 1 .. j - 1 - Len(old) |-> Hidden]) \o <<bound>>
  IN [Drop(Fetch(m), 1) EXCEPT !.st.env[m.k].slots = new]
UnbindSlot(m) ==
  LET j == Ins(m)[2]
      old == m.st.env[m.k].slots
  IN [Fetch(m) EXCEPT !.st.env[m.k].slots =
        IF j = Len(old) THEN Front(old) ELSE [old EXCEPT ![j] = Hidden]]

\* Each arithmetic instruction checks the fixnum range, but division wraps.
VmArith(op, a, b) ==
  IF ~ IsFix(a) \/ ~ IsFix(b) THEN Err("illegal")
  ELSE IF op = "/" THEN IF b[2] = 0 THEN Err("div0") ELSE MakeFix(Quot(a[2], b[2]))
  ELSE IF FixOpOvf(op, a[2], b[2]) \/ ~ FixFits(FixOp(op, a[2], b[2])) THEN Err("illegal")
  ELSE Fix(FixOp(op, a[2], b[2]))
VmSelect(a, b, better) == IF ~ IsFix(a) \/ ~ IsFix(b) THEN Err("illegal") ELSE IF better THEN b ELSE a
BinaryValue(op, a, b) ==
  CASE op = "ADD" -> VmArith("+", a, b) [] op = "SUB" -> VmArith("-", a, b)
    [] op = "MUL" -> VmArith("*", a, b) [] op = "DIV" -> VmArith("/", a, b)
    [] op = "MOD" -> ModVal(a, b)
    [] op = "LT" -> Compare("<", a, b) [] op = "GT" -> Compare(">", a, b)
    [] op = "LE" -> Compare("<=", a, b) [] op = "GE" -> Compare(">=", a, b)
    [] op = "IS" -> Bool(IsEqual(a, b)) [] op = "ISO" -> Bool(IsoEqual(a, b))
    [] op = "CONS" -> ConsVal(a, b)
    [] op = "NMAX" -> VmSelect(a, b, b[2] > a[2]) [] op = "NMIN" -> VmSelect(a, b, b[2] < a[2])
BinaryOps == {"ADD", "SUB", "MUL", "DIV", "MOD", "LT", "GT", "LE", "GE", "IS", "ISO", "CONS",
              "NMAX", "NMIN"}
UnaryValue(op, a) ==
  CASE op = "NOT" -> Bool(~ IsTrue(a)) [] op = "CAR" -> Car(a) [] op = "CDR" -> Cdr(a)
    [] op = "ABS" -> AbsVal(a) [] op = "LENGTH" -> LengthVal(a)
    [] op = "SQRT_INT" -> IF IsFix(a) THEN SqrtIntVal(a) ELSE Err("illegal")
UnaryOps == {"NOT", "CAR", "CDR", "ABS", "LENGTH", "SQRT_INT"}

\* The operands go, and the result of the instruction takes their place.
Operate(m, n, v) == Push(Drop(Fetch(m), n), v)
Binary(m) == LET x == Top(m, 2) IN Operate(m, 2, BinaryValue(Ins(m)[1], x[1], x[2]))
Unary(m) == Operate(m, 1, UnaryValue(Ins(m)[1], Top(m, 1)[1]))
MakeList(m) == Operate(m, Ins(m)[2], List(Top(m, Ins(m)[2])))
SlotFixOps == {FuseSlotFix(op) : op \in Fusible}
SlotFix(m) ==
  LET op == CHOOSE o \in Fusible : FuseSlotFix(o) = Ins(m)[1]
  IN Operate(m, 0, BinaryValue(op, SlotVal(m, Ins(m)[2]), Fix(Ins(m)[3])))
SlotLeSlot(m) == Operate(m, 0, Compare("<=", SlotVal(m, Ins(m)[2]), SlotVal(m, Ins(m)[3])))

Jump(m) == [Fetch(m) EXCEPT !.pc = @ + Ins(m)[2]]
BranchIf(m, want) == IF IsTrue(Top(m, 1)[1]) = want THEN Jump(Drop(m, 1)) ELSE Fetch(Drop(m, 1))
Dup(m) == Push(Fetch(m), Top(m, 1)[1])
Pop(m) == Drop(Fetch(m), 1)
Ret(m) == Finish(Drop(m, 1), Top(m, 1)[1])

\* A call that returns here.
CallTop(m, q) == PushResult(Drop(Fetch(m), Len(q)), VmInvokeValues(q[1], Tail(q), m.k, m.st))
Call(m) == CallTop(m, Top(m, Ins(m)[2] + 1))
CallFound(m, n, callee) ==
  IF IsErr(callee.v) THEN PushResult(m, callee)
  ELSE PushResult(Drop(Fetch(m), n), VmInvokeValues(callee.v, Top(m, n), m.k, callee.st))
CallGlobal(m) == CallFound(m, Ins(m)[3], LookupCached(m, Ins(m)[2]))
EvalAst(m) == PushResult(Fetch(m), Evaluate(Consts(m)[Ins(m)[2]], m.k, FALSE, m.st))

\* The slots of the parameters take the new arguments; the names they have,
\* the dictionary and what lies deeper on the stack stay.
Rebound(keys, q) == << >> \o [j \in DOMAIN q |-> <<keys[j], q[j]>>]
TailSelf(m) ==
  IF Ins(m)[2] # Len(m.fn[2].code.keys) THEN Finish(m, Err("missing"))
  ELSE [Drop(m, Ins(m)[2]) EXCEPT !.pc = 1,
          !.st.env[m.k].slots = Rebound(m.fn[2].code.keys, Top(m, Ins(m)[2]))]

\* A compiled function of the top level takes over the frame; any other
\* callee is called, and its result returned.
ReusesFrameMut(f) == Tag(f) = "fn" /\ Compiled(f)
ReusesFrame(f) == Tag(f) = "fn" /\ Compiled(f) /\ f[2].env = Root
FinishWith(m, r) == Finish([m EXCEPT !.st = r.st], r.v)
TailPicked(m, f, n) ==
  CASE ~ ReusesFrame(f) -> FinishWith(m, VmInvokeValues(f, Top(m, n), m.k, m.st))
    [] ReusesFrame(f) /\ n # Len(f[2].params) -> Finish(m, Err("missing"))
    [] OTHER -> [m EXCEPT !.fn = f, !.pc = 1, !.stack = << >>,
                          !.st = BindAll(ClearFrame(m.st, m.k), m.k, f[2].code.keys, Top(m, n))]
TailTo(m, f, n) == TailPicked(m, IF Resolve(f, n) = NoBinding THEN f ELSE Resolve(f, n), n)
TailCall(m) == TailTo(m, Top(m, Ins(m)[2] + 1)[1], Ins(m)[2])

\* vm_handler_push: the frame is copied, not referred to.
PushHandler(m) ==
  LET h == [handler |-> Ins(m)[2], final |-> Ins(m)[3], frame |-> m.st.env[m.k]]
  IN [Fetch(m) EXCEPT !.hs = Append(@, h)]

VmStep(m) ==
  LET op == Ins(m)[1] IN
  CASE op = "LOAD_FIX" -> LoadFix(m) [] op = "LOAD_CONST" -> LoadConst(m)
    [] op = "LOAD_SLOT" -> LoadSlot(m) [] op = "LOAD_GLOBAL" -> LoadGlobal(m)
    [] op = "STORE_SLOT" -> StoreSlot(m) [] op = "STORE_FREE" -> StoreFree(m)
    [] op = "SETQ_DYN" -> SetqDyn(m)
    [] op = "BIND_SLOT" -> BindSlot(m, "") [] op = "BIND_SLOT_NAMED" -> BindSlot(m, Ins(m)[3])
    [] op = "UNBIND_SLOT" -> UnbindSlot(m)
    [] op \in BinaryOps -> Binary(m) [] op \in UnaryOps -> Unary(m)
    [] op \in SlotFixOps -> SlotFix(m) [] op = "SLOT_LE_SLOT" -> SlotLeSlot(m)
    [] op = "LIST" -> MakeList(m)
    [] op = "JUMP" -> Jump(m)
    [] op = "BR_IF_FALSE" -> BranchIf(m, FALSE) [] op = "BR_IF_TRUE" -> BranchIf(m, TRUE)
    [] op = "DUP" -> Dup(m) [] op = "POP" -> Pop(m)
    [] op = "CALL" -> Call(m) [] op = "CALL_GLOBAL" -> CallGlobal(m)
    [] op = "TAIL_SELF" -> TailSelf(m) [] op = "TAIL_CALL" -> TailCall(m)
    [] op = "EVAL_AST" -> EvalAst(m) [] op = "PUSH_HANDLER" -> PushHandler(m)
    [] op = "RET" -> Ret(m)

VmAdvance(m) == IF m.leaving THEN VmReturn(m) ELSE VmStep(m)
RunOn(m) == IF m.done THEN R(m.ret, m.st) ELSE VmLoop(VmAdvance(m))

-----------------------------------------------------------------------------
Perform(job, st) ==
  CASE job[1] = "evaluate" -> EvalExpr(job[2], job[3], job[4], st)
    [] job[1] = "invoke" -> InvokeIn(job[2], job[3], MakeEnv(st, job[2][2].env))
    [] job[1] = "body" -> Trampoline(job[2], job[3], st)
    [] job[1] = "values" -> InvokeValues(job[2], job[3], job[4], st)
    [] job[1] = "apply" -> Apply(job[2], job[3], job[4], st)
    [] job[1] = "loop" -> RunOn(job[2])
    [] job[1] = "forms" -> InOrder(job[2], job[3], job[4], st)
    [] job[1] = "clauses" -> Tested(job[2], job[3], job[4], st)
    [] job[1] = "operands" -> Operands(job[2], job[3], job[4], st)
    [] job[1] = "math" -> MathFold(job[2], job[3], job[4], job[5], job[6], st)
    [] job[1] = "compare" -> CmpFold(job[2], job[3], job[4], job[5], st)
=============================================================================

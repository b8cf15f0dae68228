------------------------------ MODULE Builtins ------------------------------
(***************************************************************************)
(* The builtins of the tree walker that the compiler also knows, as far as *)
(* they need no evaluator: what makes a lambda, and what computes a value  *)
(* from values.  Those that evaluate their arguments are in Evaluator.     *)
(*                                                                         *)
(* A builtin answers a result R(v, st): a value and the store it leaves.   *)
(***************************************************************************)
EXTENDS Compiler

R(v, st) == [v |-> v, st |-> st]

\* The short circuit every builtin makes on an error or an escape.
Then(r, F(_, _)) == IF IsErr(r.v) THEN r ELSE F(r.v, r.st)
QuoteCmd(e, st) == R(Arg(e, 1), st)

-----------------------------------------------------------------------------
(* Lambdas.                                                                *)

\* reserved_param_name: a plain name, a name with a default, or the names of
\* a pattern; `.` marks the rest.
IsDefault(p) == Tag(p) = "list" /\ Len(p[2]) = 2 /\ IsSym(p[2][1]) /\ ~ IsSym(p[2][2])
RECURSIVE ParamNames(_)
ParamNames(p) ==
  CASE IsSym(p) -> {p[2]} \ {"."}
    [] IsDefault(p) -> {p[2][1][2]}
    [] OTHER -> UNION {ParamNames(x) : x \in ToSet(Elems(p))}
ReservedParam(params) == \E k \in DOMAIN params : ParamNames(params[k]) \cap Reserved # {}

\* A lambda keeps the frame it is made in, and its code if it compiles.  A
\* lone symbol collects every argument.
ParamsOf(header) == IF IsSym(header) THEN <<Sym("."), header>> ELSE Elems(header)
MakeLambda(x, i, st) ==
  <<"fn", [name |-> x[1], params |-> x[2], body |-> x[3], env |-> i,
           code |-> IF st.tier = "vm" THEN CompileLambda(x[1], x[2], x[3], i # Root) ELSE NoCode]>>

\* The lambdas a form makes, as <<name, parameters, body>>.  A clause of defn
\* is ((params) body ...) or (param ... body ...), where the body starts at
\* the first form that is not a name.
ClauseParts(q) ==
  LET n == IF IsPair(q[1]) THEN 1
           ELSE CHOOSE k \in 0 .. Len(q) : /\ \A j \in 1 .. k : IsSym(q[j])
                                           /\ k = Len(q) \/ ~ IsSym(q[k + 1])
  IN <<"", IF IsPair(q[1]) THEN Elems(q[1]) ELSE SubSeq(q, 1, n), SubSeq(q, n + 1, Len(q))>>
LambdaParts(s, e) ==
  CASE s = "fn" -> <<<<"", ParamsOf(Arg(e, 1)), BodyOf(e)>>>>
    [] s = "def" -> <<<<Arg(e, 1)[2], ParamsOf(Arg(e, 2)), SubSeq(Args(e), 3, NArgs(e))>>>>
    [] s = "defn" -> [k \in DOMAIN BodyOf(e) |-> ClauseParts(Elems(BodyOf(e)[k]))]

\* fncmd answers the lambda; defcmd and defncmd define it too, the latter as
\* a wrapper of its clauses.
Define1(s, f, i, st) == R(f, Define(st, i, s, f))
Installed(s, e, fs, i, st) ==
  CASE s = "fn" -> R(fs[1], st)
    [] s = "def" -> Define1(Arg(e, 1)[2], fs[1], i, st)
    [] s = "defn" -> Define1(Arg(e, 1)[2], <<"multi", Arg(e, 1)[2], fs>>, i, st)
LambdaRefused(s, e) == IF s = "defn" THEN Arg(e, 1)[2] \in Reserved ELSE ReservedParam(LambdaParts(s, e)[1][2])
LambdaCmd(s, e, i, st) ==
  IF LambdaRefused(s, e) THEN R(Err("illegal"), st)
  ELSE Installed(s, e, [k \in DOMAIN LambdaParts(s, e) |-> MakeLambda(LambdaParts(s, e)[k], i, st)], i, st)

-----------------------------------------------------------------------------
(* Values.                                                                 *)

\* A comparison of two numbers; anything else is incompatible.
Compare(op, a, b) ==
  IF ~ IsFix(a) \/ ~ IsFix(b) THEN Err("illegal")
  ELSE Bool(CASE op = "<" -> a[2] < b[2] [] op = ">" -> a[2] > b[2]
              [] op = "<=" -> a[2] <= b[2] [] op = ">=" -> a[2] >= b[2])

ModVal(a, b) == IF ~ IsFix(a) \/ ~ IsFix(b) THEN Err("illegal")
                ELSE IF b[2] = 0 THEN Err("div0") ELSE Fix(Rem(a[2], b[2]))
AbsVal(v) == LET n == IF v[2] < 0 THEN -v[2] ELSE v[2]
             IN IF ~ IsFix(v) THEN Err("illegal") ELSE IF FixFits(n) THEN Fix(n) ELSE Err("illegal")
SqrtIntVal(v) == IF ~ IsFix(v) THEN Err("number")
                 ELSE Fix(CHOOSE r \in 0 .. FixMax :
                            IF v[2] < 0 THEN r = 0 ELSE r * r <= v[2] /\ (r + 1) * (r + 1) > v[2])
LengthVal(v) == IF IsPair(v) THEN Fix(IF v = Nil THEN 0 ELSE Len(v[2])) ELSE Err("illegal")

\* The builtins that evaluate a fixed number of arguments and compute.
Applicative == {"is", "iso", "isnt", "mod", "abs", "no", "sqrt-int", "length", "cons", "car",
                "cdr", "list"}
ValueOf(s, vs) ==
  CASE s = "is" -> Bool(IsEqual(vs[1], vs[2]))
    [] s = "iso" -> Bool(IsoEqual(vs[1], vs[2]))
    [] s = "isnt" -> Bool(~ IsEqual(vs[1], vs[2]))
    [] s = "mod" -> ModVal(vs[1], vs[2])
    [] s = "abs" -> AbsVal(vs[1])
    [] s = "no" -> Bool(~ IsTrue(vs[1]))
    [] s = "sqrt-int" -> SqrtIntVal(vs[1])
    [] s = "length" -> LengthVal(vs[1])
    [] s = "cons" -> ConsVal(vs[1], vs[2])
    [] s = "car" -> Car(vs[1])
    [] s = "cdr" -> Cdr(vs[1])
    [] s = "list" -> List(vs)
=============================================================================

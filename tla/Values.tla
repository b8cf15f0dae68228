------------------------------- MODULE Values -------------------------------
(***************************************************************************)
(* The values of the interpreter, and the forms it evaluates, which are    *)
(* values too.  A value is a tuple whose first component is its tag:       *)
(*                                                                         *)
(*   <<"fix", n>>          a tagged integer, 61 bits wide in the code      *)
(*   <<"nil">>             nil, the empty list                             *)
(*   <<"t">>               the value a true test answers                   *)
(*   <<"sym", s>>          a symbol                                        *)
(*   <<"list", q, last>>   a chain of pairs: cars q, final cdr last        *)
(*   <<"op", s>>           the builtin named s                             *)
(*   <<"fn", r>>           a lambda, <<"macro", r>> a macro, and           *)
(*   <<"multi", name, q>>  a defn wrapper over the clause lambdas q        *)
(*   <<"cont", k>>         an escape continuation of call/cc               *)
(*   <<"err", code>>       an error value                                  *)
(*   <<"esc", k, v>>       the token of an escape on its way to call/cc k  *)
(*   <<"tail", f, q>>      a trampoline marker: call f with the values q   *)
(*                                                                         *)
(* Floats, rationals, decimals, strings and containers are left out: every *)
(* arithmetic operand that is not a fixnum is "not a number" here.         *)
(***************************************************************************)
EXTENDS Integers, Sequences

CONSTANTS
  FixMax,       \* the largest fixnum: 2^60 - 1 in the code
  WordMax,      \* the largest int64_t: 2^63 - 1 in the code
  ImmMax,       \* the largest int16_t, an operand of the fused instructions
  InlineSlots   \* ENV_INLINE_SLOTS: the bindings a frame holds inline

ASSUME WidthAssumption ==
  /\ FixMax \in Nat \ {0} /\ ImmMax \in 1 .. FixMax
  /\ WordMax \in Nat /\ WordMax >= 8 * FixMax + 7
  /\ InlineSlots \in Nat \ {0}

FixMin == -FixMax - 1
FixFits(n) == FixMin <= n /\ n <= FixMax
WordFits(n) == -WordMax - 1 <= n /\ n <= WordMax

\* MAKE_FIX shifts the payload left: the top bits of a word that does not
\* fit are lost, and FIX_VAL sign-extends what is left.
MakeFix(n) == LET m == 2 * (FixMax + 1)
                  r == n % m
              IN <<"fix", IF r > FixMax THEN r - m ELSE r>>

-----------------------------------------------------------------------------
Fix(n) == <<"fix", n>>
Nil == <<"nil">>
T == <<"t">>
Sym(s) == <<"sym", s>>
Op(s) == <<"op", s>>
Err(c) == <<"err", c>>
List(q) == IF q = << >> THEN Nil ELSE <<"list", q, Nil>>

Tag(v) == v[1]
IsFix(v) == Tag(v) = "fix"
IsSym(v) == Tag(v) = "sym"
IsPair(v) == Tag(v) \in {"list", "nil"}
IsFn(v) == Tag(v) \in {"fn", "multi"}
\* iserror: an escape token is an error value with a code of its own.
IsErr(v) == v[1] \in {"err", "esc"}
Bool(b) == IF b THEN T ELSE Nil

\* Zero is false, and so is an error value; a callable is true.
IsTrue(v) == CASE IsFix(v) -> v[2] # 0
               [] IsSym(v) -> v[2] # "nil"
               [] OTHER -> Tag(v) \notin {"nil", "err", "esc"}

Car(v) == IF Tag(v) = "list" THEN v[2][1] ELSE Nil
Cdr(v) == IF Tag(v) # "list" THEN Nil
          ELSE IF Len(v[2]) = 1 THEN v[3] ELSE <<"list", Tail(v[2]), v[3]>>
ConsVal(a, b) == CASE Tag(b) = "list" -> <<"list", <<a>> \o b[2], b[3]>>
                [] OTHER -> <<"list", <<a>>, b>>

\* The elements of a proper list.
Elems(v) == IF Tag(v) = "list" THEN v[2] ELSE << >>

\* isequal of two values of the model: numbers by value, symbols by name,
\* nil with nil.  Two pairs are the same object only if they are the same
\* node, which the model does not track: a program that compares pairs with
\* `is` is outside it.
IsEqual(a, b) ==
  /\ Tag(a) = Tag(b)
  /\ CASE Tag(a) \in {"fix", "sym", "op"} -> a[2] = b[2]
       [] OTHER -> Tag(a) \in {"nil", "t"}

\* isoequal: pairs are compared element by element and then by their tails,
\* any other two values as isequal compares them.
IsoEqual(a, b) == IF Tag(a) = "list" THEN a = b ELSE IsEqual(a, b)

\* C's truncated division.
Quot(a, b) == LET q == (IF a < 0 THEN -a ELSE a) \div (IF b < 0 THEN -b ELSE b)
              IN IF (a < 0) = (b < 0) THEN q ELSE -q
Rem(a, b) == a - Quot(a, b) * b

\* fix_op_ovf: one step of a fold in int64_t.  A result outside the word is
\* an overflow; the fixnum range is the caller's to check.
FixOp(op, a, b) == CASE op = "+" -> a + b
                     [] op = "-" -> a - b
                     [] op = "*" -> a * b
                     [] op = "/" -> Quot(a, b)
FixOpOvf(op, a, b) == ~ WordFits(FixOp(op, a, b))
=============================================================================

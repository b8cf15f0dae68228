------------------------------ MODULE MCTiers ------------------------------
(* The bounded instances of Tiers for the model checker.                   *)
EXTENDS Tiers

ReservedNames ==
  {"if", "cond", "when", "unless", "while", "repeat", "and", "or", "case", "for", "do", "quote",
   "let", "with", "let*", "=", "setf", "setq", "fn", "def", "defn", "+", "-", "*", "/", "<", ">",
   "<=", ">=", "max", "min", "pr", "try", "call/cc", "t", "nil"} \cup Applicative
TailAwareNames == {"if", "do", "when", "unless", "and", "or", "cond", "case", "let", "let*", "with"}

C(head, args) == List(<<Sym(head)>> \o args)
L(q) == List(q)
S(s) == Sym(s)
N(n) == Fix(n)
X == Sym("x")
Y == Sym("y")
G == Sym("g")
Def(name, params, body) == C("def", <<S(name), L(params)>> \o body)
Fn(params, body) == C("fn", <<L(params)>> \o body)
Set(s, e) == C("=", <<S(s), e>>)
Quote(e) == C("quote", <<e>>)
Main(defs, params, body, args) ==
  [defs |-> Append(defs, Def("main", params, body)), main |-> "main", args |-> args]

-----------------------------------------------------------------------------
(* Small programs, enumerated.                                             *)

\* Two numbers, lists or names through every operator, in both notations.
Operand == {X, Y, N(2), N(-3), Nil, Quote(L(<<N(1), N(2)>>))}
BinaryNames == {"+", "-", "*", "/", "mod", "<", "<=", ">", ">=", "is", "iso", "isnt", "cons", "max", "min"}
UnaryNames == {"car", "cdr", "abs", "no", "length", "list"}
Arguments == {<<N(7), N(2)>>, <<N(-8), N(2)>>, <<N(1), N(0)>>, <<Nil, N(2)>>}
Arithmetic ==
  {Main(<< >>, <<X, Y>>, <<C(op, <<a, b>>)>>, vs) : op \in BinaryNames, a, b \in Operand, vs \in Arguments}
  \cup {Main(<< >>, <<X, Y>>, <<C(op, <<a>>)>>, vs) : op \in UnaryNames, a \in Operand, vs \in Arguments}
  \cup {Main(<< >>, <<X, Y>>, <<L(<<a, S(op), b>>)>>, vs) :
          op \in NativeOps, a \in {X, N(2), C("+", <<X, N(1)>>)}, b \in {Y, N(3)}, vs \in Arguments}

\* Every control form over tests and branches with effects, in the tail and
\* not, around a call, an assignment and a print.
Tests == {X, C("<", <<X, Y>>), C("do", <<C("pr", <<X>>), Nil>>), C("no", <<X>>)}
Branches == {Y, C("f", <<X>>), C("do", <<Set("x", N(4)), C("pr", <<X>>), X>>),
             C("setq", <<G, C("+", <<G, N(1)>>)>>), C("+", <<Nil, N(1)>>)}
Forms(t, a, b) ==
  {C("if", <<t, a, b>>), C("if", <<t, a>>), C("when", <<t, a, b>>), C("unless", <<t, a, b>>),
   C("and", <<t, a, b>>), C("or", <<t, a, b>>), C("cond", <<t, a, Y, b>>), C("cond", <<t, a, b>>),
   C("case", <<X, N(1), a, N(2), b>>), C("case", <<X, N(1), a, b>>), C("do", <<t, a, b>>),
   C("let", <<S("v"), t, C("cons", <<S("v"), a>>)>>),
   C("let", <<L(<<L(<<X, Y>>), L(<<Y, X>>)>>), C("cons", <<a, b>>)>>),
   C("let", <<L(<<S("v"), Y, X, C("list", <<X>>)>>), C("cons", <<X, b>>)>>),
   C("let", <<L(<<S("v"), S("w")>>), C("list", <<a, Y>>), C("cons", <<S("w"), b>>)>>),
   C("with", <<L(<<X, t, S("v"), X>>), C("list", <<S("v"), X, b>>)>>),
   C("let*", <<L(<<S("v"), t, S("w"), C("list", <<S("v")>>)>>), C("cons", <<S("w"), b>>)>>),
   C("for", <<S("i"), N(1), Y, C("pr", <<S("i")>>), a>>)}
Around(e) == {e, C("cons", <<e, X>>)}
Helpers == <<C("=", <<G, N(5)>>), Def("f", <<Y>>, <<C("if", <<Y, C("*", <<Y, N(2)>>), G>>)>>)>>
Control ==
  UNION {{Main(Helpers, <<X, Y>>, <<body>>, vs) : body \in UNION {Around(e) : e \in Forms(t, a, b)}} :
         t \in Tests, a \in Branches, b \in {Y, C("f", <<Y>>)}, vs \in {<<N(1), N(2)>>, <<Nil, N(1)>>}}

-----------------------------------------------------------------------------
(* Programs written for one hazard each.                                   *)

Written == {
  \* a self call in the tail, with a let around it and a local of the frame
  Main(<< >>, <<X, Y>>,
       <<C("if", <<C("is", <<X, N(0)>>), Y,
           C("let", <<S("v"), C("+", <<Y, X>>), C("main", <<C("-", <<X, N(1)>>), S("v")>>)>>)>>)>>,
       <<N(2), N(0)>>),
  \* two functions that call one another in the tail
  Main(<<Def("ev", <<X>>, <<C("if", <<C("is", <<X, N(0)>>), Quote(S("even")), C("od", <<C("-", <<X, N(1)>>)>>)>>)>>),
         Def("od", <<Y>>, <<C("if", <<C("is", <<Y, N(0)>>), Quote(S("odd")), C("ev", <<C("-", <<Y, N(1)>>)>>)>>)>>)>>,
       <<X>>, <<C("ev", <<X>>)>>, <<N(2)>>),
  \* a defn whose clauses call one another, with an accumulator
  Main(<<C("defn", <<S("sum"), L(<<L(<<X>>), C("sum", <<X, N(0)>>)>>),
                     L(<<L(<<X, Y>>), C("if", <<C("is", <<X, N(0)>>), Y,
                                          C("sum", <<C("-", <<X, N(1)>>), C("+", <<Y, X>>)>>)>>)>>)>>)>>,
       <<X>>, <<C("sum", <<X>>)>>, <<N(2)>>),
  Main(<<C("defn", <<S("one"), L(<<L(<<X>>), X>>)>>)>>, <<X>>, <<C("one", <<X, X>>)>>, <<N(3)>>),
  \* a closure with a counter of its own, called twice
  Main(<<Def("make", <<X>>, <<Fn(<< >>, <<Set("x", C("+", <<X, N(1)>>))>>)>>)>>, <<Y>>,
       <<C("let", <<L(<<S("a"), C("make", <<Y>>), S("b"), C("make", <<N(0)>>)>>),
            L(<<S("a")>>), L(<<S("b")>>), C("list", <<L(<<S("a")>>), L(<<S("b")>>)>>)>>)>>, <<N(5)>>),
  \* a local function in the tail, which must not take over the frame
  Main(<< >>, <<X>>, <<C("let", <<S("h"), Fn(<<Y>>, <<C("+", <<X, Y>>)>>), C("h", <<N(2)>>)>>)>>, <<N(3)>>),
  Main(<<Def("adder", <<X>>, <<Fn(<<Y>>, <<C("+", <<X, Y>>)>>)>>), C("=", <<S("add3"), C("adder", <<N(3)>>)>>)>>,
       <<X>>, <<C("add3", <<X>>)>>, <<N(1)>>),
  \* a global redefined between two calls of one call site
  Main(<<Def("f", <<X>>, <<N(1)>>), Def("swap", << >>, <<C("setq", <<S("f"), S("k")>>)>>),
         Def("k", <<X>>, <<N(2)>>),
         Def("twice", <<X>>, <<C("cons", <<C("f", <<X>>), X>>)>>)>>,
       <<X>>, <<C("list", <<C("twice", <<X>>), C("swap", << >>), C("twice", <<X>>)>>)>>, <<N(0)>>),
  Main(<<C("=", <<G, N(1)>>)>>, <<X>>,
       <<C("pr", <<G>>), C("let", <<S("v"), G, C("setq", <<G, C("+", <<G, X>>)>>), C("list", <<S("v"), G>>)>>)>>,
       <<N(2)>>),
  Main(<<C("=", <<G, N(1)>>)>>, <<X>>,
       <<C("when", <<C("<", <<G, X>>), C("setq", <<G, C("+", <<G, N(1)>>)>>), C("main", <<X>>)>>), G>>, <<N(3)>>),
  \* a global read in a loop that sets it
  Main(<<C("=", <<G, N(1)>>)>>, <<X>>,
       <<C("for", <<S("i"), N(1), X, C("setq", <<G, C("*", <<G, N(2)>>)>>), G>>)>>, <<N(3)>>),
  \* a name created by setq, and one by = in the frame
  Main(<<Def("f", <<X>>, <<C("setq", <<S("n"), X>>)>>)>>, <<X>>, <<C("f", <<X>>), C("+", <<S("n"), N(1)>>)>>, <<N(4)>>),
  Main(<< >>, <<X>>, <<Set("n", X), C("+", <<S("n"), S("n")>>)>>, <<N(4)>>),
  Main(<< >>, <<X>>, <<C("setq", <<S("a"), X, S("b"), C("+", <<S("a"), N(1)>>)>>), C("list", <<S("a"), S("b")>>)>>, <<N(4)>>),
  Main(<< >>, <<X>>, <<C("setq", <<S("car"), X>>)>>, <<N(4)>>),
  Main(<< >>, <<X>>, <<C("+", <<N(1), S("nowhere")>>)>>, <<N(4)>>),
  \* loops of the tree walker inside compiled code, over its slots
  Main(<< >>, <<X>>, <<C("while", <<C("<", <<N(0), X>>), C("pr", <<X>>), Set("x", C("-", <<X, N(1)>>))>>), X>>, <<N(2)>>),
  Main(<< >>, <<X>>, <<C("let", <<S("v"), N(1), C("repeat", <<X, Set("v", C("*", <<S("v"), N(2)>>))>>),
                                   C("list", <<S("v"), X>>)>>)>>, <<N(3)>>),
  Main(<< >>, <<X>>, <<C("let", <<X, C("+", <<X, N(1)>>), C("let", <<X, C("+", <<X, N(1)>>), C("isnt", <<X, N(3)>>)>>),
                                  C("pr", <<X>>), C("pr", <<C("isnt", <<X, N(2)>>)>>)>>), C("pr", <<X>>)>>, <<N(1)>>),
  \* errors: raised, caught, raised again, with a clean-up, at several depths
  Main(<< >>, <<X>>, <<C("try", <<C("/", <<X, N(0)>>), Fn(<<S("e")>>, <<C("list", <<X>>)>>), C("pr", <<X>>)>>)>>, <<N(1)>>),
  Main(<<Def("f", <<Y>>, <<C("try", <<C("/", <<Y, N(0)>>), Nil, C("pr", <<Y>>)>>)>>)>>, <<X>>,
       <<C("try", <<C("f", <<C("+", <<X, N(1)>>)>>), Fn(<<S("e")>>, <<N(6)>>), C("pr", <<X>>)>>)>>, <<N(1)>>),
  Main(<<Def("f", <<Y>>, <<C("/", <<Y, N(0)>>)>>)>>, <<X>>,
       <<C("cons", <<C("try", <<C("f", <<X>>), Fn(<<S("e")>>, <<C("f", <<X>>)>>)>>), X>>)>>, <<N(1)>>),
  Main(<< >>, <<X>>,
       <<C("try", <<C("if", <<C("is", <<X, N(0)>>), C("car", <<C("+", <<Nil, N(1)>>)>>),
                             C("main", <<C("-", <<X, N(1)>>)>>)>>),
                   Fn(<<S("e")>>, <<C("if", <<C("<", <<X, N(2)>>), C("+", <<Nil, N(1)>>), X>>)>>),
                   C("pr", <<X>>)>>)>>, <<N(1)>>),
  Main(<< >>, <<X>>, <<C("try", <<X, Nil, C("/", <<N(1), N(0)>>)>>)>>, <<N(1)>>),
  Main(<< >>, <<X>>, <<C("let", <<S("v"), N(4), C("try", <<C("main", <<X, X>>), Fn(<<S("e")>>, <<S("v")>>)>>)>>)>>, <<N(1)>>),
  \* an escape through a compiled try, and one past its call/cc
  Main(<< >>, <<X>>,
       <<C("call/cc", <<Fn(<<S("k")>>, <<C("try", <<C("k", <<N(3)>>), Fn(<<S("e")>>, <<N(9)>>), C("pr", <<X>>)>>)>>)>>)>>, <<N(1)>>),
  Main(<<Def("out", <<S("k"), X>>, <<C("if", <<C("is", <<X, N(0)>>), C("k", <<N(7)>>),
                                       C("cons", <<X, C("out", <<S("k"), C("-", <<X, N(1)>>)>>)>>)>>)>>)>>, <<X>>,
       <<C("cons", <<C("call/cc", <<Fn(<<S("k")>>, <<C("out", <<S("k"), X>>)>>)>>), X>>)>>, <<N(1)>>),
  Main(<< >>, <<X>>, <<C("call/cc", <<Fn(<<S("k")>>, <<C("for", <<S("i"), N(1), N(3),
         C("when", <<C("is", <<S("i"), X>>), C("k", <<C("*", <<S("i"), N(3)>>)>>)>>)>>)>>)>>)>>, <<N(2)>>),
  \* functions that do not compile: rest, default and pattern parameters
  Main(<<Def("f", <<X, S("."), Y>>, <<C("list", <<X, Y>>)>>)>>, <<X>>, <<C("list", <<C("f", <<X>>), C("f", <<X, N(1), N(2)>>)>>)>>, <<N(3)>>),
  Main(<<Def("f", <<X, L(<<Y, C("+", <<X, N(1)>>)>>)>>, <<C("list", <<X, Y>>)>>)>>, <<X>>, <<C("f", <<X>>)>>, <<N(3)>>),
  Main(<<Def("f", <<X>>, <<Fn(<<S("z")>>, <<C("f", <<S("z")>>)>>), C("quote", <<X>>)>>)>>, <<S("."), X>>, <<C("f", <<X>>)>>, <<N(3), N(1)>>),
  \* more names than a frame has slots for, and an operand stack that is full
  Main(<< >>, <<X>>, <<C("let*", <<L(<<S("a"), X, S("b"), S("a"), S("c"), S("b"), S("d"), S("c"), S("h"), S("d")>>),
                                   C("list", <<S("a"), S("h")>>)>>)>>, <<N(3)>>),
  Main(<<Def("f", <<X>>, <<X>>)>>, <<X>>, <<C("f", <<X, X>>)>>, <<N(3)>>),
  Main(<<Def("f", <<X>>, <<X>>)>>, <<X>>, <<C("cons", <<C("f", << >>), X>>)>>, <<N(3)>>),
  \* values called: a builtin, a number, a name that holds a builtin
  Main(<< >>, <<X>>, <<C("let", <<S("h"), S("car"), C("h", <<X>>)>>)>>, <<L(<<N(3)>>)>>),
  Main(<< >>, <<X>>, <<C("cons", <<L(<<C("do", <<X>>), N(1)>>), X>>)>>, <<N(3)>>),
  Main(<<Def("app", <<S("h"), X>>, <<C("h", <<X>>)>>)>>, <<X>>, <<C("list", <<C("app", <<S("cdr"), X>>), C("app", <<S("no"), X>>)>>)>>,
       <<L(<<N(3), N(4)>>)>>)
}

\* A body that assigns the counter of its loop (forcmd, compile_for).
CounterAssigned ==
  {Main(<< >>, <<X>>, <<C("for", <<S("i"), N(1), X, C("pr", <<S("i")>>), Set("i", C("+", <<S("i"), N(1)>>))>>)>>, <<N(3)>>)}

-----------------------------------------------------------------------------
(* One program for each shape the native compiler knows, at the edges of   *)
(* the shape and of the fixnums.                                           *)

Z == S("z")
Self(q) == C("main", q)
If(t, a, b) == C("if", <<t, a, b>>)
Add(a, n) == C("+", <<a, N(n)>>)
Sub(a, n) == C("-", <<a, N(n)>>)
Hot1(body, values) == {Main(Helpers, <<X>>, <<body>>, <<v>>) : v \in values}
Hot2(body, pairs) == {Main(Helpers, <<X, Y>>, <<body>>, q) : q \in pairs}
Hot3(defs, body, triples) == {Main(defs, <<X, Y, Z>>, <<body>>, q) : q \in triples}
Ns(q) == L([k \in DOMAIN q |-> N(q[k])])

Counters == UNION {
  Hot1(If(C(">", <<X, N(0)>>), Self(<<Sub(X, 1)>>), X), {N(2), N(-2), Nil}),
  Hot1(If(C("<=", <<X, N(5)>>), Self(<<Add(X, 4)>>), X), {N(1), N(6)}),
  Hot1(If(C(">", <<X, N(-3)>>), Self(<<Add(X, 7)>>), X), {N(15)}),
  Hot1(If(C("is", <<X, N(0)>>), X, Self(<<Sub(X, 1)>>)), {N(2), N(-31), T}),
  Hot1(If(C(">", <<X, N(9)>>), Self(<<Sub(X, 3)>>), X), {N(13), N(9), Nil}),
  Hot1(If(C("<", <<X, N(30)>>), Self(<<Add(X, 5)>>), X), {N(20), N(29)}),
  Hot1(If(C(">", <<X, N(0)>>), C("do", <<C("pr", <<X>>), Self(<<Sub(X, 1)>>)>>), X), {N(2)}),
  {Main(<<Def("f", <<Y>>, <<C("pr", <<Y>>)>>)>>, <<X>>,
        <<If(C(">", <<X, N(0)>>), C("do", <<C("f", <<N(5)>>), Self(<<Sub(X, 1)>>)>>), X)>>, <<v>>) :
     v \in {N(2), N(0), Nil}},
  Hot1(If(C(">", <<X, N(0)>>), C("do", <<C("car", <<N(5)>>), C("f", <<Nil>>), Self(<<Sub(X, 1)>>)>>), X), {N(2)}),
  {Main(<<Def("f", <<Y>>, <<C("/", <<Y, N(0)>>)>>)>>, <<X>>,
        <<If(C(">", <<X, N(0)>>), C("do", <<C("f", <<N(5)>>), Self(<<Sub(X, 1)>>)>>), X)>>, <<N(2)>>)},
  Hot2(If(C("<", <<X, Y>>), Self(<<Add(X, 1), Y>>), X), {<<N(1), N(3)>>, <<N(3), N(3)>>, <<N(1), Nil>>}),
  Hot2(If(C("<", <<X, N(6)>>), Self(<<Add(X, 2), X>>), If(C(">=", <<Y, X>>), Y, Self(<<X, Add(X, 7)>>))),
       {<<N(1), N(2)>>, <<N(9), N(4)>>, <<N(26), N(1)>>}),
  {Main(<< >>, <<X>>, <<C("let", <<S("s"), N(1), C("for", <<S("i"), N(2), X, Set("s", Add(S("s"), 6))>>)>>)>>, <<v>>) :
     v \in {N(2), N(6), N(7), Nil}}}

Recursions == UNION {
  Hot1(If(C("<", <<X, N(-7)>>), X, C("+", <<Self(<<Sub(X, 1)>>), Self(<<Sub(X, 2)>>)>>)),
       {N(-20), N(-8), N(-7), N(-6), N(-5), Nil}),
  Hot1(If(C("<", <<X, N(2)>>), X, C("+", <<C("f", <<Sub(X, 1)>>), C("f", <<Sub(X, 2)>>)>>)),
       {N(1), N(4), N(12), Nil}),
  Hot1(If(C("<", <<X, N(2)>>), N(1), C("*", <<X, Self(<<Sub(X, 1)>>)>>)), {N(-1), N(3), Nil}),
  Hot1(If(C("<", <<X, N(4)>>), N(3), C("*", <<X, Self(<<Sub(X, 1)>>)>>)), {N(4), N(5)}),
  Hot1(If(C("<", <<X, N(7)>>), N(1), C("*", <<X, Self(<<Sub(X, 7)>>)>>)), {N(23)}),
  Hot2(If(C("is", <<X, N(0)>>), Add(Y, 1),
          If(C("is", <<Y, N(0)>>), Self(<<Sub(X, 1), N(1)>>), Self(<<Sub(X, 1), Self(<<X, Sub(Y, 1)>>)>>))),
       {<<N(0), N(4)>>, <<N(2), N(0)>>, <<N(1), N(1)>>, <<Nil, N(1)>>, <<N(1), Nil>>}),
  Hot3(<< >>, If(C("no", <<C("<", <<Y, X>>)>>), Z,
                 Self(<<Self(<<Sub(X, 1), Y, Z>>), Self(<<Sub(Y, 1), Z, X>>), Self(<<Sub(Z, 1), X, Y>>)>>)),
       {<<N(1), N(2), N(3)>>, <<N(2), N(1), N(0)>>, <<N(0), N(0), Nil>>, <<N(2), Nil, N(0)>>})}

NoConflict(name, self) ==
  Def(name, <<X, Y, Z>>,
      <<If(C("no", <<Y>>), S("t"),
           If(C("is", <<X, C("car", <<Y>>)>>), S("nil"),
              If(C("is", <<C("+", <<X, Z>>), C("car", <<Y>>)>>), S("nil"),
                 If(C("is", <<C("-", <<X, Z>>), C("car", <<Y>>)>>), S("nil"),
                    C(self, <<X, C("cdr", <<Y>>), Add(Z, 1)>>)))))>>)
TryCols ==
  Def("try-cols", <<S("n"), X, Y, Z>>,
      <<If(C(">", <<X, S("n")>>), Z,
           C("try-cols", <<S("n"), Add(X, 1), Y,
                           If(C("safe?", <<X, Y, N(1)>>),
                              C("+", <<Z, C("solve", <<S("n"), C("cons", <<X, Y>>)>>)>>), Z)>>))>>)
Solve == Def("solve", <<S("n"), Y>>,
             <<If(C("is", <<C("length", <<Y>>), S("n")>>), N(1), C("try-cols", <<S("n"), N(1), Y, N(0)>>))>>)
Keep == Def("keep", <<X, Y>>, <<C("is", <<C("mod", <<Y, N(2)>>), N(0)>>)>>)
Lists == UNION {
  Hot2(If(C("no", <<X>>), S("t"), If(C("is", <<C("mod", <<Y, C("car", <<X>>)>>), N(0)>>), S("nil"),
                                     Self(<<C("cdr", <<X>>), Y>>))),
       {<<Ns(<<2, 3>>), N(7)>>, <<Ns(<<2, 3>>), N(-9)>>, <<Ns(<<2, 0>>), N(7)>>, <<Ns(<<2>>), Nil>>,
        <<L(<<N(2), S("a")>>), N(7)>>, <<Nil, Nil>>}),
  {[defs |-> <<NoConflict("main", "main")>>, main |-> "main", args |-> q] :
     q \in {<<N(4), Ns(<<1, 2>>), N(1)>>, <<N(3), Ns(<<1, 2>>), N(1)>>, <<N(1), Ns(<<5, 3>>), N(1)>>, <<N(5), Nil, Nil>>,
            <<N(1), Ns(<<5, 3>>), Nil>>, <<N(2), L(<<N(5), T>>), N(1)>>}},
  Hot3(<< >>, If(C(">", <<X, Y>>), Z, Self(<<Add(X, 1), Y, C("cons", <<X, Z>>)>>)),
       {<<N(1), N(2), Nil>>, <<N(2), N(3), N(7)>>, <<N(2), N(1), T>>, <<N(2), Nil, Nil>>}),
  Hot3(<<Keep>>, If(C(">", <<X, Y>>), Z, If(C("keep", <<Z, X>>), Self(<<Add(X, 1), Y, C("cons", <<X, Z>>)>>),
                                            Self(<<Add(X, 1), Y, Z>>))),
       {<<N(1), N(2), Nil>>, <<N(3), N(1), N(7)>>, <<Nil, N(1), Nil>>}),
  Hot3(<< >>, If(C(">", <<X, Y>>), Z, If(C("keep", <<Z, X>>), Self(<<Add(X, 1), Y, C("cons", <<X, Z>>)>>),
                                            Self(<<Add(X, 1), Y, Z>>))),
       {<<N(1), N(2), Nil>>}),
  {[defs |-> <<NoConflict("safe?", "safe?"), TryCols, Solve>>, main |-> "solve", args |-> q] :
     q \in {<<N(0), Nil>>, <<N(1), Nil>>, <<N(2), Ns(<<5>>)>>, <<N(2), Ns(<<1>>)>>}}}

Leaves == UNION {
  Hot1(N(5), {N(1)}), Hot1(Sub(X, 7), {N(-20), N(-30), Nil}), Hot1(Add(X, 7), {N(24), N(25)}),
  Hot1(C("*", <<X, N(4)>>), {N(7), N(-8), N(8), T}),
  Hot2(C("is", <<C("mod", <<X, Y>>), N(1)>>), {<<N(7), N(3)>>, <<N(-7), N(3)>>, <<N(7), N(0)>>, <<Nil, N(2)>>})}
Hot == Counters \cup Recursions \cup Lists \cup Leaves

\* The Fibonacci numbers with the base case written <=: f(1) is 1.
FibonacciAtMost ==
  Hot1(If(C("<=", <<X, N(1)>>), X, C("+", <<Self(<<Sub(X, 1)>>), Self(<<Sub(X, 2)>>)>>)), {N(k) : k \in 0 .. 2})

AllPrograms == Arithmetic \cup Control \cup Written \cup Hot
=============================================================================

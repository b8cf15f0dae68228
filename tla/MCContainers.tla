---------------------------- MODULE MCContainers -----------------------------
(***************************************************************************)
(* Programs on one container of each kind: with hooks and few operands, or *)
(* without hooks and all operations; and a program that keeps containers   *)
(* in persistent global variables and has no other.                        *)
(***************************************************************************)
EXTENDS Containers

CONSTANT MCScenes   \* the names of the scenes of a run

VARIABLES globals, file, cached

Fix(n) == <<"fix", n>>
Flt(n) == <<"flo", n>>
Sym(s) == <<"sym", s>>
Str(s) == <<"str", s>>
Txt(s) == <<"text", s>>
C(kind, op, args) == [kind |-> kind, op |-> op, args |-> args, given |-> << >>, means |-> << >>]
CGiven(kind, op, given, means) == [kind |-> kind, op |-> op, args |-> <<Nil>>, given |-> given, means |-> means]
Both(kind, ops, args) == {C(kind, op, args) : op \in ops}

MCTextOf == [n \in {1} |-> "1"]
MCNumberOf == [t \in {"1"} |-> 1]
\* The texts "1" and ":a" share a bucket of the small table; of the members
\* of a set, 1 and "1" do in every table.
MCHashOf == [k \in {Txt("1"), Txt(":a"), Txt("b")} |-> CASE k = Txt("1") -> 1 [] k = Txt(":a") -> 3 [] OTHER -> 2]
            @@ (Fix(1) :> 1 @@ Str("1") :> 1 @@ Nil :> 3 @@ Flt(1) :> 2)

DictCalls ==
  LET keys == {Fix(1), Str("1"), Sym(":a"), Str("b"), Nil}
  IN {C("dict", "assoc!", <<k, v>>) : k \in keys, v \in {Fix(1), Nil}}
     \cup UNION {Both("dict", {"dissoc!", "contains?"}, <<k>>) : k \in keys}
     \cup {C("dict", "get", <<k, Flt(0)>>) : k \in keys}
     \cup Both("dict", {"keys", "vals", "count"}, <<Nil>>)
     \cup {CGiven("dict", "iso", <<<<Str("b"), Nil>>, <<Str("1"), Fix(1)>>>>,
                  [k \in {Txt("b"), Txt("1")} |-> IF k = Txt("1") THEN Fix(1) ELSE Nil])}
SetCalls ==
  LET vs == {Fix(1), Str("1"), Nil, Flt(1), <<"list", << >>>>}
      lit == <<Str("1"), Nil, Str("1")>>
  IN UNION {Both("set", {"set-add!", "set-del!", "set-has?"}, <<v>>) : v \in vs}
     \cup Both("set", {"set->list", "count"}, <<Nil>>)
     \cup {CGiven("set", op, lit, {Str("1"), Nil}) : op \in {"set-union", "set-intersection", "set-difference", "iso"}}
DequeCalls ==
  UNION {Both("deque", {"push-right!", "push-left!"}, <<v>>) : v \in {Fix(1), Nil}}
  \cup Both("deque", {"pop-right!", "pop-left!", "peek-right", "peek-left", "count"}, <<Nil>>)
  \cup {CGiven("deque", "iso", <<Fix(1), Nil>>, <<Fix(1), Nil>>)}
VecCalls ==
  UNION {Both("vec", {"vec-push!", "vec-unshift!"}, <<v>>) : v \in {Fix(1), Nil}}
  \cup Both("vec", {"vec-pop!", "vec-shift!", "count"}, <<Nil>>)
  \cup {C("vec", "vec-set!", <<i, v>>) : i \in {-1, 0, 2}, v \in {Fix(1), Flt(1), Nil}}
  \cup {C("vec", "vec-ref", <<i>>) : i \in {-1, 1}}
  \cup {CGiven("vec", "iso", <<Fix(1), Flt(1)>>, <<<<"num", 1>>, <<"num", 1>>>>)}
TensorCalls ==
  LET ints == <<Fix(-1), Fix(2)>>
      mixed == <<Flt(1), Nil>>
      short == <<Fix(1)>>
      xs == {ints, mixed, short}
  IN {C("vec", "vec-set!", <<1, v>>) : v \in {Fix(1), Nil}}
     \cup {C("vec", op, <<a, x>>) : op \in {"vec-axpy!", "vec-count-le!"}, a \in {1, 2}, x \in xs}
     \cup {C("vec", op, <<x>>) : op \in {"vec-add!", "vec-sub!", "vec-mul!", "vec-copy!", "vec-dot", "mat-vec"}, x \in xs}
     \cup {C("vec", "vec-scale!", <<a>>) : a \in {-1, 0}}
     \cup {C("vec", "vec-fill!", <<2>>)}
     \cup Both("vec", {"vec-relu!", "vec-exp!", "vec-sum", "vec-argmax", "vec-argmin", "vec-max", "vec-min"}, <<Nil>>)
     \cup {C("vec", "vec-from-blob!", <<<<0, 1, 2>>, off, -1>>) : off \in {-1, 0, 1, 2}}
     \cup {C("vec", "vec-ger!", <<1, u, x>>) : u \in {short, mixed}, x \in xs}
     \cup {C("vec", "mat-mul", <<ints, k>>) : k \in {0, 1, 2}}
MatrixCalls ==
  LET a == <<Fix(1), Fix(0), Fix(-1), Fix(2)>>
      holed == <<Fix(1), Nil, Fix(-1), Fix(2)>>
      xs == {<<Fix(1), Fix(-1)>>, <<Flt(1), Nil>>, <<Fix(1)>>}
  IN {C("vec", op, <<m, x>>) : op \in {"mat-vec!", "mat-vec-t!"}, m \in {a, holed}, x \in xs}
     \cup {C("vec", "vec-scale!", <<-1>>)}
HamtKeys == {Sym("a"), Sym("b"), Sym("c"), Sym("d")}
\* a and b collide in every bit, c parts from them at the second level.
MCHashKey == [k \in HamtKeys |-> CASE k \in {Sym("a"), Sym("b")} -> 0 [] k = Sym("c") -> 2 [] k = Sym("d") -> 1]
HamtCalls ==
  {C("hamt", op, <<1, 1, k, Fix(1)>>) : op \in {"hamt-assoc", "hamt-dissoc"}, k \in HamtKeys}
     \cup {C("hamt", "hamt-assoc", <<1, 2, k, Nil>>) : k \in {Sym("a"), Sym("d")}}
     \cup {C("hamt", "hamt-dissoc", <<1, 2, Sym("c")>>), C("hamt", "hamt-merge", <<1, 2>>)}
     \cup {C("hamt", "hamt-get", <<1, k, Flt(0)>>) : k \in HamtKeys}
     \cup Both("hamt", {"hamt-count", "hamt-keys"}, <<1>>)
     \cup {C("hamt", "iso", <<1>>)}

Plainly(start, calls) == [start |-> start, calls |-> calls, hooks |-> {}]
Hooking(start, calls) == [start |-> start, calls |-> calls, hooks |-> {Object}]
NoTable == Dict!NewDict
Vec(xs) == <<"vec", Vect!VectorOf(xs)>>
SceneOf(name) ==
  CASE name = "dict" -> Plainly(<<"dict", NoTable>>, DictCalls)
    [] name = "set" -> Plainly(<<"set", NoTable>>, SetCalls)
    [] name = "deque" -> Plainly(<<"deque", List!NewDeque>>, DequeCalls)
    [] name = "vec" -> Plainly(Vec(<< >>), VecCalls)
    [] name = "tensor" -> Plainly(Vec(<<Fix(1), Fix(-1)>>), TensorCalls)
    [] name = "matrix" -> Plainly(Vec(<<Fix(0), Fix(0)>>), MatrixCalls)
    [] name = "hamt" -> Plainly(<<"hamt", [heap |-> << >>, maps |-> <<[root |-> 0, count |-> 0], [root |-> 0, count |-> 0]>>]>>,
                                HamtCalls)
    [] name = "dict hooks" ->
         Hooking(<<"dict", NoTable>>,
                 {C("dict", "assoc!", <<Sym(":a"), v>>) : v \in {Fix(1), Nil}} \cup {C("dict", "dissoc!", <<Sym(":a")>>)})
    [] name = "set hooks" ->
         [start |-> <<"set", NoTable>>, calls |-> Both("set", {"set-add!", "set-del!"}, <<Fix(1)>>),
          hooks |-> {Object} \cup Others]
    [] name = "deque hooks" ->
         Hooking(<<"deque", List!NewDeque>>,
                 Both("deque", {"push-right!", "push-left!"}, <<Fix(1)>>) \cup Both("deque", {"pop-right!", "pop-left!"}, <<Nil>>))
    [] name = "vec hooks" ->
         Hooking(Vec(<<Fix(1)>>),
                 {C("vec", "vec-set!", <<0, Nil>>)} \cup Both("vec", {"vec-pop!", "vec-shift!"}, <<Nil>>)
                 \cup Both("vec", {"vec-push!", "vec-unshift!"}, <<Fix(2)>>))
    [] name = "image" -> Plainly(<<"set", NoTable>>, {})
TheScenes == {SceneOf(n) : n \in MCScenes}

MCHome == [o \in {Object} \cup Others |-> IF o = 3 THEN 1 ELSE 0]
MCCurve == [n \in -9 .. 9 |-> IF n < 0 THEN -n ELSE n]

\* Values of every type, in layouts that a program leaves behind.
Port == <<"port", 0>>
AllKeys == <<Sym("a"), Sym("b"), Sym("c")>>
TheHamt == LET m == Trie!HamtOf(<< >>, [i \in 1 .. 3 |-> Trie!Entry(AllKeys[i], Fix(1))])
           IN <<"hamt", m>>
TheList == <<"list", <<Fix(1), <<"vec", Vect!Shift(Vect!VectorOf(<<Fix(1), Flt(1), Fix(1)>>))>>>>>>
TheFunction == <<"fn", [name |-> "f", params |-> <<"list", <<Sym("a")>>>>, body |-> Fix(1)]>>
TheDict == <<"dict", Dict!HashMap(<<<<Str("b"), Nil>>, <<Fix(1), Nil>>, <<Str("b"), TheList>>>>)>>
Everything ==
  <<TheDict, TheHamt, TheFunction, Vec(<<Nil>>),
    <<"set", Dict!Delete(Dict!SetOf(<<Fix(1), Str("1"), Nil>>), Fix(1))>>,
    <<"deque", List!PopLeft(List!PushLeft(List!DequeOf(<<Nil, Fix(1)>>), Nil))>>>>
StoredValues == [x |-> {Fix(1), <<"list", Everything>>, <<"list", <<Fix(1), Port>>>>}, y |-> {Fix(1), Port}]
Img == INSTANCE Image WITH Vars <- <<"x", "y">>, Stored <- StoredValues

MCInit == Init /\ Img!ImageInit
MCNext ==
  \/ Next /\ UNCHANGED <<globals, file, cached>>
  \/ scene = SceneOf("image") /\ Img!ImageNext /\ UNCHANGED vars
MCSpec == MCInit /\ [][MCNext]_<<vars, globals, file, cached>>
ImageRestores == Img!ImageRestores
=============================================================================

----------------------------- MODULE Containers ------------------------------
(***************************************************************************)
(* One mutable container of a program and the callbacks on it.  A mutation *)
(* asks the validator, changes the structure and tells the watchers, each  *)
(* a Lisp function that may itself work on the container while its caller  *)
(* waits.  The structures are those of Dictionary, Deque, Tensors and      *)
(* Hamt, the registry is that of Hooks; the persistent map of hamt.h has   *)
(* two versions at hand over one heap of nodes.                            *)
(***************************************************************************)
EXTENDS Integers, Sequences, SequencesExt, FiniteSetsExt

CONSTANTS
  Scenes,        \* the programs: [start, calls, hooks], "hooks" the
                 \* addresses they give hooks to; a call is
                 \* [kind, op, args, given, means], "given" a container among
                 \* the arguments, "means" what it holds
  Object,        \* the address of the container
  Others,        \* addresses of other containers with hooks
  Watchers, Validators,   \* the functions a program registers
  Rewatch,       \* may a callback register a watcher or a validator?
  MaxSize, MaxCap, MaxNumber, MaxHooks,   \* bounds of the model
  Curve,         \* the function of vec-exp!, on the numbers in bounds
  HashOf, InitialSize, TextOf, NumberOf,   \* as Dictionary has them
  Bits, Width, HashKey,                    \* as Hamt has them
  Home, FirstCap, LoadNum, LoadDen         \* as Hooks has them

VARIABLES
  scene,     \* the program
  obj,       \* <<kind, structure>>
  reg,       \* the registry of hooks
  flagged,   \* the addresses whose FLAG_WATCHED is set
  stack,     \* the mutators that wait for a callback
  hooks      \* what each address was given: [fns, validator] (ghost)

Dict == INSTANCE Dictionary
List == INSTANCE Deque
Vect == INSTANCE Tensors
Trie == INSTANCE Hamt
Registry == INSTANCE Hooks

vars == <<scene, obj, reg, flagged, stack, hooks>>

Error == <<"err", 0>>
Self == <<"self", 0>>
Nil == <<"nil", 0>>
Truth(b) == IF b THEN <<"t", 0>> ELSE Nil

-----------------------------------------------------------------------------
(* The builtins on each kind of container: [to, ret], the structure they   *)
(* leave and the value they return.                                        *)

Leaves(s, ret) == [to |-> s, ret |-> ret]

OnDict(d, c) ==
  LET k == c.args[1]
      key == Dict!KeyText(k)
  IN CASE c.op = "assoc!" -> IF key = Dict!Absent THEN Leaves(d, Error)
                             ELSE Leaves(Dict!Put(d, key, c.args[2]), Self)
       [] c.op = "dissoc!" -> Leaves(IF key = Dict!Absent THEN d ELSE Dict!Delete(d, key), Self)
       [] c.op = "get" -> Leaves(d, Dict!Lookup(d, k, c.args[2]))
       [] c.op = "contains?" -> Leaves(d, Truth(Dict!ContainsKey(d, k)))
       [] c.op = "keys" -> Leaves(d, <<"list", Dict!KeysOf(d)>>)
       [] c.op = "vals" -> Leaves(d, <<"list", Dict!ValsOf(d)>>)
       [] c.op = "count" -> Leaves(d, <<"fix", d.used>>)
       [] c.op = "iso" -> Leaves(d, Truth(Dict!IsoMaps(d, Dict!HashMap(c.given))))

OnSet(d, c) ==
  LET v == c.args[1]
      key == Dict!MemberKey(v)
      given == Dict!SetOf(c.given)
  IN CASE c.op = "set-add!" -> IF key = Dict!Absent THEN Leaves(d, Error) ELSE Leaves(Dict!Put(d, key, v), Self)
       [] c.op = "set-del!" -> Leaves(IF key = Dict!Absent THEN d ELSE Dict!Delete(d, key), Self)
       [] c.op = "set-has?" -> Leaves(d, Truth(Dict!HasMember(d, v)))
       [] c.op = "set->list" -> Leaves(d, <<"list", Dict!ValsOf(d)>>)
       [] c.op = "count" -> Leaves(d, <<"fix", d.used>>)
       [] c.op = "set-union" -> Leaves(d, <<"set", Dict!Union(d, given)>>)
       [] c.op = "set-intersection" -> Leaves(d, <<"set", Dict!Intersection(d, given)>>)
       [] c.op = "set-difference" -> Leaves(d, <<"set", Dict!Difference(d, given)>>)
       [] c.op = "iso" -> Leaves(d, Truth(Dict!IsoSets(d, given)))

OnDeque(l, c) ==
  CASE c.op = "push-right!" -> Leaves(List!PushRight(l, c.args[1]), Self)
    [] c.op = "push-left!" -> Leaves(List!PushLeft(l, c.args[1]), Self)
    [] c.op = "pop-right!" -> IF l.tail = 0 THEN Leaves(l, Nil) ELSE Leaves(List!PopRight(l), List!Peek(l, l.tail))
    [] c.op = "pop-left!" -> IF l.head = 0 THEN Leaves(l, Nil) ELSE Leaves(List!PopLeft(l), List!Peek(l, l.head))
    [] c.op = "peek-right" -> Leaves(l, List!Peek(l, l.tail))
    [] c.op = "peek-left" -> Leaves(l, List!Peek(l, l.head))
    [] c.op = "count" -> Leaves(l, <<"fix", l.len>>)
    [] c.op = "iso" -> Leaves(l, Truth(List!IsoDeques(l, List!DequeOf(c.given))))

\* The tensor operations answer their target, or an error.
Tensor(r) == Leaves(r.v, IF r.ret = Vect!Error THEN Error ELSE Self)
OnVector(v, c) ==
  LET a == c.args
      Lit(xs) == Vect!VectorOf(xs)
      empty == Vect!LenOf(v) = 0
  IN CASE c.op = "vec-set!" -> IF Vect!InRange(v, a[1]) THEN Leaves(Vect!StoreAt(v, a[1], a[2]), a[2])
                               ELSE Leaves(v, Error)
       [] c.op = "vec-ref" -> Leaves(v, IF Vect!InRange(v, a[1]) THEN Vect!BoxedAt(v, a[1]) ELSE Error)
       [] c.op = "vec-push!" -> Leaves(Vect!Push(v, a[1]), a[1])
       [] c.op = "vec-unshift!" -> Leaves(Vect!Unshift(v, a[1]), a[1])
       [] c.op = "vec-pop!" -> IF empty THEN Leaves(v, Error)
                               ELSE Leaves(Vect!Pop(v), Vect!BoxedAt(v, Vect!LenOf(v) - 1))
       [] c.op = "vec-shift!" -> IF empty THEN Leaves(v, Error) ELSE Leaves(Vect!Shift(v), Vect!BoxedAt(v, 0))
       [] c.op = "count" -> Leaves(v, <<"fix", Vect!LenOf(v)>>)
       [] c.op = "iso" -> Leaves(v, Truth(Vect!IsoVectors(v, Lit(c.given))))
       [] c.op = "vec-axpy!" -> Tensor(Vect!Axpy(v, a[1], Lit(a[2])))
       [] c.op = "vec-scale!" -> Tensor(Vect!Scale(v, a[1]))
       [] c.op \in {"vec-add!", "vec-sub!", "vec-mul!"} -> Tensor(Vect!Binary(v, c.op, Lit(a[1])))
       [] c.op = "vec-count-le!" -> Tensor(Vect!CountLe(v, Lit(a[2]), a[1]))
       [] c.op = "vec-fill!" -> Tensor(Vect!Fill(v, a[1]))
       [] c.op = "vec-relu!" -> Tensor(Vect!Relu(v))
       [] c.op = "vec-exp!" -> Tensor(Vect!Activate(v, Curve))
       [] c.op = "vec-copy!" -> Tensor(Vect!CopyInto(v, Lit(a[1])))
       [] c.op = "vec-from-blob!" -> Tensor(Vect!FromBlob(v, a[1], a[2], a[3]))
       [] c.op = "mat-vec!" -> Tensor(Vect!MatVecInto(v, Lit(a[1]), Lit(a[2]), << >>))
       [] c.op = "mat-vec-t!" -> Tensor(Vect!MatVecTInto(v, Lit(a[1]), Lit(a[2]), << >>))
       [] c.op = "vec-ger!" -> Tensor(Vect!Ger(v, a[1], Lit(a[2]), Lit(a[3])))
       [] c.op = "vec-dot" -> Leaves(v, Vect!Dot(v, Lit(a[1])))
       [] c.op = "vec-sum" -> Leaves(v, Vect!SumOf(v))
       [] c.op = "vec-argmax" -> Leaves(v, Vect!ArgMax(v))
       [] c.op = "vec-argmin" -> Leaves(v, Vect!ArgMin(v))
       [] c.op = "vec-max" -> Leaves(v, Vect!MaxOf(v))
       [] c.op = "vec-min" -> Leaves(v, Vect!MinOf(v))
       [] c.op = "mat-vec" -> Leaves(v, Vect!MatVec(v, Lit(a[1])))
       [] c.op = "mat-mul" -> Leaves(v, Vect!MatMul(v, Lit(a[1]), a[2]))

\* hamt-assoc, hamt-dissoc and hamt-merge of version i, the program letting
\* go of version j for the new one (hamt_free).
Version(maps, j, r) ==
  Leaves(Trie!Renamed(Trie!Unref(r.heap, maps[j].root), [maps EXCEPT ![j] = r.map]), Self)
OnHamt(h, c) ==
  LET m == h.maps[c.args[1]]
  IN CASE c.op \in {"hamt-assoc", "hamt-dissoc", "hamt-merge"} ->
            Version(h.maps, c.args[2],
                    CASE c.op = "hamt-assoc" -> Trie!Assoc(h.heap, m, c.args[3], c.args[4])
                      [] c.op = "hamt-dissoc" -> Trie!Dissoc(h.heap, m, c.args[3])
                      [] c.op = "hamt-merge" -> Trie!Merge(h.heap, h.maps[c.args[2]], m))
       [] c.op = "hamt-get" -> Leaves(h, Trie!Lookup(h.heap, m, c.args[2], c.args[3]))
       [] c.op = "hamt-count" -> Leaves(h, <<"fix", m.count>>)
       [] c.op = "hamt-keys" -> Leaves(h, <<"list", [i \in 1 .. Len(Trie!Walk(h.heap, m.root)) |->
                                                       Trie!Walk(h.heap, m.root)[i].key]>>)
       [] c.op = "iso" -> Leaves(h, Truth(Trie!Iso(h.heap, h.maps[1], h.maps[2])))

Kept(kind, r) == [to |-> <<kind, r.to>>, ret |-> r.ret]
Applied(o, c) ==
  Kept(o[1], CASE o[1] = "dict" -> OnDict(o[2], c)
               [] o[1] = "set" -> OnSet(o[2], c)
               [] o[1] = "deque" -> OnDeque(o[2], c)
               [] o[1] = "vec" -> OnVector(o[2], c)
               [] o[1] = "hamt" -> OnHamt(o[2], c))

\* What the container holds.
Contents(o) ==
  LET s == o[2]
      Map(h, m) == LET es == Range(Trie!Walk(h, m.root))
                   IN [k \in {e.key : e \in es} |-> (CHOOSE e \in es : e.key = k).val]
      Num(x) == IF x[1] \in {"fix", "flo"} THEN <<"num", x[2]>> ELSE x
  IN <<o[1],
       CASE o[1] = "dict" -> [k \in {kv.key : kv \in Range(Dict!Entries(s))} |-> Dict!Get(s, k)]
         [] o[1] = "set" -> Range(Dict!ValsOf(s))
         [] o[1] = "deque" -> List!Forward(s)
         [] o[1] = "vec" -> [i \in 1 .. Vect!LenOf(s) |-> Num(Vect!Elements(s)[i])]
         [] o[1] = "hamt" -> <<Map(s.heap, s.maps[1]), Map(s.heap, s.maps[2])>>>>

-----------------------------------------------------------------------------
(* Which calls have hooks, and the event that tells of one.                *)

Asks == {"assoc!", "dissoc!", "set-add!", "set-del!", "push-right!", "push-left!", "pop-right!", "pop-left!",
         "vec-set!"}
Tells == Asks \cup {"vec-push!", "vec-unshift!", "vec-pop!", "vec-shift!"}
Pops == {"pop-right!", "pop-left!"}
\* A call that returns before it looks at the hooks.
Idle(o, c) ==
  CASE c.op \in {"assoc!", "dissoc!"} -> Dict!KeyText(c.args[1]) = Dict!Absent
    [] c.op \in {"set-add!", "set-del!"} -> Dict!MemberKey(c.args[1]) = Dict!Absent
    [] c.op = "vec-set!" -> ~Vect!InRange(o[2], c.args[1])
    [] c.op \in {"vec-pop!", "vec-shift!"} -> Vect!LenOf(o[2]) = 0
    [] OTHER -> FALSE
\* A pop asks only when there is something to pop; it tells in any case.
Asking(o, c) == c.op \in Asks /\ ~Idle(o, c) /\ (c.op \in Pops => o[2].len > 0)
Telling(o, c) == c.op \in Tells /\ ~Idle(o, c)

\* watch_make_event, with what each builtin passes to watch_notify.
EventMut(o, c, r) ==
  LET a == c.args
      E(key, old, new) == [op |-> c.op, key |-> key, old |-> old, new |-> new]
      Before == Dict!Lookup(r.to[2], a[1], Nil)
  IN CASE c.op \in {"assoc!", "dissoc!"} -> E(a[1], Before, IF c.op = "assoc!" THEN a[2] ELSE Nil)
       [] c.op = "vec-set!" -> E(<<"fix", a[1]>>, Vect!BoxedAt(r.to[2], a[1]), a[2])
       [] c.op = "set-del!" -> E(Nil, a[1], Nil)
       [] c.op \in Pops \cup {"vec-pop!"} -> E(Nil, r.ret, Nil)
       [] OTHER -> E(Nil, Nil, IF c.op = "vec-shift!" THEN r.ret ELSE a[1])
Event(o, c, r) ==
  LET a == c.args
      E(key, old, new) == [op |-> c.op, key |-> key, old |-> old, new |-> new]
      Before == Dict!Lookup(o[2], a[1], Nil)
  IN CASE c.op = "assoc!" -> E(a[1], Before, a[2])
       [] c.op = "dissoc!" -> E(a[1], Before, Nil)
       [] c.op = "vec-set!" -> E(<<"fix", a[1]>>, Vect!BoxedAt(o[2], a[1]), a[2])
       [] c.op \in {"set-add!", "push-right!", "push-left!", "vec-push!", "vec-unshift!"} -> E(Nil, Nil, a[1])
       [] c.op = "set-del!" -> E(Nil, a[1], Nil)
       [] c.op \in Pops \cup {"vec-pop!"} -> E(Nil, r.ret, Nil)
       [] c.op = "vec-shift!" -> E(Nil, Nil, r.ret)

-----------------------------------------------------------------------------
Init ==
  /\ scene \in Scenes
  /\ obj = scene.start
  /\ reg = Registry!NewRegistry
  /\ flagged = {} /\ stack = << >>
  /\ hooks = [o \in {Object} \cup Others |-> [fns |-> << >>, validator |-> Registry!NoFn]]

Top == Last(stack)
Running == stack # << >>
\* The end of watch_validate and watch_notify.
RestoredMut == flagged \cup {Object}
Restored == IF Registry!Find(reg, Object) # 0 THEN flagged \cup {Object} ELSE flagged
\* The numbers and the sizes the model keeps to.
Few(o, x) ==
  CASE o[1] = "dict" -> Cardinality(DOMAIN x) <= MaxSize
    [] o[1] = "set" -> Cardinality(x) <= MaxSize
    [] o[1] \in {"deque", "vec"} ->
         /\ Len(x) <= MaxSize /\ (o[1] = "vec" => o[2].cap <= MaxCap)
         /\ \A i \in 1 .. Len(x) : x[i][1] = "num" => x[i][2] \in -MaxNumber .. MaxNumber
    [] o[1] = "hamt" -> TRUE
Small(o) == Few(o, Contents(o)[2])

\* The write and the watchers: the first one runs, the others wait.  "sure"
\* is for a builtin that looked at the flag before it asked.
Perform(c, r, below, sure, flags) ==
  LET fns == IF sure \/ Object \in flags THEN Registry!WatchersOf(reg, Object) ELSE << >>
      told == Telling(obj, c) /\ fns # << >>
  IN /\ obj' = r.to
     /\ stack' = IF told THEN Append(below, [phase |-> "telling", call |-> c, rest |-> Tail(fns),
                                              event |-> Event(obj, c, r)])
                 ELSE below
     /\ flagged' = IF told THEN flags \ {Object} ELSE flags

\* The program, or the callback that runs, calls a builtin.
Begin(c, r) ==
  /\ Small(r.to)
  /\ Len(stack) < 2
  /\ Running /\ Top.call.op = "vec-set!" /\ ~Rewatch => c.op \notin {"vec-pop!", "vec-shift!"}
  /\ IF Asking(obj, c) /\ Object \in flagged /\ Registry!ValidatorOf(reg, Object) # Registry!NoFn
       THEN /\ stack' = Append(stack, [phase |-> "asking", call |-> c])
            /\ flagged' = flagged \ {Object}
            /\ UNCHANGED obj
       ELSE Perform(c, r, stack, FALSE, flagged)
  /\ UNCHANGED <<scene, reg, hooks>>
Call(c) == Begin(c, Applied(obj, c))

\* The validator returns a truthy value, or nil or an error.
Allow ==
  /\ Running /\ Top.phase = "asking"
  /\ Perform(Top.call, Applied(obj, Top.call), Front(stack), Top.call.op \in {"assoc!", "dissoc!", "vec-set!"}, Restored)
  /\ UNCHANGED <<scene, reg, hooks>>
Reject ==
  /\ Running /\ Top.phase = "asking"
  /\ stack' = Front(stack) /\ flagged' = Restored
  /\ UNCHANGED <<scene, obj, reg, hooks>>
\* A watcher returns: the next one runs, unless it raised an error or the
\* list is gone.
Heard(ok) ==
  /\ Running /\ Top.phase = "telling"
  /\ IF ok /\ Top.rest # << >> /\ Registry!WatchersOf(reg, Object) # << >>
       THEN stack' = [stack EXCEPT ![Len(stack)].rest = Tail(@)] /\ UNCHANGED flagged
       ELSE stack' = Front(stack) /\ flagged' = Restored
  /\ UNCHANGED <<scene, obj, reg, hooks>>

\* watch!, unwatch!, set-validator! and the end of a container.
Registering(o) == o \in scene.hooks /\ (~Running \/ Rewatch)
Watch(o, fn) ==
  /\ Registering(o) /\ Len(hooks[o].fns) < MaxHooks
  /\ reg' = Registry!Insert(reg, o, fn)
  /\ flagged' = flagged \cup {o}
  /\ hooks' = [hooks EXCEPT ![o].fns = <<fn>> \o @]
  /\ UNCHANGED <<scene, obj, stack>>
SetValidator(o, fn) ==
  /\ Registering(o)
  /\ reg' = Registry!Validated(reg, o, fn)
  /\ flagged' = flagged \cup {o}
  /\ hooks' = [hooks EXCEPT ![o].validator = fn]
  /\ UNCHANGED <<scene, obj, stack>>
Unwatch(o) ==
  /\ o \in scene.hooks
  /\ reg' = Registry!Unwatched(reg, o)
  /\ flagged' = IF Registry!ValidatorOf(reg, o) = Registry!NoFn THEN flagged \ {o} ELSE flagged
  /\ hooks' = [hooks EXCEPT ![o].fns = << >>]
  /\ UNCHANGED <<scene, obj, stack>>
ClearValidator(o) ==
  /\ o \in scene.hooks /\ Registry!ValidatorOf(reg, o) # Registry!NoFn
  /\ reg' = Registry!Unvalidated(reg, o)
  /\ flagged' = IF Registry!WatchersOf(reg, o) = << >> THEN flagged \ {o} ELSE flagged
  /\ hooks' = [hooks EXCEPT ![o].validator = Registry!NoFn]
  /\ UNCHANGED <<scene, obj, stack>>
Free(o) ==
  /\ o \in Others \cap flagged
  /\ reg' = Registry!Freed(reg, o)
  /\ flagged' = flagged \ {o}
  /\ hooks' = [hooks EXCEPT ![o] = [fns |-> << >>, validator |-> Registry!NoFn]]
  /\ UNCHANGED <<scene, obj, stack>>

Next ==
  \/ \E c \in scene.calls : Call(c)
  \/ Allow \/ Reject
  \/ \E ok \in BOOLEAN : Heard(ok)
  \/ \E o \in {Object} \cup Others :
       \/ \E fn \in Watchers : Watch(o, fn)
       \/ \E fn \in Validators : SetValidator(o, fn)
       \/ Unwatch(o) \/ ClearValidator(o) \/ Free(o)
Spec == Init /\ [][Next]_vars

-----------------------------------------------------------------------------
AllCalls == UNION {s.calls : s \in Scenes}
AllStarts == {Contents(s.start) : s \in Scenes}
Promise == INSTANCE Collections WITH
  content <- Contents(obj), Calls <- AllCalls, Starts <- AllStarts,
  KeyOf <- Dict!KeyText, KeyFor <- Dict!KeyOfText,
  Scalar <- LAMBDA v : Dict!MemberKey(v) # Dict!Absent

(* Every step, the ones in the middle of callbacks included, leaves the    *)
(* content of the container alone or changes it as one call on a map, a    *)
(* set or a sequence does.                                                 *)
Implements == Promise!Spec

\* A returned value as the abstract container has it.
Shown(ret) == CASE ret[1] \in {"fix", "flo"} -> <<"num", ret[2]>>
                [] ret[1] = "set" -> <<"members", Range(Dict!ValsOf(ret[2]))>>
                [] ret[1] = "vec" -> <<"seq", Contents(ret)[2]>>
                [] OTHER -> ret
RightFrom(x, c, r) == Promise!Answer(x, c, Shown(r.ret)) /\ Promise!Effect(x, c, Contents(r.to)[2])
(* Whatever the layout of the structure, every call answers from it, and   *)
(* leaves it, as the map, set or sequence it stands for would: bucket      *)
(* chains after a rehash, windows after a slide, promoted cells, and nodes *)
(* that two versions share.                                                *)
AnswersRight == \A c \in scene.calls : RightFrom(Contents(obj)[2], c, Applied(obj, c))

SoundTable(d) ==
  /\ d.used = Len(Dict!Entries(d)) /\ (d.size > 0 => d.used < d.size)
  /\ Cardinality({kv.key : kv \in Range(Dict!Entries(d))}) = d.used
  /\ \A b \in DOMAIN d.table : \A i \in DOMAIN d.table[b] : Dict!Bucket(d, d.table[b][i].key) = b
SoundList(l) ==
  /\ List!Forward(l) = List!Backward(l) /\ l.len = Len(List!Forward(l))
  /\ l.len = Cardinality(DOMAIN l.node) /\ (l.head = 0) = (l.tail = 0)
SoundVector(v) ==
  /\ 0 <= v.start /\ v.start <= v.end /\ v.end <= v.cap /\ v.cap = Len(v.cells)
  /\ \A a \in Vect!Live(v) : IF v.kind = "gen" THEN v.cells[a][1] \notin {"i64", "f64", "zero"}
                             ELSE v.cells[a][1] = v.kind
SoundTrie(h) ==
  LET Holds(a) == MapThenSumSet(LAMBDA b : Cardinality({i \in DOMAIN h.heap[b].slots : h.heap[b].slots[i].child = a}),
                                DOMAIN h.heap)
                  + Cardinality({i \in DOMAIN h.maps : h.maps[i].root = a})
  IN /\ \A a \in DOMAIN h.heap :
          /\ h.heap[a].nref = Holds(a)
          /\ h.heap[a].bits # {} => Len(h.heap[a].slots) = Cardinality(h.heap[a].bits)
     /\ \A i \in DOMAIN h.maps : h.maps[i].count = Len(Trie!Walk(h.heap, h.maps[i].root))
(* The structures stay whole: every entry of a table in its bucket and the *)
(* count exact; a deque the same from both ends; the window of a vector    *)
(* inside its buffer and its cells of its kind; the count of every node of *)
(* a persistent map the number of its holders, so that no version that is  *)
(* let go takes a node of another with it, and none stays behind.          *)
Sound == CASE obj[1] \in {"dict", "set"} -> SoundTable(obj[2])
           [] obj[1] = "deque" -> SoundList(obj[2])
           [] obj[1] = "vec" -> SoundVector(obj[2])
           [] obj[1] = "hamt" -> SoundTrie(obj[2])

(* A search of the registry ends and finds what was registered, whatever   *)
(* tombstones and moves are on its way, and "used" counts the slots that   *)
(* are not empty, so that the table grows in time.                         *)
RegistryFinds ==
  /\ \A o \in DOMAIN hooks : /\ Registry!WatchersOf(reg, o) = hooks[o].fns
                             /\ Registry!ValidatorOf(reg, o) = hooks[o].validator
  /\ reg.used = Cardinality({i \in DOMAIN reg.slot : reg.slot[i].target # Registry!Empty})

Hooked(o) == hooks[o].fns # << >> \/ hooks[o].validator # Registry!NoFn
(* The flag of a container with hooks is set but while one of them runs,   *)
(* and one without hooks has no flag: no mutation goes unheard, and none   *)
(* of a callback's own is heard (watch_validate and watch_notify).         *)
FlagRight == \A o \in DOMAIN hooks : o \in flagged <=> Hooked(o) /\ ~(o = Object /\ Running)

(* What decides whether a mutation is heard: the registry and the flag.    *)
HooksRight == RegistryFinds /\ FlagRight

(* A callback that works on its own container does not start another one   *)
(* (doc_watch, "A watcher mutating its own obj does not re-fire").       *)
NoRefire == Len(stack) <= 1

\* A copy of the content, kept up to date by an event.
Mirrored(x, ev) ==
  CASE ev.op = "assoc!" -> [k \in DOMAIN x \cup {Dict!KeyText(ev.key)} |->
                              IF k = Dict!KeyText(ev.key) THEN ev.new ELSE x[k]]
    [] ev.op = "dissoc!" -> [k \in DOMAIN x \ {Dict!KeyText(ev.key)} |-> x[k]]
    [] ev.op = "set-add!" -> x \cup {ev.new}
    [] ev.op = "set-del!" -> x \ {ev.old}
    [] ev.op = "push-right!" -> Append(x, ev.new)
    [] ev.op = "push-left!" -> <<ev.new>> \o x
    [] ev.op = "vec-push!" -> Append(x, Shown(ev.new))
    [] ev.op = "vec-unshift!" -> <<Shown(ev.new)>> \o x
    [] ev.op \in {"pop-right!", "vec-pop!"} -> IF x = << >> THEN x ELSE Front(x)
    [] ev.op \in {"pop-left!", "vec-shift!"} -> IF x = << >> THEN x ELSE Tail(x)
    [] ev.op = "vec-set!" -> [x EXCEPT ![ev.key[2] + 1] = Shown(ev.new)]
\* What a call takes away, nil when there is nothing.
Taken(x, c) ==
  LET a == c.args[1]
      key == Dict!KeyText(a)
  IN CASE c.op \in {"assoc!", "dissoc!"} -> IF key \in DOMAIN x THEN x[key] ELSE Nil
       [] c.op = "vec-set!" -> x[a + 1]
       [] c.op = "set-del!" -> IF a \in x THEN a ELSE Nil
       [] c.op \in {"pop-right!", "vec-pop!"} -> IF x = << >> THEN Nil ELSE Last(x)
       [] c.op \in {"pop-left!", "vec-shift!"} -> IF x = << >> THEN Nil ELSE Head(x)
       [] c.op \in {"set-add!", "push-right!", "push-left!", "vec-push!", "vec-unshift!"} -> Nil
Removers == Pops \cup {"dissoc!", "set-del!", "vec-pop!", "vec-shift!"}
TellsTaken(x, c, ev) == Shown(ev.old) = Shown(Taken(x, c)) /\ (c.op \in Removers => ev.new = Nil)
\* The two calls whose event is another one: vec-shift! has the element it
\* removed as :new, and set-del! of what is no member has it as :old.
TellsShifted(x, c, ev) == ev.old = Nil /\ Shown(ev.new) = Shown(Taken(x, c))
TellsAbsent(c, ev) == ev.old = c.args[1] /\ ev.new = Nil
Begun == /\ stack' # << >> /\ Last(stack').phase = "telling"
         /\ ~(Running /\ Len(stack') = Len(stack) /\ Top.phase = "telling")
(* An event tells the whole change: a watcher that applies each one to a   *)
(* copy keeps it equal to the container, also when the validator changed   *)
(* the container before it allowed the write; and :old is what the call    *)
(* took away, :new nil when it only removes, but for the two calls above.  *)
EventsTell ==
  [][Begun => LET c == Last(stack').call
                  ev == Last(stack').event
                  x == Contents(obj)[2]
              IN /\ Contents(obj')[2] = Mirrored(x, ev)
                 /\ CASE c.op = "vec-shift!" -> TellsShifted(x, c, ev)
                      [] c.op = "set-del!" /\ c.args[1] \notin x -> TellsAbsent(c, ev)
                      [] OTHER -> TellsTaken(x, c, ev)]_vars
(* What watch.h promises of every event, "a pop has no :new" and :old is   *)
(* nil only where there is none: vec-shift! does not keep it, nor set-del! *)
(* of what is no member (README section 7).                                *)
OldIsTaken == [][Begun => TellsTaken(Contents(obj)[2], Last(stack').call, Last(stack').event)]_vars
=============================================================================

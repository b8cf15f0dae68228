-------------------------------- MODULE Heap --------------------------------
(* The counted values of one thread (alcove.c) and their environments        *)
(* (env.h), with weak references (weak.h).  A cell owns a reference per edge;  *)
(* the C stack owns what the program works on.  Dropping a reference runs a    *)
(* cascade, one release per step, in the order of the code: `work' is the      *)
(* rest of it.                                                              *)
EXTENDS Naturals, FiniteSets, Sequences, FiniteSetsExt, SequencesExt

CONSTANTS Cells,   \* the cells of the arena
          NSlots,  \* the places of a container, or constants of a closure
          Envs,    \* the frames' environments
          NVars,   \* the variables of a frame
          MaxHeld, \* the bound on the references the C stack holds at once
          NULL

ASSUME HeapAssumption == /\ Cells \cap Envs = {} /\ NULL \notin Cells \cup Envs
                         /\ IsFiniteSet(Cells) /\ IsFiniteSet(Envs)
                         /\ MaxHeld \in Nat \ {0}
                         /\ NSlots \in Nat \ {0} /\ NVars \in Nat

Slots == 1 .. NSlots
Vars == 1 .. NVars

VARIABLES cell,   \* per cell: its contents, or NULL on the free list
          env,    \* per environment: its contents, or NULL when it is free
          held,   \* per cell: the references of the C stack
          frames, \* the environments of the running calls, innermost last
          work    \* the releases of the cascade under way

heapVars == <<cell, env, held, frames, work>>

Kinds == {"box",     \* pair, dict, set, deque, vector: walked by the collector
          "lambda",  \* a closure or macro, with the environment it captured
          "opaque",  \* an owner the collector does not walk (generator, HAMT)
          "weak"}    \* a weak reference

\* to: the target of a weak reference.  watcher: what the registry of watch.h
\* owns on behalf of this cell.
Cell == [kind : Kinds, nref : Nat \ {0}, edge : [Slots -> Cells \cup {NULL}],
         env : Envs \cup {NULL}, to : Cells \cup {NULL}, watcher : Cells \cup {NULL}]
Env == [nref : Nat \ {0}, root : Envs \cup {NULL}, val : [Vars -> Cells \cup {NULL}]]

ASSUME NullAssumption == NULL \notin Cell /\ NULL \notin Env

Live == {c \in Cells : cell[c] # NULL}
LiveEnvs == {v \in Envs : env[v] # NULL}
Of(kinds) == {c \in Live : cell[c].kind \in kinds}
Held == {c \in Live : held[c] > 0}
Current == Last(frames)

\* The least set between S, a subset of U, and U that is closed under f.
Closure(f(_), S, U) ==
    LET next == [x \in U |-> f(x)]
        closed == {T \in {S \cup W : W \in SUBSET (U \ S)} : \A x \in T : next[x] \subseteq T}
    IN  {x \in U : \A T \in closed : x \in T}

HeapInit == /\ cell = [c \in Cells |-> NULL]
            /\ env = [v \in Envs |-> NULL]
            /\ held = [c \in Cells |-> 0]
            /\ frames = <<>>
            /\ work = <<>>

-----------------------------------------------------------------------------
\* refexp and ref_env, on a heap h; NULL stands for an immortal value.
Ref(h, x) == IF x = NULL THEN h ELSE [h EXCEPT ![x].nref = @ + 1]

\* What unrefexp_free releases, in its order: the constants of a closure, the
\* captured environment, the watcher, the contents of a container.
Owned(c) ==
    LET others == <<cell[c].env, cell[c].watcher>>
    IN  IF cell[c].kind = "lambda" THEN cell[c].edge \o others ELSE others \o cell[c].edge

\* weak_on_target_free: every weak reference to c forgets it.
Cleared(h, c) == [d \in Cells |-> IF h[d] # NULL /\ h[d].to = c THEN [h[d] EXCEPT !.to = NULL]
                                  ELSE h[d]]

\* The cell goes to the free list.
Freed(h, c) == [Cleared(h, c) EXCEPT ![c] = NULL]

LastRef(c) == cell[c].nref = 1

\* unrefexp
Unref(c) ==
    /\ UNCHANGED env
    /\ IF LastRef(c)
       THEN cell' = Freed(cell, c) /\ work' = Owned(c) \o Tail(work)
       ELSE cell' = [cell EXCEPT ![c].nref = @ - 1] /\ work' = Tail(work)

\* is_self_closure: the variables of v that hold a closure over v.
SelfClosures(v) == {x \in Vars : LET c == env[v].val[x] IN
                        c # NULL /\ cell[c].kind = "lambda" /\ cell[c].env = v}

\* No self closure of v is owned elsewhere.
Unshared(v) == \A x \in SelfClosures(v) : cell[env[v].val[x]].nref = 1

\* env_break_self_cycle: nothing but its own closures keeps v.
OnlySelfClosures(v, residual) ==
    /\ SelfClosures(v) # {}
    /\ Unshared(v)
    /\ Cardinality(SelfClosures(v)) = residual

\* destroy_env, one environment of the chain.
DestroyEnv(v) ==
    LET residual == env[v].nref - 1
        closures == {env[v].val[x] : x \in SelfClosures(v)}
    IN  IF residual > 0 /\ ~ OnlySelfClosures(v, residual)
        THEN /\ env' = [env EXCEPT ![v].nref = residual]
             /\ work' = Tail(work)
             /\ UNCHANGED cell
        ELSE /\ cell' = [c \in Cells |-> IF residual > 0 /\ c \in closures
                                         THEN [cell[c] EXCEPT !.env = NULL] ELSE cell[c]]
             /\ env' = [env EXCEPT ![v] = NULL]
             /\ work' = Append(env[v].val, env[v].root) \o Tail(work)

\* One step of the cascade; an empty place has nothing to release.
Release ==
    /\ work # <<>>
    /\ \/ Head(work) = NULL /\ work' = Tail(work) /\ UNCHANGED <<cell, env>>
       \/ Head(work) \in Envs /\ DestroyEnv(Head(work))
       \/ Head(work) \in Cells /\ Unref(Head(work))
    /\ UNCHANGED <<held, frames>>

-----------------------------------------------------------------------------
(* What a program does between two cascades. *)

Quiet == work = <<>>
CanHold == MapThenSumSet(LAMBDA c : held[c], Cells) < MaxHeld
Hold(c) == held' = [held EXCEPT ![c] = @ + 1]
Blank(kind) == [kind |-> kind, nref |-> 1, edge |-> [s \in Slots |-> NULL],
                env |-> NULL, to |-> NULL, watcher |-> NULL]

\* make_nil and the constructors on it: the new value is on the C stack.
Make(c, contents, h) ==
    /\ CanHold
    /\ cell[c] = NULL
    /\ cell' = [h EXCEPT ![c] = contents]
    /\ Hold(c)
    /\ UNCHANGED <<frames, work>>

MakeBox(c) == Make(c, Blank("box"), cell) /\ UNCHANGED env

\* A generator, a persistent map, an object of a module around one value.
MakeOpaque(c, d) ==
    /\ d \in Held
    /\ Make(c, [Blank("opaque") EXCEPT !.edge = [s \in Slots |-> IF s = 1 THEN d ELSE NULL]],
            Ref(cell, d))
    /\ UNCHANGED env

\* fn: a closure over the current frame, with one constant.
MakeFn(c, d) ==
    /\ frames # <<>>
    /\ d \in Held \cup {NULL}
    /\ Make(c, [Blank("lambda") EXCEPT !.edge = [s \in Slots |-> IF s = 1 THEN d ELSE NULL],
                                       !.env = Current],
            Ref(cell, d))
    /\ env' = Ref(env, Current)

\* weak: the reference does not count.
MakeWeak(c, d) ==
    /\ d \in Held
    /\ Make(c, [Blank("weak") EXCEPT !.to = d], cell)
    /\ UNCHANGED env

\* weak-get
WeakGet(w) ==
    /\ w \in Held \cap Of({"weak"})
    /\ cell[w].to # NULL
    /\ CanHold
    /\ Hold(cell[w].to)
    /\ cell' = Ref(cell, cell[w].to)
    /\ UNCHANGED <<env, frames, work>>

\* assoc!, vec-set!, push-right!...: store a value and release the old one.  The
\* code releases first, here and in Assign: of a cascade only env_break_self_cycle
\* reads a slot, and it stops at an old value (count 0) as at the new one (over 1).
SetSlot(b, s, d) ==
    /\ b \in Held \cap Of({"box"})
    /\ d \in Held \cup {NULL}
    /\ d # cell[b].edge[s]
    /\ cell' = [Ref(cell, d) EXCEPT ![b].edge[s] = d]
    /\ work' = <<cell[b].edge[s]>>
    /\ UNCHANGED <<env, held, frames>>

\* An element is read.
GetSlot(b, s) ==
    LET d == cell[b].edge[s] IN
    /\ b \in Held \cap Of({"box"})
    /\ d # NULL /\ CanHold
    /\ cell' = Ref(cell, d)
    /\ Hold(d)
    /\ UNCHANGED <<env, frames, work>>

\* watch!: the registry owns the watcher until the watched cell dies.
Watch(b, w) ==
    /\ {b, w} \subseteq Held
    /\ cell[b].kind = "box" /\ cell[b].watcher = NULL
    /\ cell[w].kind = "lambda"
    /\ cell' = [Ref(cell, w) EXCEPT ![b].watcher = w]
    /\ UNCHANGED <<env, held, frames, work>>

\* The C stack drops a reference.
Drop(c) ==
    /\ c \in Held
    /\ held' = [held EXCEPT ![c] = @ - 1]
    /\ work' = <<c>>
    /\ UNCHANGED <<cell, env, frames>>

\* make_env: a call of a closure runs in a child of what it captured, a let in
\* a child of the current frame.
Enter(v, root) ==
    /\ env[v] = NULL
    /\ \/ root = NULL
       \/ frames # <<>> /\ root = Current
       \/ \E f \in Held \cap Of({"lambda"}) : root = cell[f].env
    /\ env' = [Ref(env, root) EXCEPT ![v] = [nref |-> 1, root |-> root,
                                             val |-> [x \in Vars |-> NULL]]]
    /\ frames' = Append(frames, v)
    /\ UNCHANGED <<cell, held, work>>

\* A parameter or a let variable of the current frame gets its value.
Bind(x, c) ==
    /\ frames # <<>>
    /\ c \in Held
    /\ env[Current].val[x] = NULL
    /\ cell' = Ref(cell, c)
    /\ env' = [env EXCEPT ![Current].val[x] = c]
    /\ UNCHANGED <<held, frames, work>>

\* The environments a name of frame v is looked up in.
Scope(v) == Closure(LAMBDA u : {env[u].root} \ {NULL}, {v}, LiveEnvs)

\* assign_store_symbol: the innermost binding of x takes a value.
Assign(v, x, c) ==
    /\ frames # <<>>
    /\ c \in Held
    /\ v \in Scope(Current) /\ env[v].val[x] # NULL
    /\ \A u \in Scope(Current) : env[u].val[x] # NULL => u \in Scope(v)
    /\ env[v].val[x] # c
    /\ cell' = Ref(cell, c)
    /\ env' = [env EXCEPT ![v].val[x] = c]
    /\ work' = <<env[v].val[x]>>
    /\ UNCHANGED <<held, frames>>

\* The call returns.
Leave ==
    /\ frames # <<>>
    /\ work' = <<Current>>
    /\ frames' = Front(frames)
    /\ UNCHANGED <<cell, env, held>>

\* A program does nothing in the middle of a cascade.
Program ==
    /\ Quiet
    /\ \/ \E c \in Cells : MakeBox(c) \/ Drop(c) \/ WeakGet(c)
       \/ \E c, d \in Cells : MakeOpaque(c, d) \/ MakeWeak(c, d) \/ Watch(c, d)
       \/ \E c \in Cells, d \in Cells \cup {NULL} : MakeFn(c, d)
       \/ \E b \in Cells, s \in Slots : GetSlot(b, s) \/ \E d \in Cells \cup {NULL} : SetSlot(b, s, d)
       \/ \E v \in Envs, root \in Envs \cup {NULL} : Enter(v, root)
       \/ \E x \in Vars, c \in Cells : Bind(x, c) \/ \E v \in Envs : Assign(v, x, c)
       \/ Leave

HeapNext == Program \/ Release
HeapSpec == HeapInit /\ [][HeapNext]_heapVars

-----------------------------------------------------------------------------
\* The type of the heap.
HeapTypeOK ==
    /\ cell \in [Cells -> Cell \cup {NULL}]
    /\ env \in [Envs -> Env \cup {NULL}]
    /\ held \in [Cells -> Nat]
    /\ frames \in Seq(Envs)
    /\ work \in Seq(Cells \cup Envs \cup {NULL})

\* Who owns a cell, or an environment, and the releases of it that are due.
Edges(c) == {e \in Live \X Slots : cell[e[1]].edge[e[2]] = c}
Bindings(c) == {b \in LiveEnvs \X Vars : env[b[1]].val[b[2]] = c}
Watched(c) == {b \in Live : cell[b].watcher = c}
Captures(v) == {c \in Live : cell[c].env = v}
Children(v) == {u \in LiveEnvs : env[u].root = v}
Calls(v) == {i \in DOMAIN frames : frames[i] = v}
Due(x) == {i \in DOMAIN work : work[i] = x}

\* Whatever is alive is counted once per owner.
OwnersCounted ==
    /\ \A c \in Live : cell[c].nref = held[c] + Cardinality(Edges(c)) + Cardinality(Bindings(c))
                                      + Cardinality(Watched(c)) + Cardinality(Due(c))
    /\ \A v \in LiveEnvs : env[v].nref = Cardinality(Captures(v)) + Cardinality(Children(v))
                                        + Cardinality(Calls(v)) + Cardinality(Due(v))

\* What the program, the cascade and the owners outside S point to is alive, the
\* targets of weak references included.
NoDanglingOutside(S) ==
    LET alive == Live \cup LiveEnvs \cup {NULL} IN
    /\ \A c \in Cells : held[c] > 0 => c \in Live
    /\ ToSet(frames) \cup ToSet(work) \subseteq alive
    /\ \A c \in Live \ S : Range(cell[c].edge) \cup {cell[c].env, cell[c].to, cell[c].watcher}
                               \subseteq alive
    /\ \A v \in LiveEnvs \ S : Range(env[v].val) \cup {env[v].root} \subseteq alive
=============================================================================

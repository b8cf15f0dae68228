------------------------------ MODULE GcProofs ------------------------------
(* The counts of Heap, and the soundness and the completeness of the cycle    *)
(* collector of GcCycles, for every number of cells, slots, environments and  *)
(* variables.                                                                 *)
EXTENDS GcCycles, FiniteSetTheorems, SequenceTheorems, TLAPS

USE HeapAssumption, NullAssumption

-----------------------------------------------------------------------------
(* The inductive invariant. *)

\* The living that no collection has condemned.
Sound == Live \ dead
SoundEnvs == LiveEnvs \ dead

EdgeItem(c, s) == <<<<EdgePass, c>>, s>>
CaptureItem(c) == <<<<CapturePass, c>>, 0>>
BindingItem(v, x) == <<<<BindingPass, v>>, x>>
EnvItem(v) == <<<<EnvPass, v>>, 0>>
CellItem(c) == <<<<CellPass, c>>, 0>>

\* An edge or a binding of the dead is an owner until the sweep gets to it.
OwnEdges(c) == {e \in Edges(c) : e[1] \in dead => EdgeItem(e[1], e[2]) \in todo}
OwnBindings(c) == {b \in Bindings(c) : b[1] \in dead => BindingItem(b[1], b[2]) \in todo}

CellCount(c) == held[c] + Cardinality(OwnEdges(c)) + Cardinality(OwnBindings(c))
                + Cardinality(Watched(c)) + Cardinality(Due(c))
EnvCount(v) == Cardinality(Captures(v)) + Cardinality(Children(v))
               + Cardinality(Calls(v)) + Cardinality(Due(v))

CellsCounted == \A c \in Sound : cell[c].nref = CellCount(c)
EnvsCounted == \A v \in SoundEnvs : env[v].nref = EnvCount(v)

\* What is left of a sweep is about the dead, and the dead live until their item.
SweepRight ==
    /\ todo \subseteq (({EdgePass} \X (dead \cap Cells)) \X Slots)
                      \cup (({CapturePass} \X (dead \cap Cells)) \X {0})
                      \cup (({BindingPass} \X (dead \cap Envs)) \X Vars)
                      \cup (({EnvPass} \X (dead \cap Envs)) \X {0})
                      \cup (({CellPass} \X (dead \cap Cells)) \X {0})
    /\ todo = {} => dead = {}
    /\ \A c \in dead \cap Cells : /\ c \in Live <=> CellItem(c) \in todo
                                  /\ c \in Live \/ \A i \in todo : i[1][1] = CellPass
    /\ \A v \in dead \cap Envs : /\ v \in LiveEnvs <=> EnvItem(v) \in todo
                                 /\ v \in LiveEnvs \/ \A i \in todo : i[1][1] >= EnvPass

\* The sound point to the sound; the dead point to the living or to the dead.
InUse == /\ \A c \in Cells : held[c] > 0 => c \in Sound
         /\ \A i \in DOMAIN frames : frames[i] \in SoundEnvs
         /\ \A i \in DOMAIN work : work[i] \in Sound \cup SoundEnvs \cup {NULL}
CellsPoint ==
    \A c \in Live :
        /\ cell[c].to \in Live \cup {NULL}
        /\ cell[c].watcher \in Sound \cup {NULL}
        /\ c \notin dead => /\ \A s \in Slots : cell[c].edge[s] \in Sound \cup {NULL}
                            /\ cell[c].env \in SoundEnvs \cup {NULL}
        /\ c \in dead => \/ CaptureItem(c) \in todo
                         \/ cell[c].env = NULL
        /\ cell[c].kind # "lambda" => cell[c].env = NULL
        /\ \A s \in Slots : EdgeItem(c, s) \in todo => cell[c].edge[s] \in Live \cup dead \cup {NULL}
        /\ CaptureItem(c) \in todo => cell[c].env \in LiveEnvs \cup dead \cup {NULL}
EnvsPoint ==
    \A v \in LiveEnvs :
        /\ v \notin dead => /\ \A x \in Vars : env[v].val[x] \in Sound \cup {NULL}
                            /\ env[v].root \in SoundEnvs \cup {NULL}
        /\ \A x \in Vars : BindingItem(v, x) \in todo => env[v].val[x] \in Live \cup dead \cup {NULL}
        /\ env[v].root \in LiveEnvs \cup dead \cup {NULL}

\* Frames are chained without a cycle.
Grounded == \A B \in SUBSET LiveEnvs :
                B # {} => \E v \in B : \A u \in B : env[u].root # v

\* A closure that was cut from its frame is about to go.
CutIsDue == \A c \in Sound : cell[c].kind = "lambda" /\ cell[c].env = NULL
                => cell[c].nref = 1 /\ \E i \in DOMAIN work : work[i] = c

GcInv == /\ GcTypeOK
         /\ SweepRight
         /\ CellsCounted /\ EnvsCounted
         /\ InUse /\ CellsPoint /\ EnvsPoint
         /\ Grounded /\ CutIsDue
-----------------------------------------------------------------------------
(* Counting. *)

\* The slots of a container and the variables of a frame are finitely many.
LEMMA PlacesFinite == /\ IsFiniteSet(Slots) /\ IsFiniteSet(Vars)
                      /\ Slots \subseteq Nat \ {0} /\ Vars \subseteq Nat \ {0}
BY FS_Interval DEF Slots, Vars

\* Every set of places, and of owners, is finite.
LEMMA FinitePlaces ==
    /\ \A S \in SUBSET (Cells \X Slots) : IsFiniteSet(S) /\ Cardinality(S) \in Nat
    /\ \A S \in SUBSET (Envs \X Vars) : IsFiniteSet(S) /\ Cardinality(S) \in Nat
    /\ \A S \in SUBSET Cells : IsFiniteSet(S) /\ Cardinality(S) \in Nat
    /\ \A S \in SUBSET Envs : IsFiniteSet(S) /\ Cardinality(S) \in Nat
<1>1. IsFiniteSet(Cells \X Slots) /\ IsFiniteSet(Envs \X Vars)
    BY PlacesFinite, FS_Product
<1>2. \A U : IsFiniteSet(U) => \A S \in SUBSET U : IsFiniteSet(S) /\ Cardinality(S) \in Nat
    BY FS_Subset, FS_CardinalityType
<1> QED  BY <1>1, <1>2

\* One more, and one less.
LEMMA CountAdd ==
    ASSUME NEW S, IsFiniteSet(S), NEW x, x \notin S
    PROVE  Cardinality(S \cup {x}) = Cardinality(S) + 1
BY FS_AddElement

\* One fewer, once one that was there is gone.
LEMMA CountRemove ==
    ASSUME NEW S, IsFiniteSet(S), NEW x, x \in S
    PROVE  Cardinality(S) = Cardinality(S \ {x}) + 1
<1>1. Cardinality(S) \in Nat
    BY FS_CardinalityType
<1>2. Cardinality(S \ {x}) = Cardinality(S) - 1
    BY FS_RemoveElement
<1> QED  BY <1>1, <1>2

\* Two sets that share nothing count as much as both.
LEMMA CountApart ==
    ASSUME NEW S, IsFiniteSet(S), NEW T, IsFiniteSet(T), S \cap T = {}
    PROVE  Cardinality(S \cup T) = Cardinality(S) + Cardinality(T)
<1>1. Cardinality(S) \in Nat /\ Cardinality(T) \in Nat
    BY FS_CardinalityType
<1>2. Cardinality(S \cup T) = Cardinality(S) + Cardinality(T) - Cardinality({})
    BY FS_Union
<1> QED  BY <1>1, <1>2, FS_EmptySet

\* The places of a sequence that hold x.
Places(q, x) == {i \in DOMAIN q : q[i] = x}

\* The places are finitely many, and there is one exactly when the count says so.
LEMMA PlacesCounted ==
    ASSUME NEW U, NEW q \in Seq(U), NEW x
    PROVE  /\ IsFiniteSet(Places(q, x))
           /\ Cardinality(Places(q, x)) \in Nat
           /\ Cardinality(Places(q, x)) = 0 <=> \A i \in DOMAIN q : q[i] # x
           /\ Cardinality(Places(q, x)) = 0 <=> Places(q, x) = {}
<1>1. IsFiniteSet(1 .. Len(q))
    BY FS_Interval, LenProperties
<1>2. Places(q, x) \in SUBSET (1 .. Len(q))
    BY LenProperties DEF Places
<1>3. IsFiniteSet(Places(q, x)) /\ Cardinality(Places(q, x)) \in Nat
    BY <1>1, <1>2, FS_Subset, FS_CardinalityType
<1>4. Cardinality(Places(q, x)) = 0 <=> Places(q, x) = {}
    BY <1>3, FS_EmptySet
<1> QED  BY <1>3, <1>4 DEF Places

\* Nothing is due of an empty work list.
LEMMA PlacesEmpty == \A x : Places(<<>>, x) = {} /\ Cardinality(Places(<<>>, x)) = 0
<1>1. \A x : Places(<<>>, x) = {}
    BY DEF Places
<1> QED  BY <1>1, FS_EmptySet

\* A work list of one release.
LEMMA PlacesOne ==
    ASSUME NEW y, NEW x
    PROVE  Cardinality(Places(<<y>>, x)) = IF x = y THEN 1 ELSE 0
<1>1. Places(<<y>>, x) = IF x = y THEN {1} ELSE {}
    BY DEF Places
<1> QED  BY <1>1, FS_Singleton, FS_EmptySet

\* unrefexp_free and destroy_env put what an owner releases before what was
\* already due: the places of the two add up.
LEMMA PlacesConcat ==
    ASSUME NEW U, NEW p \in Seq(U), NEW q \in Seq(U), NEW x
    PROVE  Cardinality(Places(p \o q, x)) = Cardinality(Places(p, x)) + Cardinality(Places(q, x))
<1> DEFINE n == Len(p)
           P == Places(p, x)
           Q == Places(q, x)
           moved == {j \in DOMAIN (p \o q) : j > n /\ (p \o q)[j] = x}
           f == [i \in Q |-> i + n]
<1>1. n \in Nat /\ DOMAIN p = 1 .. n /\ DOMAIN q = 1 .. Len(q) /\ Len(q) \in Nat
    BY LenProperties
<1>2. /\ p \o q \in Seq(U) /\ DOMAIN (p \o q) = 1 .. n + Len(q)
      /\ \A i \in 1 .. n : (p \o q)[i] = p[i]
      /\ \A i \in 1 .. Len(q) : (p \o q)[i + n] = q[i]
    <2>1. /\ p \o q \in Seq(U) /\ Len(p \o q) = n + Len(q)
          /\ \A i \in 1 .. n + Len(q) : (p \o q)[i] = IF i <= n THEN p[i] ELSE q[i - n]
        BY ConcatProperties
    <2> QED  BY <1>1, <2>1, LenProperties
<1> HIDE DEF n
<1>3. IsFiniteSet(P) /\ IsFiniteSet(Q)
    BY PlacesCounted
<1>4. f \in Bijection(Q, moved)
    <2>1. f \in [Q -> moved]
        BY <1>1, <1>2 DEF Places
    <2>2. \A a, b \in Q : f[a] = f[b] => a = b
        BY <1>1 DEF Places
    <2>3. \A j \in moved : \E a \in Q : f[a] = j
        <3> TAKE j \in moved
        <3>1. j - n \in 1 .. Len(q) /\ (j - n) + n = j
            BY <1>1, <1>2
        <3>2. q[j - n] = x
            BY <3>1, <1>2
        <3>3. j - n \in Q
            BY <3>1, <3>2, <1>1 DEF Places
        <3> QED  BY <3>1, <3>3
    <2> QED  BY <2>1, <2>2, <2>3 DEF Bijection, Injection, Surjection, IsInjective
<1>5. IsFiniteSet(moved) /\ Cardinality(moved) = Cardinality(Q)
    BY <1>3, <1>4, FS_Bijection DEF ExistsBijection
<1>6. Places(p \o q, x) = P \cup moved
    BY <1>1, <1>2 DEF Places
<1>7. P \cap moved = {}
    BY <1>1 DEF Places
<1> QED  BY <1>3, <1>5, <1>6, <1>7, CountApart

\* The first release and the rest of the work.
LEMMA PlacesHead ==
    ASSUME NEW U, NEW q \in Seq(U), q # <<>>, NEW x
    PROVE  Cardinality(Places(q, x))
           = Cardinality(Places(Tail(q), x)) + (IF x = Head(q) THEN 1 ELSE 0)
<1>1. Tail(q) \in Seq(U) /\ <<Head(q)>> \in Seq(U) /\ q = <<Head(q)>> \o Tail(q)
    BY HeadTailProperties, ConcatProperties, SeqEqual
<1>2. Cardinality(Places(q, x)) = Cardinality(Places(<<Head(q)>>, x)) + Cardinality(Places(Tail(q), x))
    BY <1>1, PlacesConcat, ZenonT(60)
<1>3. Cardinality(Places(Tail(q), x)) \in Nat
    BY <1>1, PlacesCounted
<1> QED  BY <1>2, <1>3, PlacesOne

\* The contents of an owner are a sequence.
LEMMA RowIsSeq ==
    ASSUME NEW U, NEW n \in Nat, NEW q \in [1 .. n -> U]
    PROVE  q \in Seq(U)
BY SeqDef

Row(c, q, x) == {e \in {c} \X DOMAIN q : q[e[2]] = x}

\* The places of an owner that hold x, as owners and as a sequence.
LEMMA RowCounted ==
    ASSUME NEW U, NEW q \in Seq(U), NEW x, NEW c
    PROVE  IsFiniteSet(Row(c, q, x)) /\ Cardinality(Row(c, q, x)) = Cardinality(Places(q, x))
<1> DEFINE row == Row(c, q, x)
           f == [i \in Places(q, x) |-> <<c, i>>]
<1>1. f \in Bijection(Places(q, x), row)
    <2>1. f \in [Places(q, x) -> row]
        BY DEF Places, Row
    <2>2. \A a, b \in Places(q, x) : f[a] = f[b] => a = b
        OBVIOUS
    <2>3. \A e \in row : \E a \in Places(q, x) : f[a] = e
        BY DEF Places, Row
    <2> QED  BY <2>1, <2>2, <2>3 DEF Bijection, Injection, Surjection, IsInjective
<1> QED  BY <1>1, PlacesCounted, FS_Bijection DEF ExistsBijection

-----------------------------------------------------------------------------
(* The heap between two collections. *)

HeapInUse == /\ \A c \in Cells : held[c] > 0 => c \in Live
             /\ \A i \in DOMAIN frames : frames[i] \in LiveEnvs
             /\ \A i \in DOMAIN work : work[i] \in Live \cup LiveEnvs \cup {NULL}
HeapCells == \A c \in Live : /\ cell[c].to \in Live \cup {NULL}
                             /\ cell[c].watcher \in Live \cup {NULL}
                             /\ \A s \in Slots : cell[c].edge[s] \in Live \cup {NULL}
                             /\ cell[c].env \in LiveEnvs \cup {NULL}
                             /\ cell[c].kind # "lambda" => cell[c].env = NULL
HeapEnvs == \A v \in LiveEnvs : /\ \A x \in Vars : env[v].val[x] \in Live \cup {NULL}
                                /\ env[v].root \in LiveEnvs \cup {NULL}
HeapCut == \A c \in Live : cell[c].kind = "lambda" /\ cell[c].env = NULL
               => cell[c].nref = 1 /\ \E i \in DOMAIN work : work[i] = c

HeapInv == HeapTypeOK /\ OwnersCounted /\ HeapInUse /\ HeapCells /\ HeapEnvs /\ Grounded /\ HeapCut

\* ref: one more owner, and nothing else.
LEMMA RefCell ==
    ASSUME NEW h \in [Cells -> Cell \cup {NULL}], NEW d \in Cells \cup {NULL},
           d # NULL => h[d] # NULL
    PROVE  /\ Ref(h, d) \in [Cells -> Cell \cup {NULL}]
           /\ \A x \in Cells : Ref(h, d)[x] = NULL <=> h[x] = NULL
           /\ \A x \in Cells : h[x] # NULL =>
                /\ Ref(h, d)[x].kind = h[x].kind /\ Ref(h, d)[x].edge = h[x].edge
                /\ Ref(h, d)[x].env = h[x].env /\ Ref(h, d)[x].to = h[x].to
                /\ Ref(h, d)[x].watcher = h[x].watcher
                /\ Ref(h, d)[x].nref = h[x].nref + (IF x = d THEN 1 ELSE 0)
                /\ x # d => Ref(h, d)[x] = h[x]
<1>1. CASE d = NULL
    <2>1. Ref(h, d) = h /\ \A x \in Cells : x # d
        BY <1>1 DEF Ref
    <2>2. \A x \in Cells : h[x] # NULL => h[x].nref \in Nat
        BY DEF Cell
    <2> QED  BY <2>1, <2>2
<1>2. CASE d # NULL
    <2>1. d \in Cells /\ h[d] \in Cell
        BY <1>2
    <2> DEFINE r == [h[d] EXCEPT !.nref = @ + 1]
    <2>2. /\ r \in Cell /\ r.nref = h[d].nref + 1 /\ r.kind = h[d].kind /\ r.edge = h[d].edge
          /\ r.env = h[d].env /\ r.to = h[d].to /\ r.watcher = h[d].watcher
        BY <2>1 DEF Cell
    <2>3. Ref(h, d) = [h EXCEPT ![d] = r]
        BY <1>2 DEF Ref
    <2> HIDE DEF r
    <2>4. r # NULL
        BY <2>2
    <2>5. \A x \in Cells : h[x] # NULL => h[x].nref \in Nat
        BY DEF Cell
    <2> QED  BY <2>1, <2>2, <2>3, <2>4, <2>5
<1> QED  BY <1>1, <1>2

\* ref_env: the same for an environment.
LEMMA RefEnv ==
    ASSUME NEW h \in [Envs -> Env \cup {NULL}], NEW d \in Envs \cup {NULL},
           d # NULL => h[d] # NULL
    PROVE  /\ Ref(h, d) \in [Envs -> Env \cup {NULL}]
           /\ \A x \in Envs : Ref(h, d)[x] = NULL <=> h[x] = NULL
           /\ \A x \in Envs : h[x] # NULL =>
                /\ Ref(h, d)[x].root = h[x].root /\ Ref(h, d)[x].val = h[x].val
                /\ Ref(h, d)[x].nref = h[x].nref + (IF x = d THEN 1 ELSE 0)
<1>1. CASE d = NULL
    <2>1. Ref(h, d) = h /\ \A x \in Envs : x # d
        BY <1>1 DEF Ref
    <2>2. \A x \in Envs : h[x] # NULL => h[x].nref \in Nat
        BY DEF Env
    <2> QED  BY <2>1, <2>2
<1>2. CASE d # NULL
    <2>1. d \in Envs /\ h[d] \in Env
        BY <1>2
    <2> DEFINE r == [h[d] EXCEPT !.nref = @ + 1]
    <2>2. /\ r \in Env /\ r.nref = h[d].nref + 1 /\ r.root = h[d].root /\ r.val = h[d].val
        BY <2>1 DEF Env
    <2>3. Ref(h, d) = [h EXCEPT ![d] = r]
        BY <1>2 DEF Ref
    <2> HIDE DEF r
    <2>4. r # NULL
        BY <2>2
    <2>5. \A x \in Envs : h[x] # NULL => h[x].nref \in Nat
        BY DEF Env
    <2> QED  BY <2>1, <2>2, <2>3, <2>4, <2>5
<1> QED  BY <1>1, <1>2

\* The owners of a cell or of an environment, and their numbers.
LEMMA OwnersFinite ==
    ASSUME HeapTypeOK
    PROVE  /\ \A c : /\ Edges(c) \in SUBSET (Cells \X Slots) /\ Bindings(c) \in SUBSET (Envs \X Vars)
                     /\ Watched(c) \in SUBSET Cells
                     /\ IsFiniteSet(Edges(c)) /\ Cardinality(Edges(c)) \in Nat
                     /\ IsFiniteSet(Bindings(c)) /\ Cardinality(Bindings(c)) \in Nat
                     /\ IsFiniteSet(Watched(c)) /\ Cardinality(Watched(c)) \in Nat
           /\ \A v : /\ Captures(v) \in SUBSET Cells /\ Children(v) \in SUBSET Envs
                     /\ IsFiniteSet(Captures(v)) /\ Cardinality(Captures(v)) \in Nat
                     /\ IsFiniteSet(Children(v)) /\ Cardinality(Children(v)) \in Nat
                     /\ IsFiniteSet(Calls(v)) /\ Cardinality(Calls(v)) \in Nat
           /\ \A x : /\ IsFiniteSet(Due(x)) /\ Cardinality(Due(x)) \in Nat
                     /\ Due(x) = Places(work, x) /\ Calls(x) = Places(frames, x)
<1>1. \A c : Edges(c) \in SUBSET (Cells \X Slots) /\ Bindings(c) \in SUBSET (Envs \X Vars)
             /\ Watched(c) \in SUBSET Cells /\ Captures(c) \in SUBSET Cells
             /\ Children(c) \in SUBSET Envs
    BY DEF Edges, Bindings, Watched, Captures, Children, Live, LiveEnvs
<1>2. \A x : Due(x) = Places(work, x) /\ Calls(x) = Places(frames, x)
    BY DEF Due, Calls, Places
<1>3. \A x : IsFiniteSet(Places(work, x)) /\ Cardinality(Places(work, x)) \in Nat
    BY PlacesCounted DEF HeapTypeOK
<1>4. \A x : IsFiniteSet(Places(frames, x)) /\ Cardinality(Places(frames, x)) \in Nat
    BY PlacesCounted DEF HeapTypeOK
<1> QED  BY <1>1, <1>2, <1>3, <1>4, FinitePlaces

\* What is free is owned by no one.
LEMMA Unowned ==
    ASSUME HeapInv, NEW c \in Cells, cell[c] = NULL
    PROVE  /\ held[c] = 0 /\ Edges(c) = {} /\ Bindings(c) = {} /\ Watched(c) = {} /\ Due(c) = {}
<1>1. c \notin Live /\ c \notin LiveEnvs /\ c # NULL
    BY DEF Live, LiveEnvs
<1>2. held[c] = 0
    BY <1>1 DEF HeapInv, HeapTypeOK, HeapInUse
<1>3. Edges(c) = {} /\ Watched(c) = {}
    BY <1>1 DEF HeapInv, HeapCells, Edges, Watched
<1>4. Bindings(c) = {}
    BY <1>1 DEF HeapInv, HeapEnvs, Bindings
<1>5. Due(c) = {}
    BY <1>1 DEF HeapInv, HeapInUse, Due
<1> QED  BY <1>2, <1>3, <1>4, <1>5

\* Nothing owns a free environment: make_env finds no owner to count.
LEMMA UnownedEnv ==
    ASSUME HeapInv, NEW v \in Envs, env[v] = NULL
    PROVE  Captures(v) = {} /\ Children(v) = {} /\ Calls(v) = {} /\ Due(v) = {}
<1>1. v \notin Live /\ v \notin LiveEnvs /\ v # NULL
    BY DEF Live, LiveEnvs
<1>2. Captures(v) = {}
    BY <1>1 DEF HeapInv, HeapCells, Captures
<1>3. Children(v) = {}
    BY <1>1 DEF HeapInv, HeapEnvs, Children
<1>4. Calls(v) = {} /\ Due(v) = {}
    BY <1>1 DEF HeapInv, HeapInUse, Calls, Due
<1> QED  BY <1>2, <1>3, <1>4

\* Between two cascades no closure is cut.
LEMMA NoneCut ==
    ASSUME HeapInv, Quiet
    PROVE  /\ \A c \in Live : cell[c].kind = "lambda" => cell[c].env # NULL
           /\ \A x : Due(x) = {}
<1>1. DOMAIN work = {}
    BY DEF Quiet
<1> QED  BY <1>1 DEF HeapInv, HeapCut, Due

\* A new cell with at most one edge, and at most one environment.
LEMMA MadeKeeps ==
    ASSUME HeapInv, Quiet, NEW c \in Cells, c \notin Live,
           NEW d \in Live \cup {NULL}, NEW e \in LiveEnvs \cup {NULL}, NEW t \in Live \cup {NULL}, d # c,
           HeapTypeOK', Live' = Live \cup {c}, LiveEnvs' = LiveEnvs,
           cell'[c].nref = 1, cell'[c].env = e, cell'[c].to = t, cell'[c].watcher = NULL,
           cell'[c].kind = "lambda" <=> e # NULL,
           \A s \in Slots : cell'[c].edge[s] = IF s = 1 THEN d ELSE NULL,
           \A x \in Live : /\ cell'[x].kind = cell[x].kind /\ cell'[x].edge = cell[x].edge
                            /\ cell'[x].env = cell[x].env /\ cell'[x].to = cell[x].to
                            /\ cell'[x].watcher = cell[x].watcher
                            /\ cell'[x].nref = cell[x].nref + (IF x = d THEN 1 ELSE 0),
           \A x \in LiveEnvs : /\ env'[x].root = env[x].root /\ env'[x].val = env[x].val
                                /\ env'[x].nref = env[x].nref + (IF x = e THEN 1 ELSE 0),
           \A x \in Cells : held'[x] = held[x] + (IF x = c THEN 1 ELSE 0),
           UNCHANGED <<frames, work>>
    PROVE  HeapInv'
<1>1. held \in [Cells -> Nat]
    BY DEF HeapInv, HeapTypeOK
<1>12. OwnersCounted'
    <2>1. ASSUME NEW x \in Live'
          PROVE  cell'[x].nref = held'[x] + Cardinality(Edges(x)') + Cardinality(Bindings(x)')
                                 + Cardinality(Watched(x)') + Cardinality(Due(x)')
        <3>1. x \in Cells /\ x # NULL
            BY <2>1 DEF Live
        <3>2. Bindings(x)' = Bindings(x)
            BY DEF Bindings
        <3>3. Watched(x)' = Watched(x)
            BY <3>1 DEF Watched
        <3>4. Due(x)' = Due(x)
            BY DEF Due
        <3>5. Edges(x)' = IF x = d THEN Edges(x) \cup {<<c, 1>>} ELSE Edges(x)
            <4>1. 1 \in Slots
                BY DEF Slots
            <4> QED  BY <3>1, <4>1 DEF Edges
        <3>6. <<c, 1>> \notin Edges(x)
            BY DEF Edges
        <3>7. Cardinality(Edges(x)') = Cardinality(Edges(x)) + (IF x = d THEN 1 ELSE 0)
            BY <3>5, <3>6, OwnersFinite, CountAdd DEF HeapInv
        <3>8. CASE x = c
            <4>1. Edges(x) = {} /\ Bindings(x) = {} /\ Watched(x) = {} /\ Due(x) = {} /\ held[x] = 0
                BY <3>8, Unowned DEF Live
            <4> QED  BY <3>2, <3>3, <3>4, <3>5, <3>8, <4>1, FS_EmptySet
        <3>9. CASE x # c
            <4>1. x \in Live /\ held'[x] = held[x]
                BY <1>1, <2>1, <3>1, <3>9
            <4>2. cell[x].nref = held[x] + Cardinality(Edges(x)) + Cardinality(Bindings(x))
                                 + Cardinality(Watched(x)) + Cardinality(Due(x))
                BY <4>1 DEF HeapInv, OwnersCounted
            <4>3. held[x] \in Nat
                BY <1>1, <3>1
            <4>4. /\ Cardinality(Edges(x)) \in Nat /\ Cardinality(Bindings(x)) \in Nat
                  /\ Cardinality(Watched(x)) \in Nat /\ Cardinality(Due(x)) \in Nat
                BY OwnersFinite DEF HeapInv
            <4> QED  BY <3>2, <3>3, <3>4, <3>7, <4>1, <4>2, <4>3, <4>4
        <3> QED  BY <3>8, <3>9
    <2>2. ASSUME NEW v \in LiveEnvs'
          PROVE  env'[v].nref = Cardinality(Captures(v)') + Cardinality(Children(v)')
                                + Cardinality(Calls(v)') + Cardinality(Due(v)')
        <3>1. v \in LiveEnvs /\ v # NULL
            BY <2>2 DEF LiveEnvs
        <3>2. Children(v)' = Children(v) /\ Calls(v)' = Calls(v) /\ Due(v)' = Due(v)
            BY DEF Children, Calls, Due
        <3>3. Captures(v)' = IF v = e THEN Captures(v) \cup {c} ELSE Captures(v)
            BY <3>1 DEF Captures
        <3>4. c \notin Captures(v)
            BY DEF Captures
        <3>5. Cardinality(Captures(v)') = Cardinality(Captures(v)) + (IF v = e THEN 1 ELSE 0)
            BY <3>3, <3>4, OwnersFinite, CountAdd DEF HeapInv
        <3>6. env[v].nref = Cardinality(Captures(v)) + Cardinality(Children(v))
                            + Cardinality(Calls(v)) + Cardinality(Due(v))
            BY <3>1 DEF HeapInv, OwnersCounted
        <3>7. /\ Cardinality(Captures(v)) \in Nat /\ Cardinality(Children(v)) \in Nat
              /\ Cardinality(Calls(v)) \in Nat /\ Cardinality(Due(v)) \in Nat
            BY OwnersFinite DEF HeapInv
        <3> QED  BY <3>1, <3>2, <3>5, <3>6, <3>7
    <2> QED  BY <2>1, <2>2 DEF OwnersCounted
<1>13. HeapInUse'
    BY <1>1 DEF HeapInv, HeapInUse
<1>14. HeapCells'
    <2> SUFFICES ASSUME NEW x \in Live'
                 PROVE  /\ cell'[x].to \in Live' \cup {NULL}
                        /\ cell'[x].watcher \in Live' \cup {NULL}
                        /\ \A s \in Slots : cell'[x].edge[s] \in Live' \cup {NULL}
                        /\ cell'[x].env \in LiveEnvs' \cup {NULL}
                        /\ cell'[x].kind # "lambda" => cell'[x].env = NULL
        BY DEF HeapCells
    <2>1. CASE x = c
        BY <2>1
    <2>2. CASE x # c
        BY <2>2 DEF HeapInv, HeapCells
    <2> QED  BY <2>1, <2>2
<1>15. HeapEnvs'
    BY DEF HeapInv, HeapEnvs
<1>16. Grounded'
    BY DEF HeapInv, Grounded
<1>17. HeapCut'
    BY NoneCut DEF HeapCut
<1> QED  BY <1>12, <1>13, <1>14, <1>15, <1>16, <1>17 DEF HeapInv

\* make_nil and the constructors on it: the new value has one owner, the C stack.
LEMMA MakeKeeps ==
    ASSUME HeapInv, Quiet, NEW c \in Cells, cell[c] = NULL,
           NEW new \in Cell, new.nref = 1, new.watcher = NULL,
           new.edge[1] \in Live \cup {NULL}, new.env \in LiveEnvs \cup {NULL},
           new.to \in Live \cup {NULL}, new.kind = "lambda" <=> new.env # NULL,
           \A s \in Slots : s # 1 => new.edge[s] = NULL,
           cell' = [Ref(cell, new.edge[1]) EXCEPT ![c] = new],
           held' = [held EXCEPT ![c] = @ + 1],
           env' = Ref(env, new.env),
           UNCHANGED <<frames, work>>
    PROVE  HeapInv'
<1> SUFFICES ASSUME NEW d, NEW e, NEW t, d = new.edge[1], e = new.env, t = new.to
             PROVE  HeapInv'
    OBVIOUS
<1> DEFINE h == Ref(cell, d)
<1>0. d \in Live \cup {NULL} /\ e \in LiveEnvs \cup {NULL} /\ t \in Live \cup {NULL}
    OBVIOUS
<1>1. /\ cell \in [Cells -> Cell \cup {NULL}] /\ env \in [Envs -> Env \cup {NULL}]
      /\ held \in [Cells -> Nat] /\ frames \in Seq(Envs) /\ work \in Seq(Cells \cup Envs \cup {NULL})
    BY DEF HeapInv, HeapTypeOK
<1>2. d \in Cells \cup {NULL} /\ e \in Envs \cup {NULL} /\ t \in Cells \cup {NULL}
    BY <1>0 DEF Live, LiveEnvs
<1>3. (d # NULL => cell[d] # NULL) /\ (e # NULL => env[e] # NULL) /\ d # c /\ t # c
    BY <1>0 DEF Live, LiveEnvs
<1>4. /\ new # NULL /\ new.env = e /\ new.to = t /\ new.kind = "lambda" <=> e # NULL
      /\ \A s \in Slots : new.edge[s] = IF s = 1 THEN d ELSE NULL
    OBVIOUS
<1>5. cell' = [h EXCEPT ![c] = new] /\ env' = Ref(env, e)
    OBVIOUS
<1> HIDE DEF h
<1>6. /\ h \in [Cells -> Cell \cup {NULL}]
      /\ \A x \in Cells : h[x] = NULL <=> cell[x] = NULL
      /\ \A x \in Live : /\ h[x].kind = cell[x].kind /\ h[x].edge = cell[x].edge
                         /\ h[x].env = cell[x].env /\ h[x].to = cell[x].to
                         /\ h[x].watcher = cell[x].watcher
                         /\ h[x].nref = cell[x].nref + (IF x = d THEN 1 ELSE 0)
    BY <1>1, <1>2, <1>3, RefCell DEF Live, h
<1>7. /\ env' \in [Envs -> Env \cup {NULL}]
      /\ \A x \in Envs : env'[x] = NULL <=> env[x] = NULL
      /\ \A x \in LiveEnvs : /\ env'[x].root = env[x].root /\ env'[x].val = env[x].val
                             /\ env'[x].nref = env[x].nref + (IF x = e THEN 1 ELSE 0)
    <2>1. /\ Ref(env, e) \in [Envs -> Env \cup {NULL}]
          /\ \A x \in Envs : Ref(env, e)[x] = NULL <=> env[x] = NULL
          /\ \A x \in LiveEnvs : /\ Ref(env, e)[x].root = env[x].root
                                 /\ Ref(env, e)[x].val = env[x].val
                                 /\ Ref(env, e)[x].nref = env[x].nref + (IF x = e THEN 1 ELSE 0)
        BY <1>1, <1>2, <1>3, RefEnv DEF LiveEnvs
    <2> QED  BY <1>5, <2>1
<1>8. cell' \in [Cells -> Cell \cup {NULL}] /\ held' \in [Cells -> Nat]
    <2>1. cell' \in [Cells -> Cell \cup {NULL}]
        BY <1>4, <1>5, <1>6
    <2>2. held' \in [Cells -> Nat]
        BY <1>1
    <2> QED  BY <2>1, <2>2
<1>9. HeapTypeOK'
    BY <1>1, <1>7, <1>8 DEF HeapTypeOK
<1>10. Live' = Live \cup {c} /\ LiveEnvs' = LiveEnvs /\ c \notin Live
    BY <1>1, <1>4, <1>5, <1>6, <1>7 DEF Live, LiveEnvs
<1>11. /\ \A x \in Live : /\ cell'[x].kind = cell[x].kind /\ cell'[x].edge = cell[x].edge
                          /\ cell'[x].env = cell[x].env /\ cell'[x].to = cell[x].to
                          /\ cell'[x].watcher = cell[x].watcher
                          /\ cell'[x].nref = cell[x].nref + (IF x = d THEN 1 ELSE 0)
       /\ cell'[c] = new
    BY <1>1, <1>5, <1>6, <1>10 DEF Live
<1>12. \A x \in Cells : held'[x] = held[x] + (IF x = c THEN 1 ELSE 0)
    BY <1>1
<1> QED  BY <1>0, <1>3, <1>4, <1>7, <1>9, <1>10, <1>11, <1>12, MadeKeeps

\* A constructor whose cell points to at most d, e and, weakly, t.
LEMMA MakeStep ==
    ASSUME HeapInv, Quiet,
           \/ \E c \in Cells : MakeBox(c)
           \/ \E c, d \in Cells : MakeOpaque(c, d) \/ MakeWeak(c, d)
           \/ \E c \in Cells, d \in Cells \cup {NULL} : MakeFn(c, d)
    PROVE  HeapInv'
<1>1. Held \subseteq Live /\ (frames # <<>> => Current \in LiveEnvs)
    <2>1. frames # <<>> => Len(frames) \in DOMAIN frames
        BY LenProperties, EmptySeq DEF HeapInv, HeapTypeOK
    <2> QED  BY <2>1 DEF Held, Current, Last, HeapInv, HeapInUse
<1>2. \A h : Ref(h, NULL) = h
    BY DEF Ref
<1>3. {"box", "opaque", "lambda", "weak"} \subseteq Kinds
    BY DEF Kinds
<1>4. ASSUME NEW c \in Cells, MakeBox(c)  PROVE HeapInv'
    <2>1. Quiet /\ cell[c] = NULL /\ UNCHANGED <<frames, work>> /\ env' = Ref(env, NULL)
          /\ held' = [held EXCEPT ![c] = @ + 1]
        BY <1>2, <1>4 DEF MakeBox, Make, Hold
    <2> DEFINE new == Blank("box")
    <2>2. /\ new \in Cell /\ new.kind = "box" /\ new.nref = 1 /\ new.env = NULL /\ new.to = NULL
          /\ new.watcher = NULL /\ new.edge[1] = NULL /\ \A s \in Slots : s # 1 => new.edge[s] = NULL
        BY <1>3, <2>1 DEF Blank, Cell, Live, LiveEnvs, Slots
    <2>3. cell' = [Ref(cell, new.edge[1]) EXCEPT ![c] = new] /\ env' = Ref(env, new.env)
        BY <1>2, <1>4, <2>1, <2>2 DEF MakeBox, Make
    <2> HIDE DEF new
    <2>4. NULL \in LiveEnvs \cup {NULL} /\ NULL \in Live \cup {NULL} /\ NULL \in Live \cup {NULL}
        BY <2>1
    <2> QED  BY <2>1, <2>2, <2>3, <2>4, MakeKeeps
<1>5. ASSUME NEW c \in Cells, NEW d \in Cells, MakeOpaque(c, d)  PROVE HeapInv'
    <2>1. Quiet /\ cell[c] = NULL /\ UNCHANGED <<frames, work>> /\ env' = Ref(env, NULL)
          /\ held' = [held EXCEPT ![c] = @ + 1] /\ d \in Live
        BY <1>1, <1>2, <1>5 DEF MakeOpaque, Make, Hold
    <2> DEFINE new == [Blank("opaque") EXCEPT !.edge = [s \in Slots |-> IF s = 1 THEN d ELSE NULL]]
    <2>2. /\ new \in Cell /\ new.kind = "opaque" /\ new.nref = 1 /\ new.env = NULL /\ new.to = NULL
          /\ new.watcher = NULL /\ new.edge[1] = d /\ \A s \in Slots : s # 1 => new.edge[s] = NULL
        BY <1>3, <2>1 DEF Blank, Cell, Live, LiveEnvs, Slots
    <2>3. cell' = [Ref(cell, new.edge[1]) EXCEPT ![c] = new] /\ env' = Ref(env, new.env)
        BY <1>2, <1>5, <2>1, <2>2 DEF MakeOpaque, Make
    <2> HIDE DEF new
    <2>4. NULL \in LiveEnvs \cup {NULL} /\ d \in Live \cup {NULL} /\ NULL \in Live \cup {NULL}
        BY <2>1
    <2> QED  BY <2>1, <2>2, <2>3, <2>4, MakeKeeps
<1>6. ASSUME NEW c \in Cells, NEW d \in Cells, MakeWeak(c, d)  PROVE HeapInv'
    <2>1. Quiet /\ cell[c] = NULL /\ UNCHANGED <<frames, work>> /\ env' = Ref(env, NULL)
          /\ held' = [held EXCEPT ![c] = @ + 1] /\ d \in Live
        BY <1>1, <1>2, <1>6 DEF MakeWeak, Make, Hold
    <2> DEFINE new == [Blank("weak") EXCEPT !.to = d]
    <2>2. /\ new \in Cell /\ new.kind = "weak" /\ new.nref = 1 /\ new.env = NULL /\ new.to = d
          /\ new.watcher = NULL /\ new.edge[1] = NULL /\ \A s \in Slots : s # 1 => new.edge[s] = NULL
        BY <1>3, <2>1 DEF Blank, Cell, Live, LiveEnvs, Slots
    <2>3. cell' = [Ref(cell, new.edge[1]) EXCEPT ![c] = new] /\ env' = Ref(env, new.env)
        BY <1>2, <1>6, <2>1, <2>2 DEF MakeWeak, Make
    <2> HIDE DEF new
    <2>4. NULL \in LiveEnvs \cup {NULL} /\ NULL \in Live \cup {NULL} /\ d \in Live \cup {NULL}
        BY <2>1
    <2> QED  BY <2>1, <2>2, <2>3, <2>4, MakeKeeps
<1>7. ASSUME NEW c \in Cells, NEW d \in Cells \cup {NULL}, MakeFn(c, d)  PROVE HeapInv'
    <2>1. Quiet /\ cell[c] = NULL /\ UNCHANGED <<frames, work>> /\ env' = Ref(env, Current)
          /\ held' = [held EXCEPT ![c] = @ + 1] /\ d \in Live \cup {NULL}
          /\ Current \in LiveEnvs /\ Current # NULL
        BY <1>1, <1>7 DEF MakeFn, Make, Hold, LiveEnvs
    <2> DEFINE new == [Blank("lambda") EXCEPT !.edge = [s \in Slots |-> IF s = 1 THEN d ELSE NULL],
                                              !.env = Current]
    <2>2. /\ new \in Cell /\ new.kind = "lambda" /\ new.nref = 1 /\ new.env = Current /\ new.to = NULL
          /\ new.watcher = NULL /\ new.edge[1] = d /\ \A s \in Slots : s # 1 => new.edge[s] = NULL
        <3> DEFINE one == [Blank("lambda") EXCEPT !.edge = [s \in Slots |-> IF s = 1 THEN d ELSE NULL]]
        <3>1. /\ one \in Cell /\ one.kind = "lambda" /\ one.nref = 1 /\ one.to = NULL
              /\ one.watcher = NULL /\ one.edge[1] = d /\ \A s \in Slots : s # 1 => one.edge[s] = NULL
            BY <1>3, <2>1, SMTT(40) DEF Blank, Cell, Live, LiveEnvs, Slots
        <3>2. new = [one EXCEPT !.env = Current]
            BY DEF Blank
        <3> HIDE DEF one, new
        <3> QED  BY <2>1, <3>1, <3>2 DEF Cell, LiveEnvs
    <2>3. cell' = [Ref(cell, new.edge[1]) EXCEPT ![c] = new] /\ env' = Ref(env, new.env)
        BY <1>2, <1>7, <2>1, <2>2 DEF MakeFn, Make
    <2> HIDE DEF new
    <2>4. Current \in LiveEnvs \cup {NULL} /\ d \in Live \cup {NULL} /\ NULL \in Live \cup {NULL}
        BY <2>1
    <2> QED  BY <2>1, <2>2, <2>3, <2>4, MakeKeeps
<1> QED  BY <1>4, <1>5, <1>6, <1>7

\* The C stack takes one more reference.
LEMMA HoldKeeps ==
    ASSUME HeapInv, NEW d \in Live, Quiet,
           cell' = Ref(cell, d), Hold(d), UNCHANGED <<env, frames, work>>
    PROVE  HeapInv'
<1>1. /\ cell \in [Cells -> Cell \cup {NULL}] /\ held \in [Cells -> Nat]
      /\ d \in Cells /\ d # NULL /\ cell[d] # NULL
    BY DEF HeapInv, HeapTypeOK, Live
<1>2. /\ cell' \in [Cells -> Cell \cup {NULL}]
      /\ \A x \in Cells : cell'[x] = NULL <=> cell[x] = NULL
      /\ \A x \in Live : /\ cell'[x].kind = cell[x].kind /\ cell'[x].edge = cell[x].edge
                         /\ cell'[x].env = cell[x].env /\ cell'[x].to = cell[x].to
                         /\ cell'[x].watcher = cell[x].watcher
                         /\ cell'[x].nref = cell[x].nref + (IF x = d THEN 1 ELSE 0)
    BY <1>1, RefCell DEF Live
<1>3. held' \in [Cells -> Nat] /\ \A x \in Cells : held'[x] = held[x] + (IF x = d THEN 1 ELSE 0)
    BY <1>1 DEF Hold
<1>4. Live' = Live /\ LiveEnvs' = LiveEnvs
    BY <1>2 DEF Live, LiveEnvs
<1>5. HeapTypeOK'
    BY <1>2, <1>3 DEF HeapInv, HeapTypeOK
<1>6. OwnersCounted'
    <2>1. \A x : Edges(x)' = Edges(x) /\ Bindings(x)' = Bindings(x) /\ Watched(x)' = Watched(x)
                 /\ Captures(x)' = Captures(x) /\ Children(x)' = Children(x)
                 /\ Calls(x)' = Calls(x) /\ Due(x)' = Due(x)
        BY <1>2, <1>4 DEF Edges, Bindings, Watched, Captures, Children, Calls, Due
    <2>2. ASSUME NEW x \in Live
          PROVE  cell'[x].nref = held'[x] + Cardinality(Edges(x)) + Cardinality(Bindings(x))
                                 + Cardinality(Watched(x)) + Cardinality(Due(x))
        <3>1. held[x] \in Nat /\ x \in Cells
            BY <1>1, <2>2 DEF Live
        <3>2. /\ Cardinality(Edges(x)) \in Nat /\ Cardinality(Bindings(x)) \in Nat
              /\ Cardinality(Watched(x)) \in Nat /\ Cardinality(Due(x)) \in Nat
            BY OwnersFinite DEF HeapInv
        <3> QED  BY <1>2, <1>3, <2>2, <3>1, <3>2 DEF HeapInv, OwnersCounted
    <2> QED  BY <1>4, <2>1, <2>2 DEF HeapInv, OwnersCounted
<1>7. HeapInUse' /\ HeapCells' /\ HeapEnvs' /\ Grounded'
    BY <1>1, <1>2, <1>3, <1>4 DEF HeapInv, HeapInUse, HeapCells, HeapEnvs, Grounded
<1>8. HeapCut'
    BY <1>2, <1>4, NoneCut DEF HeapCut
<1> QED  BY <1>5, <1>6, <1>7, <1>8 DEF HeapInv

\* GetSlot and WeakGet: the C stack takes one more reference.
LEMMA GetStep ==
    ASSUME HeapInv, Quiet, \E c \in Cells : WeakGet(c) \/ \E s \in Slots : GetSlot(c, s)
    PROVE  HeapInv'
<1>1. ASSUME NEW c \in Cells, WeakGet(c)  PROVE HeapInv'
    <2>1. c \in Live /\ cell[c].to # NULL
        BY <1>1 DEF WeakGet, Held
    <2>2. cell[c].to \in Live
        BY <2>1 DEF HeapInv, HeapCells
    <2> QED  BY <1>1, <2>2, HoldKeeps DEF WeakGet
<1>2. ASSUME NEW c \in Cells, NEW s \in Slots, GetSlot(c, s)  PROVE HeapInv'
    <2>1. c \in Live /\ cell[c].edge[s] # NULL
        BY <1>2 DEF GetSlot, Held
    <2>2. cell[c].edge[s] \in Live
        BY <2>1 DEF HeapInv, HeapCells
    <2> QED  BY <1>2, <2>2, HoldKeeps DEF GetSlot
<1> QED  BY <1>1, <1>2

\* The C stack drops one.
LEMMA DropStep ==
    ASSUME HeapInv, Quiet, NEW c \in Cells, Drop(c)
    PROVE  HeapInv'
<1>1. /\ held \in [Cells -> Nat] /\ held' = [held EXCEPT ![c] = @ - 1] /\ held[c] > 0
      /\ c \in Live /\ work' = <<c>> /\ UNCHANGED <<cell, env, frames>> /\ Quiet
    BY DEF HeapInv, HeapTypeOK, Drop, Held
<1>2. held' \in [Cells -> Nat] /\ \A x \in Cells : held[x] = held'[x] + (IF x = c THEN 1 ELSE 0)
    BY <1>1
<1>3. work' \in Seq(Cells \cup Envs \cup {NULL})
    BY <1>1
<1>4. HeapTypeOK' /\ Live' = Live /\ LiveEnvs' = LiveEnvs
    BY <1>1, <1>2, <1>3 DEF HeapInv, HeapTypeOK, Live, LiveEnvs
<1>5. \A x : Cardinality(Due(x)') = (IF x = c THEN 1 ELSE 0) /\ Cardinality(Due(x)) = 0
    <2>1. \A x : Due(x)' = Places(<<c>>, x)
        BY <1>1 DEF Due, Places
    <2> QED  BY <1>1, <2>1, PlacesOne, NoneCut, FS_EmptySet
<1>6. OwnersCounted'
    <2>1. \A x : Edges(x)' = Edges(x) /\ Bindings(x)' = Bindings(x) /\ Watched(x)' = Watched(x)
                 /\ Captures(x)' = Captures(x) /\ Children(x)' = Children(x)
                 /\ Calls(x)' = Calls(x)
        BY <1>1, <1>4 DEF Edges, Bindings, Watched, Captures, Children, Calls
    <2>2. ASSUME NEW x \in Live
          PROVE  cell[x].nref = held'[x] + Cardinality(Edges(x)) + Cardinality(Bindings(x))
                                + Cardinality(Watched(x)) + Cardinality(Due(x)')
        <3>1. held[x] \in Nat /\ x \in Cells /\ held'[x] \in Nat
            BY <1>1, <1>2, <2>2 DEF Live
        <3>2. /\ Cardinality(Edges(x)) \in Nat /\ Cardinality(Bindings(x)) \in Nat
              /\ Cardinality(Watched(x)) \in Nat
            BY OwnersFinite DEF HeapInv
        <3> QED  BY <1>2, <1>5, <2>2, <3>1, <3>2 DEF HeapInv, OwnersCounted
    <2>3. \A v \in LiveEnvs : v # c
        BY <1>1 DEF LiveEnvs
    <2>4. ASSUME NEW v \in LiveEnvs
          PROVE  env[v].nref = Cardinality(Captures(v)) + Cardinality(Children(v))
                               + Cardinality(Calls(v)) + Cardinality(Due(v)')
        BY <1>5, <2>3, <2>4 DEF HeapInv, OwnersCounted
    <2> QED  BY <1>1, <1>4, <2>1, <2>2, <2>4 DEF OwnersCounted
<1>7. HeapInUse'
    <2>1. \A x \in Cells : held'[x] > 0 => held[x] > 0
        BY <1>1, <1>2
    <2>2. \A i \in DOMAIN work' : work'[i] = c
        BY <1>1
    <2> QED  BY <1>1, <1>4, <2>1, <2>2 DEF HeapInv, HeapInUse
<1>8. HeapCells' /\ HeapEnvs' /\ Grounded'
    BY <1>1, <1>4 DEF HeapInv, HeapCells, HeapEnvs, Grounded
<1>9. HeapCut'
    BY <1>1, <1>4, NoneCut DEF HeapCut
<1> QED  BY <1>4, <1>6, <1>7, <1>8, <1>9 DEF HeapInv

\* A store into a container, and into a frame.
EdgeStored(h, b, s, d) == [h EXCEPT ![b].edge[s] = d]
BindingStored(h, v, y, d) == [h EXCEPT ![v].val[y] = d]

\* A slot of a container takes another value.
LEMMA EdgeSet ==
    ASSUME NEW h \in [Cells -> Cell \cup {NULL}], NEW b \in Cells, h[b] # NULL,
           NEW s \in Slots, NEW d \in Cells \cup {NULL},
           NEW g, g = EdgeStored(h, b, s, d)
    PROVE  /\ g \in [Cells -> Cell \cup {NULL}]
           /\ \A x \in Cells : /\ g[x] = NULL <=> h[x] = NULL
                               /\ x # b => g[x] = h[x]
           /\ g[b].kind = h[b].kind /\ g[b].env = h[b].env /\ g[b].to = h[b].to
           /\ g[b].watcher = h[b].watcher /\ g[b].nref = h[b].nref
           /\ g[b].edge = [h[b].edge EXCEPT ![s] = d]
<1> DEFINE r == [h[b] EXCEPT !.edge[s] = d]
<1>1. h[b] \in Cell
    OBVIOUS
<1>2. /\ r \in Cell /\ r.kind = h[b].kind /\ r.env = h[b].env /\ r.to = h[b].to
      /\ r.watcher = h[b].watcher /\ r.nref = h[b].nref
      /\ r.edge = [h[b].edge EXCEPT ![s] = d]
    BY <1>1 DEF Cell
<1>3. g = [h EXCEPT ![b] = r]
    BY DEF EdgeStored
<1> HIDE DEF r
<1>4. r # NULL
    BY <1>2
<1> QED  BY <1>2, <1>3, <1>4

\* A variable of a frame takes another value.
LEMMA BindingSet ==
    ASSUME NEW h \in [Envs -> Env \cup {NULL}], NEW v \in Envs, h[v] # NULL,
           NEW y \in Vars, NEW d \in Cells,
           NEW g, g = BindingStored(h, v, y, d)
    PROVE  /\ g \in [Envs -> Env \cup {NULL}]
           /\ \A x \in Envs : /\ g[x] = NULL <=> h[x] = NULL
                              /\ x # v => g[x] = h[x]
           /\ g[v].root = h[v].root /\ g[v].nref = h[v].nref
           /\ g[v].val = [h[v].val EXCEPT ![y] = d]
<1> DEFINE r == [h[v] EXCEPT !.val[y] = d]
<1>1. h[v] \in Env
    OBVIOUS
<1>2. /\ r \in Env /\ r.root = h[v].root /\ r.nref = h[v].nref
      /\ r.val = [h[v].val EXCEPT ![y] = d]
    BY <1>1 DEF Env
<1>3. g = [h EXCEPT ![v] = r]
    BY DEF BindingStored
<1> HIDE DEF r
<1>4. r # NULL
    BY <1>2
<1> QED  BY <1>2, <1>3, <1>4

\* assoc!, vec-set! and the like: the new value is counted and the old one is due.
LEMMA SetSlotStep ==
    ASSUME HeapInv, Quiet, NEW b \in Cells, NEW s \in Slots, NEW d \in Cells \cup {NULL}, SetSlot(b, s, d)
    PROVE  HeapInv'
<1> SUFFICES ASSUME NEW old, old = cell[b].edge[s]  PROVE HeapInv'
    OBVIOUS
<1>1. /\ cell \in [Cells -> Cell \cup {NULL}] /\ held \in [Cells -> Nat]
      /\ b \in Live /\ d \in Live \cup {NULL} /\ old \in Live \cup {NULL}
      /\ d # old /\ Quiet /\ work' = <<old>> /\ UNCHANGED <<env, held, frames>>
      /\ cell' = [Ref(cell, d) EXCEPT ![b].edge[s] = d]
      /\ NULL \notin Live
    BY DEF HeapInv, HeapTypeOK, HeapCells, SetSlot, Held, Live
<1> DEFINE h == Ref(cell, d)
<1>2. /\ h \in [Cells -> Cell \cup {NULL}]
      /\ \A x \in Cells : h[x] = NULL <=> cell[x] = NULL
      /\ \A x \in Live : /\ h[x].kind = cell[x].kind /\ h[x].edge = cell[x].edge
                         /\ h[x].env = cell[x].env /\ h[x].to = cell[x].to
                         /\ h[x].watcher = cell[x].watcher
                         /\ h[x].nref = cell[x].nref + (IF x = d THEN 1 ELSE 0)
    BY <1>1, RefCell DEF Live
<1>3. cell' = EdgeStored(h, b, s, d)
    BY <1>1 DEF EdgeStored
<1> HIDE DEF h
<1>4. h[b] # NULL /\ b \in Cells
    BY <1>1, <1>2 DEF Live
<1>5. /\ cell' \in [Cells -> Cell \cup {NULL}]
      /\ \A x \in Cells : (cell'[x] = NULL <=> h[x] = NULL) /\ (x # b => cell'[x] = h[x])
      /\ cell'[b].kind = h[b].kind /\ cell'[b].env = h[b].env /\ cell'[b].to = h[b].to
      /\ cell'[b].watcher = h[b].watcher /\ cell'[b].nref = h[b].nref
      /\ cell'[b].edge = [h[b].edge EXCEPT ![s] = d]
    BY <1>2, <1>3, <1>4, EdgeSet
<1>6. Live' = Live /\ LiveEnvs' = LiveEnvs
    BY <1>1, <1>2, <1>5 DEF Live, LiveEnvs
<1>7. cell[b].edge \in [Slots -> Cells \cup {NULL}]
    BY <1>1 DEF Cell, Live
<1>8. \A x \in Live :
          /\ cell'[x].kind = cell[x].kind /\ cell'[x].env = cell[x].env
          /\ cell'[x].to = cell[x].to /\ cell'[x].watcher = cell[x].watcher
          /\ cell'[x].nref = cell[x].nref + (IF x = d THEN 1 ELSE 0)
          /\ \A i \in Slots : cell'[x].edge[i] = IF x = b /\ i = s THEN d ELSE cell[x].edge[i]
    <2> TAKE x \in Live
    <2>1. x \in Cells
        BY DEF Live
    <2>2. CASE x = b
        BY <1>1, <1>2, <1>5, <1>7, <2>1, <2>2
    <2>3. CASE x # b
        BY <1>1, <1>2, <1>5, <2>1, <2>3
    <2> QED  BY <2>2, <2>3
<1>9. HeapTypeOK'
    BY <1>1, <1>5 DEF HeapInv, HeapTypeOK, Live
<1>10. \A x : Cardinality(Due(x)') = (IF x = old THEN 1 ELSE 0) /\ Cardinality(Due(x)) = 0
    <2>1. \A x : Due(x)' = Places(<<old>>, x)
        BY <1>1 DEF Due, Places
    <2> QED  BY <1>1, <2>1, PlacesOne, NoneCut, FS_EmptySet
<1>11. OwnersCounted'
    <2>1. \A x : /\ Bindings(x)' = Bindings(x) /\ Watched(x)' = Watched(x)
                 /\ Captures(x)' = Captures(x) /\ Children(x)' = Children(x)
                 /\ Calls(x)' = Calls(x)
        BY <1>1, <1>6, <1>8 DEF Bindings, Watched, Captures, Children, Calls
    <2>2. ASSUME NEW x \in Live
          PROVE  cell'[x].nref = held[x] + Cardinality(Edges(x)') + Cardinality(Bindings(x))
                                 + Cardinality(Watched(x)) + Cardinality(Due(x)')
        <3>1. held[x] \in Nat /\ x \in Cells /\ x # NULL
            BY <1>1, <2>2 DEF Live
        <3>2. /\ Cardinality(Edges(x)) \in Nat /\ Cardinality(Bindings(x)) \in Nat
              /\ Cardinality(Watched(x)) \in Nat /\ IsFiniteSet(Edges(x))
            BY OwnersFinite DEF HeapInv
        <3>3. cell[x].nref = held[x] + Cardinality(Edges(x)) + Cardinality(Bindings(x))
                             + Cardinality(Watched(x)) + Cardinality(Due(x))
            BY <2>2 DEF HeapInv, OwnersCounted
        <3>4. CASE x = d
            <4>1. Edges(x)' = Edges(x) \cup {<<b, s>>} /\ <<b, s>> \notin Edges(x)
                BY <1>1, <1>6, <1>8, <3>1, <3>4 DEF Edges
            <4>2. Cardinality(Edges(x)') = Cardinality(Edges(x)) + 1
                BY <3>2, <4>1, CountAdd
            <4> QED  BY <1>1, <1>8, <1>10, <2>2, <3>1, <3>2, <3>3, <3>4, <4>2
        <3>5. CASE x = old
            <4>1. Edges(x)' = Edges(x) \ {<<b, s>>} /\ <<b, s>> \in Edges(x)
                BY <1>1, <1>6, <1>8, <3>1, <3>5 DEF Edges
            <4>2. Cardinality(Edges(x)) = Cardinality(Edges(x)') + 1
                BY <3>2, <4>1, CountRemove
            <4>3. Cardinality(Edges(x)') \in Nat
                BY <3>2, <4>1, FS_RemoveElement, FS_CardinalityType
            <4> QED  BY <1>1, <1>8, <1>10, <2>2, <3>1, <3>2, <3>3, <3>5, <4>2, <4>3, SMTT(40)
        <3>6. CASE x # d /\ x # old
            <4>1. Edges(x)' = Edges(x)
                BY <1>1, <1>6, <1>8, <3>1, <3>6 DEF Edges
            <4> QED  BY <1>8, <1>10, <2>2, <3>1, <3>2, <3>3, <3>6, <4>1
        <3> QED  BY <3>4, <3>5, <3>6
    <2>3. \A v \in LiveEnvs : v # old
        BY <1>1 DEF LiveEnvs, Live
    <2>4. ASSUME NEW v \in LiveEnvs
          PROVE  env[v].nref = Cardinality(Captures(v)) + Cardinality(Children(v))
                               + Cardinality(Calls(v)) + Cardinality(Due(v)')
        BY <1>10, <2>3, <2>4 DEF HeapInv, OwnersCounted
    <2> QED  BY <1>1, <1>6, <2>1, <2>2, <2>4 DEF OwnersCounted
<1>12. HeapInUse'
    <2>1. \A i \in DOMAIN work' : work'[i] = old
        BY <1>1
    <2> QED  BY <1>1, <1>6, <2>1 DEF HeapInv, HeapInUse
<1>13. HeapCells' /\ HeapEnvs' /\ Grounded'
    BY <1>1, <1>6, <1>8 DEF HeapInv, HeapCells, HeapEnvs, Grounded
<1>14. HeapCut'
    BY <1>1, <1>6, <1>8, NoneCut DEF HeapCut
<1> QED  BY <1>9, <1>11, <1>12, <1>13, <1>14 DEF HeapInv

\* A variable takes a value; the old one, if there is one, is due.
LEMMA BindKeeps ==
    ASSUME HeapInv, Quiet, NEW v \in LiveEnvs, NEW y \in Vars, NEW c \in Live, c # env[v].val[y],
           cell' = Ref(cell, c),
           env' = BindingStored(env, v, y, c),
           work' = IF env[v].val[y] = NULL THEN <<>> ELSE <<env[v].val[y]>>,
           UNCHANGED <<held, frames>>
    PROVE  HeapInv'
<1> SUFFICES ASSUME NEW old, old = env[v].val[y]  PROVE HeapInv'
    OBVIOUS
<1>1. /\ cell \in [Cells -> Cell \cup {NULL}] /\ env \in [Envs -> Env \cup {NULL}]
      /\ held \in [Cells -> Nat] /\ v \in Envs /\ c \in Cells /\ c # NULL
      /\ env[v] # NULL /\ cell[c] # NULL /\ old \in Live \cup {NULL} /\ c # old
      /\ NULL \notin Live /\ NULL \notin LiveEnvs /\ Live \cap LiveEnvs = {}
    BY DEF HeapInv, HeapTypeOK, HeapEnvs, Live, LiveEnvs
<1>2. /\ cell' \in [Cells -> Cell \cup {NULL}]
      /\ \A x \in Cells : cell'[x] = NULL <=> cell[x] = NULL
      /\ \A x \in Live : /\ cell'[x].kind = cell[x].kind /\ cell'[x].edge = cell[x].edge
                         /\ cell'[x].env = cell[x].env /\ cell'[x].to = cell[x].to
                         /\ cell'[x].watcher = cell[x].watcher
                         /\ cell'[x].nref = cell[x].nref + (IF x = c THEN 1 ELSE 0)
    BY <1>1, RefCell DEF Live
<1>3. /\ env' \in [Envs -> Env \cup {NULL}]
      /\ \A x \in Envs : (env'[x] = NULL <=> env[x] = NULL) /\ (x # v => env'[x] = env[x])
      /\ env'[v].root = env[v].root /\ env'[v].nref = env[v].nref
      /\ env'[v].val = [env[v].val EXCEPT ![y] = c]
    BY <1>1, BindingSet
<1>4. Live' = Live /\ LiveEnvs' = LiveEnvs
    BY <1>2, <1>3 DEF Live, LiveEnvs
<1>5. env[v].val \in [Vars -> Cells \cup {NULL}]
    BY <1>1 DEF Env
<1>6. \A u \in LiveEnvs :
          /\ env'[u].root = env[u].root /\ env'[u].nref = env[u].nref
          /\ \A i \in Vars : env'[u].val[i] = IF u = v /\ i = y THEN c ELSE env[u].val[i]
    <2> TAKE u \in LiveEnvs
    <2>1. u \in Envs
        BY DEF LiveEnvs
    <2>2. CASE u = v
        BY <1>1, <1>3, <1>5, <2>1, <2>2
    <2>3. CASE u # v
        BY <1>3, <2>1, <2>3
    <2> QED  BY <2>2, <2>3
<1>7. work' \in Seq(Cells \cup Envs \cup {NULL})
    <2>1. old \in Cells \cup Envs \cup {NULL}
        BY <1>1 DEF Live
    <2>2. <<>> \in Seq(Cells \cup Envs \cup {NULL}) /\ <<old>> \in Seq(Cells \cup Envs \cup {NULL})
        BY <2>1
    <2> QED  BY <2>2
<1>8. HeapTypeOK'
    BY <1>1, <1>2, <1>3, <1>7 DEF HeapInv, HeapTypeOK
<1>9. \A x : x # NULL => Cardinality(Due(x)') = (IF x = old THEN 1 ELSE 0) /\ Cardinality(Due(x)) = 0
    <2>1. \A x : Due(x)' = Places(IF old = NULL THEN <<>> ELSE <<old>>, x)
        BY DEF Due, Places
    <2>2. \A x : Cardinality(Due(x)) = 0
        BY NoneCut, FS_EmptySet
    <2>3. CASE old = NULL
        BY <2>1, <2>2, <2>3, PlacesEmpty
    <2>4. CASE old # NULL
        BY <2>1, <2>2, <2>4, PlacesOne
    <2> QED  BY <2>3, <2>4
<1>10. OwnersCounted'
    <2>1. \A x : /\ Edges(x)' = Edges(x) /\ Watched(x)' = Watched(x)
                 /\ Captures(x)' = Captures(x) /\ Children(x)' = Children(x)
                 /\ Calls(x)' = Calls(x)
        BY <1>2, <1>4, <1>6 DEF Edges, Watched, Captures, Children, Calls
    <2>2. ASSUME NEW x \in Live
          PROVE  cell'[x].nref = held[x] + Cardinality(Edges(x)) + Cardinality(Bindings(x)')
                                 + Cardinality(Watched(x)) + Cardinality(Due(x)')
        <3>1. held[x] \in Nat /\ x \in Cells /\ x # NULL
            BY <1>1, <2>2 DEF Live
        <3>2. /\ Cardinality(Edges(x)) \in Nat /\ Cardinality(Bindings(x)) \in Nat
              /\ Cardinality(Watched(x)) \in Nat /\ IsFiniteSet(Bindings(x))
            BY OwnersFinite DEF HeapInv
        <3>3. cell[x].nref = held[x] + Cardinality(Edges(x)) + Cardinality(Bindings(x))
                             + Cardinality(Watched(x)) + Cardinality(Due(x))
            BY <2>2 DEF HeapInv, OwnersCounted
        <3>4. CASE x = c
            <4>1. Bindings(x)' = Bindings(x) \cup {<<v, y>>} /\ <<v, y>> \notin Bindings(x)
                BY <1>1, <1>4, <1>6, <3>1, <3>4 DEF Bindings
            <4>2. Cardinality(Bindings(x)') = Cardinality(Bindings(x)) + 1
                BY <3>2, <4>1, CountAdd
            <4> QED  BY <1>1, <1>2, <1>9, <2>2, <3>1, <3>2, <3>3, <3>4, <4>2
        <3>5. CASE x = old
            <4>1. Bindings(x)' = Bindings(x) \ {<<v, y>>} /\ <<v, y>> \in Bindings(x)
                BY <1>1, <1>4, <1>6, <3>1, <3>5 DEF Bindings
            <4>2. Cardinality(Bindings(x)) = Cardinality(Bindings(x)') + 1
                BY <3>2, <4>1, CountRemove
            <4>3. Cardinality(Bindings(x)') \in Nat
                BY <3>2, <4>1, FS_RemoveElement, FS_CardinalityType
            <4> QED  BY <1>1, <1>2, <1>9, <2>2, <3>1, <3>2, <3>3, <3>5, <4>2, <4>3
        <3>6. CASE x # c /\ x # old
            <4>1. Bindings(x)' = Bindings(x)
                BY <1>1, <1>4, <1>6, <3>1, <3>6 DEF Bindings
            <4> QED  BY <1>2, <1>9, <2>2, <3>1, <3>2, <3>3, <3>6, <4>1
        <3> QED  BY <3>4, <3>5, <3>6
    <2>3. \A u \in LiveEnvs : u # old /\ u # NULL
        BY <1>1
    <2>4. ASSUME NEW u \in LiveEnvs
          PROVE  env'[u].nref = Cardinality(Captures(u)) + Cardinality(Children(u))
                               + Cardinality(Calls(u)) + Cardinality(Due(u)')
        BY <1>6, <1>9, <2>3, <2>4 DEF HeapInv, OwnersCounted
    <2> QED  BY <1>4, <2>1, <2>2, <2>4 DEF OwnersCounted
<1>11. HeapInUse'
    <2>1. \A i \in DOMAIN work' : work'[i] \in Live
        BY <1>1
    <2> QED  BY <1>4, <2>1 DEF HeapInv, HeapInUse
<1>12. HeapCells' /\ HeapEnvs' /\ Grounded'
    <2>1. HeapCells'
        BY <1>2, <1>4 DEF HeapInv, HeapCells
    <2>2. HeapEnvs'
        BY <1>4, <1>6 DEF HeapInv, HeapEnvs
    <2>3. Grounded'
        BY <1>4, <1>6 DEF HeapInv, Grounded
    <2> QED  BY <2>1, <2>2, <2>3
<1>13. HeapCut'
    BY <1>2, <1>4, NoneCut DEF HeapCut
<1> QED  BY <1>8, <1>10, <1>11, <1>12, <1>13 DEF HeapInv

\* A parameter or a let variable gets its value.
LEMMA BindStep ==
    ASSUME HeapInv, Quiet,
           \E x \in Vars, c \in Cells : Bind(x, c) \/ \E v \in Envs : Assign(v, x, c)
    PROVE  HeapInv'
<1>1. Held \subseteq Live /\ (frames # <<>> => Current \in LiveEnvs)
    <2>1. frames # <<>> => Len(frames) \in DOMAIN frames
        BY LenProperties, EmptySeq DEF HeapInv, HeapTypeOK
    <2> QED  BY <2>1 DEF Held, Current, Last, HeapInv, HeapInUse
<1>2. ASSUME NEW x \in Vars, NEW c \in Cells, Bind(x, c)  PROVE HeapInv'
    <2>1. /\ Quiet /\ Current \in LiveEnvs /\ c \in Live /\ env[Current].val[x] = NULL /\ c # NULL
          /\ cell' = Ref(cell, c) /\ env' = BindingStored(env, Current, x, c)
          /\ work' = <<>> /\ UNCHANGED <<held, frames>>
        BY <1>1, <1>2 DEF Bind, BindingStored, Quiet
    <2> QED  BY <2>1, BindKeeps
<1>3. ASSUME NEW x \in Vars, NEW c \in Cells, NEW v \in Envs, Assign(v, x, c)  PROVE HeapInv'
    <2>1. /\ Quiet /\ v \in LiveEnvs /\ c \in Live /\ env[v].val[x] # NULL /\ c # env[v].val[x]
          /\ cell' = Ref(cell, c) /\ env' = BindingStored(env, v, x, c)
          /\ work' = <<env[v].val[x]>> /\ UNCHANGED <<held, frames>>
        BY <1>1, <1>3 DEF Assign, BindingStored, Scope, Closure
    <2> QED  BY <2>1, BindKeeps
<1> QED  BY <1>2, <1>3

\* The registry takes a watcher.
LEMMA WatchStep ==
    ASSUME HeapInv, Quiet, NEW b \in Cells, NEW w \in Cells, Watch(b, w)
    PROVE  HeapInv'
<1>1. /\ cell \in [Cells -> Cell \cup {NULL}] /\ held \in [Cells -> Nat]
      /\ b \in Live /\ w \in Live /\ cell[b] # NULL /\ cell[w] # NULL /\ w # NULL
      /\ cell[b].watcher = NULL /\ Quiet
      /\ cell' = [Ref(cell, w) EXCEPT ![b].watcher = w]
      /\ UNCHANGED <<env, held, frames, work>>
    BY DEF HeapInv, HeapTypeOK, Watch, Held, Live
<1> DEFINE h == Ref(cell, w)
<1>2. /\ h \in [Cells -> Cell \cup {NULL}]
      /\ \A x \in Cells : h[x] = NULL <=> cell[x] = NULL
      /\ \A x \in Live : /\ h[x].kind = cell[x].kind /\ h[x].edge = cell[x].edge
                         /\ h[x].env = cell[x].env /\ h[x].to = cell[x].to
                         /\ h[x].watcher = cell[x].watcher
                         /\ h[x].nref = cell[x].nref + (IF x = w THEN 1 ELSE 0)
    BY <1>1, RefCell DEF Live
<1> DEFINE r == [h[b] EXCEPT !.watcher = w]
<1>3. cell' = [h EXCEPT ![b] = r]
    BY <1>1
<1> HIDE DEF h
<1>4. h[b] \in Cell
    BY <1>1, <1>2
<1>5. /\ r \in Cell /\ r.kind = h[b].kind /\ r.env = h[b].env /\ r.to = h[b].to
      /\ r.edge = h[b].edge /\ r.nref = h[b].nref /\ r.watcher = w
    BY <1>4 DEF Cell
<1> HIDE DEF r
<1>6. r # NULL
    BY <1>5
<1>7. /\ cell' \in [Cells -> Cell \cup {NULL}]
      /\ \A x \in Cells : cell'[x] = NULL <=> cell[x] = NULL
      /\ cell'[b] = r /\ \A x \in Cells : x # b => cell'[x] = h[x]
    <2>1. /\ cell' \in [Cells -> Cell \cup {NULL}]
          /\ cell'[b] = r /\ \A x \in Cells : x # b => cell'[x] = h[x]
        BY <1>2, <1>3, <1>5
    <2> QED  BY <1>1, <1>2, <1>6, <2>1
<1>8. \A x \in Live :
          /\ cell'[x].kind = cell[x].kind /\ cell'[x].env = cell[x].env
          /\ cell'[x].to = cell[x].to /\ cell'[x].edge = cell[x].edge
          /\ cell'[x].watcher = IF x = b THEN w ELSE cell[x].watcher
          /\ cell'[x].nref = cell[x].nref + (IF x = w THEN 1 ELSE 0)
    <2> TAKE x \in Live
    <2>1. x \in Cells
        BY DEF Live
    <2>2. CASE x = b
        BY <1>2, <1>5, <1>7, <2>2
    <2>3. CASE x # b
        BY <1>2, <1>7, <2>1, <2>3
    <2> QED  BY <2>2, <2>3
<1>9. Live' = Live /\ LiveEnvs' = LiveEnvs
    BY <1>1, <1>7 DEF Live, LiveEnvs
<1>10. HeapTypeOK'
    BY <1>1, <1>7 DEF HeapInv, HeapTypeOK
<1>11. OwnersCounted'
    <2>1. \A x : /\ Edges(x)' = Edges(x) /\ Bindings(x)' = Bindings(x)
                 /\ Captures(x)' = Captures(x) /\ Children(x)' = Children(x)
                 /\ Calls(x)' = Calls(x) /\ Due(x)' = Due(x)
        BY <1>1, <1>8, <1>9 DEF Edges, Bindings, Captures, Children, Calls, Due
    <2>2. ASSUME NEW x \in Live
          PROVE  cell'[x].nref = held[x] + Cardinality(Edges(x)) + Cardinality(Bindings(x))
                                 + Cardinality(Watched(x)') + Cardinality(Due(x))
        <3>1. held[x] \in Nat /\ x \in Cells /\ x # NULL
            BY <1>1, <2>2 DEF Live
        <3>2. /\ Cardinality(Edges(x)) \in Nat /\ Cardinality(Bindings(x)) \in Nat
              /\ Cardinality(Watched(x)) \in Nat /\ Cardinality(Due(x)) \in Nat /\ IsFiniteSet(Watched(x))
            BY OwnersFinite DEF HeapInv
        <3>3. cell[x].nref = held[x] + Cardinality(Edges(x)) + Cardinality(Bindings(x))
                             + Cardinality(Watched(x)) + Cardinality(Due(x))
            BY <2>2 DEF HeapInv, OwnersCounted
        <3>4. CASE x = w
            <4>1. Watched(x)' = Watched(x) \cup {b} /\ b \notin Watched(x)
                BY <1>1, <1>8, <1>9, <3>1, <3>4 DEF Watched
            <4>2. Cardinality(Watched(x)') = Cardinality(Watched(x)) + 1
                BY <3>2, <4>1, CountAdd
            <4> QED  BY <1>8, <2>2, <3>1, <3>2, <3>3, <3>4, <4>2
        <3>5. CASE x # w
            <4>1. Watched(x)' = Watched(x)
                BY <1>1, <1>8, <1>9, <3>1, <3>5 DEF Watched
            <4> QED  BY <1>8, <2>2, <3>1, <3>2, <3>3, <3>5, <4>1
        <3> QED  BY <3>4, <3>5
    <2> QED  BY <1>1, <1>9, <2>1, <2>2 DEF HeapInv, OwnersCounted
<1>12. HeapInUse' /\ HeapEnvs' /\ Grounded'
    BY <1>1, <1>9 DEF HeapInv, HeapInUse, HeapEnvs, Grounded
<1>13. HeapCells'
    BY <1>1, <1>8, <1>9 DEF HeapInv, HeapCells
<1>14. HeapCut'
    BY <1>1, <1>8, <1>9, NoneCut DEF HeapCut
<1> QED  BY <1>10, <1>11, <1>12, <1>13, <1>14 DEF HeapInv

\* A call or a let opens an environment.
LEMMA EnterStep ==
    ASSUME HeapInv, Quiet, NEW v \in Envs, NEW root \in Envs \cup {NULL}, Enter(v, root)
    PROVE  HeapInv'
<1>1. /\ env \in [Envs -> Env \cup {NULL}] /\ env[v] = NULL /\ Quiet
      /\ held \in [Cells -> Nat] /\ frames \in Seq(Envs)
      /\ frames' = Append(frames, v) /\ UNCHANGED <<cell, held, work>>
      /\ env' = [Ref(env, root) EXCEPT ![v] = [nref |-> 1, root |-> root,
                                              val |-> [x \in Vars |-> NULL]]]
    BY DEF HeapInv, HeapTypeOK, Enter
<1>2. root \in LiveEnvs \cup {NULL} /\ root # v /\ v \notin LiveEnvs
    <2>1. frames # <<>> => Len(frames) \in DOMAIN frames
        BY <1>1, LenProperties, EmptySeq
    <2>2. CASE frames # <<>> /\ root = Current
        BY <1>1, <2>1, <2>2 DEF Current, Last, HeapInv, HeapInUse, LiveEnvs
    <2>3. CASE \E f \in Held \cap Of({"lambda"}) : root = cell[f].env
        BY <1>1, <2>3 DEF Held, HeapInv, HeapCells, LiveEnvs
    <2> QED  BY <1>1, <2>2, <2>3 DEF Enter, LiveEnvs
<1> DEFINE h == Ref(env, root)
           new == [nref |-> 1, root |-> root, val |-> [x \in Vars |-> NULL]]
<1>3. /\ h \in [Envs -> Env \cup {NULL}]
      /\ \A u \in Envs : h[u] = NULL <=> env[u] = NULL
      /\ \A u \in LiveEnvs : /\ h[u].root = env[u].root /\ h[u].val = env[u].val
                             /\ h[u].nref = env[u].nref + (IF u = root THEN 1 ELSE 0)
    BY <1>1, <1>2, RefEnv DEF LiveEnvs
<1>4. /\ new \in Env /\ new # NULL /\ new.root = root /\ new.nref = 1
      /\ \A x \in Vars : new.val[x] = NULL
    BY DEF Env
<1>5. env' = [h EXCEPT ![v] = new]
    BY <1>1
<1> HIDE DEF h, new
<1>6. env' \in [Envs -> Env \cup {NULL}] /\ LiveEnvs' = LiveEnvs \cup {v} /\ Live' = Live
    <2>1. /\ env' \in [Envs -> Env \cup {NULL}]
          /\ env'[v] = new /\ \A u \in Envs : u # v => env'[u] = h[u]
        BY <1>3, <1>4, <1>5
    <2>2. \A u \in Envs : env'[u] # NULL <=> env[u] # NULL \/ u = v
        BY <1>3, <1>4, <2>1
    <2> QED  BY <1>1, <2>1, <2>2 DEF LiveEnvs, Live
<1>7. /\ \A u \in LiveEnvs : /\ env'[u].root = env[u].root /\ env'[u].val = env[u].val
                             /\ env'[u].nref = env[u].nref + (IF u = root THEN 1 ELSE 0)
      /\ env'[v] = new
    BY <1>1, <1>2, <1>3, <1>5 DEF LiveEnvs
<1>8. /\ frames' \in Seq(Envs) /\ frames' = frames \o <<v>>
      /\ \A i \in DOMAIN frames' : frames'[i] = v \/ \E j \in DOMAIN frames : frames'[i] = frames[j]
    <2>1. frames' \in Seq(Envs) /\ frames' = frames \o <<v>>
        BY <1>1, AppendProperties, AppendIsConcat
    <2> QED  BY <1>1, <2>1, AppendProperties, LenProperties
<1>9. HeapTypeOK'
    BY <1>1, <1>6, <1>8 DEF HeapInv, HeapTypeOK
<1>10. OwnersCounted'
    <2>1. \A x : Edges(x)' = Edges(x) /\ Watched(x)' = Watched(x) /\ Captures(x)' = Captures(x)
                 /\ Due(x)' = Due(x)
        BY <1>1, <1>6 DEF Edges, Watched, Captures, Due
    <2>2. \A x \in Live : Bindings(x)' = Bindings(x)
        <3>1. \A x \in Live : x # NULL
            BY DEF Live
        <3> QED  BY <1>4, <1>6, <1>7, <3>1 DEF Bindings
    <2>3. ASSUME NEW u \in LiveEnvs'
          PROVE  env'[u].nref = Cardinality(Captures(u)) + Cardinality(Children(u)')
                                + Cardinality(Calls(u)') + Cardinality(Due(u))
        <3>1. /\ Cardinality(Captures(u)) \in Nat /\ Cardinality(Children(u)) \in Nat
              /\ Cardinality(Calls(u)) \in Nat /\ Cardinality(Due(u)) \in Nat /\ IsFiniteSet(Children(u))
            BY OwnersFinite DEF HeapInv
        <3>2. u # NULL
            BY <1>6, <2>3 DEF LiveEnvs
        <3>3. Children(u)' = IF u = root THEN Children(u) \cup {v} ELSE Children(u)
            BY <1>4, <1>6, <1>7, <3>2 DEF Children
        <3>4. v \notin Children(u)
            BY <1>2 DEF Children
        <3>5. Cardinality(Children(u)') = Cardinality(Children(u)) + (IF u = root THEN 1 ELSE 0)
            BY <3>1, <3>3, <3>4, CountAdd
        <3>6. Cardinality(Calls(u)') = Cardinality(Calls(u)) + (IF u = v THEN 1 ELSE 0)
            <4>1. Calls(u)' = Places(frames \o <<v>>, u) /\ Calls(u) = Places(frames, u)
                BY <1>8 DEF Calls, Places
            <4> DEFINE one == <<v>>
            <4>2. one \in Seq(Envs) /\ frames \in Seq(Envs)
                BY <1>1
            <4>3. Cardinality(Places(one, u)) = IF u = v THEN 1 ELSE 0
                BY PlacesOne
            <4>4. Calls(u)' = Places(frames \o one, u)
                BY <4>1
            <4> HIDE DEF one
            <4>5. Cardinality(Places(frames \o one, u))
                  = Cardinality(Places(frames, u)) + Cardinality(Places(one, u))
                BY <4>2, PlacesConcat
            <4> QED  BY <4>1, <4>3, <4>4, <4>5
        <3>7. CASE u = v
            <4>1. Captures(u) = {} /\ Children(u) = {} /\ Calls(u) = {} /\ Due(u) = {}
                BY <1>1, <3>7, UnownedEnv
            <4> QED  BY <1>2, <1>4, <1>7, <3>5, <3>6, <3>7, <4>1, FS_EmptySet
        <3>8. CASE u # v
            <4>1. env[u].nref = Cardinality(Captures(u)) + Cardinality(Children(u))
                                + Cardinality(Calls(u)) + Cardinality(Due(u))
                BY <1>6, <2>3, <3>8 DEF HeapInv, OwnersCounted
            <4> QED  BY <1>6, <1>7, <2>3, <3>1, <3>5, <3>6, <3>8, <4>1
        <3> QED  BY <3>7, <3>8
    <2> QED  BY <1>1, <1>6, <2>1, <2>2, <2>3 DEF HeapInv, OwnersCounted
<1>11. HeapInUse'
    BY <1>1, <1>6, <1>8 DEF HeapInv, HeapInUse
<1>12. HeapCells'
    BY <1>1, <1>6 DEF HeapInv, HeapCells
<1>13. HeapEnvs'
    BY <1>2, <1>4, <1>6, <1>7 DEF HeapInv, HeapEnvs
<1>14. Grounded'
    <2> SUFFICES ASSUME NEW B \in SUBSET LiveEnvs', B # {}
                 PROVE  \E u \in B : \A w \in B : env'[w].root # u
        BY DEF Grounded
    <2>1. CASE v \in B
        <3>1. \A w \in LiveEnvs : env[w].root # v
            BY <1>2 DEF HeapInv, HeapEnvs, LiveEnvs
        <3>2. \A w \in B : env'[w].root # v
            BY <1>2, <1>4, <1>6, <1>7, <3>1
        <3> QED  BY <2>1, <3>2
    <2>2. CASE v \notin B
        BY <1>6, <1>7, <2>2 DEF HeapInv, Grounded
    <2> QED  BY <2>1, <2>2
<1>15. HeapCut'
    BY <1>1, <1>6 DEF HeapInv, HeapCut
<1> QED  BY <1>9, <1>10, <1>11, <1>12, <1>13, <1>14, <1>15 DEF HeapInv

\* The innermost call returns: its environment is due.
LEMMA LeaveStep ==
    ASSUME HeapInv, Quiet, Leave
    PROVE  HeapInv'
<1> DEFINE n == Len(frames)
<1>1. /\ frames \in Seq(Envs) /\ frames # <<>> /\ held \in [Cells -> Nat] /\ Quiet
      /\ frames' = Front(frames) /\ work' = <<Current>> /\ UNCHANGED <<cell, env, held>>
    BY DEF HeapInv, HeapTypeOK, Leave
<1>2. n \in Nat \ {0} /\ DOMAIN frames = 1 .. n /\ Current = frames[n] /\ Current \in LiveEnvs
    <2>1. n \in Nat /\ DOMAIN frames = 1 .. n /\ n # 0
        BY <1>1, LenProperties, EmptySeq
    <2> QED  BY <2>1 DEF Current, Last, HeapInv, HeapInUse
<1>3. /\ frames' \in Seq(Envs) /\ DOMAIN frames' = 1 .. n - 1
      /\ \A i \in 1 .. n - 1 : frames'[i] = frames[i]
    <2>1. frames' = SubSeq(frames, 1, n - 1)
        BY <1>1 DEF Front
    <2> QED  BY <1>1, <1>2, <2>1, SubSeqProperties, LenProperties
<1>4. Current \in Envs /\ Current \notin Live /\ Current # NULL
    BY <1>2 DEF Live, LiveEnvs
<1> HIDE DEF n
<1>5. HeapTypeOK' /\ Live' = Live /\ LiveEnvs' = LiveEnvs
    <2>1. work' \in Seq(Cells \cup Envs \cup {NULL})
        BY <1>1, <1>4
    <2> QED  BY <1>1, <1>3, <2>1 DEF HeapInv, HeapTypeOK, Live, LiveEnvs
<1>6. \A x : Cardinality(Due(x)') = (IF x = Current THEN 1 ELSE 0) /\ Cardinality(Due(x)) = 0
    <2>1. \A x : Due(x)' = Places(<<Current>>, x)
        BY <1>1 DEF Due, Places
    <2> QED  BY <1>1, <2>1, PlacesOne, NoneCut, FS_EmptySet
<1>7. OwnersCounted'
    <2>1. \A x : Edges(x)' = Edges(x) /\ Bindings(x)' = Bindings(x) /\ Watched(x)' = Watched(x)
                 /\ Captures(x)' = Captures(x) /\ Children(x)' = Children(x)
        BY <1>1, <1>5 DEF Edges, Bindings, Watched, Captures, Children
    <2>2. ASSUME NEW x \in Live
          PROVE  cell[x].nref = held[x] + Cardinality(Edges(x)) + Cardinality(Bindings(x))
                                + Cardinality(Watched(x)) + Cardinality(Due(x)')
        BY <1>4, <1>6, <2>2 DEF HeapInv, OwnersCounted
    <2>3. ASSUME NEW v \in LiveEnvs
          PROVE  env[v].nref = Cardinality(Captures(v)) + Cardinality(Children(v))
                               + Cardinality(Calls(v)') + Cardinality(Due(v)')
        <3>1. /\ Cardinality(Captures(v)) \in Nat /\ Cardinality(Children(v)) \in Nat
              /\ Cardinality(Calls(v)) \in Nat /\ IsFiniteSet(Calls(v))
            BY OwnersFinite DEF HeapInv
        <3>2. CASE v = Current
            <4>1. Calls(v)' = Calls(v) \ {n} /\ n \in Calls(v)
                BY <1>2, <1>3, <3>2 DEF Calls
            <4>2. Cardinality(Calls(v)) = Cardinality(Calls(v)') + 1
                BY <3>1, <4>1, CountRemove
            <4>3. Cardinality(Calls(v)') \in Nat
                BY <3>1, <4>1, FS_RemoveElement, FS_CardinalityType
            <4> QED  BY <1>6, <2>3, <3>1, <3>2, <4>2, <4>3 DEF HeapInv, OwnersCounted
        <3>3. CASE v # Current
            <4>1. Calls(v)' = Calls(v)
                BY <1>2, <1>3, <3>3 DEF Calls
            <4> QED  BY <1>6, <2>3, <3>3, <4>1 DEF HeapInv, OwnersCounted
        <3> QED  BY <3>2, <3>3
    <2> QED  BY <1>1, <1>5, <2>1, <2>2, <2>3 DEF OwnersCounted
<1>8. HeapInUse'
    <2>1. \A i \in DOMAIN work' : work'[i] = Current
        BY <1>1
    <2> QED  BY <1>1, <1>2, <1>3, <1>5, <2>1 DEF HeapInv, HeapInUse
<1>9. HeapCells' /\ HeapEnvs' /\ Grounded'
    BY <1>1, <1>5 DEF HeapInv, HeapCells, HeapEnvs, Grounded
<1>10. HeapCut'
    BY <1>1, <1>5, NoneCut DEF HeapCut
<1> QED  BY <1>5, <1>7, <1>8, <1>9, <1>10 DEF HeapInv

\* What a program does keeps the counts.
LEMMA ProgramKeeps ==
    ASSUME HeapInv, Program
    PROVE  HeapInv'
<1>0. Quiet
    BY DEF Program
<1>1. ASSUME NEW c \in Cells, MakeBox(c) \/ Drop(c) \/ WeakGet(c)  PROVE HeapInv'
    BY <1>0, <1>1, MakeStep, DropStep, GetStep
<1>2. ASSUME NEW c \in Cells, NEW d \in Cells, MakeOpaque(c, d) \/ MakeWeak(c, d) \/ Watch(c, d)
      PROVE HeapInv'
    BY <1>0, <1>2, MakeStep, WatchStep
<1>3. ASSUME NEW c \in Cells, NEW d \in Cells \cup {NULL}, MakeFn(c, d)  PROVE HeapInv'
    BY <1>0, <1>3, MakeStep
<1>4. ASSUME NEW b \in Cells, NEW s \in Slots,
             GetSlot(b, s) \/ \E d \in Cells \cup {NULL} : SetSlot(b, s, d)
      PROVE HeapInv'
    BY <1>0, <1>4, GetStep, SetSlotStep
<1>5. ASSUME NEW v \in Envs, NEW root \in Envs \cup {NULL}, Enter(v, root)  PROVE HeapInv'
    BY <1>0, <1>5, EnterStep
<1>6. ASSUME NEW x \in Vars, NEW c \in Cells, Bind(x, c) \/ \E v \in Envs : Assign(v, x, c)
      PROVE HeapInv'
    BY <1>0, <1>6, BindStep
<1> QED  BY <1>0, <1>1, <1>2, <1>3, <1>4, <1>5, <1>6, LeaveStep DEF Program

-----------------------------------------------------------------------------
(* A cascade, between two collections or in the middle of a sweep. *)

\* What a sequence holds.
Has(q, x) == \E i \in DOMAIN q : q[i] = x

\* What is due of two work lists.
LEMMA ConcatHolds ==
    ASSUME NEW U, NEW p \in Seq(U), NEW q \in Seq(U)
    PROVE  /\ p \o q \in Seq(U)
           /\ \A x : Has(p \o q, x) <=> Has(p, x) \/ Has(q, x)
<1> SUFFICES ASSUME NEW r, r = p \o q
             PROVE  /\ r \in Seq(U)
                    /\ \A x : Has(r, x) <=> Has(p, x) \/ Has(q, x)
    OBVIOUS
<1> DEFINE n == Len(p)
           m == Len(q)
<1>1. n \in Nat /\ m \in Nat /\ DOMAIN p = 1 .. n /\ DOMAIN q = 1 .. m
    BY LenProperties
<1>2. /\ r \in Seq(U) /\ Len(r) = n + m
      /\ \A i \in 1 .. n + m : r[i] = IF i <= n THEN p[i] ELSE q[i - n]
    BY ConcatProperties
<1>3. DOMAIN r = 1 .. n + m
    BY <1>2, LenProperties
<1> HIDE DEF n, m
<1>4. ASSUME NEW i \in DOMAIN r
      PROVE  (\E j \in DOMAIN p : r[i] = p[j]) \/ (\E j \in DOMAIN q : r[i] = q[j])
    <2>1. CASE i <= n
        BY <1>1, <1>2, <1>3, <2>1
    <2>2. CASE ~ (i <= n)
        <3>1. i - n \in DOMAIN q /\ r[i] = q[i - n]
            BY <1>1, <1>2, <1>3, <2>2
        <3> QED  BY <3>1
    <2> QED  BY <2>1, <2>2
<1>5. ASSUME NEW j \in DOMAIN p  PROVE \E i \in DOMAIN r : r[i] = p[j]
    <2>1. j \in DOMAIN r /\ r[j] = p[j]
        BY <1>1, <1>2, <1>3
    <2> QED  BY <2>1
<1>6. ASSUME NEW j \in DOMAIN q  PROVE \E i \in DOMAIN r : r[i] = q[j]
    <2>1. j + n \in DOMAIN r /\ (j + n) - n = j /\ ~ (j + n <= n)
        BY <1>1, <1>3
    <2>2. r[j + n] = q[j]
        BY <1>1, <1>2, <1>3, <2>1
    <2> QED  BY <2>1, <2>2
<1>7. \A x : Has(r, x) => Has(p, x) \/ Has(q, x)
    BY <1>4 DEF Has
<1>8. \A x : Has(p, x) => Has(r, x)
    BY <1>5 DEF Has
<1>9. \A x : Has(q, x) => Has(r, x)
    BY <1>6 DEF Has
<1> QED  BY <1>2, <1>7, <1>8, <1>9

\* What is due once the first release is done.
LEMMA TailHolds ==
    ASSUME NEW U, NEW q \in Seq(U), q # <<>>
    PROVE  /\ Tail(q) \in Seq(U) /\ Head(q) = q[1] /\ 1 \in DOMAIN q
           /\ \A i \in DOMAIN Tail(q) : \E j \in DOMAIN q : Tail(q)[i] = q[j]
           /\ \A j \in DOMAIN q : q[j] = Head(q) \/ \E i \in DOMAIN Tail(q) : Tail(q)[i] = q[j]
<1> DEFINE n == Len(q)
           t == Tail(q)
<1>1. n \in Nat /\ n # 0 /\ DOMAIN q = 1 .. n
    BY LenProperties, EmptySeq
<1>2. /\ t \in Seq(U) /\ Len(t) = n - 1 /\ \A i \in 1 .. n - 1 : t[i] = q[i + 1]
    BY HeadTailProperties, LenProperties
<1>3. DOMAIN t = 1 .. n - 1
    BY <1>2, LenProperties
<1>4. Head(q) = q[1]
    BY HeadTailProperties, LenProperties
<1> HIDE DEF n, t
<1>5. ASSUME NEW i \in DOMAIN t  PROVE \E j \in DOMAIN q : t[i] = q[j]
    <2>1. i + 1 \in DOMAIN q /\ t[i] = q[i + 1]
        BY <1>1, <1>2, <1>3
    <2> QED  BY <2>1
<1>6. ASSUME NEW j \in DOMAIN q, j # 1  PROVE \E i \in DOMAIN t : t[i] = q[j]
    <2>1. j - 1 \in DOMAIN t /\ (j - 1) + 1 = j
        BY <1>1, <1>3, <1>6
    <2>2. t[j - 1] = q[j]
        BY <1>2, <1>3, <2>1
    <2> QED  BY <2>1, <2>2
<1>7. 1 \in DOMAIN q
    BY <1>1
<1> QED  BY <1>2, <1>4, <1>5, <1>6, <1>7 DEF t

\* The owners that count are finitely many.
LEMMA OwnFinite ==
    ASSUME HeapTypeOK
    PROVE  \A c : /\ OwnEdges(c) \in SUBSET (Cells \X Slots) /\ OwnBindings(c) \in SUBSET (Envs \X Vars)
                  /\ IsFiniteSet(OwnEdges(c)) /\ Cardinality(OwnEdges(c)) \in Nat
                  /\ IsFiniteSet(OwnBindings(c)) /\ Cardinality(OwnBindings(c)) \in Nat
<1>1. \A c : OwnEdges(c) \in SUBSET (Cells \X Slots) /\ OwnBindings(c) \in SUBSET (Envs \X Vars)
    BY OwnersFinite DEF OwnEdges, OwnBindings
<1> QED  BY <1>1, FinitePlaces

\* What a release takes from the work.
LEMMA ReleaseWork ==
    ASSUME GcInv, work # <<>>
    PROVE  /\ work \in Seq(Cells \cup Envs \cup {NULL}) /\ Tail(work) \in Seq(Cells \cup Envs \cup {NULL})
           /\ Head(work) \in Sound \cup SoundEnvs \cup {NULL}
           /\ \A i \in DOMAIN Tail(work) : Tail(work)[i] \in Sound \cup SoundEnvs \cup {NULL}
           /\ \A y : /\ Cardinality(Due(y)) = Cardinality(Places(Tail(work), y))
                                              + (IF y = Head(work) THEN 1 ELSE 0)
                     /\ Cardinality(Places(Tail(work), y)) \in Nat
                     /\ Cardinality(Places(Tail(work), y)) = 0
                        => \A i \in DOMAIN Tail(work) : Tail(work)[i] # y
           /\ \A y : y # Head(work) /\ (\E i \in DOMAIN work : work[i] = y)
                     => \E i \in DOMAIN Tail(work) : Tail(work)[i] = y
<1>1. work \in Seq(Cells \cup Envs \cup {NULL})
    BY DEF GcInv, GcTypeOK, HeapTypeOK
<1>2. /\ Tail(work) \in Seq(Cells \cup Envs \cup {NULL}) /\ Head(work) = work[1] /\ 1 \in DOMAIN work
      /\ \A i \in DOMAIN Tail(work) : \E j \in DOMAIN work : Tail(work)[i] = work[j]
      /\ \A j \in DOMAIN work : work[j] = Head(work) \/ \E i \in DOMAIN Tail(work) : Tail(work)[i] = work[j]
    BY <1>1, TailHolds
<1>3. \A y : /\ Cardinality(Places(Tail(work), y)) \in Nat
             /\ Cardinality(Places(Tail(work), y)) = 0 => \A i \in DOMAIN Tail(work) : Tail(work)[i] # y
    BY <1>2, PlacesCounted
<1>4. \A y : Cardinality(Due(y)) = Cardinality(Places(Tail(work), y)) + (IF y = Head(work) THEN 1 ELSE 0)
    <2>1. \A y : Due(y) = Places(work, y)
        BY DEF Due, Places
    <2> QED  BY <1>1, <2>1, PlacesHead
<1>5. \A i \in DOMAIN work : work[i] \in Sound \cup SoundEnvs \cup {NULL}
    BY DEF GcInv, InUse
<1> QED  BY <1>1, <1>2, <1>3, <1>4, <1>5

\* A release of nothing.
LEMMA ReleaseNull ==
    ASSUME GcInv, work # <<>>, Head(work) = NULL, work' = Tail(work),
           UNCHANGED <<cell, env, held, frames, todo, dead>>
    PROVE  GcInv'
<1>1. /\ \A x \in Cells : x # NULL
      /\ \A v \in Envs : v # NULL
      /\ \A c \in Live : c \in Cells
      /\ \A v \in LiveEnvs : v \in Envs
    BY DEF Live, LiveEnvs
<1>2. Live' = Live /\ LiveEnvs' = LiveEnvs /\ Sound' = Sound /\ SoundEnvs' = SoundEnvs
    BY DEF Live, LiveEnvs, Sound, SoundEnvs
<1>3. GcTypeOK'
    BY ReleaseWork DEF GcInv, GcTypeOK, HeapTypeOK
<1>4. SweepRight'
    BY <1>2 DEF GcInv, SweepRight
<1>5. \A x : x # NULL => Cardinality(Due(x)') = Cardinality(Due(x))
    <2>1. \A x : Due(x)' = Places(Tail(work), x)
        BY DEF Due, Places
    <2> QED  BY <2>1, ReleaseWork
<1>6. \A x : /\ OwnEdges(x)' = OwnEdges(x) /\ OwnBindings(x)' = OwnBindings(x)
             /\ Watched(x)' = Watched(x) /\ Captures(x)' = Captures(x)
             /\ Children(x)' = Children(x) /\ Calls(x)' = Calls(x)
    BY <1>2 DEF OwnEdges, OwnBindings, Edges, Bindings, Watched, Captures, Children, Calls
<1>7. CellsCounted'
    BY <1>1, <1>2, <1>5, <1>6 DEF GcInv, CellsCounted, CellCount, Sound
<1>8. EnvsCounted'
    BY <1>1, <1>2, <1>5, <1>6 DEF GcInv, EnvsCounted, EnvCount, SoundEnvs
<1>9. InUse'
    <2>1. \A i \in DOMAIN work' : work'[i] \in Sound \cup SoundEnvs \cup {NULL}
        BY ReleaseWork
    <2> QED  BY <1>2, <2>1 DEF GcInv, InUse
<1>10. CellsPoint' /\ EnvsPoint' /\ Grounded'
    BY <1>2 DEF GcInv, CellsPoint, EnvsPoint, Grounded
<1>11. CutIsDue'
    <2>1. \A c \in Sound : c # Head(work)
        BY <1>1 DEF Sound
    <2> QED  BY <1>2, <2>1, ReleaseWork DEF GcInv, CutIsDue
<1> QED  BY <1>3, <1>4, <1>7, <1>8, <1>9, <1>10, <1>11 DEF GcInv

\* A count is set.
CountSet(h, x, k) == [h EXCEPT ![x].nref = k]

\* An environment loses an owner.
LEMMA ReleaseEnv ==
    ASSUME GcInv, work # <<>>, NEW v \in Envs, v = Head(work),
           NEW k \in Nat \ {0}, env[v].nref = k + 1,
           env' = CountSet(env, v, k), work' = Tail(work),
           UNCHANGED <<cell, held, frames, todo, dead>>
    PROVE  GcInv'
<1>1. v \in SoundEnvs /\ v # NULL /\ env[v] \in Env
    BY ReleaseWork DEF Sound, SoundEnvs, Live, LiveEnvs, GcInv, GcTypeOK, HeapTypeOK
<1> DEFINE r == [env[v] EXCEPT !.nref = k]
<1>2. r \in Env /\ r.val = env[v].val /\ r.root = env[v].root /\ r.nref = k
    BY <1>1 DEF Env
<1>3. env' = [env EXCEPT ![v] = r]
    BY DEF CountSet
<1> HIDE DEF r
<1>4. /\ env' \in [Envs -> Env \cup {NULL}] /\ LiveEnvs' = LiveEnvs /\ Live' = Live
      /\ env'[v] = r /\ \A u \in Envs : u # v => env'[u] = env[u]
    <2>1. env \in [Envs -> Env \cup {NULL}] /\ env[v] # NULL /\ r # NULL
        BY <1>1, <1>2 DEF GcInv, GcTypeOK, HeapTypeOK
    <2> QED  BY <1>2, <1>3, <2>1 DEF LiveEnvs, Live
<1>5. \A u \in LiveEnvs : env'[u].val = env[u].val /\ env'[u].root = env[u].root
    BY <1>2, <1>4 DEF LiveEnvs
<1>6. Sound' = Sound /\ SoundEnvs' = SoundEnvs
    BY <1>4 DEF Sound, SoundEnvs
<1>7. GcTypeOK'
    BY <1>4, ReleaseWork DEF GcInv, GcTypeOK, HeapTypeOK
<1>8. SweepRight'
    BY <1>4 DEF GcInv, SweepRight
<1>9. \A x : Cardinality(Due(x)) = Cardinality(Due(x)') + (IF x = v THEN 1 ELSE 0)
    <2>1. \A x : Due(x)' = Places(Tail(work), x)
        BY DEF Due, Places
    <2> QED  BY <2>1, ReleaseWork
<1>10. \A x : /\ OwnEdges(x)' = OwnEdges(x) /\ OwnBindings(x)' = OwnBindings(x)
              /\ Watched(x)' = Watched(x) /\ Captures(x)' = Captures(x)
              /\ Children(x)' = Children(x) /\ Calls(x)' = Calls(x)
    BY <1>4, <1>5 DEF OwnEdges, OwnBindings, Edges, Bindings, Watched, Captures, Children, Calls
<1>11. \A x : Cardinality(Due(x)') \in Nat
    <2>1. \A x : Due(x)' = Places(Tail(work), x)
        BY DEF Due, Places
    <2> QED  BY <2>1, ReleaseWork
<1>12. CellsCounted'
    <2>1. \A x \in Sound : x # v
        BY <1>1 DEF Sound, Live
    <2>2. \A x \in Sound : Cardinality(Due(x)) = Cardinality(Due(x)')
        BY <1>9, <1>11, <2>1
    <2> QED  BY <1>6, <1>10, <2>2 DEF GcInv, CellsCounted, CellCount
<1>13. EnvsCounted'
    <2> SUFFICES ASSUME NEW u \in SoundEnvs  PROVE env'[u].nref = EnvCount(u)'
        BY <1>6 DEF EnvsCounted
    <2>1. /\ Cardinality(Captures(u)) \in Nat /\ Cardinality(Children(u)) \in Nat
          /\ Cardinality(Calls(u)) \in Nat
        BY OwnersFinite DEF GcInv, GcTypeOK
    <2>2. EnvCount(u)' = Cardinality(Captures(u)) + Cardinality(Children(u))
                         + Cardinality(Calls(u)) + Cardinality(Due(u)')
        BY <1>10 DEF EnvCount
    <2>3. env[u].nref = Cardinality(Captures(u)) + Cardinality(Children(u))
                        + Cardinality(Calls(u)) + Cardinality(Due(u))
        BY DEF GcInv, EnvsCounted, EnvCount
    <2>4. env[u].nref = env'[u].nref + (IF u = v THEN 1 ELSE 0) /\ env'[u].nref \in Nat
        <3>1. env[u].nref \in Nat
            BY DEF GcInv, GcTypeOK, HeapTypeOK, SoundEnvs, LiveEnvs, Env
        <3> QED  BY <1>2, <1>4, <3>1 DEF SoundEnvs, LiveEnvs
    <2>6. /\ Cardinality(Due(u)) = Cardinality(Due(u)') + (IF u = v THEN 1 ELSE 0)
          /\ Cardinality(Due(u)') \in Nat
        BY <1>9, <1>11
    <2> DEFINE others == Cardinality(Captures(u)) + Cardinality(Children(u)) + Cardinality(Calls(u))
    <2>7. others \in Nat
        BY <2>1
    <2>8. EnvCount(u)' = others + Cardinality(Due(u)')
        BY <2>1, <2>2
    <2>9. env[u].nref = others + Cardinality(Due(u))
        BY <2>1, <2>3
    <2> HIDE DEF others
    <2>10. CASE u = v
        BY <2>4, <2>6, <2>7, <2>8, <2>9, <2>10
    <2>11. CASE u # v
        BY <2>4, <2>6, <2>7, <2>8, <2>9, <2>11
    <2> QED  BY <2>10, <2>11
<1>14. InUse'
    <2>1. \A i \in DOMAIN work' : work'[i] \in Sound \cup SoundEnvs \cup {NULL}
        BY ReleaseWork
    <2> QED  BY <1>6, <2>1 DEF GcInv, InUse
<1>15. CellsPoint'
    BY <1>4, <1>6 DEF GcInv, CellsPoint
<1>16. EnvsPoint'
    BY <1>4, <1>5, <1>6 DEF GcInv, EnvsPoint
<1>17. Grounded'
    BY <1>4, <1>5 DEF GcInv, Grounded
<1>18. CutIsDue'
    <2>1. \A c \in Sound : c # Head(work)
        BY <1>1 DEF Sound, Live
    <2> QED  BY <1>6, <2>1, ReleaseWork DEF GcInv, CutIsDue
<1> QED  BY <1>7, <1>8, <1>12, <1>13, <1>14, <1>15, <1>16, <1>17, <1>18 DEF GcInv

\* A cell loses an owner, and keeps another.
LEMMA ReleaseCell ==
    ASSUME GcInv, work # <<>>, NEW c \in Cells, c = Head(work),
           NEW k \in Nat \ {0}, cell[c].nref = k + 1,
           cell' = CountSet(cell, c, k), work' = Tail(work),
           UNCHANGED <<env, held, frames, todo, dead>>
    PROVE  GcInv'
<1>1. c \in Sound /\ c # NULL /\ cell[c] \in Cell
    BY ReleaseWork DEF Sound, SoundEnvs, Live, LiveEnvs, GcInv, GcTypeOK, HeapTypeOK
<1> DEFINE r == [cell[c] EXCEPT !.nref = k]
<1>2. /\ r \in Cell /\ r.nref = k
      /\ r.kind = cell[c].kind /\ r.edge = cell[c].edge /\ r.env = cell[c].env
      /\ r.to = cell[c].to /\ r.watcher = cell[c].watcher
    BY <1>1 DEF Cell
<1>3. cell' = [cell EXCEPT ![c] = r]
    BY DEF CountSet
<1> HIDE DEF r
<1>4. /\ cell' \in [Cells -> Cell \cup {NULL}] /\ LiveEnvs' = LiveEnvs /\ Live' = Live
      /\ cell'[c] = r /\ \A x \in Cells : x # c => cell'[x] = cell[x]
    <2>1. cell \in [Cells -> Cell \cup {NULL}] /\ cell[c] # NULL /\ r # NULL
        BY <1>1, <1>2 DEF GcInv, GcTypeOK, HeapTypeOK
    <2> QED  BY <1>2, <1>3, <2>1 DEF LiveEnvs, Live
<1>5. \A x \in Live : /\ cell'[x].kind = cell[x].kind /\ cell'[x].edge = cell[x].edge
                      /\ cell'[x].env = cell[x].env /\ cell'[x].to = cell[x].to
                      /\ cell'[x].watcher = cell[x].watcher
    BY <1>2, <1>4 DEF Live
<1>6. Sound' = Sound /\ SoundEnvs' = SoundEnvs
    BY <1>4 DEF Sound, SoundEnvs
<1>7. GcTypeOK'
    BY <1>4, ReleaseWork DEF GcInv, GcTypeOK, HeapTypeOK
<1>8. SweepRight'
    BY <1>4 DEF GcInv, SweepRight
<1>9. \A x : /\ Cardinality(Due(x)) = Cardinality(Due(x)') + (IF x = c THEN 1 ELSE 0)
             /\ Cardinality(Due(x)') \in Nat
    <2>1. \A x : Due(x)' = Places(Tail(work), x)
        BY DEF Due, Places
    <2> QED  BY <2>1, ReleaseWork
<1>10. \A x : /\ OwnEdges(x)' = OwnEdges(x) /\ OwnBindings(x)' = OwnBindings(x)
              /\ Watched(x)' = Watched(x) /\ Captures(x)' = Captures(x)
              /\ Children(x)' = Children(x) /\ Calls(x)' = Calls(x)
    BY <1>4, <1>5 DEF OwnEdges, OwnBindings, Edges, Bindings, Watched, Captures, Children, Calls
<1>11. EnvsCounted'
    <2>1. \A x \in SoundEnvs : x # c
        BY <1>1 DEF SoundEnvs, LiveEnvs
    <2>2. \A x \in SoundEnvs : Cardinality(Due(x)) = Cardinality(Due(x)')
        BY <1>9, <2>1
    <2> QED  BY <1>6, <1>10, <2>2 DEF GcInv, EnvsCounted, EnvCount
<1>12. CellsCounted'
    <2> SUFFICES ASSUME NEW x \in Sound  PROVE cell'[x].nref = CellCount(x)'
        BY <1>6 DEF CellsCounted
    <2>1. Cardinality(OwnEdges(x)) \in Nat /\ Cardinality(OwnBindings(x)) \in Nat
        BY OwnFinite DEF GcInv, GcTypeOK
    <2>2. Cardinality(Watched(x)) \in Nat /\ held[x] \in Nat
        BY OwnersFinite DEF GcInv, GcTypeOK, HeapTypeOK, Sound, Live
    <2>3. CellCount(x)' = held[x] + Cardinality(OwnEdges(x)) + Cardinality(OwnBindings(x))
                         + Cardinality(Watched(x)) + Cardinality(Due(x)')
        BY <1>10 DEF CellCount
    <2>4. cell[x].nref = held[x] + Cardinality(OwnEdges(x)) + Cardinality(OwnBindings(x))
                         + Cardinality(Watched(x)) + Cardinality(Due(x))
        BY DEF GcInv, CellsCounted, CellCount
    <2>5. cell[x].nref = cell'[x].nref + (IF x = c THEN 1 ELSE 0) /\ cell'[x].nref \in Nat
        <3>1. cell[x].nref \in Nat
            BY DEF GcInv, GcTypeOK, HeapTypeOK, Sound, Live, Cell
        <3> QED  BY <1>2, <1>4, <3>1 DEF Sound, Live
    <2>6. /\ Cardinality(Due(x)) = Cardinality(Due(x)') + (IF x = c THEN 1 ELSE 0)
          /\ Cardinality(Due(x)') \in Nat
        BY <1>9
    <2> DEFINE others == held[x] + Cardinality(OwnEdges(x)) + Cardinality(OwnBindings(x)) + Cardinality(Watched(x))
    <2>7. others \in Nat
        BY <2>1, <2>2
    <2>8. CellCount(x)' = others + Cardinality(Due(x)')
        BY <2>1, <2>2, <2>3
    <2>9. cell[x].nref = others + Cardinality(Due(x))
        BY <2>1, <2>2, <2>4
    <2> HIDE DEF others
    <2>10. CASE x = c
        <3>1. cell[x].nref = cell'[x].nref + 1 /\ Cardinality(Due(x)) = Cardinality(Due(x)') + 1
            BY <2>5, <2>6, <2>10
        <3>2. cell'[x].nref + 1 = others + (Cardinality(Due(x)') + 1)
            BY <2>9, <3>1
        <3>3. cell'[x].nref \in Nat /\ Cardinality(Due(x)') \in Nat
            BY <2>5, <2>6
        <3>4. cell'[x].nref = others + Cardinality(Due(x)')
            BY <2>7, <3>2, <3>3, SMTT(40)
        <3> QED  BY <2>8, <3>4
    <2>11. CASE x # c
        BY <2>5, <2>6, <2>7, <2>8, <2>9, <2>11
    <2> QED  BY <2>10, <2>11
<1>13. InUse'
    <2>1. \A i \in DOMAIN work' : work'[i] \in Sound \cup SoundEnvs \cup {NULL}
        BY ReleaseWork
    <2> QED  BY <1>6, <2>1 DEF GcInv, InUse
<1>14. CellsPoint'
    BY <1>4, <1>5, <1>6 DEF GcInv, CellsPoint
<1>15. EnvsPoint' /\ Grounded'
    BY <1>4, <1>6 DEF GcInv, EnvsPoint, Grounded
<1>16. CutIsDue'
    <2> SUFFICES ASSUME NEW x \in Sound, cell'[x].kind = "lambda", cell'[x].env = NULL
                 PROVE  cell'[x].nref = 1 /\ \E i \in DOMAIN work' : work'[i] = x
        BY <1>6 DEF CutIsDue
    <2>1. cell[x].nref = 1 /\ \E i \in DOMAIN work : work[i] = x
        BY <1>5 DEF GcInv, CutIsDue, Sound
    <2>2. x # c
        BY <2>1
    <2> QED  BY <1>4, <2>1, <2>2, ReleaseWork DEF Sound, Live
<1> QED  BY <1>7, <1>8, <1>11, <1>12, <1>13, <1>14, <1>15, <1>16 DEF GcInv

\* What a cell that holds its last reference in the work owned alone.
LEMMA OnlyDue ==
    ASSUME GcInv, work # <<>>, NEW c \in Sound, c = Head(work), cell[c].nref = 1
    PROVE  /\ held[c] = 0 /\ OwnEdges(c) = {} /\ OwnBindings(c) = {} /\ Watched(c) = {}
           /\ \A i \in DOMAIN Tail(work) : Tail(work)[i] # c
<1>1. cell[c].nref = held[c] + Cardinality(OwnEdges(c)) + Cardinality(OwnBindings(c))
                     + Cardinality(Watched(c)) + Cardinality(Due(c))
    BY DEF GcInv, CellsCounted, CellCount
<1>2. /\ Cardinality(Due(c)) = Cardinality(Places(Tail(work), c)) + 1
      /\ Cardinality(Places(Tail(work), c)) \in Nat
    BY ReleaseWork
<1>3. /\ Cardinality(OwnEdges(c)) \in Nat /\ IsFiniteSet(OwnEdges(c))
      /\ Cardinality(OwnBindings(c)) \in Nat /\ IsFiniteSet(OwnBindings(c))
    BY OwnFinite DEF GcInv, GcTypeOK
<1>4. Cardinality(Watched(c)) \in Nat /\ IsFiniteSet(Watched(c)) /\ held[c] \in Nat
    BY OwnersFinite DEF GcInv, GcTypeOK, HeapTypeOK, Sound, Live
<1>5. /\ held[c] = 0 /\ Cardinality(OwnEdges(c)) = 0 /\ Cardinality(OwnBindings(c)) = 0
      /\ Cardinality(Watched(c)) = 0 /\ Cardinality(Places(Tail(work), c)) = 0
    BY <1>1, <1>2, <1>3, <1>4
<1>6. OwnEdges(c) = {} /\ OwnBindings(c) = {} /\ Watched(c) = {}
    BY <1>3, <1>4, <1>5, FS_EmptySet
<1>7. \A i \in DOMAIN Tail(work) : Tail(work)[i] # c
    BY <1>5, ReleaseWork
<1> QED  BY <1>5, <1>6, <1>7

\* A cell goes, and the weak references to it with it.
LEMMA FreedCell ==
    ASSUME NEW h \in [Cells -> Cell \cup {NULL}], NEW c \in Cells,
           NEW g, g = Freed(h, c)
    PROVE  /\ g \in [Cells -> Cell \cup {NULL}] /\ g[c] = NULL
           /\ \A x \in Cells : x # c => (g[x] = NULL <=> h[x] = NULL)
           /\ \A x \in Cells : x # c /\ h[x] # NULL =>
                /\ g[x].kind = h[x].kind /\ g[x].edge = h[x].edge /\ g[x].env = h[x].env
                /\ g[x].watcher = h[x].watcher /\ g[x].nref = h[x].nref
                /\ g[x].to = IF h[x].to = c THEN NULL ELSE h[x].to
<1> DEFINE k == Cleared(h, c)
<1>1. \A x \in Cells : k[x] = IF h[x] # NULL /\ h[x].to = c THEN [h[x] EXCEPT !.to = NULL] ELSE h[x]
    BY DEF Cleared
<1>2. DOMAIN k = Cells
    BY DEF Cleared
<1>3. k = [x \in Cells |-> k[x]]
    BY DEF Cleared
<1> HIDE DEF k
<1>4. ASSUME NEW x \in Cells, h[x] # NULL
      PROVE  /\ k[x] \in Cell
             /\ k[x].kind = h[x].kind /\ k[x].edge = h[x].edge /\ k[x].env = h[x].env
             /\ k[x].watcher = h[x].watcher /\ k[x].nref = h[x].nref
             /\ k[x].to = IF h[x].to = c THEN NULL ELSE h[x].to
    <2>1. h[x] \in Cell
        BY <1>4
    <2> DEFINE r == [h[x] EXCEPT !.to = NULL]
    <2>2. /\ r \in Cell
          /\ r.kind = h[x].kind /\ r.edge = h[x].edge /\ r.env = h[x].env
          /\ r.watcher = h[x].watcher /\ r.nref = h[x].nref /\ r.to = NULL
        BY <2>1 DEF Cell
    <2>3. k[x] = IF h[x].to = c THEN r ELSE h[x]
        BY <1>1, <1>4
    <2> HIDE DEF r
    <2> QED  BY <2>1, <2>2, <2>3
<1>5. \A x \in Cells : h[x] = NULL => k[x] = NULL
    BY <1>1
<1>6. k \in [Cells -> Cell \cup {NULL}]
    BY <1>3, <1>4, <1>5
<1>7. g = [k EXCEPT ![c] = NULL]
    BY DEF k, Freed
<1>8. \A x \in Cells : h[x] # NULL => k[x] # NULL
    BY <1>4
<1> QED  BY <1>4, <1>5, <1>6, <1>7, <1>8

\* What a cell owns, as the cascade lists it.
LEMMA OwnedHolds ==
    ASSUME HeapTypeOK, NEW c \in Live
    PROVE  /\ Owned(c) \in Seq(Cells \cup Envs \cup {NULL})
           /\ cell[c].edge \in Seq(Cells \cup Envs \cup {NULL}) /\ DOMAIN cell[c].edge = Slots
           /\ \A y : /\ Cardinality(Places(cell[c].edge, y)) \in Nat
                     /\ Cardinality(Places(Owned(c), y)) = Cardinality(Places(cell[c].edge, y))
                                                           + (IF y = cell[c].env THEN 1 ELSE 0)
                                                           + (IF y = cell[c].watcher THEN 1 ELSE 0)
           /\ \A x : Has(Owned(c), x) => \/ x \in {cell[c].env, cell[c].watcher}
                                         \/ \E s \in Slots : x = cell[c].edge[s]
<1> DEFINE U == Cells \cup Envs \cup {NULL}
<1>1. cell[c] \in Cell
    BY DEF HeapTypeOK, Live
<1> SUFFICES ASSUME NEW q, q = cell[c].edge, NEW e, e = cell[c].env, NEW w, w = cell[c].watcher
             PROVE  /\ Owned(c) \in Seq(U) /\ q \in Seq(U) /\ DOMAIN q = Slots
                    /\ \A y : /\ Cardinality(Places(q, y)) \in Nat
                              /\ Cardinality(Places(Owned(c), y)) = Cardinality(Places(q, y))
                                                           + (IF y = e THEN 1 ELSE 0)
                                                           + (IF y = w THEN 1 ELSE 0)
                    /\ \A x : Has(Owned(c), x) => x \in {e, w} \/ \E s \in Slots : x = q[s]
    OBVIOUS
<1>2. e \in U /\ w \in U /\ DOMAIN q = Slots /\ q \in [1 .. NSlots -> U]
    BY <1>1 DEF Cell, Slots
<1>3. q \in Seq(U)
    BY <1>2, SeqDef
<1> DEFINE others == <<e, w>>
           one == <<e>>
           two == <<w>>
<1>4. /\ Owned(c) = q \o others \/ Owned(c) = others \o q
      /\ others = one \o two /\ one \in Seq(U) /\ two \in Seq(U) /\ others \in Seq(U)
    <2>1. Owned(c) = q \o others \/ Owned(c) = others \o q
        BY DEF Owned
    <2>2. others = one \o two
        BY DEF one, two
    <2> HIDE DEF U
    <2>3. one \in Seq(U) /\ two \in Seq(U) /\ others \in Seq(U)
        BY <1>2
    <2> QED  BY <2>1, <2>2, <2>3
<1>5. \A y : /\ Cardinality(Places(one, y)) = IF y = e THEN 1 ELSE 0
             /\ Cardinality(Places(two, y)) = IF y = w THEN 1 ELSE 0
    BY PlacesOne
<1>6. \A i \in DOMAIN others : others[i] \in {e, w}
    OBVIOUS
<1> HIDE DEF one, two, others, U
<1>7. \A y : Cardinality(Places(others, y)) = Cardinality(Places(one, y)) + Cardinality(Places(two, y))
    BY <1>4, PlacesConcat
<1>8. \A y : \/ Cardinality(Places(Owned(c), y)) = Cardinality(Places(q, y)) + Cardinality(Places(others, y))
             \/ Cardinality(Places(Owned(c), y)) = Cardinality(Places(others, y)) + Cardinality(Places(q, y))
    <2>1. \A y : Cardinality(Places(q \o others, y)) = Cardinality(Places(q, y)) + Cardinality(Places(others, y))
        <3>1. q \in Seq(U) /\ others \in Seq(U)
            BY <1>3, <1>4
        <3> QED  BY <3>1, PlacesConcat
    <2>2. \A y : Cardinality(Places(others \o q, y)) = Cardinality(Places(others, y)) + Cardinality(Places(q, y))
        <3>1. q \in Seq(U) /\ others \in Seq(U)
            BY <1>3, <1>4
        <3> QED  BY <3>1, PlacesConcat
    <2> QED  BY <1>4, <2>1, <2>2
<1>9. \A y : Cardinality(Places(q, y)) \in Nat
    BY <1>3, PlacesCounted
<1>10. \A y : Cardinality(Places(Owned(c), y)) = Cardinality(Places(q, y))
                                    + (IF y = e THEN 1 ELSE 0) + (IF y = w THEN 1 ELSE 0)
    BY <1>5, <1>7, <1>8, <1>9
<1>11. Owned(c) \in Seq(U) /\ \A x : Has(Owned(c), x) => Has(q, x) \/ Has(others, x)
    <2>1. q \in Seq(U) /\ others \in Seq(U)
        BY <1>3, <1>4
    <2>2. /\ q \o others \in Seq(U) /\ others \o q \in Seq(U)
          /\ \A x : Has(q \o others, x) => Has(q, x) \/ Has(others, x)
          /\ \A x : Has(others \o q, x) => Has(q, x) \/ Has(others, x)
        BY <2>1, ConcatHolds
    <2> QED  BY <1>4, <2>2
<1> QED  BY <1>2, <1>3, <1>6, <1>9, <1>10, <1>11 DEF Has

\* A cell gives its last reference back: what it owned becomes work.
LEMMA ReleaseLast ==
    ASSUME GcInv, work # <<>>, NEW c \in Cells, c = Head(work), cell[c].nref = 1,
           NEW rest, rest = Tail(work),
           cell' = Freed(cell, c), work' = Owned(c) \o rest,
           UNCHANGED <<env, held, frames, todo, dead>>
    PROVE  GcInv'
<1> SUFFICES ASSUME NEW due, due = Owned(c)  PROVE GcInv'
    OBVIOUS
<1>1. c \in Sound /\ c \in Live /\ c # NULL /\ c \notin dead /\ c \notin Envs
    BY ReleaseWork DEF Sound, SoundEnvs, Live, LiveEnvs
<1>2. /\ held[c] = 0 /\ OwnEdges(c) = {} /\ OwnBindings(c) = {} /\ Watched(c) = {}
      /\ \A x : Has(rest, x) => x # c
    BY <1>1, OnlyDue DEF Has
<1>3. /\ cell' \in [Cells -> Cell \cup {NULL}] /\ Live' = Live \ {c} /\ LiveEnvs' = LiveEnvs
      /\ \A x \in Live' :
            /\ cell'[x].kind = cell[x].kind /\ cell'[x].edge = cell[x].edge
            /\ cell'[x].env = cell[x].env /\ cell'[x].watcher = cell[x].watcher
            /\ cell'[x].nref = cell[x].nref
            /\ cell'[x].to = IF cell[x].to = c THEN NULL ELSE cell[x].to
    <2>1. cell \in [Cells -> Cell \cup {NULL}] /\ cell' = Freed(cell, c)
        BY DEF GcInv, GcTypeOK, HeapTypeOK
    <2>2. /\ cell' \in [Cells -> Cell \cup {NULL}] /\ cell'[c] = NULL
          /\ \A x \in Cells : x # c => (cell'[x] = NULL <=> cell[x] = NULL)
          /\ \A x \in Cells : x # c /\ cell[x] # NULL =>
                /\ cell'[x].kind = cell[x].kind /\ cell'[x].edge = cell[x].edge
                /\ cell'[x].env = cell[x].env
                /\ cell'[x].watcher = cell[x].watcher /\ cell'[x].nref = cell[x].nref
                /\ cell'[x].to = IF cell[x].to = c THEN NULL ELSE cell[x].to
        BY <2>1, FreedCell
    <2> QED  BY <2>2 DEF Live, LiveEnvs
<1>4. Sound' = Sound \ {c} /\ SoundEnvs' = SoundEnvs
    BY <1>3 DEF Sound, SoundEnvs
<1>5. /\ due \in Seq(Cells \cup Envs \cup {NULL}) /\ rest \in Seq(Cells \cup Envs \cup {NULL})
      /\ cell[c].edge \in Seq(Cells \cup Envs \cup {NULL}) /\ DOMAIN cell[c].edge = Slots
      /\ \A y : /\ Cardinality(Places(cell[c].edge, y)) \in Nat
                /\ Cardinality(Places(due, y)) = Cardinality(Places(cell[c].edge, y))
                                                 + (IF y = cell[c].env THEN 1 ELSE 0)
                                                 + (IF y = cell[c].watcher THEN 1 ELSE 0)
      /\ \A x : Has(due, x) => \/ x \in {cell[c].env, cell[c].watcher}
                               \/ \E s \in Slots : x = cell[c].edge[s]
    <2>1. HeapTypeOK /\ c \in Live
        BY <1>1 DEF GcInv, GcTypeOK
    <2>2. rest \in Seq(Cells \cup Envs \cup {NULL})
        BY ReleaseWork
    <2>3. /\ Owned(c) \in Seq(Cells \cup Envs \cup {NULL})
          /\ cell[c].edge \in Seq(Cells \cup Envs \cup {NULL}) /\ DOMAIN cell[c].edge = Slots
        BY <2>1, OwnedHolds
    <2>4. \A y : /\ Cardinality(Places(cell[c].edge, y)) \in Nat
                 /\ Cardinality(Places(Owned(c), y)) = Cardinality(Places(cell[c].edge, y))
                                                      + (IF y = cell[c].env THEN 1 ELSE 0)
                                                      + (IF y = cell[c].watcher THEN 1 ELSE 0)
        BY <2>1, OwnedHolds
    <2>5. \A x : Has(Owned(c), x) => \/ x \in {cell[c].env, cell[c].watcher}
                                     \/ \E s \in Slots : x = cell[c].edge[s]
        BY <2>1, OwnedHolds
    <2> QED  BY <2>2, <2>3, <2>4, <2>5
<1>6. /\ work' \in Seq(Cells \cup Envs \cup {NULL})
      /\ \A x : Has(work', x) <=> Has(due, x) \/ Has(rest, x)
      /\ \A y : Cardinality(Due(y)') = Cardinality(Places(due, y)) + Cardinality(Places(rest, y))
    <2>1. /\ due \o rest \in Seq(Cells \cup Envs \cup {NULL})
          /\ \A x : Has(due \o rest, x) <=> Has(due, x) \/ Has(rest, x)
        <3>1. due \in Seq(Cells \cup Envs \cup {NULL}) /\ rest \in Seq(Cells \cup Envs \cup {NULL})
            BY <1>5
        <3> QED  BY <3>1, ConcatHolds, ZenonT(60)
    <2>2. \A y : Cardinality(Places(due \o rest, y))
                 = Cardinality(Places(due, y)) + Cardinality(Places(rest, y))
        <3>1. due \in Seq(Cells \cup Envs \cup {NULL}) /\ rest \in Seq(Cells \cup Envs \cup {NULL})
            BY <1>5
        <3> QED  BY <3>1, PlacesConcat, ZenonT(60)
    <2>3. \A y : Due(y)' = Places(due \o rest, y)
        BY DEF Due, Places
    <2> QED  BY <2>1, <2>2, <2>3
<1>7. GcTypeOK'
    BY <1>3, <1>6 DEF GcInv, GcTypeOK, HeapTypeOK
<1>8. SweepRight'
    BY <1>1, <1>3 DEF GcInv, SweepRight
<1>9. \A x : Has(work', x) => x \in Sound' \cup SoundEnvs \cup {NULL}
    <2>1. \A x : Has(rest, x) => x \in Sound \cup SoundEnvs \cup {NULL}
        BY ReleaseWork DEF Has
    <2>2. \A s \in Slots : cell[c].edge[s] \in Sound \cup {NULL} /\ cell[c].edge[s] # c
        <3>1. \A s \in Slots : cell[c].edge[s] = c => <<c, s>> \in OwnEdges(c)
            BY <1>1 DEF OwnEdges, Edges
        <3> QED  BY <1>1, <1>2, <3>1 DEF GcInv, CellsPoint
    <2>3. cell[c].watcher \in Sound \cup {NULL} /\ cell[c].watcher # c
        BY <1>1, <1>2 DEF GcInv, CellsPoint, Watched
    <2>4. cell[c].env \in SoundEnvs \cup {NULL}
        BY <1>1 DEF GcInv, CellsPoint
    <2>5. \A x : Has(due, x) => x \in Sound' \cup SoundEnvs \cup {NULL}
        <3>1. \A x : Has(due, x) => \/ x \in {cell[c].env, cell[c].watcher}
                                   \/ \E s \in Slots : x = cell[c].edge[s]
            BY <1>5
        <3> QED  BY <1>4, <2>2, <2>3, <2>4, <3>1
    <2>6. \A x : Has(rest, x) => x \in Sound' \cup SoundEnvs \cup {NULL}
        BY <1>2, <1>4, <2>1
    <2> QED  BY <1>6, <2>5, <2>6
<1>10. InUse'
    <2>1. \A i \in DOMAIN work' : work'[i] \in Sound' \cup SoundEnvs \cup {NULL}
        BY <1>9 DEF Has
    <2>2. \A x \in Cells : held[x] > 0 => x \in Sound'
        BY <1>2, <1>4 DEF GcInv, InUse
    <2> QED  BY <1>4, <2>1, <2>2 DEF GcInv, InUse
<1>11. CellsPoint'
    <2> SUFFICES ASSUME NEW x \in Live'
                 PROVE  /\ cell'[x].to \in Live' \cup {NULL}
                        /\ cell'[x].watcher \in Sound' \cup {NULL}
                        /\ x \notin dead => /\ \A s \in Slots : cell'[x].edge[s] \in Sound' \cup {NULL}
                                            /\ cell'[x].env \in SoundEnvs \cup {NULL}
                        /\ x \in dead => CaptureItem(x) \in todo \/ cell'[x].env = NULL
                        /\ cell'[x].kind # "lambda" => cell'[x].env = NULL
                        /\ \A s \in Slots : EdgeItem(x, s) \in todo
                              => cell'[x].edge[s] \in Live' \cup dead \cup {NULL}
                        /\ CaptureItem(x) \in todo => cell'[x].env \in LiveEnvs \cup dead \cup {NULL}
        BY <1>3, <1>4 DEF CellsPoint
    <2>1. /\ cell[x].to \in Live \cup {NULL}
          /\ cell[x].watcher \in Sound \cup {NULL}
          /\ x \notin dead => /\ \A s \in Slots : cell[x].edge[s] \in Sound \cup {NULL}
                              /\ cell[x].env \in SoundEnvs \cup {NULL}
          /\ x \in dead => CaptureItem(x) \in todo \/ cell[x].env = NULL
          /\ cell[x].kind # "lambda" => cell[x].env = NULL
          /\ \A s \in Slots : EdgeItem(x, s) \in todo => cell[x].edge[s] \in Live \cup dead \cup {NULL}
          /\ CaptureItem(x) \in todo => cell[x].env \in LiveEnvs \cup dead \cup {NULL}
        BY <1>3 DEF GcInv, CellsPoint
    <2>2. cell[x].watcher # c
        BY <1>2, <1>3 DEF Watched
    <2>3. \A s \in Slots : x \notin dead \/ EdgeItem(x, s) \in todo => cell[x].edge[s] # c
        <3>1. \A s \in Slots : (x \notin dead \/ EdgeItem(x, s) \in todo) /\ cell[x].edge[s] = c
                               => <<x, s>> \in OwnEdges(c)
            BY <1>3 DEF OwnEdges, Edges
        <3> QED  BY <1>2, <3>1
    <2> QED  BY <1>3, <1>4, <2>1, <2>2, <2>3, ZenonT(60)
<1>12. EnvsPoint'
    <2>1. \A v \in LiveEnvs : \A x \in Vars :
             v \notin dead \/ BindingItem(v, x) \in todo => env[v].val[x] # c
        <3>1. \A v \in LiveEnvs : \A x \in Vars :
                 (v \notin dead \/ BindingItem(v, x) \in todo) /\ env[v].val[x] = c
                 => <<v, x>> \in OwnBindings(c)
            BY DEF OwnBindings, Bindings
        <3> QED  BY <1>2, <3>1
    <2> QED  BY <1>3, <1>4, <2>1 DEF GcInv, EnvsPoint
<1>13. Grounded'
    BY <1>3 DEF GcInv, Grounded
<1>14. CutIsDue'
    <2> SUFFICES ASSUME NEW x \in Sound', cell'[x].kind = "lambda", cell'[x].env = NULL
                 PROVE  cell'[x].nref = 1 /\ \E i \in DOMAIN work' : work'[i] = x
        BY DEF CutIsDue
    <2>1. x \in Sound /\ x # c /\ x \in Live'
        BY <1>4 DEF Sound
    <2>2. cell[x].nref = 1 /\ \E i \in DOMAIN work : work[i] = x
        BY <1>3, <2>1 DEF GcInv, CutIsDue
    <2>3. Has(rest, x)
        BY <2>1, <2>2, ReleaseWork DEF Has
    <2> QED  BY <1>3, <1>6, <2>1, <2>2, <2>3 DEF Has
<1>15. \A y : /\ Cardinality(Places(rest, y)) \in Nat
              /\ y # c => Cardinality(Due(y)) = Cardinality(Places(rest, y))
    BY ReleaseWork
<1>16. CellsCounted'
    <2> SUFFICES ASSUME NEW x \in Sound'  PROVE cell'[x].nref = CellCount(x)'
        BY DEF CellsCounted
    <2>1. x \in Sound /\ x # c /\ x \in Live' /\ x \in Live /\ x # NULL /\ x \notin Envs
        BY <1>3, <1>4 DEF Sound, Live
    <2> DEFINE row == Row(c, cell[c].edge, x)
    <2>2. IsFiniteSet(row) /\ Cardinality(row) = Cardinality(Places(cell[c].edge, x))
        BY <1>5, RowCounted
    <2>3. OwnEdges(x) = OwnEdges(x)' \cup row /\ OwnEdges(x)' \cap row = {}
        <3>1. row = {e \in {c} \X Slots : cell[c].edge[e[2]] = x}
            BY <1>5 DEF Row
        <3> HIDE DEF row
        <3> QED  BY <1>1, <1>3, <2>1, <3>1 DEF OwnEdges, Edges
    <2>4. Cardinality(OwnEdges(x)) = Cardinality(OwnEdges(x)') + Cardinality(row)
          /\ Cardinality(OwnEdges(x)') \in Nat
        <3>1. IsFiniteSet(OwnEdges(x)') /\ Cardinality(OwnEdges(x)') \in Nat
            BY <2>3, OwnFinite, FS_Subset, FS_CardinalityType DEF GcInv, GcTypeOK
        <3> HIDE DEF row
        <3> QED  BY <2>2, <2>3, <3>1, CountApart
    <2> HIDE DEF row
    <2>5. Cardinality(Watched(x)) = Cardinality(Watched(x)') + (IF x = cell[c].watcher THEN 1 ELSE 0)
          /\ Cardinality(Watched(x)') \in Nat
        <3>1. IsFiniteSet(Watched(x)) /\ Watched(x)' = Watched(x) \ {c}
              /\ (c \in Watched(x) <=> x = cell[c].watcher)
            <4>1. IsFiniteSet(Watched(x))
                BY OwnersFinite DEF GcInv, GcTypeOK
            <4>2. Watched(x)' = Watched(x) \ {c} /\ (c \in Watched(x) <=> x = cell[c].watcher)
                BY <1>1, <1>3 DEF Watched
            <4> QED  BY <4>1, <4>2
        <3>2. IsFiniteSet(Watched(x)') /\ Cardinality(Watched(x)') \in Nat
            BY <3>1, FS_Subset, FS_CardinalityType
        <3>3. CASE c \in Watched(x)
            BY <3>1, <3>2, <3>3, CountRemove
        <3>4. CASE c \notin Watched(x)
            <4>1. Watched(x)' = Watched(x) /\ x # cell[c].watcher
                BY <3>1, <3>4
            <4>2. Cardinality(Watched(x)') = Cardinality(Watched(x))
                BY <4>1
            <4> QED  BY <3>2, <4>1, <4>2
        <3> QED  BY <3>3, <3>4
    <2>6. OwnBindings(x)' = OwnBindings(x)
        BY <1>3 DEF OwnBindings, Bindings
    <2>7. cell[c].env # x
        BY <1>1, <2>1 DEF GcInv, CellsPoint, SoundEnvs, LiveEnvs
    <2>8. Cardinality(Due(x)') = Cardinality(Places(cell[c].edge, x))
                                 + (IF x = cell[c].watcher THEN 1 ELSE 0) + Cardinality(Due(x))
          /\ Cardinality(Due(x)) \in Nat
        BY <1>5, <1>6, <1>15, <2>1, <2>7
    <2>9. cell[x].nref = held[x] + Cardinality(OwnEdges(x)) + Cardinality(OwnBindings(x))
                         + Cardinality(Watched(x)) + Cardinality(Due(x))
        BY <2>1 DEF GcInv, CellsCounted, CellCount
    <2>10. held[x] \in Nat /\ Cardinality(OwnBindings(x)) \in Nat
           /\ Cardinality(Places(cell[c].edge, x)) \in Nat
        BY <1>5, <2>1, OwnFinite DEF GcInv, GcTypeOK, HeapTypeOK, Live
    <2>11. CellCount(x)' = held[x] + Cardinality(OwnEdges(x)') + Cardinality(OwnBindings(x))
                         + Cardinality(Watched(x)') + Cardinality(Due(x)')
        BY <2>6 DEF CellCount
    <2>12. held[x] + Cardinality(OwnEdges(x)) + Cardinality(OwnBindings(x))
                   + Cardinality(Watched(x)) + Cardinality(Due(x)) = CellCount(x)'
        BY <2>2, <2>4, <2>5, <2>8, <2>10, <2>11
    <2> QED  BY <1>3, <2>1, <2>9, <2>12
<1>17. EnvsCounted'
    <2> SUFFICES ASSUME NEW v \in SoundEnvs  PROVE env[v].nref = EnvCount(v)'
        BY <1>4 DEF EnvsCounted
    <2>1. v # NULL /\ v \in Envs /\ v # c /\ v \notin Cells
        BY <1>1 DEF SoundEnvs, LiveEnvs
    <2>2. Children(v)' = Children(v) /\ Calls(v)' = Calls(v)
        BY <1>3 DEF Children, Calls
    <2>3. Cardinality(Captures(v)) = Cardinality(Captures(v)') + (IF v = cell[c].env THEN 1 ELSE 0)
          /\ Cardinality(Captures(v)') \in Nat
        <3>1. IsFiniteSet(Captures(v)) /\ Captures(v)' = Captures(v) \ {c}
              /\ (c \in Captures(v) <=> v = cell[c].env)
            <4>1. IsFiniteSet(Captures(v))
                BY OwnersFinite DEF GcInv, GcTypeOK
            <4>2. Captures(v)' = Captures(v) \ {c} /\ (c \in Captures(v) <=> v = cell[c].env)
                BY <1>1, <1>3 DEF Captures
            <4> QED  BY <4>1, <4>2
        <3>2. IsFiniteSet(Captures(v)') /\ Cardinality(Captures(v)') \in Nat
            BY <3>1, FS_Subset, FS_CardinalityType
        <3>3. CASE c \in Captures(v)
            BY <3>1, <3>2, <3>3, CountRemove
        <3>4. CASE c \notin Captures(v)
            <4>1. Captures(v)' = Captures(v) /\ v # cell[c].env
                BY <3>1, <3>4
            <4>2. Cardinality(Captures(v)') = Cardinality(Captures(v))
                BY <4>1
            <4> QED  BY <3>2, <4>1, <4>2
        <3> QED  BY <3>3, <3>4
    <2>4. Cardinality(Due(v)') = (IF v = cell[c].env THEN 1 ELSE 0) + Cardinality(Due(v))
          /\ Cardinality(Due(v)) \in Nat
        <3>1. cell[c].watcher # v
            BY <1>1, <2>1 DEF GcInv, CellsPoint, Sound, Live
        <3>2. Cardinality(Places(cell[c].edge, v)) = 0
            <4> SUFFICES ASSUME NEW q, q = cell[c].edge  PROVE Cardinality(Places(q, v)) = 0
                OBVIOUS
            <4>1. q \in Seq(Cells \cup Envs \cup {NULL}) /\ DOMAIN q = Slots
                BY <1>5
            <4>2. \A s \in Slots : q[s] # v
                BY <1>1, <2>1 DEF GcInv, CellsPoint, Sound, Live
            <4> QED  BY <4>1, <4>2, PlacesCounted
        <3> QED  BY <1>5, <1>6, <1>15, <2>1, <3>1, <3>2
    <2>5. env[v].nref = Cardinality(Captures(v)) + Cardinality(Children(v))
                        + Cardinality(Calls(v)) + Cardinality(Due(v))
        BY DEF GcInv, EnvsCounted, EnvCount
    <2>6. Cardinality(Children(v)) \in Nat /\ Cardinality(Calls(v)) \in Nat
        BY OwnersFinite DEF GcInv, GcTypeOK
    <2>7. EnvCount(v)' = Cardinality(Captures(v)') + Cardinality(Children(v))
                         + Cardinality(Calls(v)) + Cardinality(Due(v)')
        BY <2>2 DEF EnvCount
    <2> QED  BY <2>3, <2>4, <2>5, <2>6, <2>7
<1> QED  BY <1>7, <1>8, <1>10, <1>11, <1>12, <1>13, <1>14, <1>16, <1>17 DEF GcInv

\* The work of a frame that goes.
WorkIs(w, q, root, rest) ==
    /\ \A y : Has(w, y) <=> Has(q, y) \/ y = root \/ Has(rest, y)
    /\ \A y : /\ Cardinality(Places(w, y)) = Cardinality(Places(q, y))
                             + (IF y = root THEN 1 ELSE 0) + Cardinality(Places(rest, y))
              /\ Cardinality(Places(q, y)) \in Nat

\* destroy_env: the variables of the frame, its parent and the rest of the work.
LEMMA FrameWork ==
    ASSUME NEW U, NEW q \in Seq(U), NEW root \in U, NEW rest \in Seq(U),
           NEW w, w = Append(q, root) \o rest
    PROVE  w \in Seq(U) /\ WorkIs(w, q, root, rest)
<1> DEFINE one == <<root>>
           due == q \o one
<1>1. one \in Seq(U) /\ due = Append(q, root)
    BY AppendIsConcat
<1>2. \A y : Cardinality(Places(one, y)) = IF y = root THEN 1 ELSE 0
    BY PlacesOne
<1>3. \A y : Has(one, y) <=> y = root
    BY DEF Has
<1> HIDE DEF one
<1>4. due \in Seq(U) /\ \A y : Has(due, y) <=> Has(q, y) \/ Has(one, y)
    BY <1>1, ConcatHolds
<1>5. \A y : Cardinality(Places(due, y)) = Cardinality(Places(q, y)) + Cardinality(Places(one, y))
    BY <1>1, PlacesConcat
<1>6. w = due \o rest
    BY <1>1
<1> HIDE DEF due
<1>7. w \in Seq(U) /\ \A y : Has(w, y) <=> Has(due, y) \/ Has(rest, y)
    BY <1>4, <1>6, ConcatHolds
<1>8. \A y : Cardinality(Places(w, y)) = Cardinality(Places(due, y)) + Cardinality(Places(rest, y))
    BY <1>4, <1>6, PlacesConcat
<1>9. \A y : Cardinality(Places(q, y)) \in Nat
    BY PlacesCounted
<1> QED  BY <1>2, <1>3, <1>4, <1>5, <1>7, <1>8, <1>9 DEF WorkIs

\* What destroy_env leaves due, counted.
LEMMA FrameDue ==
    ASSUME GcInv, work # <<>>, NEW v \in Envs, v = Head(work),
           work' = Append(env[v].val, env[v].root) \o Tail(work)
    PROVE  /\ work' \in Seq(Cells \cup Envs \cup {NULL})
           /\ WorkIs(work', env[v].val, env[v].root, Tail(work))
<1> DEFINE U == Cells \cup Envs \cup {NULL}
<1> SUFFICES ASSUME NEW q, q = env[v].val, NEW root, root = env[v].root, NEW rest, rest = Tail(work)
             PROVE  work' \in Seq(U) /\ WorkIs(work', q, root, rest)
    OBVIOUS
<1>1. env[v] \in Env
    BY ReleaseWork DEF GcInv, GcTypeOK, HeapTypeOK, Sound, SoundEnvs, Live, LiveEnvs
<1>2. q \in [1 .. NVars -> U] /\ root \in U
    BY <1>1 DEF Env, Vars
<1>3. rest \in Seq(U)
    BY ReleaseWork
<1>4. work' = Append(q, root) \o rest
    OBVIOUS
<1> HIDE DEF U
<1>5. q \in Seq(U)
    BY <1>2, RowIsSeq
<1> QED  BY <1>2, <1>3, <1>4, <1>5, FrameWork

\* Closures are cut from their frame, and a frame goes.
Cut(h, K) == [c \in Cells |-> IF c \in K THEN [h[c] EXCEPT !.env = NULL] ELSE h[c]]
Gone(h, v) == [h EXCEPT ![v] = NULL]
OwnClosures(v, K) ==
    \A c \in K : /\ c \in Sound /\ cell[c].kind = "lambda" /\ cell[c].nref = 1
                 /\ \E x \in Vars : env[v].val[x] = c

\* An environment goes; the closures K that alone kept it are cut from it.
LEMMA ReleaseFrame ==
    ASSUME GcInv, work # <<>>, NEW v \in Envs, v = Head(work),
           NEW K, Captures(v) = K, Children(v) = {}, Calls(v) = {},
           OwnClosures(v, K), ~ Has(Tail(work), v),
           cell' = Cut(cell, K), env' = Gone(env, v),
           work' \in Seq(Cells \cup Envs \cup {NULL}),
           WorkIs(work', env[v].val, env[v].root, Tail(work)),
           UNCHANGED <<held, frames, todo, dead>>
    PROVE  GcInv'
<1> SUFFICES ASSUME NEW rest, rest = Tail(work)  PROVE GcInv'
    OBVIOUS
<1>0. /\ \A c \in K : /\ c \in Sound /\ cell[c].kind = "lambda" /\ cell[c].nref = 1
                      /\ \E x \in Vars : env[v].val[x] = c
      /\ \A i \in DOMAIN rest : rest[i] # v
    BY DEF OwnClosures, Has
<1> SUFFICES ASSUME NEW q, q = env[v].val, NEW root, root = env[v].root  PROVE GcInv'
    OBVIOUS
<1>1. v \in SoundEnvs /\ v \in LiveEnvs /\ v # NULL /\ v \notin dead /\ v \notin Cells
    BY ReleaseWork DEF Sound, SoundEnvs, Live, LiveEnvs
<1>2. /\ env \in [Envs -> Env \cup {NULL}] /\ cell \in [Cells -> Cell \cup {NULL}]
      /\ env[v] \in Env
    BY <1>1 DEF GcInv, GcTypeOK, HeapTypeOK, LiveEnvs
<1>3. /\ env' \in [Envs -> Env \cup {NULL}] /\ LiveEnvs' = LiveEnvs \ {v}
      /\ \A u \in LiveEnvs' : env'[u] = env[u]
    BY <1>2 DEF LiveEnvs, Gone
<1>4. /\ cell' \in [Cells -> Cell \cup {NULL}] /\ Live' = Live
      /\ \A c \in Live : /\ cell'[c].kind = cell[c].kind /\ cell'[c].edge = cell[c].edge
                         /\ cell'[c].to = cell[c].to /\ cell'[c].watcher = cell[c].watcher
                         /\ cell'[c].nref = cell[c].nref
                         /\ cell'[c].env = IF c \in K THEN NULL ELSE cell[c].env
    <2>1. ASSUME NEW c \in Cells, cell[c] # NULL
          PROVE  /\ cell'[c] \in Cell
                 /\ cell'[c].kind = cell[c].kind /\ cell'[c].edge = cell[c].edge
                 /\ cell'[c].to = cell[c].to /\ cell'[c].watcher = cell[c].watcher
                 /\ cell'[c].nref = cell[c].nref
                 /\ cell'[c].env = IF c \in K THEN NULL ELSE cell[c].env
        <3>1. cell[c] \in Cell
            BY <1>2, <2>1
        <3> DEFINE r == [cell[c] EXCEPT !.env = NULL]
        <3>2. /\ r \in Cell /\ r.kind = cell[c].kind /\ r.edge = cell[c].edge /\ r.to = cell[c].to
              /\ r.watcher = cell[c].watcher /\ r.nref = cell[c].nref /\ r.env = NULL
            BY <3>1 DEF Cell
        <3>3. cell'[c] = IF c \in K THEN r ELSE cell[c]
            BY DEF Cut
        <3> HIDE DEF r
        <3> QED  BY <3>1, <3>2, <3>3
    <2>2. \A c \in K : cell[c] # NULL
        BY <1>0 DEF Sound, Live
    <2>3. \A c \in Cells : cell[c] = NULL => cell'[c] = NULL
        BY <2>2 DEF Cut
    <2>4. cell' \in [Cells -> Cell \cup {NULL}]
        <3>1. \A c \in Cells : cell'[c] \in Cell \cup {NULL}
            BY <2>1, <2>3
        <3>2. cell' = [c \in Cells |-> cell'[c]]
            BY DEF Cut
        <3> QED  BY <3>1, <3>2
    <2>5. \A c \in Cells : cell[c] # NULL => cell'[c] # NULL
        BY <2>1
    <2> QED  BY <2>1, <2>3, <2>4, <2>5 DEF Live
<1>5. Sound' = Sound /\ SoundEnvs' = SoundEnvs \ {v}
    BY <1>3, <1>4 DEF Sound, SoundEnvs
<1>6. /\ q \in Seq(Cells \cup Envs \cup {NULL}) /\ DOMAIN q = Vars
      /\ root \in SoundEnvs' \cup {NULL} /\ root \in Cells \cup Envs \cup {NULL}
      /\ \A x \in Vars : q[x] \in Sound \cup {NULL}
    <2> DEFINE U == Cells \cup Envs \cup {NULL}
    <2>1. q \in [1 .. NVars -> U] /\ DOMAIN q = Vars
        BY <1>2 DEF Env, Vars
    <2>2. q \in Seq(U)
        <3> HIDE DEF U
        <3> QED  BY <2>1, RowIsSeq
    <2>3. root \in SoundEnvs \cup {NULL} /\ \A x \in Vars : q[x] \in Sound \cup {NULL}
        BY <1>1 DEF GcInv, EnvsPoint
    <2>4. root # v
        BY <1>1 DEF Children
    <2> QED  BY <1>5, <2>1, <2>2, <2>3, <2>4 DEF SoundEnvs, LiveEnvs
<1> DEFINE U == Cells \cup Envs \cup {NULL}
<1>7. q \in Seq(U)
    BY <1>6
<1> HIDE DEF U
<1>8. work' \in Seq(U) /\ WorkIs(work', q, root, rest)
    BY DEF U
<1>15. \A y : Cardinality(Places(q, y)) \in Nat
    BY <1>8 DEF WorkIs
<1>16. \A y : /\ Cardinality(Places(rest, y)) \in Nat
              /\ Cardinality(Due(y)) = Cardinality(Places(rest, y)) + (IF y = v THEN 1 ELSE 0)
    BY ReleaseWork
<1>17. \A y : Cardinality(Due(y)') = Cardinality(Places(q, y)) + (IF y = root THEN 1 ELSE 0)
                                     + Cardinality(Places(rest, y))
    <2>1. \A y : Due(y)' = Places(work', y)
        BY DEF Due, Places
    <2> QED  BY <1>8, <2>1 DEF WorkIs
<1>18. work' \in Seq(U) /\ \A y : Has(work', y) <=> Has(q, y) \/ y = root \/ Has(rest, y)
    BY <1>8 DEF WorkIs
<1>19. GcTypeOK'
    BY <1>3, <1>4, <1>18 DEF GcInv, GcTypeOK, HeapTypeOK, U
<1>20. SweepRight'
    BY <1>1, <1>3, <1>4 DEF GcInv, SweepRight
<1>21. InUse'
    <2>1. \A y : Has(rest, y) => y \in Sound \cup (SoundEnvs \ {v}) \cup {NULL}
        <3>1. \A y : Has(rest, y) => y \in Sound \cup SoundEnvs \cup {NULL}
            BY ReleaseWork DEF Has
        <3> QED  BY <1>0, <3>1 DEF Has
    <2>2. \A y : Has(q, y) => y \in Sound \cup {NULL}
        BY <1>6 DEF Has
    <2>3. \A y : Has(work', y) => y \in Sound' \cup SoundEnvs' \cup {NULL}
        BY <1>5, <1>6, <1>18, <2>1, <2>2
    <2>4. \A i \in DOMAIN work' : work'[i] \in Sound' \cup SoundEnvs' \cup {NULL}
        BY <2>3 DEF Has
    <2>5. \A i \in DOMAIN frames : frames[i] \in SoundEnvs'
        BY <1>5 DEF GcInv, InUse, Calls
    <2> QED  BY <1>5, <2>4, <2>5 DEF GcInv, InUse
<1>22. CellsPoint'
    <2> SUFFICES ASSUME NEW x \in Live
                 PROVE  /\ cell'[x].to \in Live \cup {NULL}
                        /\ cell'[x].watcher \in Sound \cup {NULL}
                        /\ x \notin dead => /\ \A s \in Slots : cell'[x].edge[s] \in Sound \cup {NULL}
                                            /\ cell'[x].env \in SoundEnvs' \cup {NULL}
                        /\ x \in dead => CaptureItem(x) \in todo \/ cell'[x].env = NULL
                        /\ cell'[x].kind # "lambda" => cell'[x].env = NULL
                        /\ \A s \in Slots : EdgeItem(x, s) \in todo
                              => cell'[x].edge[s] \in Live \cup dead \cup {NULL}
                        /\ CaptureItem(x) \in todo => cell'[x].env \in LiveEnvs' \cup dead \cup {NULL}
        BY <1>4, <1>5 DEF CellsPoint
    <2>1. /\ cell[x].to \in Live \cup {NULL}
          /\ cell[x].watcher \in Sound \cup {NULL}
          /\ x \notin dead => /\ \A s \in Slots : cell[x].edge[s] \in Sound \cup {NULL}
                              /\ cell[x].env \in SoundEnvs \cup {NULL}
          /\ x \in dead => CaptureItem(x) \in todo \/ cell[x].env = NULL
          /\ cell[x].kind # "lambda" => cell[x].env = NULL
          /\ \A s \in Slots : EdgeItem(x, s) \in todo => cell[x].edge[s] \in Live \cup dead \cup {NULL}
          /\ CaptureItem(x) \in todo => cell[x].env \in LiveEnvs \cup dead \cup {NULL}
        BY DEF GcInv, CellsPoint
    <2>2. cell[x].env = v => x \in K
        BY DEF Captures
    <2> QED  BY <1>3, <1>4, <1>5, <2>1, <2>2
<1>23. EnvsPoint'
    <2>1. \A u \in LiveEnvs : env[u].root # v
        BY DEF Children
    <2> QED  BY <1>3, <1>4, <1>5, <2>1 DEF GcInv, EnvsPoint
<1>24. Grounded'
    BY <1>3 DEF GcInv, Grounded
<1>25. CutIsDue'
    <2> SUFFICES ASSUME NEW x \in Sound, cell'[x].kind = "lambda", cell'[x].env = NULL
                 PROVE  cell'[x].nref = 1 /\ Has(work', x)
        BY <1>5 DEF CutIsDue, Has
    <2>1. x \in Live /\ x # v /\ x \in Cells
        BY <1>1 DEF Sound, Live
    <2>2. CASE x \in K
        <3>1. Has(q, x)
            BY <1>0, <1>6, <2>2 DEF Has
        <3> QED  BY <1>0, <1>4, <1>18, <2>1, <2>2, <3>1
    <2>3. CASE x \notin K
        <3>1. cell[x].nref = 1 /\ \E i \in DOMAIN work : work[i] = x
            BY <1>4, <2>1, <2>3 DEF GcInv, CutIsDue
        <3>2. Has(rest, x)
            BY <2>1, <3>1, ReleaseWork DEF Has
        <3> QED  BY <1>4, <1>18, <2>1, <3>1, <3>2
    <2> QED  BY <2>2, <2>3
<1>26. CellsCounted'
    <2> SUFFICES ASSUME NEW x \in Sound  PROVE cell'[x].nref = CellCount(x)'
        BY <1>5 DEF CellsCounted
    <2>1. x \in Live /\ x # NULL /\ x \notin Envs /\ x # v /\ x # root
        BY <1>1, <1>6, <1>5 DEF Sound, Live, SoundEnvs, LiveEnvs
    <2> DEFINE row == Row(v, q, x)
    <2>2. IsFiniteSet(row) /\ Cardinality(row) = Cardinality(Places(q, x))
        BY <1>7, RowCounted
    <2>3. row = {e \in {v} \X Vars : q[e[2]] = x}
        BY <1>6 DEF Row
    <2> HIDE DEF row
    <2>4. OwnBindings(x) = OwnBindings(x)' \cup row /\ OwnBindings(x)' \cap row = {}
        BY <1>1, <1>3, <2>1, <2>3 DEF OwnBindings, Bindings
    <2>5. Cardinality(OwnBindings(x)) = Cardinality(OwnBindings(x)') + Cardinality(row)
          /\ Cardinality(OwnBindings(x)') \in Nat
        <3>1. IsFiniteSet(OwnBindings(x)') /\ Cardinality(OwnBindings(x)') \in Nat
            BY <2>4, OwnFinite, FS_Subset, FS_CardinalityType DEF GcInv, GcTypeOK
        <3> QED  BY <2>2, <2>4, <3>1, CountApart
    <2>6. OwnEdges(x)' = OwnEdges(x) /\ Watched(x)' = Watched(x)
        BY <1>4 DEF OwnEdges, Edges, Watched
    <2>7. Cardinality(Due(x)') = Cardinality(Places(q, x)) + Cardinality(Due(x))
          /\ Cardinality(Due(x)) \in Nat
        BY <1>15, <1>16, <1>17, <2>1
    <2>8. cell[x].nref = held[x] + Cardinality(OwnEdges(x)) + Cardinality(OwnBindings(x))
                         + Cardinality(Watched(x)) + Cardinality(Due(x))
        BY DEF GcInv, CellsCounted, CellCount
    <2>9. /\ held[x] \in Nat /\ Cardinality(OwnEdges(x)) \in Nat
          /\ Cardinality(Watched(x)) \in Nat /\ Cardinality(Places(q, x)) \in Nat
        BY <1>15, <2>1, OwnFinite, OwnersFinite DEF GcInv, GcTypeOK, HeapTypeOK, Live
    <2>10. CellCount(x)' = held[x] + Cardinality(OwnEdges(x)) + Cardinality(OwnBindings(x)')
                         + Cardinality(Watched(x)) + Cardinality(Due(x)')
        BY <2>6 DEF CellCount
    <2>11. held[x] + Cardinality(OwnEdges(x)) + Cardinality(OwnBindings(x))
                   + Cardinality(Watched(x)) + Cardinality(Due(x)) = CellCount(x)'
        BY <2>2, <2>5, <2>7, <2>9, <2>10
    <2> QED  BY <1>4, <2>1, <2>8, <2>11
<1>27. EnvsCounted'
    <2> SUFFICES ASSUME NEW u \in SoundEnvs, u # v  PROVE env'[u].nref = EnvCount(u)'
        BY <1>5 DEF EnvsCounted
    <2>1. u # NULL /\ u \in Envs /\ u \notin Cells /\ u \in LiveEnvs'
        BY <1>3 DEF SoundEnvs, LiveEnvs
    <2>2. Captures(u)' = Captures(u)
        <3>1. \A c \in K : cell[c].env = v
            BY DEF Captures
        <3> QED  BY <1>4, <2>1, <3>1 DEF Captures
    <2>3. Calls(u)' = Calls(u)
        BY DEF Calls
    <2>4. Cardinality(Children(u)) = Cardinality(Children(u)') + (IF u = root THEN 1 ELSE 0)
          /\ Cardinality(Children(u)') \in Nat
        <3>1. IsFiniteSet(Children(u))
            BY OwnersFinite DEF GcInv, GcTypeOK
        <3>2. Children(u)' = Children(u) \ {v} /\ (v \in Children(u) <=> u = root)
            BY <1>1, <1>3 DEF Children
        <3>3. IsFiniteSet(Children(u)') /\ Cardinality(Children(u)') \in Nat
            BY <3>1, <3>2, FS_Subset, FS_CardinalityType
        <3>4. CASE v \in Children(u)
            <4>1. Children(u)' = Children(u) \ {v} /\ u = root
                BY <3>2, <3>4
            <4>2. Cardinality(Children(u)) = Cardinality(Children(u) \ {v}) + 1
                BY <3>1, <3>4, CountRemove
            <4> QED  BY <3>3, <4>1, <4>2
        <3>5. CASE v \notin Children(u)
            <4>1. Children(u)' = Children(u) /\ u # root
                BY <3>2, <3>5
            <4>2. Cardinality(Children(u)') = Cardinality(Children(u))
                BY <4>1
            <4> QED  BY <3>3, <4>1, <4>2
        <3> QED  BY <3>4, <3>5
    <2>5. Cardinality(Due(u)') = (IF u = root THEN 1 ELSE 0) + Cardinality(Due(u))
          /\ Cardinality(Due(u)) \in Nat
        <3>1. Cardinality(Places(q, u)) = 0
            <4>1. \A x \in Vars : q[x] # u
                BY <1>6, <2>1 DEF Sound, Live
            <4> QED  BY <1>6, <1>7, <4>1, PlacesCounted
        <3> QED  BY <1>16, <1>17, <3>1
    <2>6. env[u].nref = Cardinality(Captures(u)) + Cardinality(Children(u))
                        + Cardinality(Calls(u)) + Cardinality(Due(u))
        BY DEF GcInv, EnvsCounted, EnvCount
    <2>7. Cardinality(Captures(u)) \in Nat /\ Cardinality(Calls(u)) \in Nat
        BY OwnersFinite DEF GcInv, GcTypeOK
    <2>8. EnvCount(u)' = Cardinality(Captures(u)) + Cardinality(Children(u)')
                         + Cardinality(Calls(u)) + Cardinality(Due(u)')
        BY <2>2, <2>3 DEF EnvCount
    <2>9. Cardinality(Captures(u)) + Cardinality(Children(u))
          + Cardinality(Calls(u)) + Cardinality(Due(u)) = EnvCount(u)'
        BY <2>4, <2>5, <2>7, <2>8
    <2> QED  BY <1>3, <2>1, <2>6, <2>9
<1> QED  BY <1>19, <1>20, <1>21, <1>22, <1>23, <1>24, <1>25, <1>26, <1>27 DEF GcInv

\* Two variables of a frame do not hold one closure that has a single owner.
LEMMA SelfApart ==
    ASSUME GcInv, NEW v \in SoundEnvs, Unshared(v),
           NEW x \in SelfClosures(v), NEW y \in SelfClosures(v), env[v].val[x] = env[v].val[y]
    PROVE  x = y
<1> SUFFICES ASSUME x # y, NEW c, c = env[v].val[x]  PROVE FALSE
    OBVIOUS
<1>1. /\ x \in Vars /\ y \in Vars /\ c # NULL /\ cell[c].nref = 1 /\ env[v].val[y] = c
      /\ v \in LiveEnvs /\ v \notin dead
    BY DEF SelfClosures, Unshared, SoundEnvs
<1>2. c \in Sound
    BY <1>1 DEF GcInv, EnvsPoint
<1> DEFINE B == OwnBindings(c)
           a == <<v, x>>
           b == <<v, y>>
<1>3. a \in B /\ b \in B /\ a # b
    BY <1>1 DEF OwnBindings, Bindings
<1>4. IsFiniteSet(B) /\ Cardinality(B) \in Nat
    BY OwnFinite DEF GcInv, GcTypeOK
<1>5. 1 = held[c] + Cardinality(OwnEdges(c)) + Cardinality(B)
          + Cardinality(Watched(c)) + Cardinality(Due(c))
    BY <1>1, <1>2 DEF GcInv, CellsCounted, CellCount
<1>6. /\ held[c] \in Nat /\ Cardinality(OwnEdges(c)) \in Nat
      /\ Cardinality(Watched(c)) \in Nat /\ Cardinality(Due(c)) \in Nat
    BY <1>2, OwnFinite, OwnersFinite DEF GcInv, GcTypeOK, HeapTypeOK, Sound, Live
<1> HIDE DEF B, a, b
<1>7. Cardinality(B) = Cardinality(B \ {a}) + 1
    BY <1>3, <1>4, CountRemove
<1>8. IsFiniteSet(B \ {a}) /\ b \in B \ {a}
    BY <1>3, <1>4, FS_RemoveElement
<1>9. Cardinality(B \ {a}) = Cardinality((B \ {a}) \ {b}) + 1
    BY <1>8, CountRemove
<1>10. IsFiniteSet((B \ {a}) \ {b})
    BY <1>8, FS_RemoveElement
<1>11. Cardinality((B \ {a}) \ {b}) \in Nat
    BY <1>10, FS_CardinalityType
<1> QED  BY <1>4, <1>5, <1>6, <1>7, <1>9, <1>11

\* destroy_env: a frame that its own closures alone keep has no other owner.
LEMMA DestroyStep ==
    ASSUME GcInv, work # <<>>, NEW v \in Envs, v = Head(work), DestroyEnv(v),
           UNCHANGED <<held, frames, todo, dead>>
    PROVE  GcInv'
<1>1. v \in SoundEnvs /\ v \in LiveEnvs /\ env[v] \in Env
    BY ReleaseWork DEF Sound, SoundEnvs, Live, LiveEnvs, GcInv, GcTypeOK, HeapTypeOK
<1>2. env[v].nref \in Nat \ {0}
    BY <1>1 DEF Env
<1> SUFFICES ASSUME NEW k \in Nat, env[v].nref = k + 1, k = env[v].nref - 1  PROVE GcInv'
    BY <1>2
<1> DEFINE S == SelfClosures(v)
           closures == {env[v].val[x] : x \in S}
           K == IF k > 0 THEN closures ELSE {}
           rest == Tail(work)
<1>3. CASE k > 0 /\ ~ OnlySelfClosures(v, k)
    <2>1. env' = CountSet(env, v, k) /\ work' = Tail(work) /\ UNCHANGED cell
        BY <1>3 DEF DestroyEnv, CountSet
    <2> QED  BY <1>3, <2>1, ReleaseEnv
<1>4. CASE ~ (k > 0 /\ ~ OnlySelfClosures(v, k))
    <2>1. /\ cell' = Cut(cell, K) /\ env' = Gone(env, v)
          /\ work' = Append(env[v].val, env[v].root) \o Tail(work)
        BY <1>4 DEF DestroyEnv, Cut, Gone
    <2>2. /\ work' \in Seq(Cells \cup Envs \cup {NULL})
          /\ WorkIs(work', env[v].val, env[v].root, rest)
        BY <2>1, FrameDue
    <2>3. /\ k + 1 = Cardinality(Captures(v)) + Cardinality(Children(v))
                     + Cardinality(Calls(v)) + Cardinality(Due(v))
          /\ Cardinality(Due(v)) = Cardinality(Places(rest, v)) + 1
        <3>1. Cardinality(Due(v)) = Cardinality(Places(rest, v)) + 1
            BY ReleaseWork
        <3> QED  BY <1>1, <3>1 DEF GcInv, EnvsCounted, EnvCount
    <2>4. /\ Cardinality(Captures(v)) \in Nat /\ IsFiniteSet(Captures(v))
          /\ Cardinality(Children(v)) \in Nat /\ IsFiniteSet(Children(v))
          /\ Cardinality(Calls(v)) \in Nat /\ IsFiniteSet(Calls(v))
          /\ Cardinality(Places(rest, v)) \in Nat
        BY OwnersFinite, ReleaseWork DEF GcInv, GcTypeOK
    <2>5. /\ \A c \in K : /\ c \in Sound /\ cell[c].kind = "lambda" /\ cell[c].nref = 1
                          /\ \E x \in Vars : env[v].val[x] = c
          /\ K \subseteq Captures(v)
          /\ Cardinality(K) = k
        <3>1. CASE k = 0
            BY <3>1, FS_EmptySet
        <3>2. CASE k # 0
            <4>1. Unshared(v) /\ Cardinality(S) = k /\ K = closures
                <5>1. k > 0
                    BY <3>2
                <5>2. OnlySelfClosures(v, k)
                    BY <1>4, <5>1
                <5>3. K = closures
                    BY <5>1
                <5> HIDE DEF K, closures
                <5> QED  BY <5>2, <5>3 DEF OnlySelfClosures
            <4>2. S \subseteq Vars /\ IsFiniteSet(S)
                BY PlacesFinite, FS_Subset, SMTT(40) DEF SelfClosures
            <4>3. \A c \in closures : /\ c \in Sound /\ cell[c].kind = "lambda" /\ cell[c].nref = 1
                                      /\ cell[c].env = v /\ \E x \in Vars : env[v].val[x] = c
                BY <1>1, <4>1 DEF SelfClosures, Unshared, GcInv, EnvsPoint, SoundEnvs
            <4>4. closures \subseteq Captures(v)
                BY <4>3 DEF Captures, Sound
            <4> DEFINE f == [x \in S |-> env[v].val[x]]
            <4>5. f \in Bijection(S, closures)
                <5>1. f \in [S -> closures]
                    OBVIOUS
                <5>2. \A x, y \in S : f[x] = f[y] => x = y
                    BY <1>1, <4>1, SelfApart
                <5>3. \A c \in closures : \E x \in S : f[x] = c
                    OBVIOUS
                <5> QED  BY <5>1, <5>2, <5>3 DEF Bijection, Injection, Surjection, IsInjective
            <4>6. Cardinality(closures) = k
                <5> HIDE DEF closures, f, S
                <5> QED  BY <4>1, <4>2, <4>5, FS_Bijection DEF ExistsBijection
            <4> QED  BY <4>1, <4>3, <4>4, <4>6
        <3> QED  BY <3>1, <3>2
    <2> HIDE DEF K, rest, S, closures
    <2>6. Cardinality(K) <= Cardinality(Captures(v))
        BY <2>4, <2>5, FS_Subset
    <2>7. /\ Cardinality(Captures(v)) = k /\ Cardinality(Children(v)) = 0
          /\ Cardinality(Calls(v)) = 0 /\ Cardinality(Places(rest, v)) = 0
        BY <2>3, <2>4, <2>5, <2>6
    <2>8. Captures(v) = K
        BY <2>4, <2>5, <2>7, FS_Subset
    <2>9. Children(v) = {} /\ Calls(v) = {}
        BY <2>4, <2>7, FS_EmptySet
    <2>10. ~ Has(Tail(work), v)
        BY <2>7, ReleaseWork DEF rest, Has
    <2>11. WorkIs(work', env[v].val, env[v].root, Tail(work))
        BY <2>2 DEF rest
    <2>12. OwnClosures(v, K)
        BY <2>5 DEF OwnClosures
    <2>13. cell' = Cut(cell, K) /\ env' = Gone(env, v)
        BY <2>1
    <2>14. work' \in Seq(Cells \cup Envs \cup {NULL})
        BY <2>2
    <2> QED  BY <2>8, <2>9, <2>10, <2>11, <2>12, <2>13, <2>14, ReleaseFrame
<1> QED  BY <1>3, <1>4

\* unrefexp
LEMMA UnrefStep ==
    ASSUME GcInv, work # <<>>, NEW c \in Cells, c = Head(work), Unref(c),
           UNCHANGED <<held, frames, todo, dead>>
    PROVE  GcInv'
<1>1. c \in Live /\ cell[c] \in Cell
    BY ReleaseWork DEF Sound, SoundEnvs, Live, LiveEnvs, GcInv, GcTypeOK, HeapTypeOK
<1>2. cell[c].nref \in Nat \ {0}
    BY <1>1 DEF Cell
<1>3. CASE LastRef(c)
    <2>1. cell[c].nref = 1 /\ cell' = Freed(cell, c) /\ work' = Owned(c) \o Tail(work) /\ UNCHANGED env
        BY <1>3 DEF Unref, LastRef
    <2> QED  BY <2>1, ReleaseLast
<1>4. CASE ~ LastRef(c)
    <2> DEFINE k == cell[c].nref - 1
    <2>1. k \in Nat \ {0} /\ cell[c].nref = k + 1
        BY <1>2, <1>4 DEF LastRef
    <2>2. cell' = CountSet(cell, c, k) /\ work' = Tail(work) /\ UNCHANGED env
        BY <1>4 DEF Unref, CountSet
    <2> HIDE DEF k
    <2> QED  BY <2>1, <2>2, ReleaseCell
<1> QED  BY <1>3, <1>4

\* A step of a cascade preserves the invariant, in a sweep as between two.
LEMMA ReleaseKeeps ==
    ASSUME GcInv, Release, UNCHANGED <<todo, dead>>
    PROVE  GcInv'
<1>1. work # <<>> /\ UNCHANGED <<held, frames>>
    BY DEF Release
<1>2. CASE Head(work) = NULL /\ work' = Tail(work) /\ UNCHANGED <<cell, env>>
    BY <1>1, <1>2, ReleaseNull
<1>3. CASE Head(work) \in Envs /\ DestroyEnv(Head(work))
    BY <1>1, <1>3, DestroyStep
<1>4. CASE Head(work) \in Cells /\ Unref(Head(work))
    BY <1>1, <1>4, UnrefStep
<1> QED  BY <1>2, <1>3, <1>4 DEF Release

-----------------------------------------------------------------------------
(* The sweep, item by item. *)

\* What an item of the sweep is.
LEMMA ItemForm ==
    ASSUME GcInv, NEW item \in todo, NEW p, NEW x, NEW y, p = item[1][1], x = item[1][2], y = item[2]
    PROVE  \/ p = EdgePass /\ x \in dead \cap Cells /\ y \in Slots /\ item = EdgeItem(x, y)
           \/ p = CapturePass /\ x \in dead \cap Cells /\ item = CaptureItem(x)
           \/ p = BindingPass /\ x \in dead \cap Envs /\ y \in Vars /\ item = BindingItem(x, y)
           \/ p = EnvPass /\ x \in dead \cap Envs /\ item = EnvItem(x)
           \/ p = CellPass /\ x \in dead \cap Cells /\ item = CellItem(x)
<1>1. item \in (({EdgePass} \X (dead \cap Cells)) \X Slots)
               \cup (({CapturePass} \X (dead \cap Cells)) \X {0})
               \cup (({BindingPass} \X (dead \cap Envs)) \X Vars)
               \cup (({EnvPass} \X (dead \cap Envs)) \X {0})
               \cup (({CellPass} \X (dead \cap Cells)) \X {0})
    BY DEF GcInv, SweepRight
<1>2. CASE item \in (({EdgePass} \X (dead \cap Cells)) \X Slots)
    BY <1>2 DEF EdgeItem
<1>3. CASE item \in (({CapturePass} \X (dead \cap Cells)) \X {0})
    BY <1>3 DEF CaptureItem
<1>4. CASE item \in (({BindingPass} \X (dead \cap Envs)) \X Vars)
    BY <1>4 DEF BindingItem
<1>5. CASE item \in (({EnvPass} \X (dead \cap Envs)) \X {0})
    BY <1>5 DEF EnvItem
<1>6. CASE item \in (({CellPass} \X (dead \cap Cells)) \X {0})
    BY <1>6 DEF CellItem
<1> QED  BY <1>1, <1>2, <1>3, <1>4, <1>5, <1>6

\* The pass of an item, and that different items are different.
LEMMA ItemPass ==
    /\ \A c, s : EdgeItem(c, s)[1][1] = 1
    /\ \A c : CaptureItem(c)[1][1] = 2
    /\ \A v, x : BindingItem(v, x)[1][1] = 3
    /\ \A v : EnvItem(v)[1][1] = 4
    /\ \A c : CellItem(c)[1][1] = 5
    /\ \A c, s, d, t : EdgeItem(c, s) = EdgeItem(d, t) <=> c = d /\ s = t
    /\ \A c, d : CaptureItem(c) = CaptureItem(d) <=> c = d
    /\ \A v, x, u, y : BindingItem(v, x) = BindingItem(u, y) <=> v = u /\ x = y
    /\ \A v, u : EnvItem(v) = EnvItem(u) <=> v = u
    /\ \A c, d : CellItem(c) = CellItem(d) <=> c = d
BY DEF EdgeItem, CaptureItem, BindingItem, EnvItem, CellItem,
       EdgePass, CapturePass, BindingPass, EnvPass, CellPass

\* While a living owner is swept the dead are who they were; when nothing is
\* left of the sweep none of them is alive.
LEMMA SweepDead ==
    ASSUME GcInv, NEW item \in todo, todo' = todo \ {item},
           dead' = IF todo' = {} THEN {} ELSE dead,
           \A c \in dead \cap Cells : /\ c \in Live' <=> CellItem(c) \in todo'
                                      /\ c \in Live' \/ \A i \in todo' : i[1][1] = CellPass,
           \A v \in dead \cap Envs : /\ v \in LiveEnvs' <=> EnvItem(v) \in todo'
                                     /\ v \in LiveEnvs' \/ \A i \in todo' : i[1][1] >= EnvPass
    PROVE  /\ SweepRight'
           /\ Sound' = Live' \ dead /\ SoundEnvs' = LiveEnvs' \ dead
           /\ \A c \in Live' : c \in dead' <=> c \in dead
           /\ \A v \in LiveEnvs' : v \in dead' <=> v \in dead
           /\ todo' \subseteq todo /\ (todo' # {} => dead' = dead)
           /\ dead' \subseteq Cells \cup Envs /\ (todo' # {} => dead' # {})
<1>1. Live' \subseteq Cells /\ LiveEnvs' \subseteq Envs
    BY DEF Live, LiveEnvs
<1>2. (\A c \in Live' : c \in dead' <=> c \in dead) /\ (\A v \in LiveEnvs' : v \in dead' <=> v \in dead)
    BY <1>1
<1>3. Sound' = Live' \ dead /\ SoundEnvs' = LiveEnvs' \ dead
    BY <1>2 DEF Sound, SoundEnvs
<1>4. SweepRight'
    <2>1. CASE todo' = {}
        BY <2>1 DEF SweepRight
    <2>2. CASE todo' # {}
        BY <2>2 DEF GcInv, SweepRight
    <2> QED  BY <2>1, <2>2
<1>5. dead \subseteq Cells \cup Envs /\ dead # {}
    BY DEF GcInv, GcTypeOK
<1> QED  BY <1>2, <1>3, <1>4, <1>5

\* The release an item makes.
LEMMA SweepWork ==
    ASSUME Quiet, NEW y, NEW U, y \in U, y \notin dead => y \in Sound \cup SoundEnvs \cup {NULL},
           ReleaseEdge(y)
    PROVE  /\ work' \in Seq(U)
           /\ \A x : Has(work', x) => x = y /\ x \in Sound \cup SoundEnvs
           /\ \A x : x # NULL /\ x \notin dead =>
                 Cardinality(Due(x)') = (IF x = y THEN 1 ELSE 0) /\ Cardinality(Due(x)) = 0
<1>1. DOMAIN work = {} /\ \A x : Cardinality(Due(x)) = 0
    BY FS_EmptySet DEF Quiet, Due
<1>2. CASE Survives(y)
    <2>1. work' = <<y>> /\ y # NULL /\ y \notin dead
        BY <1>2 DEF ReleaseEdge, Survives
    <2>2. \A x : Due(x)' = Places(<<y>>, x)
        BY <2>1 DEF Due, Places
    <2>3. \A x : Cardinality(Due(x)') = IF x = y THEN 1 ELSE 0
        BY <2>2, PlacesOne
    <2>4. work' \in Seq(U)
        BY <2>1
    <2>5. \A x : Has(work', x) => x = y
        BY <2>1 DEF Has
    <2> QED  BY <1>1, <2>1, <2>3, <2>4, <2>5
<1>3. CASE ~ Survives(y)
    <2>1. work' = <<>>
        BY <1>3 DEF ReleaseEdge
    <2>2. \A x : Due(x)' = {}
        BY <2>1 DEF Due
    <2>3. \A x : Cardinality(Due(x)') = 0
        BY <2>2, FS_EmptySet
    <2>4. work' \in Seq(U) /\ \A x : ~ Has(work', x)
        BY <2>1 DEF Has
    <2> QED  BY <1>1, <1>3, <2>3, <2>4 DEF Survives
<1> QED  BY <1>2, <1>3

\* What every item of the sweep does: its owner, or nothing, is freed, once no
\* edge and no binding of it is left to release, and the others stay as they are.
SweepShape(item) ==
    /\ todo' = todo \ {item} /\ dead' = (IF todo' = {} THEN {} ELSE dead)
    /\ UNCHANGED <<held, frames>>
    /\ cell' \in [Cells -> Cell \cup {NULL}] /\ env' \in [Envs -> Env \cup {NULL}]
    /\ Live' \subseteq Live /\ LiveEnvs' \subseteq LiveEnvs
    /\ Live \ Live' \subseteq dead /\ LiveEnvs \ LiveEnvs' \subseteq dead
    /\ \A c \in Live' : /\ cell'[c].kind = cell[c].kind /\ cell'[c].nref = cell[c].nref
                        /\ cell'[c].edge = cell[c].edge /\ cell'[c].watcher = cell[c].watcher
                        /\ cell'[c].to \in Live' \cup {NULL}
                        /\ cell'[c].env = cell[c].env \/ (c \in dead /\ cell'[c].env = NULL)
                        /\ c \in dead => CaptureItem(c) \in todo' \/ cell'[c].env = NULL
    /\ \A v \in LiveEnvs' : env'[v] = env[v]
    /\ \A c \in Live \ Live' : \A s \in Slots : EdgeItem(c, s) \notin todo
    /\ \A v \in LiveEnvs \ LiveEnvs' : \A x \in Vars : BindingItem(v, x) \notin todo
    /\ \A c \in dead \cap Cells : /\ c \in Live' <=> CellItem(c) \in todo'
                                  /\ c \in Live' \/ \A i \in todo' : i[1][1] = CellPass
    /\ \A v \in dead \cap Envs : /\ v \in LiveEnvs' <=> EnvItem(v) \in todo'
                                 /\ v \in LiveEnvs' \/ \A i \in todo' : i[1][1] >= EnvPass

\* The work an item leaves: at most the release of y.
SweptWork(y) ==
    /\ work' \in Seq(Cells \cup Envs \cup {NULL})
    /\ \A x : Has(work', x) => x = y /\ x \in Sound \cup SoundEnvs \cup {NULL}
    /\ \A x : x # NULL /\ x \notin dead =>
          Cardinality(Due(x)') = (IF x = y THEN 1 ELSE 0) /\ Cardinality(Due(x)) = 0

\* The release an item makes is such a one.
LEMMA SweepReleases ==
    ASSUME Quiet, NEW y \in Cells \cup Envs \cup {NULL},
           y \notin dead => y \in Sound \cup SoundEnvs \cup {NULL}, ReleaseEdge(y)
    PROVE  SweptWork(y)
<1> DEFINE U == Cells \cup Envs \cup {NULL}
<1>1. y \in U
    OBVIOUS
<1> HIDE DEF U
<1>2. /\ work' \in Seq(U)
      /\ \A x : Has(work', x) => x = y /\ x \in Sound \cup SoundEnvs
      /\ \A x : x # NULL /\ x \notin dead =>
            Cardinality(Due(x)') = (IF x = y THEN 1 ELSE 0) /\ Cardinality(Due(x)) = 0
    BY <1>1, SweepWork
<1> QED  BY <1>2 DEF U, SweptWork

\* The sound are untouched by an item of the sweep.
LEMMA SweepSound ==
    ASSUME GcInv, NEW item \in todo, SweepShape(item)
    PROVE  /\ SweepRight' /\ Sound' = Sound /\ SoundEnvs' = SoundEnvs
           /\ \A c \in Live' : c \in dead' <=> c \in dead
           /\ \A v \in LiveEnvs' : v \in dead' <=> v \in dead
           /\ todo' \subseteq todo /\ (todo' # {} => dead' = dead)
           /\ dead' \subseteq Cells \cup Envs /\ (todo' # {} => dead' # {})
<1>1. /\ SweepRight'
      /\ Sound' = Live' \ dead /\ SoundEnvs' = LiveEnvs' \ dead
      /\ \A c \in Live' : c \in dead' <=> c \in dead
      /\ \A v \in LiveEnvs' : v \in dead' <=> v \in dead
      /\ todo' \subseteq todo /\ (todo' # {} => dead' = dead)
      /\ dead' \subseteq Cells \cup Envs /\ (todo' # {} => dead' # {})
    BY SweepDead DEF SweepShape
<1>2. Live' \ dead = Live \ dead /\ LiveEnvs' \ dead = LiveEnvs \ dead
    BY DEF SweepShape
<1> QED  BY <1>1, <1>2 DEF Sound, SoundEnvs

\* All of the invariant but the counts survives an item.
LEMMA SweepPoints ==
    ASSUME GcInv, Quiet, NEW item \in todo, SweepShape(item), NEW y, SweptWork(y)
    PROVE  GcTypeOK' /\ InUse' /\ CellsPoint' /\ EnvsPoint' /\ Grounded' /\ CutIsDue'
<1>1. /\ SweepRight' /\ Sound' = Sound /\ SoundEnvs' = SoundEnvs
      /\ \A c \in Live' : c \in dead' <=> c \in dead
      /\ \A v \in LiveEnvs' : v \in dead' <=> v \in dead
      /\ todo' \subseteq todo /\ (todo' # {} => dead' = dead)
      /\ dead' \subseteq Cells \cup Envs /\ (todo' # {} => dead' # {})
    BY SweepSound
<1>2. GcTypeOK'
    <2>1. held' \in [Cells -> Nat] /\ frames' \in Seq(Envs) /\ work' \in Seq(Cells \cup Envs \cup {NULL})
        BY DEF GcInv, GcTypeOK, HeapTypeOK, SweepShape, SweptWork
    <2> QED  BY <1>1, <2>1 DEF GcTypeOK, HeapTypeOK, SweepShape
<1>3. InUse'
    <2>1. \A i \in DOMAIN work' : work'[i] \in Sound \cup SoundEnvs \cup {NULL}
        BY DEF SweptWork, Has
    <2>2. held' = held /\ frames' = frames
        BY DEF SweepShape
    <2> QED  BY <1>1, <2>1, <2>2 DEF GcInv, InUse
<1>4. CellsPoint'
    <2> SUFFICES ASSUME NEW c \in Live'
                 PROVE  /\ cell'[c].to \in Live' \cup {NULL}
                        /\ cell'[c].watcher \in Sound' \cup {NULL}
                        /\ c \notin dead' => /\ \A s \in Slots : cell'[c].edge[s] \in Sound' \cup {NULL}
                                             /\ cell'[c].env \in SoundEnvs' \cup {NULL}
                        /\ c \in dead' => \/ CaptureItem(c) \in todo'
                                          \/ cell'[c].env = NULL
                        /\ cell'[c].kind # "lambda" => cell'[c].env = NULL
                        /\ \A s \in Slots : EdgeItem(c, s) \in todo'
                              => cell'[c].edge[s] \in Live' \cup dead' \cup {NULL}
                        /\ CaptureItem(c) \in todo' => cell'[c].env \in LiveEnvs' \cup dead' \cup {NULL}
        BY DEF CellsPoint
    <2>1. /\ cell'[c].kind = cell[c].kind
          /\ cell'[c].edge = cell[c].edge /\ cell'[c].watcher = cell[c].watcher
          /\ cell'[c].to \in Live' \cup {NULL}
          /\ cell'[c].env = cell[c].env \/ (c \in dead /\ cell'[c].env = NULL)
          /\ c \in dead => CaptureItem(c) \in todo' \/ cell'[c].env = NULL
          /\ c \in Live
        BY DEF SweepShape
    <2>2. /\ cell[c].watcher \in Sound \cup {NULL}
          /\ c \notin dead => /\ \A s \in Slots : cell[c].edge[s] \in Sound \cup {NULL}
                              /\ cell[c].env \in SoundEnvs \cup {NULL}
          /\ cell[c].kind # "lambda" => cell[c].env = NULL
          /\ \A s \in Slots : EdgeItem(c, s) \in todo => cell[c].edge[s] \in Live \cup dead \cup {NULL}
          /\ CaptureItem(c) \in todo => cell[c].env \in LiveEnvs \cup dead \cup {NULL}
        BY <2>1 DEF GcInv, CellsPoint
    <2>3. Live \subseteq Live' \cup dead /\ LiveEnvs \subseteq LiveEnvs' \cup dead
        BY DEF SweepShape
    <2>4. c \in dead' <=> c \in dead
        BY <1>1
    <2>5. \A s \in Slots : EdgeItem(c, s) \in todo' => cell'[c].edge[s] \in Live' \cup dead' \cup {NULL}
        BY <1>1, <2>1, <2>2, <2>3
    <2>6. CaptureItem(c) \in todo' => cell'[c].env \in LiveEnvs' \cup dead' \cup {NULL}
        BY <1>1, <2>1, <2>2, <2>3
    <2>7. cell'[c].watcher \in Sound' \cup {NULL}
        BY <1>1, <2>1, <2>2
    <2>8. c \notin dead' => /\ \A s \in Slots : cell'[c].edge[s] \in Sound' \cup {NULL}
                            /\ cell'[c].env \in SoundEnvs' \cup {NULL}
        BY <1>1, <2>1, <2>2, <2>4
    <2> QED  BY <2>1, <2>2, <2>4, <2>5, <2>6, <2>7, <2>8
<1>5. EnvsPoint'
    <2> SUFFICES ASSUME NEW v \in LiveEnvs'
                 PROVE  /\ v \notin dead' => /\ \A x \in Vars : env'[v].val[x] \in Sound' \cup {NULL}
                                             /\ env'[v].root \in SoundEnvs' \cup {NULL}
                        /\ \A x \in Vars : BindingItem(v, x) \in todo'
                              => env'[v].val[x] \in Live' \cup dead' \cup {NULL}
                        /\ env'[v].root \in LiveEnvs' \cup dead' \cup {NULL}
        BY DEF EnvsPoint
    <2>1. env'[v] = env[v] /\ v \in LiveEnvs
        BY DEF SweepShape
    <2>2. /\ v \notin dead => /\ \A x \in Vars : env[v].val[x] \in Sound \cup {NULL}
                              /\ env[v].root \in SoundEnvs \cup {NULL}
          /\ \A x \in Vars : BindingItem(v, x) \in todo => env[v].val[x] \in Live \cup dead \cup {NULL}
          /\ env[v].root \in LiveEnvs \cup dead \cup {NULL}
        BY <2>1 DEF GcInv, EnvsPoint
    <2>3. Live \subseteq Live' \cup dead /\ LiveEnvs \subseteq LiveEnvs' \cup dead
        BY DEF SweepShape
    <2>4. v \in dead' <=> v \in dead
        BY <1>1
    <2>5. v \notin dead' => /\ \A x \in Vars : env'[v].val[x] \in Sound' \cup {NULL}
                            /\ env'[v].root \in SoundEnvs' \cup {NULL}
        BY <1>1, <2>1, <2>2, <2>4
    <2>6. \A x \in Vars : BindingItem(v, x) \in todo' => env'[v].val[x] \in Live' \cup dead' \cup {NULL}
        BY <1>1, <2>1, <2>2, <2>3
    <2>7. env'[v].root \in LiveEnvs' \cup dead' \cup {NULL}
        <3>1. CASE todo' = {}
            <4>1. v \notin dead'
                BY <3>1 DEF SweepShape
            <4>2. SoundEnvs' \subseteq LiveEnvs'
                BY DEF SoundEnvs
            <4> QED  BY <2>5, <4>1, <4>2
        <3>2. CASE todo' # {}
            BY <1>1, <3>2, <2>1, <2>2, <2>3
        <3> QED  BY <3>1, <3>2
    <2> QED  BY <2>5, <2>6, <2>7
<1>6. Grounded'
    <2> SUFFICES ASSUME NEW B \in SUBSET LiveEnvs', B # {}
                 PROVE  \E v \in B : \A u \in B : env'[u].root # v
        BY DEF Grounded
    <2>1. B \in SUBSET LiveEnvs /\ \A u \in B : env'[u] = env[u]
        BY DEF SweepShape
    <2>2. \E v \in B : \A u \in B : env[u].root # v
        BY <2>1 DEF GcInv, Grounded
    <2> QED  BY <2>1, <2>2
<1>7. CutIsDue'
    <2> SUFFICES ASSUME NEW c \in Sound', cell'[c].kind = "lambda", cell'[c].env = NULL
                 PROVE  FALSE
        BY DEF CutIsDue
    <2>1. c \in Sound /\ c \in Live' /\ c \notin dead
        BY <1>1 DEF Sound
    <2>2. cell[c].kind = "lambda" /\ cell[c].env = NULL
        BY <2>1 DEF SweepShape
    <2>3. DOMAIN work = {}
        BY DEF Quiet
    <2> QED  BY <2>1, <2>2, <2>3 DEF GcInv, CutIsDue
<1> QED  BY <1>2, <1>3, <1>4, <1>5, <1>6, <1>7

\* Who owns a sound cell after an item: the edge or the binding it released is
\* gone, and no other.
LEMMA SweepOwners ==
    ASSUME GcInv, NEW item \in todo, SweepShape(item), NEW x
    PROVE  /\ OwnEdges(x)' = {e \in OwnEdges(x) : EdgeItem(e[1], e[2]) # item}
           /\ OwnBindings(x)' = {b \in OwnBindings(x) : BindingItem(b[1], b[2]) # item}
           /\ Watched(x)' = Watched(x) \cap Live'
           /\ Calls(x)' = Calls(x)
           /\ Children(x)' = Children(x) \cap LiveEnvs'
<1>1. /\ \A c \in Live' : c \in dead' <=> c \in dead
      /\ \A v \in LiveEnvs' : v \in dead' <=> v \in dead
      /\ todo' = todo \ {item}
    BY SweepSound DEF SweepShape
<1>2. item \in todo /\ \A c, s : EdgeItem(c, s) = item => c \in dead
    <2> SUFFICES ASSUME NEW c, NEW s, EdgeItem(c, s) = item  PROVE c \in dead
        OBVIOUS
    <2>1. item[1][2] = c /\ item[1][1] = 1
        BY DEF EdgeItem, EdgePass
    <2> QED  BY <2>1, ItemForm
<1>3. \A v, z : BindingItem(v, z) = item => v \in dead
    <2> SUFFICES ASSUME NEW v, NEW z, BindingItem(v, z) = item  PROVE v \in dead
        OBVIOUS
    <2>1. item[1][2] = v /\ item[1][1] = 3
        BY DEF BindingItem, BindingPass
    <2> QED  BY <2>1, ItemForm
<1>4. OwnEdges(x)' = {e \in OwnEdges(x) : EdgeItem(e[1], e[2]) # item}
    <2>1. Edges(x)' = {e \in Edges(x) : e[1] \in Live'}
        <3>1. Live' \subseteq Live /\ \A c \in Live' : cell'[c].edge = cell[c].edge
            BY DEF SweepShape
        <3> QED  BY <3>1 DEF Edges
    <2>2. \A e \in Edges(x) : e[1] \in Live /\ e[2] \in Slots
        BY DEF Edges
    <2>3. \A e \in OwnEdges(x) : e[1] \in Live'
        <3> SUFFICES ASSUME NEW e \in OwnEdges(x), e[1] \notin Live'  PROVE FALSE
            OBVIOUS
        <3>1. e \in Edges(x) /\ (e[1] \in dead => EdgeItem(e[1], e[2]) \in todo)
            BY DEF OwnEdges
        <3>2. e[1] \in Live \ Live' /\ e[2] \in Slots
            BY <2>2, <3>1
        <3>3. e[1] \in dead /\ EdgeItem(e[1], e[2]) \notin todo
            BY <3>2 DEF SweepShape
        <3> QED  BY <3>1, <3>3
    <2>4. OwnEdges(x)' = {e \in Edges(x)' : e[1] \in dead' => EdgeItem(e[1], e[2]) \in todo'}
        BY DEF OwnEdges, EdgeItem
    <2>5. OwnEdges(x) = {e \in Edges(x) : e[1] \in dead => EdgeItem(e[1], e[2]) \in todo}
        BY DEF OwnEdges
    <2>6. ASSUME NEW e \in OwnEdges(x)'
          PROVE  e \in OwnEdges(x) /\ EdgeItem(e[1], e[2]) # item
        BY <1>1, <1>2, <2>1, <2>4, <2>5, <2>6
    <2>7. ASSUME NEW e \in OwnEdges(x), EdgeItem(e[1], e[2]) # item
          PROVE  e \in OwnEdges(x)'
        BY <1>1, <2>1, <2>3, <2>4, <2>5, <2>7
    <2> QED  BY <2>6, <2>7
<1>5. OwnBindings(x)' = {b \in OwnBindings(x) : BindingItem(b[1], b[2]) # item}
    <2>1. Bindings(x)' = {e \in Bindings(x) : e[1] \in LiveEnvs'}
        <3>1. LiveEnvs' \subseteq LiveEnvs /\ \A c \in LiveEnvs' : env'[c] = env[c]
            BY DEF SweepShape
        <3> QED  BY <3>1 DEF Bindings
    <2>2. \A e \in Bindings(x) : e[1] \in LiveEnvs /\ e[2] \in Vars
        BY DEF Bindings
    <2>3. \A e \in OwnBindings(x) : e[1] \in LiveEnvs'
        <3> SUFFICES ASSUME NEW e \in OwnBindings(x), e[1] \notin LiveEnvs'  PROVE FALSE
            OBVIOUS
        <3>1. e \in Bindings(x) /\ (e[1] \in dead => BindingItem(e[1], e[2]) \in todo)
            BY DEF OwnBindings
        <3>2. e[1] \in LiveEnvs \ LiveEnvs' /\ e[2] \in Vars
            BY <2>2, <3>1
        <3>3. e[1] \in dead /\ BindingItem(e[1], e[2]) \notin todo
            BY <3>2 DEF SweepShape
        <3> QED  BY <3>1, <3>3
    <2>4. OwnBindings(x)' = {e \in Bindings(x)' : e[1] \in dead' => BindingItem(e[1], e[2]) \in todo'}
        BY DEF OwnBindings, BindingItem
    <2>5. OwnBindings(x) = {e \in Bindings(x) : e[1] \in dead => BindingItem(e[1], e[2]) \in todo}
        BY DEF OwnBindings
    <2>6. ASSUME NEW e \in OwnBindings(x)'
          PROVE  e \in OwnBindings(x) /\ BindingItem(e[1], e[2]) # item
        BY <1>1, <1>3, <2>1, <2>4, <2>5, <2>6
    <2>7. ASSUME NEW e \in OwnBindings(x), BindingItem(e[1], e[2]) # item
          PROVE  e \in OwnBindings(x)'
        BY <1>1, <2>1, <2>3, <2>4, <2>5, <2>7
    <2> QED  BY <2>6, <2>7
<1>6. Watched(x)' = Watched(x) \cap Live'
    <2>1. Live' \subseteq Live /\ \A c \in Live' : cell'[c].watcher = cell[c].watcher
        BY DEF SweepShape
    <2> QED  BY <2>1 DEF Watched
<1>7. Children(x)' = Children(x) \cap LiveEnvs'
    <2>1. LiveEnvs' \subseteq LiveEnvs /\ \A v \in LiveEnvs' : env'[v] = env[v]
        BY DEF SweepShape
    <2> QED  BY <2>1 DEF Children
<1>8. Calls(x)' = Calls(x)
    BY DEF SweepShape, Calls
<1> QED  BY <1>4, <1>5, <1>6, <1>7, <1>8

\* The counts of the sound survive an item, if what it releases gave up one
\* owner, and nothing else did.
LEMMA SweepCounts ==
    ASSUME GcInv, Quiet, NEW item \in todo, SweepShape(item), NEW y, SweptWork(y),
           \A x \in Sound : Cardinality(OwnEdges(x)) + Cardinality(OwnBindings(x)) + Cardinality(Watched(x))
               = Cardinality(OwnEdges(x)') + Cardinality(OwnBindings(x)') + Cardinality(Watched(x)')
                 + (IF x = y THEN 1 ELSE 0),
           \A v \in SoundEnvs : Cardinality(Captures(v)) + Cardinality(Children(v))
               = Cardinality(Captures(v)') + Cardinality(Children(v)') + (IF v = y THEN 1 ELSE 0)
    PROVE  CellsCounted' /\ EnvsCounted'
<1>1. Sound' = Sound /\ SoundEnvs' = SoundEnvs
    BY SweepSound
<1>2. HeapTypeOK /\ GcTypeOK'
    BY SweepPoints DEF GcInv, GcTypeOK
<1>3. HeapTypeOK'
    BY <1>2 DEF GcTypeOK
<1>4. CellsCounted'
    <2> SUFFICES ASSUME NEW x \in Sound
                 PROVE  cell'[x].nref = CellCount(x)'
        BY <1>1 DEF CellsCounted
    <2>1. cell'[x].nref = cell[x].nref /\ held'[x] = held[x]
        BY <1>1 DEF SweepShape, Sound
    <2>2. x \in Cells /\ x # NULL /\ x \notin dead
        BY DEF Sound, Live
    <2>3. held[x] \in Nat
        BY <1>2, <2>2 DEF HeapTypeOK
    <2>4. Cardinality(Due(x)') = (IF x = y THEN 1 ELSE 0) /\ Cardinality(Due(x)) = 0
        BY <2>2 DEF SweptWork
    <2>5. cell[x].nref = held[x] + Cardinality(OwnEdges(x)) + Cardinality(OwnBindings(x))
                         + Cardinality(Watched(x)) + Cardinality(Due(x))
        BY DEF GcInv, CellsCounted, CellCount
    <2>6. CellCount(x)' = held'[x] + Cardinality(OwnEdges(x)') + Cardinality(OwnBindings(x)')
                          + Cardinality(Watched(x)') + Cardinality(Due(x)')
        BY DEF CellCount
    <2>7. /\ Cardinality(OwnEdges(x)) \in Nat /\ Cardinality(OwnBindings(x)) \in Nat
          /\ Cardinality(Watched(x)) \in Nat
        BY <1>2, OwnFinite, OwnersFinite
    <2>8. /\ Cardinality(OwnEdges(x)') \in Nat /\ Cardinality(OwnBindings(x)') \in Nat
          /\ Cardinality(Watched(x)') \in Nat
        <3>1. OwnEdges(x)' \subseteq OwnEdges(x) /\ OwnBindings(x)' \subseteq OwnBindings(x)
              /\ Watched(x)' \subseteq Watched(x)
            BY SweepOwners
        <3>2. IsFiniteSet(OwnEdges(x)) /\ IsFiniteSet(OwnBindings(x)) /\ IsFiniteSet(Watched(x))
            BY <1>2, OwnFinite, OwnersFinite
        <3> QED  BY <3>1, <3>2, FS_Subset, FS_CardinalityType
    <2>9. Cardinality(OwnEdges(x)) + Cardinality(OwnBindings(x)) + Cardinality(Watched(x))
              = Cardinality(OwnEdges(x)') + Cardinality(OwnBindings(x)') + Cardinality(Watched(x)')
                + (IF x = y THEN 1 ELSE 0)
        OBVIOUS
    <2> HIDE DEF CellsCounted
    <2> QED  BY <2>1, <2>3, <2>4, <2>5, <2>6, <2>7, <2>8, <2>9
<1>5. EnvsCounted'
    <2> SUFFICES ASSUME NEW v \in SoundEnvs
                 PROVE  env'[v].nref = EnvCount(v)'
        BY <1>1 DEF EnvsCounted
    <2>1. env'[v] = env[v]
        BY <1>1 DEF SweepShape, SoundEnvs
    <2>2. v \in Envs /\ v # NULL /\ v \notin dead
        BY DEF SoundEnvs, LiveEnvs
    <2>4. Cardinality(Due(v)') = (IF v = y THEN 1 ELSE 0) /\ Cardinality(Due(v)) = 0
        BY <2>2 DEF SweptWork
    <2>5. env[v].nref = Cardinality(Captures(v)) + Cardinality(Children(v))
                        + Cardinality(Calls(v)) + Cardinality(Due(v))
        BY DEF GcInv, EnvsCounted, EnvCount
    <2>6. EnvCount(v)' = Cardinality(Captures(v)') + Cardinality(Children(v)')
                         + Cardinality(Calls(v)') + Cardinality(Due(v)')
        BY DEF EnvCount
    <2>7. /\ Cardinality(Captures(v)) \in Nat /\ Cardinality(Children(v)) \in Nat
          /\ Cardinality(Calls(v)) \in Nat
        BY <1>2, OwnersFinite
    <2>8. Calls(v)' = Calls(v)
        BY SweepOwners
    <2>9. Cardinality(Captures(v)') \in Nat /\ Cardinality(Children(v)') \in Nat
        <3>1. Captures(v)' \in SUBSET Cells /\ Children(v)' \in SUBSET Envs
            BY DEF Captures, Children, Live, LiveEnvs
        <3> QED  BY <3>1, FinitePlaces
    <2>10. Cardinality(Calls(v)') = Cardinality(Calls(v))
        BY <2>8
    <2>11. Cardinality(Captures(v)) + Cardinality(Children(v))
               = Cardinality(Captures(v)') + Cardinality(Children(v)') + (IF v = y THEN 1 ELSE 0)
        OBVIOUS
    <2> QED  BY <2>1, <2>4, <2>5, <2>6, <2>7, <2>9, <2>10, <2>11
<1> QED  BY <1>4, <1>5

\* An item that only releases an edge or a binding leaves everything as it is.
LEMMA SweepOnly ==
    ASSUME GcInv, NEW item \in todo, todo' = todo \ {item}, UNCHANGED <<cell, env>>,
           item[1][1] # EnvPass, item[1][1] # CellPass, item[1][1] # CapturePass,
           dead' = (IF todo' = {} THEN {} ELSE dead), UNCHANGED <<held, frames>>
    PROVE  SweepShape(item)
<1>1. Live' = Live /\ LiveEnvs' = LiveEnvs
    BY DEF Live, LiveEnvs
<1>2. cell \in [Cells -> Cell \cup {NULL}] /\ env \in [Envs -> Env \cup {NULL}]
    BY DEF GcInv, GcTypeOK, HeapTypeOK
<1>3. /\ \A c : CaptureItem(c) # item /\ CellItem(c) # item
      /\ \A v : EnvItem(v) # item
    BY ItemPass DEF EnvPass, CellPass, CapturePass
<1>4. \A c \in Live : /\ cell[c].to \in Live \cup {NULL}
                      /\ c \in dead => CaptureItem(c) \in todo \/ cell[c].env = NULL
    BY DEF GcInv, CellsPoint
<1>5. /\ \A c \in dead \cap Cells : /\ c \in Live <=> CellItem(c) \in todo
                                    /\ c \in Live \/ \A i \in todo : i[1][1] = CellPass
      /\ \A v \in dead \cap Envs : /\ v \in LiveEnvs <=> EnvItem(v) \in todo
                                   /\ v \in LiveEnvs \/ \A i \in todo : i[1][1] >= EnvPass
    BY DEF GcInv, SweepRight
<1>6. /\ \A c \in dead \cap Cells : /\ c \in Live' <=> CellItem(c) \in todo'
                                    /\ c \in Live' \/ \A i \in todo' : i[1][1] = CellPass
      /\ \A v \in dead \cap Envs : /\ v \in LiveEnvs' <=> EnvItem(v) \in todo'
                                   /\ v \in LiveEnvs' \/ \A i \in todo' : i[1][1] >= EnvPass
    BY <1>1, <1>3, <1>5
<1>7. \A c \in Live' : /\ cell'[c].kind = cell[c].kind /\ cell'[c].nref = cell[c].nref
                       /\ cell'[c].edge = cell[c].edge /\ cell'[c].watcher = cell[c].watcher
                       /\ cell'[c].to \in Live' \cup {NULL}
                       /\ cell'[c].env = cell[c].env
                       /\ c \in dead => CaptureItem(c) \in todo' \/ cell'[c].env = NULL
    BY <1>1, <1>3, <1>4
<1>8. cell' \in [Cells -> Cell \cup {NULL}] /\ env' \in [Envs -> Env \cup {NULL}]
    BY <1>2
<1>9. \A v \in LiveEnvs' : env'[v] = env[v]
    OBVIOUS
<1>10. /\ Live' \subseteq Live /\ LiveEnvs' \subseteq LiveEnvs
       /\ Live \ Live' \subseteq dead /\ LiveEnvs \ LiveEnvs' \subseteq dead
       /\ \A c \in Live \ Live' : \A s \in Slots : EdgeItem(c, s) \notin todo
       /\ \A v \in LiveEnvs \ LiveEnvs' : \A x \in Vars : BindingItem(v, x) \notin todo
    BY <1>1
<1>11. /\ todo' = todo \ {item} /\ dead' = (IF todo' = {} THEN {} ELSE dead)
       /\ UNCHANGED <<held, frames>>
    OBVIOUS
<1> QED  BY ONLY <1>6, <1>7, <1>8, <1>9, <1>10, <1>11 DEF SweepShape

\* The first pass: the edges of the dead cells drop the living.
LEMMA SweepEdge ==
    ASSUME GcInv, Quiet, NEW c \in dead \cap Cells, NEW s \in Slots, NEW item \in todo,
           item = EdgeItem(c, s), NEW y, y = cell[c].edge[s], ReleaseEdge(y), UNCHANGED <<cell, env>>,
           todo' = todo \ {item}, dead' = (IF todo' = {} THEN {} ELSE dead),
           UNCHANGED <<held, frames>>
    PROVE  GcInv'
<1>1. item[1][1] = EdgePass
    BY DEF EdgeItem
<1>2. SweepShape(item)
    BY <1>1, SweepOnly DEF EdgePass, CapturePass, EnvPass, CellPass
<1>3. c \in Live /\ cell[c] \in Cell
    <2>1. c \in Live
        BY <1>1 DEF GcInv, SweepRight, EdgePass, CellPass
    <2> QED  BY <2>1 DEF GcInv, GcTypeOK, HeapTypeOK, Live
<1>4. y \in Cells \cup {NULL} /\ (y \notin dead => y \in Sound \cup {NULL})
    <2>1. y \in Cells \cup {NULL}
        BY <1>3 DEF Cell
    <2>2. y \in Live \cup dead \cup {NULL}
        BY <1>3 DEF GcInv, CellsPoint
    <2> QED  BY <2>1, <2>2 DEF Sound
<1>5. SweptWork(y)
    BY <1>4, SweepReleases
<1>6. ASSUME NEW x \in Sound
      PROVE  Cardinality(OwnEdges(x)) + Cardinality(OwnBindings(x)) + Cardinality(Watched(x))
               = Cardinality(OwnEdges(x)') + Cardinality(OwnBindings(x)') + Cardinality(Watched(x)')
                 + (IF x = y THEN 1 ELSE 0)
    <2>1. OwnEdges(x)' = {e \in OwnEdges(x) : EdgeItem(e[1], e[2]) # item}
        BY <1>2, SweepOwners
    <2>2. OwnBindings(x)' = OwnBindings(x)
        <3>1. OwnBindings(x)' = {b \in OwnBindings(x) : BindingItem(b[1], b[2]) # item}
            BY <1>2, SweepOwners
        <3>2. \A b : BindingItem(b[1], b[2]) # item
            BY <1>1, ItemPass DEF EdgePass
        <3> QED  BY <3>1, <3>2
    <2>3. Watched(x)' = Watched(x)
        BY DEF Watched, Live
    <2>4. /\ IsFiniteSet(OwnEdges(x)) /\ Cardinality(OwnEdges(x)) \in Nat
          /\ Cardinality(OwnBindings(x)) \in Nat /\ Cardinality(Watched(x)) \in Nat
        BY OwnFinite, OwnersFinite DEF GcInv, GcTypeOK
    <2>5. \A e \in OwnEdges(x) : e = <<e[1], e[2]>> /\ cell[e[1]].edge[e[2]] = x
        BY DEF OwnEdges, Edges
    <2>6. \A e \in OwnEdges(x) : EdgeItem(e[1], e[2]) = item <=> e = <<c, s>>
        BY <2>5, ItemPass
    <2>7. OwnEdges(x)' = OwnEdges(x) \ {<<c, s>>}
        BY <2>1, <2>6
    <2>8. <<c, s>> \in OwnEdges(x) <=> x = y
        <3>1. x = y => <<c, s>> \in Edges(x)
            BY <1>3 DEF Edges
        <3> QED  BY <2>5, <3>1 DEF OwnEdges
    <2>9. Cardinality(OwnEdges(x)) = Cardinality(OwnEdges(x)') + (IF x = y THEN 1 ELSE 0)
        <3>1. CASE x = y
            <4>1. Cardinality(OwnEdges(x)) = Cardinality(OwnEdges(x) \ {<<c, s>>}) + 1
                BY <2>4, <2>8, <3>1, CountRemove
            <4> QED  BY <2>7, <3>1, <4>1
        <3>2. CASE x # y
            <4>1. OwnEdges(x)' = OwnEdges(x)
                BY <2>7, <2>8, <3>2
            <4>2. Cardinality(OwnEdges(x)') = Cardinality(OwnEdges(x))
                BY <4>1
            <4> QED  BY <2>4, <3>2, <4>2
        <3> QED  BY <3>1, <3>2
    <2>10. Cardinality(OwnEdges(x)') \in Nat
        BY <2>4, <2>7, FS_Subset, FS_CardinalityType
    <2>11. /\ Cardinality(OwnBindings(x)') = Cardinality(OwnBindings(x))
           /\ Cardinality(Watched(x)') = Cardinality(Watched(x))
        BY <2>2, <2>3
    <2> QED  BY <2>4, <2>9, <2>10, <2>11
<1>7. ASSUME NEW v \in SoundEnvs
      PROVE  Cardinality(Captures(v)) + Cardinality(Children(v))
               = Cardinality(Captures(v)') + Cardinality(Children(v)') + (IF v = y THEN 1 ELSE 0)
    <2>1. Captures(v)' = Captures(v) /\ Children(v)' = Children(v)
        BY DEF Captures, Children, Live, LiveEnvs
    <2>2. v # y
        BY <1>4 DEF SoundEnvs, LiveEnvs
    <2>3. Cardinality(Captures(v)) \in Nat /\ Cardinality(Children(v)) \in Nat
        BY OwnersFinite DEF GcInv, GcTypeOK
    <2>4. /\ Cardinality(Captures(v)') = Cardinality(Captures(v))
          /\ Cardinality(Children(v)') = Cardinality(Children(v))
        BY <2>1
    <2> QED  BY <2>2, <2>3, <2>4
<1>8. CellsCounted' /\ EnvsCounted'
    BY <1>2, <1>5, <1>6, <1>7, SweepCounts
<1>9. SweepRight'
    BY <1>2, SweepSound
<1>10. GcTypeOK' /\ InUse' /\ CellsPoint' /\ EnvsPoint' /\ Grounded' /\ CutIsDue'
    BY <1>2, <1>5, SweepPoints
<1> QED  BY <1>8, <1>9, <1>10 DEF GcInv

\* The third pass: the bindings of the dead frames drop the living.
LEMMA SweepBinding ==
    ASSUME GcInv, Quiet, NEW v \in dead \cap Envs, NEW z \in Vars, NEW item \in todo,
           item = BindingItem(v, z), NEW y, y = env[v].val[z], ReleaseEdge(y), UNCHANGED <<cell, env>>,
           todo' = todo \ {item}, dead' = (IF todo' = {} THEN {} ELSE dead),
           UNCHANGED <<held, frames>>
    PROVE  GcInv'
<1>1. item[1][1] = BindingPass
    BY DEF BindingItem
<1>2. SweepShape(item)
    BY <1>1, SweepOnly DEF BindingPass, CapturePass, EnvPass, CellPass
<1>3. v \in LiveEnvs /\ env[v] \in Env
    <2>1. v \in LiveEnvs
        BY <1>1 DEF GcInv, SweepRight, BindingPass, EnvPass
    <2> QED  BY <2>1 DEF GcInv, GcTypeOK, HeapTypeOK, LiveEnvs
<1>4. y \in Cells \cup {NULL} /\ (y \notin dead => y \in Sound \cup {NULL})
    <2>1. y \in Cells \cup {NULL}
        BY <1>3 DEF Env
    <2>2. y \in Live \cup dead \cup {NULL}
        BY <1>3 DEF GcInv, EnvsPoint
    <2> QED  BY <2>1, <2>2 DEF Sound
<1>5. SweptWork(y)
    BY <1>4, SweepReleases
<1>6. ASSUME NEW x \in Sound
      PROVE  Cardinality(OwnEdges(x)) + Cardinality(OwnBindings(x)) + Cardinality(Watched(x))
               = Cardinality(OwnEdges(x)') + Cardinality(OwnBindings(x)') + Cardinality(Watched(x)')
                 + (IF x = y THEN 1 ELSE 0)
    <2>1. OwnBindings(x)' = {b \in OwnBindings(x) : BindingItem(b[1], b[2]) # item}
        BY <1>2, SweepOwners
    <2>2. OwnEdges(x)' = OwnEdges(x)
        <3>1. OwnEdges(x)' = {e \in OwnEdges(x) : EdgeItem(e[1], e[2]) # item}
            BY <1>2, SweepOwners
        <3>2. \A e : EdgeItem(e[1], e[2]) # item
            BY <1>1, ItemPass DEF BindingPass
        <3> QED  BY <3>1, <3>2
    <2>3. Watched(x)' = Watched(x)
        BY DEF Watched, Live
    <2>4. /\ IsFiniteSet(OwnBindings(x)) /\ Cardinality(OwnBindings(x)) \in Nat
          /\ Cardinality(OwnEdges(x)) \in Nat /\ Cardinality(Watched(x)) \in Nat
        BY OwnFinite, OwnersFinite DEF GcInv, GcTypeOK
    <2>5. \A b \in OwnBindings(x) : b = <<b[1], b[2]>> /\ env[b[1]].val[b[2]] = x
        BY DEF OwnBindings, Bindings
    <2>6. \A b \in OwnBindings(x) : BindingItem(b[1], b[2]) = item <=> b = <<v, z>>
        BY <2>5, ItemPass
    <2>7. OwnBindings(x)' = OwnBindings(x) \ {<<v, z>>}
        BY <2>1, <2>6
    <2>8. <<v, z>> \in OwnBindings(x) <=> x = y
        <3>1. x = y => <<v, z>> \in Bindings(x)
            BY <1>3 DEF Bindings
        <3> QED  BY <2>5, <3>1 DEF OwnBindings
    <2>9. Cardinality(OwnBindings(x)) = Cardinality(OwnBindings(x)') + (IF x = y THEN 1 ELSE 0)
        <3>1. CASE x = y
            <4>1. Cardinality(OwnBindings(x)) = Cardinality(OwnBindings(x) \ {<<v, z>>}) + 1
                BY <2>4, <2>8, <3>1, CountRemove
            <4> QED  BY <2>7, <3>1, <4>1
        <3>2. CASE x # y
            <4>1. OwnBindings(x)' = OwnBindings(x)
                BY <2>7, <2>8, <3>2
            <4>2. Cardinality(OwnBindings(x)') = Cardinality(OwnBindings(x))
                BY <4>1
            <4> QED  BY <2>4, <3>2, <4>2
        <3> QED  BY <3>1, <3>2
    <2>10. Cardinality(OwnBindings(x)') \in Nat
        BY <2>4, <2>7, FS_Subset, FS_CardinalityType
    <2>11. /\ Cardinality(OwnEdges(x)') = Cardinality(OwnEdges(x))
           /\ Cardinality(Watched(x)') = Cardinality(Watched(x))
        BY <2>2, <2>3
    <2> QED  BY <2>4, <2>9, <2>10, <2>11
<1>7. ASSUME NEW u \in SoundEnvs
      PROVE  Cardinality(Captures(u)) + Cardinality(Children(u))
               = Cardinality(Captures(u)') + Cardinality(Children(u)') + (IF u = y THEN 1 ELSE 0)
    <2>1. Captures(u)' = Captures(u) /\ Children(u)' = Children(u)
        BY DEF Captures, Children, Live, LiveEnvs
    <2>2. u # y
        BY <1>4 DEF SoundEnvs, LiveEnvs
    <2>3. Cardinality(Captures(u)) \in Nat /\ Cardinality(Children(u)) \in Nat
        BY OwnersFinite DEF GcInv, GcTypeOK
    <2>4. /\ Cardinality(Captures(u)') = Cardinality(Captures(u))
          /\ Cardinality(Children(u)') = Cardinality(Children(u))
        BY <2>1
    <2> QED  BY <2>2, <2>3, <2>4
<1>8. CellsCounted' /\ EnvsCounted'
    BY <1>2, <1>5, <1>6, <1>7, SweepCounts
<1>9. SweepRight'
    BY <1>2, SweepSound
<1>10. GcTypeOK' /\ InUse' /\ CellsPoint' /\ EnvsPoint' /\ Grounded' /\ CutIsDue'
    BY <1>2, <1>5, SweepPoints
<1> QED  BY <1>8, <1>9, <1>10 DEF GcInv

\* A dead closure forgets its environment.
Severed(h, c) == [h EXCEPT ![c].env = NULL]

\* Nothing else of the closure changes.
LEMMA SeveredCell ==
    ASSUME NEW h \in [Cells -> Cell \cup {NULL}], NEW c \in Cells, h[c] # NULL, NEW g, g = Severed(h, c)
    PROVE  /\ g \in [Cells -> Cell \cup {NULL}]
           /\ \A d \in Cells : g[d] = NULL <=> h[d] = NULL
           /\ \A d \in Cells : h[d] # NULL =>
                 /\ g[d].kind = h[d].kind /\ g[d].nref = h[d].nref /\ g[d].edge = h[d].edge
                 /\ g[d].watcher = h[d].watcher /\ g[d].to = h[d].to
                 /\ g[d].env = IF d = c THEN NULL ELSE h[d].env
<1> DEFINE r == [h[c] EXCEPT !.env = NULL]
<1>1. h[c] \in Cell
    OBVIOUS
<1>2. /\ r \in Cell /\ r.kind = h[c].kind /\ r.nref = h[c].nref /\ r.edge = h[c].edge
      /\ r.watcher = h[c].watcher /\ r.to = h[c].to /\ r.env = NULL
    BY <1>1 DEF Cell
<1>3. g = [h EXCEPT ![c] = r]
    BY DEF Severed
<1> HIDE DEF r
<1>4. r # NULL
    BY <1>2
<1> QED  BY <1>2, <1>3, <1>4

\* The second pass: a dead closure drops a living environment, and forgets its own.
LEMMA SweepCapture ==
    ASSUME GcInv, Quiet, NEW c \in dead \cap Cells, NEW item \in todo,
           item = CaptureItem(c), NEW y, y = cell[c].env, ReleaseEdge(y),
           cell' = Severed(cell, c), UNCHANGED env,
           todo' = todo \ {item}, dead' = (IF todo' = {} THEN {} ELSE dead),
           UNCHANGED <<held, frames>>
    PROVE  GcInv'
<1>1. item[1][1] = 2
    BY DEF CaptureItem, CapturePass
<1>2. c \in Live /\ cell[c] \in Cell
    <2>1. c \in Live
        BY <1>1 DEF GcInv, SweepRight, CellPass
    <2> QED  BY <2>1 DEF GcInv, GcTypeOK, HeapTypeOK, Live
<1>3. /\ cell' \in [Cells -> Cell \cup {NULL}]
      /\ \A d \in Cells : cell'[d] = NULL <=> cell[d] = NULL
      /\ \A d \in Live :
            /\ cell'[d].kind = cell[d].kind /\ cell'[d].nref = cell[d].nref /\ cell'[d].edge = cell[d].edge
            /\ cell'[d].watcher = cell[d].watcher /\ cell'[d].to = cell[d].to
            /\ cell'[d].env = IF d = c THEN NULL ELSE cell[d].env
    <2>1. cell \in [Cells -> Cell \cup {NULL}] /\ cell[c] # NULL
        BY <1>2 DEF GcInv, GcTypeOK, HeapTypeOK, Live
    <2> QED  BY <2>1, SeveredCell DEF Live
<1>4. Live' = Live /\ LiveEnvs' = LiveEnvs
    BY <1>3 DEF Live, LiveEnvs
<1>5. SweepShape(item)
    <2>1. /\ \A d : CellItem(d) # item
          /\ \A d : d # c => CaptureItem(d) # item
          /\ \A v : EnvItem(v) # item
        BY <1>1, ItemPass
    <2>2. \A d \in Live : /\ cell[d].to \in Live \cup {NULL}
                          /\ d \in dead => CaptureItem(d) \in todo \/ cell[d].env = NULL
        BY DEF GcInv, CellsPoint
    <2>3. /\ \A d \in dead \cap Cells : /\ d \in Live <=> CellItem(d) \in todo
                                        /\ d \in Live \/ \A i \in todo : i[1][1] = CellPass
          /\ \A v \in dead \cap Envs : /\ v \in LiveEnvs <=> EnvItem(v) \in todo
                                       /\ v \in LiveEnvs \/ \A i \in todo : i[1][1] >= EnvPass
        BY DEF GcInv, SweepRight
    <2>4. /\ \A d \in dead \cap Cells : /\ d \in Live' <=> CellItem(d) \in todo'
                                        /\ d \in Live' \/ \A i \in todo' : i[1][1] = CellPass
          /\ \A v \in dead \cap Envs : /\ v \in LiveEnvs' <=> EnvItem(v) \in todo'
                                       /\ v \in LiveEnvs' \/ \A i \in todo' : i[1][1] >= EnvPass
        BY <1>4, <2>1, <2>3
    <2>5. ASSUME NEW d \in Live'
          PROVE  /\ cell'[d].kind = cell[d].kind /\ cell'[d].nref = cell[d].nref
                 /\ cell'[d].edge = cell[d].edge /\ cell'[d].watcher = cell[d].watcher
                 /\ cell'[d].to \in Live' \cup {NULL}
                 /\ cell'[d].env = cell[d].env \/ (d \in dead /\ cell'[d].env = NULL)
                 /\ d \in dead => CaptureItem(d) \in todo' \/ cell'[d].env = NULL
        <3>1. d \in Live
            BY <1>4
        <3>2. /\ cell'[d].kind = cell[d].kind /\ cell'[d].nref = cell[d].nref /\ cell'[d].edge = cell[d].edge
              /\ cell'[d].watcher = cell[d].watcher /\ cell'[d].to = cell[d].to
              /\ cell'[d].env = IF d = c THEN NULL ELSE cell[d].env
            BY <1>3, <3>1
        <3> QED  BY <1>4, <2>1, <2>2, <3>1, <3>2
    <2>6. env' \in [Envs -> Env \cup {NULL}] /\ \A v \in LiveEnvs' : env'[v] = env[v]
        BY DEF GcInv, GcTypeOK, HeapTypeOK
    <2>7. /\ Live' \subseteq Live /\ LiveEnvs' \subseteq LiveEnvs
          /\ Live \ Live' \subseteq dead /\ LiveEnvs \ LiveEnvs' \subseteq dead
          /\ \A d \in Live \ Live' : \A s \in Slots : EdgeItem(d, s) \notin todo
          /\ \A v \in LiveEnvs \ LiveEnvs' : \A x \in Vars : BindingItem(v, x) \notin todo
        BY <1>4
    <2>8. /\ todo' = todo \ {item} /\ dead' = (IF todo' = {} THEN {} ELSE dead)
          /\ UNCHANGED <<held, frames>> /\ cell' \in [Cells -> Cell \cup {NULL}]
        BY <1>3
    <2> QED  BY ONLY <2>4, <2>5, <2>6, <2>7, <2>8 DEF SweepShape
<1>6. y \in Envs \cup {NULL} /\ (y \notin dead => y \in SoundEnvs \cup {NULL})
    <2>1. y \in Envs \cup {NULL}
        BY <1>2 DEF Cell
    <2>2. y \in LiveEnvs \cup dead \cup {NULL}
        BY <1>2 DEF GcInv, CellsPoint
    <2> QED  BY <2>1, <2>2 DEF SoundEnvs
<1>7. SweptWork(y)
    BY <1>6, SweepReleases
<1>8. ASSUME NEW x \in Sound
      PROVE  Cardinality(OwnEdges(x)) + Cardinality(OwnBindings(x)) + Cardinality(Watched(x))
               = Cardinality(OwnEdges(x)') + Cardinality(OwnBindings(x)') + Cardinality(Watched(x)')
                 + (IF x = y THEN 1 ELSE 0)
    <2>1. OwnEdges(x)' = OwnEdges(x) /\ OwnBindings(x)' = OwnBindings(x)
        <3>1. /\ OwnEdges(x)' = {e \in OwnEdges(x) : EdgeItem(e[1], e[2]) # item}
              /\ OwnBindings(x)' = {b \in OwnBindings(x) : BindingItem(b[1], b[2]) # item}
            BY <1>5, SweepOwners
        <3>2. \A e : EdgeItem(e[1], e[2]) # item /\ BindingItem(e[1], e[2]) # item
            BY <1>1, ItemPass
        <3> QED  BY <3>1, <3>2
    <2>2. Watched(x)' = Watched(x)
        BY <1>3, <1>4 DEF Watched
    <2>3. x # y
        BY <1>6 DEF Sound, Live
    <2>4. /\ Cardinality(OwnBindings(x)) \in Nat
          /\ Cardinality(OwnEdges(x)) \in Nat /\ Cardinality(Watched(x)) \in Nat
        BY OwnFinite, OwnersFinite DEF GcInv, GcTypeOK
    <2>5. /\ Cardinality(OwnEdges(x)') = Cardinality(OwnEdges(x))
          /\ Cardinality(OwnBindings(x)') = Cardinality(OwnBindings(x))
          /\ Cardinality(Watched(x)') = Cardinality(Watched(x))
        BY <2>1, <2>2
    <2> QED  BY <2>3, <2>4, <2>5
<1>9. ASSUME NEW u \in SoundEnvs
      PROVE  Cardinality(Captures(u)) + Cardinality(Children(u))
               = Cardinality(Captures(u)') + Cardinality(Children(u)') + (IF u = y THEN 1 ELSE 0)
    <2>1. Children(u)' = Children(u)
        BY DEF Children, LiveEnvs
    <2>2. u # NULL
        BY DEF SoundEnvs, LiveEnvs
    <2>3. Captures(u)' = Captures(u) \ {c}
        BY <1>3, <1>4, <2>2 DEF Captures
    <2>4. c \in Captures(u) <=> u = y
        BY <1>2 DEF Captures
    <2>5. /\ IsFiniteSet(Captures(u)) /\ Cardinality(Captures(u)) \in Nat /\ Cardinality(Children(u)) \in Nat
          /\ Cardinality(Captures(u)') \in Nat
        <3>1. /\ IsFiniteSet(Captures(u)) /\ Cardinality(Captures(u)) \in Nat
              /\ Cardinality(Children(u)) \in Nat
            BY OwnersFinite DEF GcInv, GcTypeOK
        <3> QED  BY <2>3, <3>1, FS_Subset, FS_CardinalityType
    <2>6. Cardinality(Captures(u)) = Cardinality(Captures(u)') + (IF u = y THEN 1 ELSE 0)
        <3>1. CASE u = y
            <4>1. Cardinality(Captures(u)) = Cardinality(Captures(u) \ {c}) + 1
                BY <2>4, <2>5, <3>1, CountRemove
            <4> QED  BY <2>3, <3>1, <4>1
        <3>2. CASE u # y
            <4>1. Captures(u)' = Captures(u)
                BY <2>3, <2>4, <3>2
            <4>2. Cardinality(Captures(u)') = Cardinality(Captures(u))
                BY <4>1
            <4> QED  BY <2>5, <3>2, <4>2
        <3> QED  BY <3>1, <3>2
    <2>7. Cardinality(Children(u)') = Cardinality(Children(u))
        BY <2>1
    <2> QED  BY <2>5, <2>6, <2>7
<1>10. CellsCounted' /\ EnvsCounted'
    BY <1>5, <1>7, <1>8, <1>9, SweepCounts
<1>11. SweepRight'
    BY <1>5, SweepSound
<1>12. GcTypeOK' /\ InUse' /\ CellsPoint' /\ EnvsPoint' /\ Grounded' /\ CutIsDue'
    BY <1>5, <1>7, SweepPoints
<1> QED  BY <1>10, <1>11, <1>12 DEF GcInv

\* The fourth pass: a dead environment drops a living parent and is freed.
LEMMA SweepEnv ==
    ASSUME GcInv, Quiet, NEW v \in dead \cap Envs, NEW item \in todo,
           item = EnvItem(v), NEW y, y = env[v].root, ReleaseEdge(y),
           \A i \in todo : i[1][1] >= EnvPass,
           env' = Gone(env, v), UNCHANGED cell,
           todo' = todo \ {item}, dead' = (IF todo' = {} THEN {} ELSE dead),
           UNCHANGED <<held, frames>>
    PROVE  GcInv'
<1>1. item[1][1] = 4
    BY DEF EnvItem, EnvPass
<1>2. v \in LiveEnvs /\ env[v] \in Env
    <2>1. v \in LiveEnvs
        BY DEF GcInv, SweepRight
    <2> QED  BY <2>1 DEF GcInv, GcTypeOK, HeapTypeOK, LiveEnvs
<1>3. /\ env' \in [Envs -> Env \cup {NULL}]
      /\ env'[v] = NULL /\ \A u \in Envs : u # v => env'[u] = env[u]
    BY DEF Gone, GcInv, GcTypeOK, HeapTypeOK
<1>4. Live' = Live /\ LiveEnvs' = LiveEnvs \ {v}
    BY <1>3 DEF Live, LiveEnvs
<1>5. SweepShape(item)
    <2>1. /\ \A d : CellItem(d) # item /\ CaptureItem(d) # item
          /\ \A u : u # v => EnvItem(u) # item
        BY <1>1, ItemPass
    <2>2. \A d \in Live : /\ cell[d].to \in Live \cup {NULL}
                          /\ d \in dead => CaptureItem(d) \in todo \/ cell[d].env = NULL
        BY DEF GcInv, CellsPoint
    <2>3. /\ \A d \in dead \cap Cells : /\ d \in Live <=> CellItem(d) \in todo
                                        /\ d \in Live \/ \A i \in todo : i[1][1] = CellPass
          /\ \A u \in dead \cap Envs : u \in LiveEnvs <=> EnvItem(u) \in todo
        BY DEF GcInv, SweepRight
    <2>4. /\ \A d \in dead \cap Cells : /\ d \in Live' <=> CellItem(d) \in todo'
                                        /\ d \in Live' \/ \A i \in todo' : i[1][1] = CellPass
          /\ \A u \in dead \cap Envs : /\ u \in LiveEnvs' <=> EnvItem(u) \in todo'
                                       /\ u \in LiveEnvs' \/ \A i \in todo' : i[1][1] >= EnvPass
        BY <1>4, <2>1, <2>3
    <2>5. \A d \in Live' : /\ cell'[d].kind = cell[d].kind /\ cell'[d].nref = cell[d].nref
                           /\ cell'[d].edge = cell[d].edge /\ cell'[d].watcher = cell[d].watcher
                           /\ cell'[d].to \in Live' \cup {NULL}
                           /\ cell'[d].env = cell[d].env
                           /\ d \in dead => CaptureItem(d) \in todo' \/ cell'[d].env = NULL
        BY <1>4, <2>1, <2>2
    <2>6. cell' \in [Cells -> Cell \cup {NULL}] /\ \A u \in LiveEnvs' : env'[u] = env[u]
        BY <1>3, <1>4 DEF GcInv, GcTypeOK, HeapTypeOK, LiveEnvs
    <2>7. \A x \in Vars : BindingItem(v, x) \notin todo
        <3> SUFFICES ASSUME NEW x \in Vars, BindingItem(v, x) \in todo  PROVE FALSE
            OBVIOUS
        <3>1. BindingItem(v, x)[1][1] >= EnvPass
            OBVIOUS
        <3>2. BindingItem(v, x)[1][1] = 3
            BY ItemPass
        <3> QED  BY <3>1, <3>2 DEF EnvPass
    <2>8. /\ Live' \subseteq Live /\ LiveEnvs' \subseteq LiveEnvs
          /\ Live \ Live' \subseteq dead /\ LiveEnvs \ LiveEnvs' \subseteq dead
          /\ \A d \in Live \ Live' : \A s \in Slots : EdgeItem(d, s) \notin todo
          /\ \A u \in LiveEnvs \ LiveEnvs' : \A x \in Vars : BindingItem(u, x) \notin todo
        BY <1>4, <2>7
    <2>9. /\ todo' = todo \ {item} /\ dead' = (IF todo' = {} THEN {} ELSE dead)
          /\ UNCHANGED <<held, frames>> /\ env' \in [Envs -> Env \cup {NULL}]
        BY <1>3
    <2> QED  BY ONLY <2>4, <2>5, <2>6, <2>8, <2>9 DEF SweepShape
<1>6. y \in Envs \cup {NULL} /\ (y \notin dead => y \in SoundEnvs \cup {NULL})
    <2>1. y \in Envs \cup {NULL}
        BY <1>2 DEF Env
    <2>2. y \in LiveEnvs \cup dead \cup {NULL}
        BY <1>2 DEF GcInv, EnvsPoint
    <2> QED  BY <2>1, <2>2 DEF SoundEnvs
<1>7. SweptWork(y)
    BY <1>6, SweepReleases
<1>8. ASSUME NEW x \in Sound
      PROVE  Cardinality(OwnEdges(x)) + Cardinality(OwnBindings(x)) + Cardinality(Watched(x))
               = Cardinality(OwnEdges(x)') + Cardinality(OwnBindings(x)') + Cardinality(Watched(x)')
                 + (IF x = y THEN 1 ELSE 0)
    <2>1. OwnEdges(x)' = OwnEdges(x) /\ OwnBindings(x)' = OwnBindings(x)
        <3>1. /\ OwnEdges(x)' = {e \in OwnEdges(x) : EdgeItem(e[1], e[2]) # item}
              /\ OwnBindings(x)' = {b \in OwnBindings(x) : BindingItem(b[1], b[2]) # item}
            BY <1>5, SweepOwners
        <3>2. \A e : EdgeItem(e[1], e[2]) # item /\ BindingItem(e[1], e[2]) # item
            BY <1>1, ItemPass
        <3> QED  BY <3>1, <3>2
    <2>2. Watched(x)' = Watched(x)
        BY <1>4 DEF Watched
    <2>3. x # y
        BY <1>6 DEF Sound, Live
    <2>4. /\ Cardinality(OwnBindings(x)) \in Nat
          /\ Cardinality(OwnEdges(x)) \in Nat /\ Cardinality(Watched(x)) \in Nat
        BY OwnFinite, OwnersFinite DEF GcInv, GcTypeOK
    <2>5. /\ Cardinality(OwnEdges(x)') = Cardinality(OwnEdges(x))
          /\ Cardinality(OwnBindings(x)') = Cardinality(OwnBindings(x))
          /\ Cardinality(Watched(x)') = Cardinality(Watched(x))
        BY <2>1, <2>2
    <2> QED  BY <2>3, <2>4, <2>5
<1>9. ASSUME NEW u \in SoundEnvs
      PROVE  Cardinality(Captures(u)) + Cardinality(Children(u))
               = Cardinality(Captures(u)') + Cardinality(Children(u)') + (IF u = y THEN 1 ELSE 0)
    <2>1. Captures(u)' = Captures(u)
        BY DEF Captures, Live
    <2>2. Children(u)' = Children(u) \ {v}
        <3>1. Children(u)' = Children(u) \cap LiveEnvs'
            BY <1>5, SweepOwners
        <3>2. Children(u) \subseteq LiveEnvs
            BY DEF Children
        <3> QED  BY <1>4, <3>1, <3>2
    <2>4. v \in Children(u) <=> u = y
        BY <1>2 DEF Children
    <2>5. /\ IsFiniteSet(Children(u)) /\ Cardinality(Captures(u)) \in Nat /\ Cardinality(Children(u)) \in Nat
          /\ Cardinality(Children(u)') \in Nat
        <3>1. /\ IsFiniteSet(Children(u)) /\ Cardinality(Captures(u)) \in Nat
              /\ Cardinality(Children(u)) \in Nat
            BY OwnersFinite DEF GcInv, GcTypeOK
        <3> QED  BY <2>2, <3>1, FS_Subset, FS_CardinalityType
    <2>6. Cardinality(Children(u)) = Cardinality(Children(u)') + (IF u = y THEN 1 ELSE 0)
        <3>1. CASE u = y
            <4>1. Cardinality(Children(u)) = Cardinality(Children(u) \ {v}) + 1
                BY <2>4, <2>5, <3>1, CountRemove
            <4> QED  BY <2>2, <3>1, <4>1
        <3>2. CASE u # y
            <4>1. Children(u)' = Children(u)
                BY <2>2, <2>4, <3>2
            <4>2. Cardinality(Children(u)') = Cardinality(Children(u))
                BY <4>1
            <4> QED  BY <2>5, <3>2, <4>2
        <3> QED  BY <3>1, <3>2
    <2>7. Cardinality(Captures(u)') = Cardinality(Captures(u))
        BY <2>1
    <2> QED  BY <2>5, <2>6, <2>7
<1>10. CellsCounted' /\ EnvsCounted'
    BY <1>5, <1>7, <1>8, <1>9, SweepCounts
<1>11. SweepRight'
    BY <1>5, SweepSound
<1>12. GcTypeOK' /\ InUse' /\ CellsPoint' /\ EnvsPoint' /\ Grounded' /\ CutIsDue'
    BY <1>5, <1>7, SweepPoints
<1> QED  BY <1>10, <1>11, <1>12 DEF GcInv

\* The last pass: a dead cell is freed, and its hooks release its watcher.
LEMMA SweepCell ==
    ASSUME GcInv, Quiet, NEW c \in dead \cap Cells, NEW item \in todo,
           item = CellItem(c), NEW y, y = cell[c].watcher, work' = <<y>>,
           \A i \in todo : i[1][1] >= CellPass,
           cell' = Freed(cell, c), UNCHANGED env,
           todo' = todo \ {item}, dead' = (IF todo' = {} THEN {} ELSE dead),
           UNCHANGED <<held, frames>>
    PROVE  GcInv'
<1>1. item[1][1] = 5
    BY DEF CellItem, CellPass
<1>2. c \in Live /\ cell[c] \in Cell
    <2>1. c \in Live
        BY DEF GcInv, SweepRight
    <2> QED  BY <2>1 DEF GcInv, GcTypeOK, HeapTypeOK, Live
<1>3. /\ cell' \in [Cells -> Cell \cup {NULL}] /\ cell'[c] = NULL
      /\ \A x \in Cells : x # c => (cell'[x] = NULL <=> cell[x] = NULL)
      /\ \A x \in Cells : x # c /\ cell[x] # NULL =>
            /\ cell'[x].kind = cell[x].kind /\ cell'[x].edge = cell[x].edge /\ cell'[x].env = cell[x].env
            /\ cell'[x].watcher = cell[x].watcher /\ cell'[x].nref = cell[x].nref
            /\ cell'[x].to = IF cell[x].to = c THEN NULL ELSE cell[x].to
    <2>1. cell \in [Cells -> Cell \cup {NULL}] /\ c \in Cells
        BY DEF GcInv, GcTypeOK, HeapTypeOK
    <2>2. cell' = Freed(cell, c)
        OBVIOUS
    <2> HIDE DEF Cell
    <2> QED  BY ONLY <2>1, <2>2, FreedCell
<1>4. Live' = Live \ {c} /\ LiveEnvs' = LiveEnvs
    BY <1>3 DEF Live, LiveEnvs
<1>5. \A i \in todo : i[1][1] = CellPass
    <2> SUFFICES ASSUME NEW i \in todo  PROVE i[1][1] = CellPass
        OBVIOUS
    <2>1. i[1][1] >= CellPass
        OBVIOUS
    <2>2. i[1][1] \in {EdgePass, CapturePass, BindingPass, EnvPass, CellPass}
        BY ItemForm
    <2> QED  BY <2>1, <2>2 DEF EdgePass, CapturePass, BindingPass, EnvPass, CellPass
<1>6. /\ \A d : CaptureItem(d) \notin todo
      /\ \A d, s : EdgeItem(d, s) \notin todo
      /\ \A v : EnvItem(v) \notin todo
    <2>1. \A i \in todo : i[1][1] = 5
        BY <1>5 DEF CellPass
    <2> QED  BY <2>1, ItemPass
<1>7. SweepShape(item)
    <2>1. /\ \A d : CaptureItem(d) # item
          /\ \A d : d # c => CellItem(d) # item
          /\ \A u : EnvItem(u) # item
        BY <1>1, ItemPass
    <2>2. \A d \in Live : /\ cell[d].to \in Live \cup {NULL}
                          /\ d \in dead => CaptureItem(d) \in todo \/ cell[d].env = NULL
        BY DEF GcInv, CellsPoint
    <2>3. /\ \A d \in dead \cap Cells : d \in Live <=> CellItem(d) \in todo
          /\ \A u \in dead \cap Envs : /\ u \in LiveEnvs <=> EnvItem(u) \in todo
                                       /\ u \in LiveEnvs \/ \A i \in todo : i[1][1] >= EnvPass
        BY DEF GcInv, SweepRight
    <2>4. /\ \A d \in dead \cap Cells : /\ d \in Live' <=> CellItem(d) \in todo'
                                        /\ d \in Live' \/ \A i \in todo' : i[1][1] = CellPass
          /\ \A u \in dead \cap Envs : /\ u \in LiveEnvs' <=> EnvItem(u) \in todo'
                                       /\ u \in LiveEnvs' \/ \A i \in todo' : i[1][1] >= EnvPass
        BY <1>4, <1>5, <2>1, <2>3
    <2>5. ASSUME NEW d \in Live'
          PROVE  /\ cell'[d].kind = cell[d].kind /\ cell'[d].nref = cell[d].nref
                 /\ cell'[d].edge = cell[d].edge /\ cell'[d].watcher = cell[d].watcher
                 /\ cell'[d].to \in Live' \cup {NULL}
                 /\ cell'[d].env = cell[d].env
                 /\ d \in dead => CaptureItem(d) \in todo' \/ cell'[d].env = NULL
        <3>1. d \in Cells /\ d \in Live /\ d # c /\ cell[d] # NULL
            BY <1>4 DEF Live
        <3>2. /\ cell'[d].kind = cell[d].kind /\ cell'[d].edge = cell[d].edge /\ cell'[d].env = cell[d].env
              /\ cell'[d].watcher = cell[d].watcher /\ cell'[d].nref = cell[d].nref
              /\ cell'[d].to = IF cell[d].to = c THEN NULL ELSE cell[d].to
            BY <1>3, <3>1
        <3>3. cell[d].to \in Live \cup {NULL} /\ (d \in dead => CaptureItem(d) \in todo \/ cell[d].env = NULL)
            BY <2>2, <3>1
        <3> QED  BY <1>4, <1>6, <3>2, <3>3
    <2>6. env' \in [Envs -> Env \cup {NULL}] /\ \A u \in LiveEnvs' : env'[u] = env[u]
        BY DEF GcInv, GcTypeOK, HeapTypeOK
    <2>8. /\ Live' \subseteq Live /\ LiveEnvs' \subseteq LiveEnvs
          /\ Live \ Live' \subseteq dead /\ LiveEnvs \ LiveEnvs' \subseteq dead
          /\ \A d \in Live \ Live' : \A s \in Slots : EdgeItem(d, s) \notin todo
          /\ \A u \in LiveEnvs \ LiveEnvs' : \A x \in Vars : BindingItem(u, x) \notin todo
        BY <1>4, <1>6
    <2>9. /\ todo' = todo \ {item} /\ dead' = (IF todo' = {} THEN {} ELSE dead)
          /\ UNCHANGED <<held, frames>> /\ cell' \in [Cells -> Cell \cup {NULL}]
        BY <1>3
    <2> QED  BY ONLY <2>4, <2>5, <2>6, <2>8, <2>9 DEF SweepShape
<1>8. y \in Cells \cup {NULL} /\ y \in Sound \cup {NULL}
    <2>1. y \in Sound \cup {NULL}
        BY <1>2 DEF GcInv, CellsPoint
    <2> QED  BY <2>1 DEF Sound, Live
<1>9. SweptWork(y)
    <2>1. DOMAIN work = {} /\ \A x : Cardinality(Due(x)) = 0
        BY FS_EmptySet DEF Quiet, Due
    <2>2. \A x : Due(x)' = Places(<<y>>, x)
        BY DEF Due, Places
    <2>3. \A x : Cardinality(Due(x)') = IF x = y THEN 1 ELSE 0
        BY <2>2, PlacesOne
    <2>4. work' \in Seq(Cells \cup Envs \cup {NULL})
        BY <1>8
    <2>5. \A x : Has(work', x) => x = y
        BY DEF Has
    <2> QED  BY <1>8, <2>1, <2>3, <2>4, <2>5 DEF SweptWork
<1>10. ASSUME NEW x \in Sound
       PROVE  Cardinality(OwnEdges(x)) + Cardinality(OwnBindings(x)) + Cardinality(Watched(x))
               = Cardinality(OwnEdges(x)') + Cardinality(OwnBindings(x)') + Cardinality(Watched(x)')
                 + (IF x = y THEN 1 ELSE 0)
    <2>1. OwnEdges(x)' = OwnEdges(x) /\ OwnBindings(x)' = OwnBindings(x)
        <3>1. /\ OwnEdges(x)' = {e \in OwnEdges(x) : EdgeItem(e[1], e[2]) # item}
              /\ OwnBindings(x)' = {b \in OwnBindings(x) : BindingItem(b[1], b[2]) # item}
            BY <1>7, SweepOwners
        <3>2. \A e : EdgeItem(e[1], e[2]) # item /\ BindingItem(e[1], e[2]) # item
            BY <1>1, ItemPass
        <3> QED  BY <3>1, <3>2
    <2>2. Watched(x)' = Watched(x) \ {c}
        <3>1. Watched(x)' = Watched(x) \cap Live'
            BY <1>7, SweepOwners
        <3>2. Watched(x) \subseteq Live
            BY DEF Watched
        <3> QED  BY <1>4, <3>1, <3>2
    <2>3. c \in Watched(x) <=> x = y
        BY <1>2 DEF Watched
    <2>4. /\ Cardinality(OwnBindings(x)) \in Nat
          /\ Cardinality(OwnEdges(x)) \in Nat /\ Cardinality(Watched(x)) \in Nat /\ IsFiniteSet(Watched(x))
        BY OwnFinite, OwnersFinite DEF GcInv, GcTypeOK
    <2>5. Cardinality(Watched(x)') \in Nat
        BY <2>2, <2>4, FS_Subset, FS_CardinalityType
    <2>6. Cardinality(Watched(x)) = Cardinality(Watched(x)') + (IF x = y THEN 1 ELSE 0)
        <3>1. CASE x = y
            <4>1. Cardinality(Watched(x)) = Cardinality(Watched(x) \ {c}) + 1
                BY <2>3, <2>4, <3>1, CountRemove
            <4> QED  BY <2>2, <3>1, <4>1
        <3>2. CASE x # y
            <4>1. Watched(x)' = Watched(x)
                BY <2>2, <2>3, <3>2
            <4>2. Cardinality(Watched(x)') = Cardinality(Watched(x))
                BY <4>1
            <4> QED  BY <2>4, <3>2, <4>2
        <3> QED  BY <3>1, <3>2
    <2>7. /\ Cardinality(OwnEdges(x)') = Cardinality(OwnEdges(x))
          /\ Cardinality(OwnBindings(x)') = Cardinality(OwnBindings(x))
        BY <2>1
    <2> QED  BY <2>4, <2>5, <2>6, <2>7
<1>11. ASSUME NEW u \in SoundEnvs
       PROVE  Cardinality(Captures(u)) + Cardinality(Children(u))
               = Cardinality(Captures(u)') + Cardinality(Children(u)') + (IF u = y THEN 1 ELSE 0)
    <2>1. Children(u)' = Children(u)
        BY DEF Children, LiveEnvs
    <2>2. u # NULL /\ u # y
        BY <1>8 DEF SoundEnvs, LiveEnvs
    <2>3. cell[c].env = NULL
        BY <1>2, <1>6 DEF GcInv, CellsPoint
    <2>4. \A d \in Live' : cell'[d].env = cell[d].env
        BY <1>3, <1>4 DEF Live
    <2>5. Captures(u)' = Captures(u)
        BY <1>4, <2>2, <2>3, <2>4 DEF Captures
    <2>6. Cardinality(Captures(u)) \in Nat /\ Cardinality(Children(u)) \in Nat
        BY OwnersFinite DEF GcInv, GcTypeOK
    <2>7. /\ Cardinality(Captures(u)') = Cardinality(Captures(u))
          /\ Cardinality(Children(u)') = Cardinality(Children(u))
        BY <2>1, <2>5
    <2> QED  BY <2>2, <2>6, <2>7
<1>12. CellsCounted' /\ EnvsCounted'
    BY <1>7, <1>9, <1>10, <1>11, SweepCounts
<1>13. SweepRight'
    BY <1>7, SweepSound
<1>14. GcTypeOK' /\ InUse' /\ CellsPoint' /\ EnvsPoint' /\ Grounded' /\ CutIsDue'
    BY <1>7, <1>9, SweepPoints
<1> QED  BY <1>12, <1>13, <1>14 DEF GcInv

\* A step of the sweep preserves the invariant.
LEMMA SweepKeeps ==
    ASSUME GcInv, Sweep
    PROVE  GcInv'
<1> PICK item \in todo :
          /\ \A other \in todo : item[1][1] <= other[1][1]
          /\ SweepItem(item[1][1], item[1][2], item[2])
          /\ todo' = todo \ {item}
    BY DEF Sweep
<1> SUFFICES ASSUME NEW p, NEW x, NEW y, p = item[1][1], x = item[1][2], y = item[2]
             PROVE  GcInv'
    OBVIOUS
<1>1. Quiet /\ dead' = (IF todo' = {} THEN {} ELSE dead) /\ UNCHANGED <<held, frames>>
    BY DEF Sweep
<1>2. \/ p = EdgePass /\ x \in dead \cap Cells /\ y \in Slots /\ item = EdgeItem(x, y)
      \/ p = CapturePass /\ x \in dead \cap Cells /\ item = CaptureItem(x)
      \/ p = BindingPass /\ x \in dead \cap Envs /\ y \in Vars /\ item = BindingItem(x, y)
      \/ p = EnvPass /\ x \in dead \cap Envs /\ item = EnvItem(x)
      \/ p = CellPass /\ x \in dead \cap Cells /\ item = CellItem(x)
    BY ItemForm
<1>3. SweepItem(p, x, y)
    OBVIOUS
<1>4. \A i \in todo : i[1][1] \in Nat
    <2> SUFFICES ASSUME NEW i \in todo  PROVE i[1][1] \in Nat
        OBVIOUS
    <2>1. i[1][1] \in {EdgePass, CapturePass, BindingPass, EnvPass, CellPass}
        BY ItemForm
    <2> QED  BY <2>1 DEF EdgePass, CapturePass, BindingPass, EnvPass, CellPass
<1>5. \A i \in todo : i[1][1] >= p
    BY <1>4, SMTT(40)
<1>6. CASE p = EdgePass
    <2>1. x \in dead \cap Cells /\ y \in Slots /\ item = EdgeItem(x, y)
        BY <1>2, <1>6 DEF EdgePass, CapturePass, BindingPass, EnvPass, CellPass
    <2>2. ReleaseEdge(cell[x].edge[y]) /\ UNCHANGED <<cell, env>>
        BY <1>3, <1>6 DEF SweepItem, EdgePass, CapturePass, BindingPass, EnvPass, CellPass
    <2> QED  BY <1>1, <2>1, <2>2, SweepEdge
<1>7. CASE p = CapturePass
    <2>1. x \in dead \cap Cells /\ item = CaptureItem(x)
        BY <1>2, <1>7 DEF EdgePass, CapturePass, BindingPass, EnvPass, CellPass
    <2>2. ReleaseEdge(cell[x].env) /\ cell' = Severed(cell, x) /\ UNCHANGED env
        BY <1>3, <1>7 DEF SweepItem, CaptureEdge, Severed, EdgePass, CapturePass, BindingPass, EnvPass, CellPass
    <2> QED  BY <1>1, <2>1, <2>2, SweepCapture
<1>8. CASE p = BindingPass
    <2>1. x \in dead \cap Envs /\ y \in Vars /\ item = BindingItem(x, y)
        BY <1>2, <1>8 DEF EdgePass, CapturePass, BindingPass, EnvPass, CellPass
    <2>2. ReleaseEdge(env[x].val[y]) /\ UNCHANGED <<cell, env>>
        BY <1>3, <1>8 DEF SweepItem, EdgePass, CapturePass, BindingPass, EnvPass, CellPass
    <2> QED  BY <1>1, <2>1, <2>2, SweepBinding
<1>9. CASE p = EnvPass
    <2>1. x \in dead \cap Envs /\ item = EnvItem(x)
        BY <1>2, <1>9 DEF EdgePass, CapturePass, BindingPass, EnvPass, CellPass
    <2>2. ReleaseEdge(env[x].root) /\ env' = Gone(env, x) /\ UNCHANGED cell
        BY <1>3, <1>9 DEF SweepItem, Gone, EdgePass, CapturePass, BindingPass, EnvPass, CellPass
    <2> QED  BY <1>1, <1>5, <1>9, <2>1, <2>2, SweepEnv
<1>10. CASE p = CellPass
    <2>1. x \in dead \cap Cells /\ item = CellItem(x)
        BY <1>2, <1>10 DEF EdgePass, CapturePass, BindingPass, EnvPass, CellPass
    <2>2. cell' = Freed(cell, x) /\ work' = <<cell[x].watcher>> /\ UNCHANGED env
        BY <1>3, <1>10 DEF SweepItem, FreeDeadCell, EdgePass, CapturePass, BindingPass, EnvPass, CellPass
    <2> QED  BY <1>1, <1>5, <1>10, <2>1, <2>2, SweepCell
<1> QED  BY <1>2, <1>6, <1>7, <1>8, <1>9, <1>10

-----------------------------------------------------------------------------
(* Between two collections. *)

\* When no sweep is under way the invariant is the one of the heap.
LEMMA Resting == todo = {} /\ dead = {} => (GcInv <=> HeapInv)
<1> SUFFICES ASSUME todo = {}, dead = {}  PROVE GcInv <=> HeapInv
    OBVIOUS
<1>1. Sound = Live /\ SoundEnvs = LiveEnvs
    BY DEF Sound, SoundEnvs
<1>2. \A c : OwnEdges(c) = Edges(c) /\ OwnBindings(c) = Bindings(c)
    BY DEF OwnEdges, OwnBindings
<1>3. SweepRight
    BY DEF SweepRight
<1>4. GcTypeOK <=> HeapTypeOK
    BY DEF GcTypeOK
<1>5. CellsCounted /\ EnvsCounted <=> OwnersCounted
    <2>1. CellsCounted <=> \A c \in Live : cell[c].nref
              = held[c] + Cardinality(Edges(c)) + Cardinality(Bindings(c))
                + Cardinality(Watched(c)) + Cardinality(Due(c))
        BY <1>1, <1>2 DEF CellsCounted, CellCount
    <2>2. EnvsCounted <=> \A v \in LiveEnvs : env[v].nref
              = Cardinality(Captures(v)) + Cardinality(Children(v))
                + Cardinality(Calls(v)) + Cardinality(Due(v))
        BY <1>1 DEF EnvsCounted, EnvCount
    <2> QED  BY <2>1, <2>2 DEF OwnersCounted
<1>6. InUse <=> HeapInUse
    BY <1>1 DEF InUse, HeapInUse
<1>7. CellsPoint <=> HeapCells
    BY <1>1 DEF CellsPoint, HeapCells
<1>8. EnvsPoint <=> HeapEnvs
    BY <1>1 DEF EnvsPoint, HeapEnvs
<1>9. CutIsDue <=> HeapCut
    BY <1>1 DEF CutIsDue, HeapCut
<1> QED  BY <1>3, <1>4, <1>5, <1>6, <1>7, <1>8, <1>9 DEF GcInv, HeapInv

\* The environments COUNT discovers: those the walked closures captured, and
\* their chains, and no other.
LEMMA DiscoveredRight ==
    ASSUME HeapInv
    PROVE  /\ Discovered \subseteq LiveEnvs
           /\ Captured \subseteq Discovered
           /\ \A v \in Discovered : Parent(v) \subseteq Discovered
<1>1. Captured \subseteq LiveEnvs
    BY DEF HeapInv, HeapCells, Captured, Walkable, Of
<1>2. \A v \in LiveEnvs : Parent(v) \subseteq LiveEnvs
    BY DEF HeapInv, HeapEnvs, Parent
<1> DEFINE closed == {T \in SUBSET LiveEnvs : Captured \subseteq T /\ \A x \in T : Parent(x) \subseteq T}
<1>3. Discovered = {x \in LiveEnvs : \A T \in closed : x \in T}
    <2> DEFINE next == [x \in LiveEnvs |-> Parent(x)]
               between == {Captured \cup W : W \in SUBSET (LiveEnvs \ Captured)}
    <2>1. Discovered = {x \in LiveEnvs : \A T \in {Z \in between : \A y \in Z : next[y] \subseteq Z} : x \in T}
        BY DEF Discovered, Closure
    <2>2. \A T : T \in between <=> T \in SUBSET LiveEnvs /\ Captured \subseteq T
        <3> HIDE DEF next, closed
        <3>1. ASSUME NEW T \in SUBSET LiveEnvs, Captured \subseteq T  PROVE T \in between
            <4>1. T = Captured \cup (T \ Captured) /\ T \ Captured \in SUBSET (LiveEnvs \ Captured)
                BY <3>1
            <4> QED  BY <4>1
        <3>2. \A T \in between : T \in SUBSET LiveEnvs /\ Captured \subseteq T
            BY <1>1
        <3> QED  BY <3>1, <3>2
    <2>3. \A T \in SUBSET LiveEnvs : \A y \in T : next[y] = Parent(y)
        OBVIOUS
    <2> HIDE DEF next, between
    <2>4. {Z \in between : \A y \in Z : next[y] \subseteq Z} = closed
        BY <2>2, <2>3
    <2> QED  BY <2>1, <2>4
<1>4. \A T \in closed : Captured \subseteq T /\ \A x \in T : Parent(x) \subseteq T
    OBVIOUS
<1> HIDE DEF closed
<1> QED  BY <1>1, <1>2, <1>3, <1>4

\* The marked: the roots, and what the counted edges lead to.
LEMMA MarkedRight ==
    ASSUME HeapInv
    PROVE  /\ Marked \subseteq Live \cup LiveEnvs
           /\ Roots \subseteq Marked
           /\ \A x \in Marked : Marks(x) \subseteq Marked
           /\ \A T \in SUBSET (Live \cup LiveEnvs) :
                 Roots \subseteq T /\ (\A x \in T : Marks(x) \subseteq T) => Marked \subseteq T
<1> DEFINE U == Live \cup LiveEnvs
<1>1. Roots \subseteq U
    BY DiscoveredRight DEF Roots
<1>2. ASSUME NEW x \in U  PROVE Marks(x) \subseteq U
    <2>1. CASE x \in Walkable
        <3>1. x \in Live
            BY <2>1 DEF Walkable, Of
        <3>2. cell[x] \in Cell
            BY <3>1 DEF HeapInv, HeapTypeOK, Live
        <3>3. DOMAIN cell[x].edge = Slots
            BY <3>2 DEF Cell
        <3>4. Marks(x) = ValueEdges(x) \cup ({cell[x].env} \ {NULL})
            <4>1. x \notin Discovered
                BY <3>1, DiscoveredRight DEF Live, LiveEnvs
            <4> QED  BY <2>1, <4>1 DEF Marks
        <3>5. ValueEdges(x) \subseteq Live
            BY <3>1, <3>3 DEF HeapInv, HeapCells, ValueEdges, Range
        <3>6. cell[x].env \in LiveEnvs \cup {NULL}
            BY <3>1 DEF HeapInv, HeapCells
        <3> QED  BY <3>4, <3>5, <3>6
    <2>2. CASE x \notin Walkable /\ x \in Discovered
        <3>1. x \in LiveEnvs
            BY <2>2, DiscoveredRight
        <3>2. env[x] \in Env
            BY <3>1 DEF HeapInv, HeapTypeOK, LiveEnvs
        <3>3. DOMAIN env[x].val = Vars
            BY <3>2 DEF Env
        <3>4. Marks(x) = BoundEdges(x) \cup Parent(x)
            BY <2>2 DEF Marks
        <3>5. BoundEdges(x) \subseteq Live
            BY <3>1, <3>3 DEF HeapInv, HeapEnvs, BoundEdges, Range
        <3>6. Parent(x) \subseteq LiveEnvs
            BY <3>1 DEF HeapInv, HeapEnvs, Parent
        <3> QED  BY <3>4, <3>5, <3>6
    <2>3. CASE x \notin Walkable /\ x \notin Discovered
        BY <2>3 DEF Marks
    <2> QED  BY <2>1, <2>2, <2>3
<1> DEFINE closed == {T \in SUBSET U : Roots \subseteq T /\ \A x \in T : Marks(x) \subseteq T}
<1>3. Marked = {x \in U : \A T \in closed : x \in T}
    <2> DEFINE next == [x \in U |-> Marks(x)]
               between == {Roots \cup W : W \in SUBSET (U \ Roots)}
    <2>1. Marked = {x \in U : \A T \in {Z \in between : \A y \in Z : next[y] \subseteq Z} : x \in T}
        BY DEF Marked, Closure
    <2>2. \A T : T \in between <=> T \in SUBSET U /\ Roots \subseteq T
        <3> HIDE DEF U, next
        <3>1. ASSUME NEW T \in SUBSET U, Roots \subseteq T  PROVE T \in between
            <4>1. T = Roots \cup (T \ Roots) /\ T \ Roots \in SUBSET (U \ Roots)
                BY <3>1
            <4> QED  BY <4>1
        <3>2. \A T \in between : T \in SUBSET U /\ Roots \subseteq T
            BY <1>1
        <3> QED  BY <3>1, <3>2
    <2>3. \A T \in SUBSET U : \A y \in T : next[y] = Marks(y)
        OBVIOUS
    <2> HIDE DEF next, between
    <2>4. {Z \in between : \A y \in Z : next[y] \subseteq Z} = closed
        BY <2>2, <2>3
    <2> QED  BY <2>1, <2>4
<1>4. \A T : T \in closed <=> T \in SUBSET U /\ Roots \subseteq T /\ \A x \in T : Marks(x) \subseteq T
    OBVIOUS
<1> HIDE DEF closed, U
<1>5. Marked \subseteq U /\ Roots \subseteq Marked
    BY <1>1, <1>3, <1>4
<1>6. \A x \in Marked : Marks(x) \subseteq Marked
    BY <1>2, <1>3, <1>4
<1>7. \A T \in SUBSET U : Roots \subseteq T /\ (\A x \in T : Marks(x) \subseteq T) => Marked \subseteq T
    BY <1>3, <1>4
<1> QED  BY <1>5, <1>6, <1>7 DEF U

\* What a cell, and an environment, follow.
LEMMA Follows ==
    ASSUME HeapTypeOK
    PROVE  /\ \A c \in Live : \A y : y \in Follow(c) <=>
                 /\ y # NULL
                 /\ (\E s \in Slots : y = cell[c].edge[s]) \/ y = cell[c].env \/ y = cell[c].watcher
           /\ \A v \in LiveEnvs : \A y : y \in Follow(v) <=>
                 /\ y # NULL
                 /\ (\E x \in Vars : y = env[v].val[x]) \/ y = env[v].root
<1>1. ASSUME NEW c \in Live
      PROVE  \A y : y \in Follow(c) <=>
                 /\ y # NULL
                 /\ (\E s \in Slots : y = cell[c].edge[s]) \/ y = cell[c].env \/ y = cell[c].watcher
    <2>1. c \in Cells /\ cell[c] \in Cell
        BY DEF HeapTypeOK, Live
    <2>2. DOMAIN cell[c].edge = Slots
        BY <2>1 DEF Cell
    <2>3. Follow(c) = (Range(cell[c].edge) \cup {cell[c].env, cell[c].watcher}) \ {NULL}
        BY <2>1 DEF Follow
    <2>4. \A y : y \in Range(cell[c].edge) <=> \E s \in Slots : y = cell[c].edge[s]
        BY <2>2 DEF Range
    <2> QED  BY <2>3, <2>4
<1>2. ASSUME NEW v \in LiveEnvs
      PROVE  \A y : y \in Follow(v) <=>
                 /\ y # NULL
                 /\ (\E x \in Vars : y = env[v].val[x]) \/ y = env[v].root
    <2>1. v \in Envs /\ env[v] \in Env /\ v \notin Cells
        BY DEF HeapTypeOK, LiveEnvs
    <2>2. DOMAIN env[v].val = Vars
        BY <2>1 DEF Env
    <2>3. Follow(v) = (Range(env[v].val) \cup {env[v].root}) \ {NULL}
        BY <2>1 DEF Follow
    <2>4. \A y : y \in Range(env[v].val) <=> \E x \in Vars : y = env[v].val[x]
        BY <2>2 DEF Range
    <2> QED  BY <2>3, <2>4
<1> QED  BY <1>1, <1>2

\* What is reached is in every set that holds the seeds and whatever follows.
LEMMA ReachedMeans ==
    ASSUME NEW S, S \subseteq Live \cup LiveEnvs
    PROVE  Reached(S) =
             {x \in Live \cup LiveEnvs :
                 \A Z \in {T \in SUBSET (Live \cup LiveEnvs) :
                             S \subseteq T /\ \A y \in T : Follow(y) \subseteq T} : x \in Z}
<1> DEFINE U == Live \cup LiveEnvs
           next == [x \in U |-> Follow(x)]
           between == {S \cup W : W \in SUBSET (U \ S)}
<1>1. Reached(S) = {x \in U : \A T \in {Z \in between : \A y \in Z : next[y] \subseteq Z} : x \in T}
    BY DEF Reached, Closure
<1>2. \A T : T \in between <=> T \in SUBSET U /\ S \subseteq T
    <2>0. S \subseteq U
        OBVIOUS
    <2> HIDE DEF U, next
    <2>1. ASSUME NEW T \in SUBSET U, S \subseteq T  PROVE T \in between
        <3>1. T = S \cup (T \ S) /\ T \ S \in SUBSET (U \ S)
            BY <2>1
        <3> QED  BY <3>1
    <2>2. \A T \in between : T \in SUBSET U /\ S \subseteq T
        BY <2>0
    <2> QED  BY <2>1, <2>2
<1>3. \A T \in SUBSET U : \A y \in T : next[y] = Follow(y)
    OBVIOUS
<1> HIDE DEF U, next, between
<1>4. {Z \in between : \A y \in Z : next[y] \subseteq Z}
        = {T \in SUBSET U : S \subseteq T /\ \A y \in T : Follow(y) \subseteq T}
    BY <1>2, <1>3
<1> QED  BY <1>1, <1>4 DEF U

\* What is reached is the least that holds the seeds and whatever follows.
LEMMA ReachedLeast ==
    ASSUME NEW S, NEW T \in SUBSET (Live \cup LiveEnvs), S \subseteq T,
           \A x \in T : Follow(x) \subseteq T
    PROVE  Reached(S) \subseteq T
<1> DEFINE U == Live \cup LiveEnvs
           closed == {Z \in SUBSET U : S \subseteq Z /\ \A x \in Z : Follow(x) \subseteq Z}
<1>1. Reached(S) = {x \in U : \A Z \in closed : x \in Z}
    <2>1. S \in SUBSET U
        OBVIOUS
    <2> QED  BY <2>1, ReachedMeans
<1>2. T \in closed
    OBVIOUS
<1> HIDE DEF closed, U
<1> QED  BY <1>1, <1>2

\* The seeds are reached, and what a reached owner follows is reached.
LEMMA ReachedClosed ==
    ASSUME HeapInv, NEW S, S \subseteq Live \cup LiveEnvs
    PROVE  /\ Reached(S) \subseteq Live \cup LiveEnvs
           /\ S \subseteq Reached(S)
           /\ \A x \in Reached(S) : Follow(x) \subseteq Reached(S)
<1> DEFINE U == Live \cup LiveEnvs
           closed == {Z \in SUBSET U : S \subseteq Z /\ \A x \in Z : Follow(x) \subseteq Z}
<1>1. Reached(S) = {x \in U : \A Z \in closed : x \in Z}
    <2>1. S \in SUBSET U
        OBVIOUS
    <2> QED  BY <2>1, ReachedMeans
<1>2. \A Z \in closed : S \subseteq Z /\ \A x \in Z : Follow(x) \subseteq Z
    OBVIOUS
<1>3. \A x \in U : Follow(x) \subseteq U
    <2>1. HeapTypeOK
        BY DEF HeapInv
    <2>2. \A x \in Live : Follow(x) \subseteq Live \cup LiveEnvs
        <3>1. \A c \in Live : /\ cell[c].watcher \in Live \cup {NULL}
                              /\ \A s \in Slots : cell[c].edge[s] \in Live \cup {NULL}
                              /\ cell[c].env \in LiveEnvs \cup {NULL}
            BY DEF HeapInv, HeapCells
        <3> QED  BY <2>1, <3>1, Follows
    <2>3. \A x \in LiveEnvs : Follow(x) \subseteq Live \cup LiveEnvs
        <3>1. \A v \in LiveEnvs : /\ \A x \in Vars : env[v].val[x] \in Live \cup {NULL}
                                  /\ env[v].root \in LiveEnvs \cup {NULL}
            BY DEF HeapInv, HeapEnvs
        <3> QED  BY <2>1, <3>1, Follows
    <2> QED  BY <2>2, <2>3
<1> HIDE DEF closed, U
<1>4. S \subseteq U
    BY DEF U
<1>5. Reached(S) \subseteq U /\ S \subseteq Reached(S) /\ \A x \in Reached(S) : Follow(x) \subseteq Reached(S)
    BY <1>1, <1>2, <1>3, <1>4
<1> QED  BY <1>5 DEF U

-----------------------------------------------------------------------------
(* Trial deletion. *)

\* The owners of a cell, or of an environment, that COUNT visits.
WalkedEdges(c) == {e \in Walkable \X Slots : cell[e[1]].edge[e[2]] = c}
WalkedBindings(c) == {b \in Discovered \X Vars : env[b[1]].val[b[2]] = c}
WalkedCaptures(v) == {c \in Walkable : cell[c].env = v}
WalkedChildren(v) == {u \in Discovered : env[u].root = v}

\* A walked cell is a root exactly when something that COUNT does not visit owns it.
LEMMA CellRoot ==
    ASSUME HeapInv, Quiet, NEW c \in Walkable
    PROVE  c \in Roots <=> \/ held[c] > 0 \/ Watched(c) # {}
                           \/ \E e \in Edges(c) : e[1] \notin Walkable
                           \/ \E b \in Bindings(c) : b[1] \notin Discovered
<1>1. c \in Live /\ c \in Cells
    BY DEF Walkable, Of, Live
<1>2. c \in Roots <=> cell[c].nref > Interns(c)
    <2>1. c \notin Discovered
        BY <1>1, DiscoveredRight DEF LiveEnvs
    <2> QED  BY <1>1, <2>1 DEF Roots
<1>3. Interns(c) = Cardinality(WalkedEdges(c)) + Cardinality(WalkedBindings(c))
    BY DEF Interns, WalkedEdges, WalkedBindings
<1>4. WalkedEdges(c) = {e \in Edges(c) : e[1] \in Walkable}
    BY DEF WalkedEdges, Edges, Walkable, Of
<1>5. WalkedBindings(c) = {b \in Bindings(c) : b[1] \in Discovered}
    BY DiscoveredRight DEF WalkedBindings, Bindings
<1>6. HeapTypeOK
    BY DEF HeapInv
<1>7. /\ IsFiniteSet(Edges(c)) /\ Cardinality(Edges(c)) \in Nat
      /\ IsFiniteSet(Bindings(c)) /\ Cardinality(Bindings(c)) \in Nat
      /\ IsFiniteSet(Watched(c)) /\ Cardinality(Watched(c)) \in Nat
    BY <1>6, OwnersFinite
<1>8. held[c] \in Nat
    BY <1>1, <1>6 DEF HeapTypeOK
<1>9. Cardinality(Due(c)) = 0
    BY FS_EmptySet DEF Quiet, Due
<1>10. cell[c].nref = held[c] + Cardinality(Edges(c)) + Cardinality(Bindings(c))
                      + Cardinality(Watched(c)) + Cardinality(Due(c))
    BY <1>1 DEF HeapInv, OwnersCounted
<1>11. /\ Cardinality(WalkedEdges(c)) \in Nat /\ Cardinality(WalkedEdges(c)) <= Cardinality(Edges(c))
       /\ Cardinality(WalkedEdges(c)) = Cardinality(Edges(c)) <=> \A e \in Edges(c) : e[1] \in Walkable
    <2>1. WalkedEdges(c) \subseteq Edges(c)
        BY <1>4
    <2>2. Cardinality(WalkedEdges(c)) \in Nat /\ Cardinality(WalkedEdges(c)) <= Cardinality(Edges(c))
          /\ (WalkedEdges(c) # Edges(c) => Cardinality(WalkedEdges(c)) < Cardinality(Edges(c)))
        BY <1>7, <2>1, FS_Subset, FS_CardinalityType
    <2>3. WalkedEdges(c) = Edges(c) <=> \A e \in Edges(c) : e[1] \in Walkable
        BY <1>4
    <2>4. WalkedEdges(c) = Edges(c) => Cardinality(WalkedEdges(c)) = Cardinality(Edges(c))
        OBVIOUS
    <2> QED  BY <1>7, <2>2, <2>3, <2>4
<1>12. /\ Cardinality(WalkedBindings(c)) \in Nat /\ Cardinality(WalkedBindings(c)) <= Cardinality(Bindings(c))
       /\ Cardinality(WalkedBindings(c)) = Cardinality(Bindings(c)) <=> \A b \in Bindings(c) : b[1] \in Discovered
    <2>1. WalkedBindings(c) \subseteq Bindings(c)
        BY <1>5
    <2>2. Cardinality(WalkedBindings(c)) \in Nat /\ Cardinality(WalkedBindings(c)) <= Cardinality(Bindings(c))
          /\ (WalkedBindings(c) # Bindings(c) => Cardinality(WalkedBindings(c)) < Cardinality(Bindings(c)))
        BY <1>7, <2>1, FS_Subset, FS_CardinalityType
    <2>3. WalkedBindings(c) = Bindings(c) <=> \A b \in Bindings(c) : b[1] \in Discovered
        BY <1>5
    <2>4. WalkedBindings(c) = Bindings(c) => Cardinality(WalkedBindings(c)) = Cardinality(Bindings(c))
        OBVIOUS
    <2> QED  BY <1>7, <2>2, <2>3, <2>4
<1>13. Watched(c) = {} <=> Cardinality(Watched(c)) = 0
    BY <1>7, FS_EmptySet
<1>14. cell[c].nref > Interns(c) <=>
           \/ held[c] > 0 \/ Cardinality(Watched(c)) # 0
           \/ Cardinality(WalkedEdges(c)) # Cardinality(Edges(c))
           \/ Cardinality(WalkedBindings(c)) # Cardinality(Bindings(c))
    BY <1>3, <1>7, <1>8, <1>9, <1>10, <1>11, <1>12
<1> QED  BY <1>2, <1>11, <1>12, <1>13, <1>14

\* And so is a discovered environment.
LEMMA EnvRoot ==
    ASSUME HeapInv, Quiet, NEW v \in Discovered
    PROVE  v \in Roots <=> Calls(v) # {} \/ \E u \in Children(v) : u \notin Discovered
<1>1. v \in LiveEnvs /\ v \in Envs /\ v # NULL
    BY DiscoveredRight DEF LiveEnvs
<1>2. v \in Roots <=> env[v].nref > EnvInterns(v)
    BY <1>1 DEF Roots, Live
<1>3. EnvInterns(v) = Cardinality(WalkedCaptures(v)) + Cardinality(WalkedChildren(v))
    BY DEF EnvInterns, WalkedCaptures, WalkedChildren
<1>4. WalkedCaptures(v) = Captures(v)
    <2>1. \A c \in Live : cell[c].env # NULL => cell[c].kind = "lambda"
        BY DEF HeapInv, HeapCells
    <2> QED  BY <1>1, <2>1 DEF WalkedCaptures, Captures, Walkable, Of
<1>5. WalkedChildren(v) = {u \in Children(v) : u \in Discovered}
    BY DiscoveredRight DEF WalkedChildren, Children
<1>6. HeapTypeOK
    BY DEF HeapInv
<1>7. /\ Cardinality(Captures(v)) \in Nat
      /\ IsFiniteSet(Children(v)) /\ Cardinality(Children(v)) \in Nat
      /\ IsFiniteSet(Calls(v)) /\ Cardinality(Calls(v)) \in Nat
    BY <1>6, OwnersFinite
<1>8. Cardinality(Due(v)) = 0
    BY FS_EmptySet DEF Quiet, Due
<1>9. env[v].nref = Cardinality(Captures(v)) + Cardinality(Children(v))
                    + Cardinality(Calls(v)) + Cardinality(Due(v))
    BY <1>1 DEF HeapInv, OwnersCounted
<1>10. /\ Cardinality(WalkedChildren(v)) \in Nat /\ Cardinality(WalkedChildren(v)) <= Cardinality(Children(v))
       /\ Cardinality(WalkedChildren(v)) = Cardinality(Children(v)) <=> \A u \in Children(v) : u \in Discovered
    <2>1. WalkedChildren(v) \subseteq Children(v)
        BY <1>5
    <2>2. Cardinality(WalkedChildren(v)) \in Nat /\ Cardinality(WalkedChildren(v)) <= Cardinality(Children(v))
          /\ (WalkedChildren(v) # Children(v) => Cardinality(WalkedChildren(v)) < Cardinality(Children(v)))
        BY <1>7, <2>1, FS_Subset, FS_CardinalityType
    <2>3. WalkedChildren(v) = Children(v) <=> \A u \in Children(v) : u \in Discovered
        BY <1>5
    <2>4. WalkedChildren(v) = Children(v) => Cardinality(WalkedChildren(v)) = Cardinality(Children(v))
        OBVIOUS
    <2> QED  BY <1>7, <2>2, <2>3, <2>4
<1>11. Calls(v) = {} <=> Cardinality(Calls(v)) = 0
    BY <1>7, FS_EmptySet
<1>12. Cardinality(WalkedCaptures(v)) = Cardinality(Captures(v))
    BY <1>4
<1>13. env[v].nref > EnvInterns(v) <=>
           \/ Cardinality(Calls(v)) # 0
           \/ Cardinality(WalkedChildren(v)) # Cardinality(Children(v))
    BY <1>3, <1>7, <1>8, <1>9, <1>10, <1>12
<1> QED  BY <1>2, <1>10, <1>11, <1>13

\* Nothing in use is condemned, and nothing that is left leads to the garbage.
Apart(G) ==
    /\ \A c \in Cells : held[c] > 0 => c \notin G
    /\ \A i \in DOMAIN frames : frames[i] \notin G
    /\ \A c \in Live : cell[c].watcher \notin G
    /\ \A c \in Live \ G : cell[c].env \notin G /\ \A s \in Slots : cell[c].edge[s] \notin G
    /\ \A v \in LiveEnvs \ G : env[v].root \notin G /\ \A x \in Vars : env[v].val[x] \notin G

\* gc_mark and gc_sweep: the garbage of a collection is apart from what is in use.
LEMMA GarbageApart ==
    ASSUME HeapInv, Quiet
    PROVE  Garbage \subseteq Walkable \cup Discovered /\ Apart(Garbage)
<1>1. /\ Walkable \subseteq Live /\ Live \subseteq Cells /\ LiveEnvs \subseteq Envs
      /\ Discovered \subseteq LiveEnvs /\ NULL \notin Cells /\ NULL \notin Envs
    BY DiscoveredRight DEF Walkable, Of, Live, LiveEnvs
<1>2. Garbage \subseteq Walkable \cup Discovered /\ \A x \in Garbage : x \notin Roots /\ x \notin Marked
    BY MarkedRight DEF Garbage
<1>3. /\ \A c \in Walkable : c \notin Garbage => c \in Marked
      /\ \A v \in Discovered : v \notin Garbage => v \in Marked
    BY DEF Garbage
<1>4. HeapTypeOK
    BY DEF HeapInv
<1>5. \A c \in Garbage \cap Cells : /\ c \in Walkable /\ held[c] = 0 /\ Watched(c) = {}
                                    /\ \A e \in Edges(c) : e[1] \in Walkable
                                    /\ \A b \in Bindings(c) : b[1] \in Discovered
    <2> SUFFICES ASSUME NEW c \in Garbage \cap Cells
                 PROVE  /\ c \in Walkable /\ held[c] = 0 /\ Watched(c) = {}
                        /\ \A e \in Edges(c) : e[1] \in Walkable
                        /\ \A b \in Bindings(c) : b[1] \in Discovered
        OBVIOUS
    <2>1. c \in Walkable /\ c \notin Roots
        BY <1>1, <1>2
    <2>2. held[c] \in Nat
        BY <1>4 DEF HeapTypeOK
    <2> QED  BY <2>1, <2>2, CellRoot
<1>6. \A v \in Garbage \cap Envs : v \in Discovered /\ Calls(v) = {} /\ \A u \in Children(v) : u \in Discovered
    <2> SUFFICES ASSUME NEW v \in Garbage \cap Envs
                 PROVE  v \in Discovered /\ Calls(v) = {} /\ \A u \in Children(v) : u \in Discovered
        OBVIOUS
    <2>1. v \in Discovered /\ v \notin Roots
        BY <1>1, <1>2
    <2> QED  BY <2>1, EnvRoot
<1>7. \A c \in Cells : held[c] > 0 => c \notin Garbage
    <2>1. \A c \in Cells : held[c] \in Nat
        BY <1>4 DEF HeapTypeOK
    <2> QED  BY <1>5, <2>1
<1>8. \A i \in DOMAIN frames : frames[i] \notin Garbage
    <2> SUFFICES ASSUME NEW i \in DOMAIN frames, frames[i] \in Garbage  PROVE FALSE
        OBVIOUS
    <2>1. frames[i] \in Envs
        BY <1>1 DEF HeapInv, HeapInUse
    <2>2. i \in Calls(frames[i])
        BY DEF Calls
    <2> QED  BY <1>6, <2>1, <2>2
<1>9. \A c \in Live : cell[c].watcher \notin Garbage
    <2> SUFFICES ASSUME NEW c \in Live, cell[c].watcher \in Garbage  PROVE FALSE
        OBVIOUS
    <2>1. cell[c].watcher \in Live \cup {NULL}
        BY DEF HeapInv, HeapCells
    <2>2. cell[c].watcher \in Cells
        BY <1>1, <1>2, <2>1
    <2>3. c \in Watched(cell[c].watcher)
        BY DEF Watched
    <2> QED  BY <1>5, <2>2, <2>3
<1>10. ASSUME NEW c \in Live \ Garbage
       PROVE  cell[c].env \notin Garbage /\ \A s \in Slots : cell[c].edge[s] \notin Garbage
    <2>1. /\ cell[c].env \in LiveEnvs \cup {NULL} /\ (cell[c].kind # "lambda" => cell[c].env = NULL)
          /\ \A s \in Slots : cell[c].edge[s] \in Live \cup {NULL}
        BY DEF HeapInv, HeapCells
    <2>2. CASE c \in Walkable
        <3>1. c \in Marked
            BY <1>3, <2>2
        <3>2. Marks(c) = ValueEdges(c) \cup ({cell[c].env} \ {NULL})
            <4>1. c \notin Discovered
                BY <1>1
            <4> QED  BY <2>2, <4>1 DEF Marks
        <3>3. Marks(c) \subseteq Marked
            BY <3>1, MarkedRight
        <3>4. DOMAIN cell[c].edge = Slots
            <4>1. cell[c] \in Cell
                BY <1>4 DEF HeapTypeOK, Live
            <4> QED  BY <4>1 DEF Cell
        <3>5. \A s \in Slots : cell[c].edge[s] \in Marked \cup {NULL}
            BY <3>2, <3>3, <3>4 DEF ValueEdges, Range
        <3>6. cell[c].env \in Marked \cup {NULL}
            BY <3>2, <3>3
        <3> QED  BY <1>1, <1>2, <3>5, <3>6
    <2>3. CASE c \notin Walkable
        <3>1. cell[c].env = NULL
            BY <2>1, <2>3 DEF Walkable, Of
        <3>2. ASSUME NEW s \in Slots, cell[c].edge[s] \in Garbage  PROVE FALSE
            <4>1. cell[c].edge[s] \in Cells
                BY <1>1, <1>2, <2>1, <3>2
            <4>2. <<c, s>> \in Edges(cell[c].edge[s])
                BY DEF Edges
            <4>3. <<c, s>>[1] = c
                OBVIOUS
            <4> QED  BY <1>5, <2>3, <3>2, <4>1, <4>2, <4>3
        <3> QED  BY <1>1, <1>2, <3>1, <3>2
    <2> QED  BY <2>2, <2>3
<1>11. ASSUME NEW v \in LiveEnvs \ Garbage
       PROVE  env[v].root \notin Garbage /\ \A x \in Vars : env[v].val[x] \notin Garbage
    <2>1. /\ env[v].root \in LiveEnvs \cup {NULL}
          /\ \A x \in Vars : env[v].val[x] \in Live \cup {NULL}
        BY DEF HeapInv, HeapEnvs
    <2>2. CASE v \in Discovered
        <3>1. v \in Marked
            BY <1>3, <2>2
        <3>2. Marks(v) = BoundEdges(v) \cup Parent(v)
            <4>1. v \notin Walkable
                BY <1>1
            <4> QED  BY <2>2, <4>1 DEF Marks
        <3>3. Marks(v) \subseteq Marked
            BY <3>1, MarkedRight
        <3>4. DOMAIN env[v].val = Vars
            <4>1. env[v] \in Env
                BY <1>4 DEF HeapTypeOK, LiveEnvs
            <4> QED  BY <4>1 DEF Env
        <3>5. \A x \in Vars : env[v].val[x] \in Marked \cup {NULL}
            BY <3>2, <3>3, <3>4 DEF BoundEdges, Range
        <3>6. env[v].root \in Marked \cup {NULL}
            BY <3>2, <3>3 DEF Parent
        <3> QED  BY <1>1, <1>2, <3>5, <3>6
    <2>3. CASE v \notin Discovered
        <3>1. ASSUME env[v].root \in Garbage  PROVE FALSE
            <4>1. env[v].root \in Envs
                BY <1>1, <1>2, <2>1, <3>1
            <4>2. v \in Children(env[v].root)
                BY DEF Children
            <4> QED  BY <1>6, <2>3, <3>1, <4>1, <4>2
        <3>2. ASSUME NEW x \in Vars, env[v].val[x] \in Garbage  PROVE FALSE
            <4>1. env[v].val[x] \in Cells
                BY <1>1, <1>2, <2>1, <3>2
            <4>2. <<v, x>> \in Bindings(env[v].val[x])
                BY DEF Bindings
            <4>3. <<v, x>>[1] = v
                OBVIOUS
            <4> QED  BY <1>5, <2>3, <3>2, <4>1, <4>2, <4>3
        <3> QED  BY <3>1, <3>2
    <2> QED  BY <2>2, <2>3
<1> QED  BY <1>2, <1>7, <1>8, <1>9, <1>10, <1>11 DEF Apart

\* What trial deletion must keep: the program, the watchers, and the owners it
\* cannot look into.
Anchors == Held \cup ToSet(frames) \cup Watchers \cup (Live \ Walkable)

\* What trial deletion keeps to begin with is alive.
LEMMA AnchorsLive ==
    ASSUME HeapInv
    PROVE  Anchors \subseteq Live \cup LiveEnvs
<1>1. ToSet(frames) \subseteq LiveEnvs
    BY DEF ToSet, HeapInv, HeapInUse
<1>2. Watchers \subseteq Live
    BY DEF Watchers, HeapInv, HeapCells
<1> QED  BY <1>1, <1>2 DEF Anchors, Held

\* Whatever is reached from there is not garbage.
LEMMA ReachedKept ==
    ASSUME HeapInv, Quiet
    PROVE  Reached(Anchors) \cap Garbage = {}
<1> DEFINE T == (Live \cup LiveEnvs) \ Garbage
<1>1. Apart(Garbage) /\ Garbage \subseteq Walkable \cup Discovered
    BY GarbageApart
<1>2. HeapTypeOK
    BY DEF HeapInv
<1>3. Walkable \subseteq Live /\ Discovered \subseteq LiveEnvs /\ Live \cap LiveEnvs = {}
    BY DiscoveredRight DEF Walkable, Of, Live, LiveEnvs
<1>4. Anchors \subseteq T
    <2>1. Held \cap Garbage = {}
        BY <1>1 DEF Apart, Held, Live
    <2>2. ToSet(frames) \cap Garbage = {}
        BY <1>1 DEF Apart, ToSet
    <2>3. Watchers \cap Garbage = {}
        BY <1>1 DEF Apart, Watchers
    <2>4. (Live \ Walkable) \cap Garbage = {}
        BY <1>1, <1>3
    <2> QED  BY <2>1, <2>2, <2>3, <2>4, AnchorsLive DEF Anchors
<1>5. ASSUME NEW x \in T  PROVE Follow(x) \subseteq T
    <2>1. CASE x \in Live
        <3>1. /\ cell[x].watcher \in Live \cup {NULL} /\ cell[x].env \in LiveEnvs \cup {NULL}
              /\ \A s \in Slots : cell[x].edge[s] \in Live \cup {NULL}
            BY <2>1 DEF HeapInv, HeapCells
        <3>2. /\ cell[x].watcher \notin Garbage /\ cell[x].env \notin Garbage
              /\ \A s \in Slots : cell[x].edge[s] \notin Garbage
            BY <1>1, <2>1 DEF Apart
        <3>3. \A y \in Follow(x) : (\E s \in Slots : y = cell[x].edge[s]) \/ y = cell[x].env \/ y = cell[x].watcher
            BY <1>2, <2>1, Follows
        <3>4. \A y \in Follow(x) : y # NULL
            BY <1>2, <2>1, Follows
        <3> QED  BY <3>1, <3>2, <3>3, <3>4
    <2>2. CASE x \in LiveEnvs
        <3>1. /\ env[x].root \in LiveEnvs \cup {NULL}
              /\ \A z \in Vars : env[x].val[z] \in Live \cup {NULL}
            BY <2>2 DEF HeapInv, HeapEnvs
        <3>2. env[x].root \notin Garbage /\ \A z \in Vars : env[x].val[z] \notin Garbage
            BY <1>1, <2>2 DEF Apart
        <3>3. \A y \in Follow(x) : y # NULL /\ ((\E z \in Vars : y = env[x].val[z]) \/ y = env[x].root)
            BY <1>2, <2>2, Follows
        <3> QED  BY <3>1, <3>2, <3>3
    <2> QED  BY <2>1, <2>2
<1>6. T \in SUBSET (Live \cup LiveEnvs) /\ T \cap Garbage = {}
    OBVIOUS
<1> HIDE DEF T
<1>7. Reached(Anchors) \subseteq T
    BY <1>4, <1>5, <1>6, ReachedLeast
<1> QED  BY <1>6, <1>7

\* An environment that COUNT does not discover is kept from outside the walked
\* part of the heap, or from a running call.
LEMMA UndiscoveredReached ==
    ASSUME HeapInv, Quiet
    PROVE  LiveEnvs \subseteq Discovered \cup Reached(Anchors)
<1> DEFINE R == Reached(Anchors)
           B == LiveEnvs \ (Discovered \cup R)
<1>1. /\ Anchors \subseteq R /\ \A x \in R : Follow(x) \subseteq R
      /\ R \subseteq Live \cup LiveEnvs
    BY AnchorsLive, ReachedClosed
<1> HIDE DEF R
<1> SUFFICES ASSUME B # {}  PROVE FALSE
    BY DEF R
<1>2. B \in SUBSET LiveEnvs
    OBVIOUS
<1>3. PICK v \in B : \A u \in B : env[u].root # v
    BY <1>2 DEF HeapInv, Grounded
<1>4. v \in LiveEnvs /\ v \notin Discovered /\ v \notin R /\ v \in Envs /\ v # NULL
    BY <1>3 DEF LiveEnvs
<1>5. HeapTypeOK
    BY DEF HeapInv
<1>6. Captures(v) = {}
    <2> SUFFICES ASSUME NEW c \in Captures(v)  PROVE FALSE
        OBVIOUS
    <2>1. c \in Live /\ cell[c].env = v
        BY DEF Captures
    <2>2. cell[c].kind = "lambda"
        BY <1>4, <2>1 DEF HeapInv, HeapCells
    <2>3. v \in Captured
        BY <1>4, <2>1, <2>2 DEF Captured, Walkable, Of
    <2> QED  BY <1>4, <2>3, DiscoveredRight
<1>7. Children(v) = {}
    <2> SUFFICES ASSUME NEW u \in Children(v)  PROVE FALSE
        OBVIOUS
    <2>1. u \in LiveEnvs /\ env[u].root = v
        BY DEF Children
    <2>2. u \in Discovered \/ u \in R
        BY <1>3, <2>1
    <2>3. u \notin Discovered
        <3>1. v \in Parent(u)
            BY <1>4, <2>1 DEF Parent
        <3> QED  BY <1>4, <3>1, DiscoveredRight
    <2>4. v \in Follow(u)
        BY <1>4, <1>5, <2>1, Follows
    <2> QED  BY <1>1, <1>4, <2>2, <2>3, <2>4
<1>8. Calls(v) = {}
    <2> SUFFICES ASSUME NEW i \in Calls(v)  PROVE FALSE
        OBVIOUS
    <2>1. v \in ToSet(frames)
        BY DEF Calls, ToSet
    <2> QED  BY <1>1, <1>4, <2>1 DEF Anchors
<1>9. Cardinality(Due(v)) = 0
    BY FS_EmptySet DEF Quiet, Due
<1>10. env[v].nref = Cardinality(Captures(v)) + Cardinality(Children(v))
                     + Cardinality(Calls(v)) + Cardinality(Due(v))
    BY <1>4 DEF HeapInv, OwnersCounted
<1>11. Cardinality(Captures(v)) = 0 /\ Cardinality(Children(v)) = 0 /\ Cardinality(Calls(v)) = 0
    BY <1>6, <1>7, <1>8, FS_EmptySet
<1>12. env[v].nref \in Nat \ {0}
    <2>1. env[v] \in Env
        BY <1>4, <1>5 DEF HeapTypeOK, LiveEnvs
    <2> QED  BY <2>1 DEF Env
<1> QED  BY <1>9, <1>10, <1>11, <1>12

\* And whatever is marked is reached: nothing is kept for nothing.
LEMMA MarkedReached ==
    ASSUME HeapInv, Quiet
    PROVE  Marked \subseteq Reached(Anchors)
<1> DEFINE R == Reached(Anchors)
<1>1. /\ Anchors \subseteq R /\ \A x \in R : Follow(x) \subseteq R
      /\ R \subseteq Live \cup LiveEnvs
    BY AnchorsLive, ReachedClosed
<1>2. LiveEnvs \subseteq Discovered \cup R
    BY UndiscoveredReached
<1> HIDE DEF R
<1>3. HeapTypeOK
    BY DEF HeapInv
<1>4. /\ Walkable \subseteq Live /\ Discovered \subseteq LiveEnvs /\ Live \cap LiveEnvs = {}
      /\ NULL \notin Live \cup LiveEnvs
    BY DiscoveredRight DEF Walkable, Of, Live, LiveEnvs
<1>5. ASSUME NEW c \in Walkable, c \in Roots  PROVE c \in R
    <2>1. \/ held[c] > 0 \/ Watched(c) # {}
          \/ \E e \in Edges(c) : e[1] \notin Walkable
          \/ \E b \in Bindings(c) : b[1] \notin Discovered
        BY <1>5, CellRoot
    <2>2. c \in Live /\ c # NULL
        BY <1>4
    <2>3. CASE held[c] > 0
        BY <1>1, <2>2, <2>3 DEF Anchors, Held
    <2>4. CASE Watched(c) # {}
        <3>1. c \in Watchers
            BY <2>2, <2>4 DEF Watched, Watchers
        <3> QED  BY <1>1, <3>1 DEF Anchors
    <2>5. CASE \E e \in Edges(c) : e[1] \notin Walkable
        <3>1. PICK e \in Edges(c) : e[1] \notin Walkable
            BY <2>5
        <3>2. e[1] \in Live /\ e[2] \in Slots /\ cell[e[1]].edge[e[2]] = c
            BY DEF Edges
        <3>3. e[1] \in R
            BY <1>1, <3>1, <3>2 DEF Anchors
        <3>4. c \in Follow(e[1])
            BY <1>3, <2>2, <3>2, Follows
        <3> QED  BY <1>1, <3>3, <3>4
    <2>6. CASE \E b \in Bindings(c) : b[1] \notin Discovered
        <3>1. PICK b \in Bindings(c) : b[1] \notin Discovered
            BY <2>6
        <3>2. b[1] \in LiveEnvs /\ b[2] \in Vars /\ env[b[1]].val[b[2]] = c
            BY DEF Bindings
        <3>3. b[1] \in R
            BY <1>2, <3>1, <3>2
        <3>4. c \in Follow(b[1])
            BY <1>3, <2>2, <3>2, Follows
        <3> QED  BY <1>1, <3>3, <3>4
    <2> QED  BY <2>1, <2>3, <2>4, <2>5, <2>6
<1>6. ASSUME NEW v \in Discovered, v \in Roots  PROVE v \in R
    <2>1. Calls(v) # {} \/ \E u \in Children(v) : u \notin Discovered
        BY <1>6, EnvRoot
    <2>2. CASE Calls(v) # {}
        <3>1. v \in ToSet(frames)
            BY <2>2 DEF Calls, ToSet
        <3> QED  BY <1>1, <3>1 DEF Anchors
    <2>3. CASE \E u \in Children(v) : u \notin Discovered
        <3>1. PICK u \in Children(v) : u \notin Discovered
            BY <2>3
        <3>2. u \in LiveEnvs /\ env[u].root = v /\ v # NULL
            BY <1>4 DEF Children
        <3>3. u \in R
            BY <1>2, <3>1, <3>2
        <3>4. v \in Follow(u)
            BY <1>3, <3>2, Follows
        <3> QED  BY <1>1, <3>3, <3>4
    <2> QED  BY <2>1, <2>2, <2>3
<1>7. Roots \subseteq R
    <2>1. \A c \in Live : c \notin Walkable => c \in R
        BY <1>1 DEF Anchors
    <2>2. Roots \subseteq Live \cup Discovered
        BY DEF Roots
    <2> QED  BY <1>5, <1>6, <2>1, <2>2
<1>8. ASSUME NEW x \in R  PROVE Marks(x) \subseteq R
    <2>1. Follow(x) \subseteq R
        BY <1>1
    <2>2. CASE x \in Walkable
        <3>1. x \in Live /\ x \notin Discovered
            BY <1>4, <2>2
        <3>2. Marks(x) = ValueEdges(x) \cup ({cell[x].env} \ {NULL})
            BY <2>2, <3>1 DEF Marks
        <3>3. x \in Cells
            BY <3>1 DEF Live
        <3>4. Marks(x) \subseteq Follow(x)
            BY <3>2, <3>3 DEF Follow, ValueEdges
        <3> QED  BY <2>1, <3>4
    <2>3. CASE x \in Discovered
        <3>1. x \in LiveEnvs /\ x \notin Walkable
            BY <1>4, <2>3
        <3>2. Marks(x) = BoundEdges(x) \cup Parent(x)
            BY <2>3, <3>1 DEF Marks
        <3>3. x \notin Cells
            BY <3>1 DEF LiveEnvs
        <3>4. Marks(x) \subseteq Follow(x)
            BY <3>2, <3>3 DEF Follow, BoundEdges, Parent
        <3> QED  BY <2>1, <3>4
    <2>4. CASE x \notin Walkable /\ x \notin Discovered
        BY <2>4 DEF Marks
    <2> QED  BY <2>2, <2>3, <2>4
<1>9. Marked \subseteq R
    BY <1>1, <1>7, <1>8, MarkedRight
<1> QED  BY <1>9 DEF R

\* Trial deletion condemns exactly what is not reached.
LEMMA GarbageRight ==
    ASSUME HeapInv, Quiet
    PROVE  Garbage = (Walkable \cup LiveEnvs) \ Reached(Anchors)
<1>1. Discovered \subseteq LiveEnvs
    BY DiscoveredRight
<1>2. Garbage \subseteq (Walkable \cup LiveEnvs) \ Reached(Anchors)
    BY <1>1, ReachedKept DEF Garbage
<1>3. (Walkable \cup LiveEnvs) \ Reached(Anchors) \subseteq Garbage
    BY <1>1, UndiscoveredReached, MarkedReached DEF Garbage
<1> QED  BY <1>2, <1>3

\* What GcCycles puts up for the sweep of G.
Sweeping(G) == (({EdgePass} \X (G \cap Cells)) \X Slots)
               \cup (({CapturePass} \X (G \cap Cells)) \X {0})
               \cup (({BindingPass} \X (G \cap Envs)) \X Vars)
               \cup (({EnvPass} \X (G \cap Envs)) \X {0})
               \cup (({CellPass} \X (G \cap Cells)) \X {0})

\* Every owner of the garbage has all of its items in the sweep.
LEMMA SweepingHolds ==
    ASSUME NEW G
    PROVE  /\ \A c \in G \cap Cells : /\ CaptureItem(c) \in Sweeping(G) /\ CellItem(c) \in Sweeping(G)
                                      /\ \A s \in Slots : EdgeItem(c, s) \in Sweeping(G)
           /\ \A v \in G \cap Envs : /\ EnvItem(v) \in Sweeping(G)
                                     /\ \A x \in Vars : BindingItem(v, x) \in Sweeping(G)
<1>1. \A c \in G \cap Cells : /\ CaptureItem(c) \in Sweeping(G) /\ CellItem(c) \in Sweeping(G)
                              /\ \A s \in Slots : EdgeItem(c, s) \in Sweeping(G)
    BY DEF Sweeping, CaptureItem, CellItem, EdgeItem
<1>2. \A v \in G \cap Envs : /\ EnvItem(v) \in Sweeping(G)
                             /\ \A x \in Vars : BindingItem(v, x) \in Sweeping(G)
    BY DEF Sweeping, EnvItem, BindingItem
<1> QED  BY <1>1, <1>2

\* A collection that starts preserves the invariant: the garbage is apart.
LEMMA CondemnStep ==
    ASSUME GcInv, HeapInv, Quiet, todo = {}, NEW G, G # {}, G \subseteq Live \cup LiveEnvs, Apart(G),
           dead' = G, todo' = Sweeping(G), UNCHANGED heapVars
    PROVE  GcInv'
<1>1. cell' = cell /\ env' = env /\ held' = held /\ frames' = frames /\ work' = work
    BY DEF heapVars
<1>2. /\ Live' = Live /\ LiveEnvs' = LiveEnvs /\ Live \subseteq Cells /\ LiveEnvs \subseteq Envs
      /\ Sound' = Live \ G /\ SoundEnvs' = LiveEnvs \ G
    BY <1>1 DEF Live, LiveEnvs, Sound, SoundEnvs
<1>3. /\ \A c \in G \cap Cells : /\ CaptureItem(c) \in todo' /\ CellItem(c) \in todo'
                                 /\ \A s \in Slots : EdgeItem(c, s) \in todo'
      /\ \A v \in G \cap Envs : /\ EnvItem(v) \in todo'
                                /\ \A x \in Vars : BindingItem(v, x) \in todo'
    BY SweepingHolds
<1>4. /\ \A c \in G \cap Cells : c \in Live
      /\ \A v \in G \cap Envs : v \in LiveEnvs
    BY DEF Live, LiveEnvs
<1>5. GcTypeOK'
    <2>1. HeapTypeOK'
        BY <1>1 DEF HeapInv, HeapTypeOK
    <2> QED  BY <1>2, <2>1 DEF GcTypeOK
<1>6. todo' # {}
    <2>1. \E x \in G : x \in Cells \/ x \in Envs
        BY <1>2
    <2> QED  BY <1>3, <2>1
<1>7. SweepRight'
    <2>1. todo' \subseteq (({EdgePass} \X (dead' \cap Cells)) \X Slots)
                      \cup (({CapturePass} \X (dead' \cap Cells)) \X {0})
                      \cup (({BindingPass} \X (dead' \cap Envs)) \X Vars)
                      \cup (({EnvPass} \X (dead' \cap Envs)) \X {0})
                      \cup (({CellPass} \X (dead' \cap Cells)) \X {0})
        BY DEF Sweeping
    <2>2. /\ \A c \in dead' \cap Cells : c \in Live' /\ CellItem(c) \in todo'
          /\ \A v \in dead' \cap Envs : v \in LiveEnvs' /\ EnvItem(v) \in todo'
        BY <1>2, <1>3, <1>4
    <2>3. /\ \A c \in dead' \cap Cells : /\ c \in Live' <=> CellItem(c) \in todo'
                                         /\ c \in Live' \/ \A i \in todo' : i[1][1] = CellPass
          /\ \A v \in dead' \cap Envs : /\ v \in LiveEnvs' <=> EnvItem(v) \in todo'
                                        /\ v \in LiveEnvs' \/ \A i \in todo' : i[1][1] >= EnvPass
        BY <2>2
    <2> QED  BY <1>6, <2>1, <2>3 DEF SweepRight
<1>8. ASSUME NEW x
      PROVE  /\ OwnEdges(x)' = Edges(x) /\ OwnBindings(x)' = Bindings(x) /\ Watched(x)' = Watched(x)
             /\ Captures(x)' = Captures(x) /\ Children(x)' = Children(x) /\ Calls(x)' = Calls(x)
             /\ Due(x)' = Due(x)
    <2>1. /\ Edges(x)' = Edges(x) /\ Bindings(x)' = Bindings(x) /\ Watched(x)' = Watched(x)
          /\ Captures(x)' = Captures(x) /\ Children(x)' = Children(x)
        BY <1>1, <1>2 DEF Edges, Bindings, Watched, Captures, Children
    <2>2. Calls(x)' = Calls(x) /\ Due(x)' = Due(x)
        BY <1>1 DEF Calls, Due
    <2>3. OwnEdges(x)' = {e \in Edges(x)' : e[1] \in dead' => EdgeItem(e[1], e[2]) \in todo'}
        BY DEF OwnEdges, EdgeItem
    <2>4. OwnBindings(x)' = {b \in Bindings(x)' : b[1] \in dead' => BindingItem(b[1], b[2]) \in todo'}
        BY DEF OwnBindings, BindingItem
    <2>5. \A e \in Edges(x) : e[1] \in Cells /\ e[2] \in Slots
        BY DEF Edges, Live
    <2>6. \A b \in Bindings(x) : b[1] \in Envs /\ b[2] \in Vars
        BY DEF Bindings, LiveEnvs
    <2>7. OwnEdges(x)' = Edges(x)
        BY <1>3, <2>1, <2>3, <2>5
    <2>8. OwnBindings(x)' = Bindings(x)
        BY <1>3, <2>1, <2>4, <2>6
    <2> QED  BY <2>1, <2>2, <2>7, <2>8
<1>9. CellsCounted'
    <2> SUFFICES ASSUME NEW c \in Sound'  PROVE cell'[c].nref = CellCount(c)'
        BY DEF CellsCounted
    <2>1. c \in Live
        BY <1>2
    <2>2. cell[c].nref = held[c] + Cardinality(Edges(c)) + Cardinality(Bindings(c))
                         + Cardinality(Watched(c)) + Cardinality(Due(c))
        BY <2>1 DEF HeapInv, OwnersCounted
    <2>3. CellCount(c)' = held'[c] + Cardinality(OwnEdges(c)') + Cardinality(OwnBindings(c)')
                          + Cardinality(Watched(c)') + Cardinality(Due(c)')
        BY DEF CellCount
    <2> QED  BY <1>1, <1>8, <2>2, <2>3
<1>10. EnvsCounted'
    <2> SUFFICES ASSUME NEW v \in SoundEnvs'  PROVE env'[v].nref = EnvCount(v)'
        BY DEF EnvsCounted
    <2>1. v \in LiveEnvs
        BY <1>2
    <2>2. env[v].nref = Cardinality(Captures(v)) + Cardinality(Children(v))
                        + Cardinality(Calls(v)) + Cardinality(Due(v))
        BY <2>1 DEF HeapInv, OwnersCounted
    <2>3. EnvCount(v)' = Cardinality(Captures(v)') + Cardinality(Children(v)')
                         + Cardinality(Calls(v)') + Cardinality(Due(v)')
        BY DEF EnvCount
    <2> QED  BY <1>1, <1>8, <2>2, <2>3
<1>11. InUse'
    <2>1. \A c \in Cells : held[c] > 0 => c \in Live \ G
        BY DEF HeapInv, HeapInUse, Apart
    <2>2. \A i \in DOMAIN frames : frames[i] \in LiveEnvs \ G
        BY DEF HeapInv, HeapInUse, Apart
    <2>3. DOMAIN work = {}
        BY DEF Quiet
    <2> QED  BY <1>1, <1>2, <2>1, <2>2, <2>3 DEF InUse
<1>12. CellsPoint'
    <2> SUFFICES ASSUME NEW c \in Live'
                 PROVE  /\ cell'[c].to \in Live' \cup {NULL}
                        /\ cell'[c].watcher \in Sound' \cup {NULL}
                        /\ c \notin dead' => /\ \A s \in Slots : cell'[c].edge[s] \in Sound' \cup {NULL}
                                             /\ cell'[c].env \in SoundEnvs' \cup {NULL}
                        /\ c \in dead' => \/ CaptureItem(c) \in todo'
                                          \/ cell'[c].env = NULL
                        /\ cell'[c].kind # "lambda" => cell'[c].env = NULL
                        /\ \A s \in Slots : EdgeItem(c, s) \in todo'
                              => cell'[c].edge[s] \in Live' \cup dead' \cup {NULL}
                        /\ CaptureItem(c) \in todo' => cell'[c].env \in LiveEnvs' \cup dead' \cup {NULL}
        BY DEF CellsPoint
    <2>1. /\ cell[c].to \in Live \cup {NULL} /\ cell[c].watcher \in Live \cup {NULL}
          /\ \A s \in Slots : cell[c].edge[s] \in Live \cup {NULL}
          /\ cell[c].env \in LiveEnvs \cup {NULL}
          /\ cell[c].kind # "lambda" => cell[c].env = NULL
        BY <1>2 DEF HeapInv, HeapCells
    <2>2. /\ cell[c].watcher \notin G
          /\ c \notin G => cell[c].env \notin G /\ \A s \in Slots : cell[c].edge[s] \notin G
        BY <1>2 DEF Apart
    <2>3. c \in G => CaptureItem(c) \in todo'
        BY <1>2, <1>3
    <2> QED  BY <1>1, <1>2, <2>1, <2>2, <2>3
<1>13. EnvsPoint'
    <2> SUFFICES ASSUME NEW v \in LiveEnvs'
                 PROVE  /\ v \notin dead' => /\ \A x \in Vars : env'[v].val[x] \in Sound' \cup {NULL}
                                             /\ env'[v].root \in SoundEnvs' \cup {NULL}
                        /\ \A x \in Vars : BindingItem(v, x) \in todo'
                              => env'[v].val[x] \in Live' \cup dead' \cup {NULL}
                        /\ env'[v].root \in LiveEnvs' \cup dead' \cup {NULL}
        BY DEF EnvsPoint
    <2>1. /\ \A x \in Vars : env[v].val[x] \in Live \cup {NULL}
          /\ env[v].root \in LiveEnvs \cup {NULL}
        BY <1>2 DEF HeapInv, HeapEnvs
    <2>2. v \notin G => env[v].root \notin G /\ \A x \in Vars : env[v].val[x] \notin G
        BY <1>2 DEF Apart
    <2> QED  BY <1>1, <1>2, <2>1, <2>2
<1>14. Grounded'
    BY <1>1, <1>2 DEF HeapInv, Grounded
<1>15. CutIsDue'
    <2>1. \A c \in Live : ~ (cell[c].kind = "lambda" /\ cell[c].env = NULL)
        BY DEF HeapInv, HeapCut, Quiet
    <2> QED  BY <1>1, <1>2, <2>1 DEF CutIsDue
<1> QED  BY <1>5, <1>7, <1>9, <1>10, <1>11, <1>12, <1>13, <1>14, <1>15 DEF GcInv

\* gccyclescmd: COUNT, ROOTS and MARK leave the invariant, with the garbage to sweep.
LEMMA GcCyclesKeeps ==
    ASSUME GcInv, GcCycles
    PROVE  GcInv'
<1>1. Quiet /\ todo = {} /\ Garbage # {} /\ dead' = Garbage /\ todo' = Sweeping(Garbage) /\ UNCHANGED heapVars
    BY DEF GcCycles, Sweeping
<1>2. dead = {}
    BY <1>1 DEF GcInv, SweepRight
<1>3. HeapInv
    BY <1>1, <1>2, Resting
<1>4. Garbage \subseteq Walkable \cup Discovered /\ Apart(Garbage)
    BY <1>1, <1>3, GarbageApart
<1>5. Garbage \subseteq Live \cup LiveEnvs
    BY <1>3, <1>4, DiscoveredRight DEF Walkable, Of
<1> DEFINE G == Garbage
<1>6. G # {} /\ G \subseteq Live \cup LiveEnvs /\ Apart(G) /\ dead' = G /\ todo' = Sweeping(G)
    BY <1>1, <1>4, <1>5
<1> HIDE DEF G
<1> QED  BY <1>1, <1>3, <1>6, CondemnStep

-----------------------------------------------------------------------------
(* The theorems. *)

\* The heap starts empty.
LEMMA GcInvInit == GcInit => GcInv
<1> SUFFICES ASSUME GcInit  PROVE GcInv
    OBVIOUS
<1>1. /\ cell = [c \in Cells |-> NULL] /\ env = [v \in Envs |-> NULL]
      /\ held = [c \in Cells |-> 0] /\ frames = <<>> /\ work = <<>> /\ todo = {} /\ dead = {}
    BY DEF GcInit, HeapInit
<1>2. Live = {} /\ LiveEnvs = {}
    BY <1>1 DEF Live, LiveEnvs
<1>3. HeapTypeOK
    BY <1>1 DEF HeapTypeOK
<1>4. HeapInUse
    BY <1>1 DEF HeapInUse
<1>5. OwnersCounted /\ HeapCells /\ HeapEnvs /\ Grounded /\ HeapCut
    BY <1>2 DEF OwnersCounted, HeapCells, HeapEnvs, Grounded, HeapCut
<1>6. HeapInv
    BY <1>3, <1>4, <1>5 DEF HeapInv
<1> QED  BY <1>1, <1>6, Resting

\* A step of the program preserves the invariant, as no sweep is under way.
LEMMA ProgramStep ==
    ASSUME GcInv, todo = {}, Program, UNCHANGED <<todo, dead>>
    PROVE  GcInv'
<1>1. dead = {} /\ todo' = {} /\ dead' = {}
    BY DEF GcInv, SweepRight
<1>2. HeapInv'
    BY <1>1, Resting, ProgramKeeps
<1>3. (todo = {} /\ dead = {})' => (GcInv' <=> HeapInv')
    BY Resting, PTL
<1> QED  BY <1>1, <1>2, <1>3

\* Nothing but the variables matters.
LEMMA GcStutter ==
    ASSUME GcInv, UNCHANGED gcVars
    PROVE  GcInv'
<1>1. /\ cell' = cell /\ env' = env /\ held' = held /\ frames' = frames /\ work' = work
      /\ todo' = todo /\ dead' = dead
    BY DEF gcVars, heapVars
<1>2. Live' = Live /\ LiveEnvs' = LiveEnvs /\ Sound' = Sound /\ SoundEnvs' = SoundEnvs
    BY <1>1 DEF Live, LiveEnvs, Sound, SoundEnvs
<1>3. GcTypeOK' /\ SweepRight'
    <2>1. GcTypeOK'
        BY <1>1 DEF GcInv, GcTypeOK, HeapTypeOK
    <2>2. SweepRight'
        BY <1>1, <1>2 DEF GcInv, SweepRight, CellItem, EnvItem
    <2> QED  BY <2>1, <2>2
<1>4. \A x : /\ Edges(x)' = Edges(x) /\ Bindings(x)' = Bindings(x) /\ Watched(x)' = Watched(x)
             /\ Captures(x)' = Captures(x) /\ Children(x)' = Children(x)
             /\ Calls(x)' = Calls(x) /\ Due(x)' = Due(x)
    BY <1>1, <1>2 DEF Edges, Bindings, Watched, Captures, Children, Calls, Due
<1>5. \A x : OwnEdges(x)' = OwnEdges(x) /\ OwnBindings(x)' = OwnBindings(x)
    BY <1>1, <1>4 DEF OwnEdges, OwnBindings, EdgeItem, BindingItem
<1>6. \A x : CellCount(x)' = CellCount(x) /\ EnvCount(x)' = EnvCount(x)
    BY <1>1, <1>4, <1>5 DEF CellCount, EnvCount
<1>7. CellsCounted' /\ EnvsCounted'
    BY <1>1, <1>2, <1>6 DEF GcInv, CellsCounted, EnvsCounted
<1>8. InUse' /\ Grounded' /\ CutIsDue'
    BY <1>1, <1>2 DEF GcInv, InUse, Grounded, CutIsDue
<1>9. CellsPoint' /\ EnvsPoint'
    BY <1>1, <1>2 DEF GcInv, CellsPoint, EnvsPoint, EdgeItem, CaptureItem, BindingItem
<1> QED  BY <1>3, <1>7, <1>8, <1>9 DEF GcInv

\* The invariant holds at every step of the program, of a cascade and of a sweep.
THEOREM GcInductive == GcSpec => []GcInv
<1>1. GcInv /\ [GcNext]_gcVars => GcInv'
    <2> SUFFICES ASSUME GcInv, [GcNext]_gcVars  PROVE GcInv'
        OBVIOUS
    <2>1. CASE todo = {} /\ Program /\ UNCHANGED <<todo, dead>>
        BY <2>1, ProgramStep
    <2>2. CASE Release /\ UNCHANGED <<todo, dead>>
        BY <2>2, ReleaseKeeps
    <2>3. CASE GcCycles
        BY <2>3, GcCyclesKeeps
    <2>4. CASE Sweep
        BY <2>4, SweepKeeps
    <2>5. CASE UNCHANGED gcVars
        BY <2>5, GcStutter
    <2> QED  BY <2>1, <2>2, <2>3, <2>4, <2>5 DEF GcNext
<1> QED  BY GcInvInit, <1>1, PTL DEF GcSpec

\* gc.h, env.h: between two collections every count is the number of the owners,
\* the releases that a cascade still owes among them.
THEOREM GcCountsExact == GcSpec => []CountsExact
<1>1. GcInv => CountsExact
    <2> SUFFICES ASSUME GcInv, todo = {}  PROVE OwnersCounted
        BY DEF CountsExact
    <2>1. dead = {}
        BY DEF GcInv, SweepRight
    <2>2. HeapInv
        BY <2>1, Resting
    <2> QED  BY <2>2 DEF HeapInv
<1> QED  BY <1>1, GcInductive, PTL

\* gc_mark and gc_sweep (gc.h): trial deletion condemns what no program, watcher
\* or opaque owner reaches, all of it and nothing else.
THEOREM GcFindsGarbage == GcSpec => []FindsGarbage
<1>1. GcInv => FindsGarbage
    <2> SUFFICES ASSUME GcInv, Quiet, todo = {}
                 PROVE  Garbage = (Walkable \cup LiveEnvs) \ Reached(Anchors)
        BY DEF FindsGarbage, Anchors
    <2>1. dead = {}
        BY DEF GcInv, SweepRight
    <2>2. HeapInv
        BY <2>1, Resting
    <2> QED  BY <2>2, GarbageRight
<1> QED  BY <1>1, GcInductive, PTL

\* Nothing in use points to what was freed.
LEMMA NothingDangles ==
    ASSUME GcInv
    PROVE  NoDangling
<1> DEFINE alive == Live \cup LiveEnvs \cup {NULL}
<1>1. HeapTypeOK /\ Sound \subseteq Live /\ SoundEnvs \subseteq LiveEnvs
    BY DEF GcInv, GcTypeOK, Sound, SoundEnvs
<1>2. \A c \in Cells : held[c] > 0 => c \in Live
    BY <1>1 DEF GcInv, InUse
<1>3. ToSet(frames) \cup ToSet(work) \subseteq alive
    BY <1>1 DEF GcInv, InUse, ToSet
<1>4. ASSUME NEW c \in Live \ dead
      PROVE  Range(cell[c].edge) \cup {cell[c].env, cell[c].to, cell[c].watcher} \subseteq alive
    <2>1. cell[c] \in Cell
        BY <1>1 DEF HeapTypeOK, Live
    <2>2. DOMAIN cell[c].edge = Slots
        BY <2>1 DEF Cell
    <2>3. /\ \A s \in Slots : cell[c].edge[s] \in alive
          /\ cell[c].env \in alive /\ cell[c].to \in alive /\ cell[c].watcher \in alive
        BY <1>1 DEF GcInv, CellsPoint
    <2>4. Range(cell[c].edge) \subseteq alive
        BY <2>2, <2>3 DEF Range
    <2> QED  BY <2>3, <2>4
<1>5. ASSUME NEW v \in LiveEnvs \ dead
      PROVE  Range(env[v].val) \cup {env[v].root} \subseteq alive
    <2>1. env[v] \in Env
        BY <1>1 DEF HeapTypeOK, LiveEnvs
    <2>2. DOMAIN env[v].val = Vars
        BY <2>1 DEF Env
    <2>3. (\A x \in Vars : env[v].val[x] \in alive) /\ env[v].root \in alive
        BY <1>1 DEF GcInv, EnvsPoint
    <2>4. Range(env[v].val) \subseteq alive
        BY <2>2, <2>3 DEF Range
    <2> QED  BY <2>3, <2>4
<1> QED  BY <1>2, <1>3, <1>4, <1>5 DEF NoDangling, NoDanglingOutside

\* A sound cell that something sound owns is not about to go.
LEMMA OwnedStays ==
    ASSUME GcInv, NEW c \in Sound,
           held[c] > 0 \/ OwnEdges(c) # {} \/ OwnBindings(c) # {} \/ Watched(c) # {}
    PROVE  cell[c].kind = "lambda" => cell[c].env # NULL
<1> SUFFICES ASSUME cell[c].kind = "lambda", cell[c].env = NULL  PROVE FALSE
    OBVIOUS
<1>1. cell[c].nref = 1 /\ \E i \in DOMAIN work : work[i] = c
    BY DEF GcInv, CutIsDue
<1>2. HeapTypeOK
    BY DEF GcInv, GcTypeOK
<1>3. Cardinality(Due(c)) \in Nat \ {0}
    <2>1. Due(c) # {}
        BY <1>1 DEF Due
    <2>2. IsFiniteSet(Due(c)) /\ Cardinality(Due(c)) \in Nat
        BY <1>2, OwnersFinite
    <2> QED  BY <2>1, <2>2, FS_EmptySet
<1>4. cell[c].nref = held[c] + Cardinality(OwnEdges(c)) + Cardinality(OwnBindings(c))
                     + Cardinality(Watched(c)) + Cardinality(Due(c))
    BY DEF GcInv, CellsCounted, CellCount
<1>5. /\ Cardinality(OwnEdges(c)) \in Nat /\ IsFiniteSet(OwnEdges(c))
      /\ Cardinality(OwnBindings(c)) \in Nat /\ IsFiniteSet(OwnBindings(c))
      /\ Cardinality(Watched(c)) \in Nat /\ IsFiniteSet(Watched(c))
    BY <1>2, OwnFinite, OwnersFinite
<1>6. held[c] \in Nat
    BY <1>2 DEF HeapTypeOK, Sound, Live
<1>7. /\ held[c] = 0 /\ Cardinality(OwnEdges(c)) = 0 /\ Cardinality(OwnBindings(c)) = 0
      /\ Cardinality(Watched(c)) = 0
    BY <1>1, <1>3, <1>4, <1>5, <1>6
<1>8. OwnEdges(c) = {} /\ OwnBindings(c) = {} /\ Watched(c) = {}
    BY <1>5, <1>7, FS_EmptySet
<1> QED  BY <1>7, <1>8

\* What a program can still call keeps its variables.
LEMMA CallableKeepEnv ==
    ASSUME GcInv
    PROVE  ClosuresKeepEnv
<1> DEFINE T == {x \in Sound \cup SoundEnvs : x \in Sound /\ cell[x].kind = "lambda" => cell[x].env # NULL}
           S == Held \cup ToSet(frames)
<1>1. /\ HeapTypeOK /\ Sound \subseteq Live /\ SoundEnvs \subseteq LiveEnvs /\ Sound \cap SoundEnvs = {}
      /\ Live \subseteq Cells
    BY DEF GcInv, GcTypeOK, Sound, SoundEnvs, Live, LiveEnvs
<1>2. S \subseteq T
    <2>1. \A c \in Held : c \in Sound /\ held[c] > 0
        BY DEF Held, Live, GcInv, InUse
    <2>2. \A c \in Held : cell[c].kind = "lambda" => cell[c].env # NULL
        BY <2>1, OwnedStays
    <2>3. \A v \in ToSet(frames) : v \in SoundEnvs
        BY DEF ToSet, GcInv, InUse
    <2> QED  BY <1>1, <2>1, <2>2, <2>3
<1>3. ASSUME NEW x \in T  PROVE Follow(x) \subseteq T
    <2>1. CASE x \in Sound
        <3>1. x \in Live /\ x \notin dead
            BY <2>1 DEF Sound
        <3>2. /\ cell[x].watcher \in Sound \cup {NULL} /\ cell[x].env \in SoundEnvs \cup {NULL}
              /\ \A s \in Slots : cell[x].edge[s] \in Sound \cup {NULL}
            BY <3>1 DEF GcInv, CellsPoint
        <3>3. ASSUME NEW y \in Follow(x)  PROVE y \in T
            <4>1. y # NULL /\ ((\E s \in Slots : y = cell[x].edge[s]) \/ y = cell[x].env \/ y = cell[x].watcher)
                BY <1>1, <3>1, Follows
            <4>2. CASE \E s \in Slots : y = cell[x].edge[s]
                <5>1. PICK s \in Slots : y = cell[x].edge[s]
                    BY <4>2
                <5>2. y \in Sound
                    BY <3>2, <4>1, <5>1
                <5>3. <<x, s>> \in Edges(y)
                    BY <3>1, <5>1 DEF Edges
                <5>4. <<x, s>> \in OwnEdges(y)
                    BY <3>1, <5>3 DEF OwnEdges
                <5>5. cell[y].kind = "lambda" => cell[y].env # NULL
                    BY <5>2, <5>4, OwnedStays
                <5> QED  BY <5>2, <5>5
            <4>3. CASE y = cell[x].env
                BY <1>1, <3>2, <4>1, <4>3
            <4>4. CASE y = cell[x].watcher
                <5>1. y \in Sound
                    BY <3>2, <4>1, <4>4
                <5>2. x \in Watched(y)
                    BY <3>1, <4>4 DEF Watched
                <5>3. cell[y].kind = "lambda" => cell[y].env # NULL
                    BY <5>1, <5>2, OwnedStays
                <5> QED  BY <5>1, <5>3
            <4> QED  BY <4>1, <4>2, <4>3, <4>4
        <3> QED  BY <3>3
    <2>2. CASE x \in SoundEnvs
        <3>1. x \in LiveEnvs /\ x \notin dead
            BY <2>2 DEF SoundEnvs
        <3>2. /\ env[x].root \in SoundEnvs \cup {NULL}
              /\ \A z \in Vars : env[x].val[z] \in Sound \cup {NULL}
            BY <3>1 DEF GcInv, EnvsPoint
        <3>3. ASSUME NEW y \in Follow(x)  PROVE y \in T
            <4>1. y # NULL /\ ((\E z \in Vars : y = env[x].val[z]) \/ y = env[x].root)
                BY <1>1, <3>1, Follows
            <4>2. CASE \E z \in Vars : y = env[x].val[z]
                <5>1. PICK z \in Vars : y = env[x].val[z]
                    BY <4>2
                <5>2. y \in Sound
                    BY <3>2, <4>1, <5>1
                <5>3. <<x, z>> \in Bindings(y)
                    BY <3>1, <5>1 DEF Bindings
                <5>4. <<x, z>> \in OwnBindings(y)
                    BY <3>1, <5>3 DEF OwnBindings
                <5>5. cell[y].kind = "lambda" => cell[y].env # NULL
                    BY <5>2, <5>4, OwnedStays
                <5> QED  BY <5>2, <5>5
            <4>3. CASE y = env[x].root
                BY <1>1, <3>2, <4>1, <4>3
            <4> QED  BY <4>1, <4>2, <4>3
        <3> QED  BY <3>3
    <2> QED  BY <2>1, <2>2
<1>4. T \in SUBSET (Live \cup LiveEnvs)
    BY <1>1
<1>5. ASSUME NEW c \in T, c \in Live, cell[c].kind = "lambda"
      PROVE  cell[c].env # NULL
    <2>1. c \notin SoundEnvs
        BY <1>1, <1>5 DEF SoundEnvs, LiveEnvs
    <2> QED  BY <1>5, <2>1
<1> HIDE DEF T
<1>6. Reached(S) \subseteq T
    BY <1>2, <1>3, <1>4, ReachedLeast
<1> QED  BY <1>5, <1>6 DEF ClosuresKeepEnv, Of

\* gc.h, env.h, weak.h: whether a count, a frame or a sweep decides, nothing in
\* use is freed, and no closure that can be called loses its environment.
THEOREM GcHeapRight == GcSpec => []HeapRight
<1>1. GcInv => HeapRight
    BY NothingDangles, CallableKeepEnv DEF HeapRight
<1> QED  BY <1>1, GcInductive, PTL
=============================================================================

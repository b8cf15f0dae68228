------------------------------ MODULE GcCycles ------------------------------
(* (gc-cycles) of gc.h over Heap: trial deletion finds the cells and the      *)
(* environments that only cycles keep, and a sweep of five passes takes them  *)
(* apart while the releases it makes run their cascades.                     *)
EXTENDS Heap

VARIABLES todo,  \* what is left of the sweep: <<pass, owner, what>>
          dead   \* GC_DEAD: the garbage of the collection under way

gcVars == <<heapVars, todo, dead>>

GcInit == HeapInit /\ todo = {} /\ dead = {}

-----------------------------------------------------------------------------
(* COUNT: the references from within the walked part of the heap. *)

\* gc_walkable
Walkable == Of({"box", "lambda"})

Captured == {cell[c].env : c \in Walkable} \ {NULL}
ParentMut(v) == {}
Parent(v) == {env[v].root} \ {NULL}
\* The environments that a walked closure captured, and their chains.
Discovered == Closure(Parent, Captured, LiveEnvs)

\* gc_visit_edges and gc_visit_env_edges
ValueEdges(c) == Range(cell[c].edge) \ {NULL}
BoundEdges(v) == Range(env[v].val) \ {NULL}

Interns(c) ==
    Cardinality({e \in Walkable \X Slots : cell[e[1]].edge[e[2]] = c})
    + Cardinality({b \in Discovered \X Vars : env[b[1]].val[b[2]] = c})
EnvInternsMut(v) == Cardinality({c \in Walkable : cell[c].env = v})
EnvInterns(v) == Cardinality({c \in Walkable : cell[c].env = v})
                 + Cardinality({u \in Discovered : env[u].root = v})

-----------------------------------------------------------------------------
(* ROOTS and MARK *)

Roots == {c \in Live : c \notin Walkable \/ cell[c].nref > Interns(c)}
         \cup {v \in Discovered : env[v].nref > EnvInterns(v)}

\* gc_mark_edge and gc_mark_env follow what COUNT has counted.
Marks(x) ==
    CASE x \in Walkable -> ValueEdges(x) \cup ({cell[x].env} \ {NULL})
      [] x \in Discovered -> BoundEdges(x) \cup Parent(x)
      [] OTHER -> {}
Marked == Closure(Marks, Roots, Live \cup LiveEnvs)

Garbage == (Walkable \cup Discovered) \ Marked

-----------------------------------------------------------------------------
(* SWEEP: dead owners drop what survives them, then are freed themselves. *)

EdgePass == 1
CapturePass == 2
BindingPass == 3
EnvPass == 4
CellPass == 5

GcCycles ==
    LET garbage == Garbage
        cells == garbage \cap Cells
        envs == garbage \cap Envs
    IN  /\ Quiet
        /\ todo = {} /\ garbage # {}
        /\ dead' = garbage
        /\ todo' = (({EdgePass} \X cells) \X Slots)
                   \cup (({CapturePass} \X cells) \X {0})
                   \cup (({BindingPass} \X envs) \X Vars)
                   \cup (({EnvPass} \X envs) \X {0})
                   \cup (({CellPass} \X cells) \X {0})
        /\ UNCHANGED heapVars

Survives(x) == x # NULL /\ x \notin dead
\* gc_release_edge: a reference to the dead dissolves with them.
ReleaseEdge(x) == work' = IF Survives(x) THEN <<x>> ELSE <<>>

CaptureEdgeMut(c) == work' = <<>>
\* A dead closure drops a surviving environment, and forgets a dead one.
CaptureEdge(c) == ReleaseEdge(cell[c].env)

\* gc_free_dead_cell, whose hooks release the watcher.
FreeDeadCell(c) == /\ cell' = Freed(cell, c)
                   /\ work' = <<cell[c].watcher>>

SweepItem(pass, x, y) ==
    \/ /\ pass = EdgePass
       /\ ReleaseEdge(cell[x].edge[y])
       /\ UNCHANGED <<cell, env>>
    \/ /\ pass = CapturePass
       /\ CaptureEdge(x)
       /\ cell' = [cell EXCEPT ![x].env = NULL]
       /\ UNCHANGED env
    \/ /\ pass = BindingPass
       /\ ReleaseEdge(env[x].val[y])
       /\ UNCHANGED <<cell, env>>
    \/ /\ pass = EnvPass
       /\ ReleaseEdge(env[x].root)
       /\ env' = [env EXCEPT ![x] = NULL]
       /\ UNCHANGED cell
    \/ /\ pass = CellPass
       /\ FreeDeadCell(x)
       /\ UNCHANGED env

\* The passes come one after the other; a cascade ends before the next item.
Sweep ==
    /\ Quiet
    /\ \E item \in todo :
          /\ \A other \in todo : item[1][1] <= other[1][1]
          /\ SweepItem(item[1][1], item[1][2], item[2])
          /\ todo' = todo \ {item}
    /\ dead' = IF todo' = {} THEN {} ELSE dead
    /\ UNCHANGED <<held, frames>>

-----------------------------------------------------------------------------
GcNext == \/ todo = {} /\ Program /\ UNCHANGED <<todo, dead>>
          \/ Release /\ UNCHANGED <<todo, dead>>
          \/ GcCycles
          \/ Sweep

GcSpec == GcInit /\ [][GcNext]_gcVars

-----------------------------------------------------------------------------
\* The types of the heap and of the collection under way.
GcTypeOK == /\ HeapTypeOK
            /\ dead \subseteq Cells \cup Envs
            /\ todo # {} => dead # {}

\* gc.h:22-27, env.h: every step of a cascade and the end of every collection
\* leave whatever is alive counted exactly once per owner; a count too low
\* frees what is in use, one too high leaks for ever.
CountsExact == todo = {} => OwnersCounted

\* At every step, in the middle of a sweep and of the cascades it starts as
\* well, nothing in use points to a freed cell or environment.
NoDangling == NoDanglingOutside(dead)

Follow(x) == (IF x \in Cells THEN Range(cell[x].edge) \cup {cell[x].env, cell[x].watcher}
              ELSE Range(env[x].val) \cup {env[x].root}) \ {NULL}
Reached(S) == Closure(Follow, S, Live \cup LiveEnvs)
Watchers == {cell[c].watcher : c \in Live} \ {NULL}

\* Trial deletion condemns exactly what no running program, no watcher and no
\* owner it cannot look into reaches: no more (it would free what is in use),
\* and no less (the cycle would stay for ever).
FindsGarbage ==
    Quiet /\ todo = {} =>
        Garbage = (Walkable \cup LiveEnvs)
                  \ Reached(Held \cup ToSet(frames) \cup Watchers \cup (Live \ Walkable))

\* env_break_self_cycle (env.h) severs a closure from its frame only when the
\* closure dies with it: what a program can still call keeps its variables.
ClosuresKeepEnv ==
    \A c \in Of({"lambda"}) :
        cell[c].env = NULL => c \notin Reached(Held \cup ToSet(frames))

\* Nothing in use is freed or cut, whether a count, a frame or a sweep decides.
HeapRight == NoDangling /\ ClosuresKeepEnv

\* For the model checker: which cell and which frame is which tells nothing.
Sym == Permutations(Cells) \cup Permutations(Envs)
=============================================================================

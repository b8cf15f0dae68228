----------------------------- MODULE LfkvHistory ----------------------------
(* Lfkv with a history variable: whether the key of an operation under way   *)
(* has been absent at a moment of it.  With it a reader that has walked past *)
(* a key that came and went is seen to answer what was true when it ran.     *)
EXTENDS Lfkv

VARIABLE absent

historyVars == <<lfkvVars, absent>>

Linear == INSTANCE KvMap WITH map <- Contents, call <- Running, answer <- Results

HistoryInit == LfkvInit /\ absent = [t \in Threads |-> FALSE]
HistoryNext == LfkvNext /\ Linear!Observe
HistorySpec == HistoryInit /\ [][HistoryNext]_historyVars
FairHistorySpec ==
    HistorySpec /\ \A t \in Threads : WF_historyVars(Step(t) /\ Linear!Observe)

\* The table behaves as an atomic map, on which every operation takes effect
\* in one step of its call (lfkv.h).
Linearizable == Linear!LinSpec
=============================================================================

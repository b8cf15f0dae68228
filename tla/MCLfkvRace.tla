----------------------------- MODULE MCLfkvRace -----------------------------
(* The bounded instances of Lfkv in which several reactors insert and       *)
(* remove, for the model checker.                                           *)
EXTENDS Lfkv, TLC

CONSTANTS k1, k2, k3, t1, t2, v1, v2

\* Two keys with the same home cell, and a third whose home is the next cell.
Collide == k1 :> 0 @@ k2 :> 0 @@ k3 :> 1

\* The requests for these operations.  (A walk does not look at its key.)
Asks(ops, keys, vals) ==
    {c \in Requests : /\ c.op \in ops /\ c.key \in keys
                      /\ {c.val, c.expected} \subseteq vals \cup {NULL}
                      /\ c.op \in Walks => c.key = k1}

\* Two reactors that insert, delete and clear the same keys.
Mutators == {"set", "set_nx", "del", "cas", "clear"}
Race == LET c == Asks(Mutators, {k1, k2}, {v1}) IN t1 :> c @@ t2 :> c
\* Two reactors that set one key, and let it lapse.
Lapse == LET c == Asks({"set", "del", "set_expiry"}, {k1}, {v1}) IN t1 :> c @@ t2 :> c
Races == {Race, Lapse}
Either == Permutations({t1, t2})

\* Operations for which a key is not a lock, and the table is not a map.
SetNxDel == LET c == Asks({"set", "set_nx", "del"}, {k1, k2}, {v1}) IN t1 :> c @@ t2 :> c
Locks == {SetNxDel}
LockInFull == t1 :> Asks({"set_nx", "del"}, Keys, {v1}) @@ t2 :> {}
FullLocks == {LockInFull}
=============================================================================

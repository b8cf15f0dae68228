------------------------------- MODULE MCLfkv -------------------------------
(* The bounded instances of Lfkv in which the table is a map, for the model *)
(* checker.                                                                 *)
EXTENDS LfkvHistory, MCLfkvRace

\* The second value is stored, the first is compared with.
Turning(C) == {c \in C : c.val \in {v2, NULL} /\ c.expected \in {v1, NULL}}

\* Two reactors that read, insert and overwrite two keys of one probe chain.
Inserts == t1 :> Asks({"get", "set", "set_nx"}, {k1, k2}, {v1})
           @@ t2 :> {c \in Turning(Asks({"set_nx"}, {k1, k2}, Vals)
                                   \cup Asks({"set_xx", "cas", "touch"}, {k1}, Vals)) :
                       c.expiry = 0}
\* A reactor that inserts two keys of one probe chain, over tombstones as well,
\* and removes, and one that reads, updates and removes.
OneInserter == t1 :> (Asks({"set", "set_nx"}, {k1, k2}, {v1}) \cup Asks({"del"}, {k1}, {v1}))
               @@ t2 :> Turning(Asks({"get", "cas", "cas_null", "del"}, {k1}, Vals))
\* The same on one key with deadlines that pass.
Deadlines == t1 :> Asks({"set", "set_nx", "del"}, {k1}, {v1})
             @@ t2 :> Asks({"get", "set_expiry", "touch", "cas", "evict"}, {k1}, {v1})

\* One reactor alone: removals on more keys than there are cells, and every
\* kind of access on one of two.
Crowd == t1 :> Asks({"set", "set_nx", "del", "clear"}, Keys, {v1}) @@ t2 :> {}
Accesses == Ops \ {"set", "set_nx", "clear"}
Values == t1 :> (Turning(Asks(Accesses, {k1}, Vals)) \cup Asks({"set", "del"}, {k1, k2}, {v1}))
          @@ t2 :> {}

Quiet == {Inserts, OneInserter, Deadlines, Crowd, Values}
=============================================================================

--------------------------- MODULE MCRespCommands ---------------------------
(* The bounded instances of RespCommands for the model checker.            *)
EXTENDS RespCommands, TLC

CONSTANTS r1, r2, k1, x, f1, f2

Incr1 == [name |-> "incr", key |-> k1, arg |-> 1]
AppendX == [name |-> "append", key |-> k1, arg |-> x]
GetK == [name |-> "get", key |-> k1]
SetTo(v, c, t) == [name |-> "set", key |-> k1, arg |-> v, cond |-> c, ttl |-> t]
PushX(l) == [name |-> "push", key |-> k1, arg |-> x, left |-> l]
PopX(l) == [name |-> "pop", key |-> k1, left |-> l]
HSetF(f) == [name |-> "hset", key |-> k1, field |-> f, arg |-> x]
HDelF(f) == [name |-> "hdel", key |-> k1, field |-> f]
DelK == [name |-> "del", key |-> k1]
Expire1 == [name |-> "expire", key |-> k1, ttl |-> 1]
TtlK == [name |-> "ttl", key |-> k1]
PersistK == [name |-> "persist", key |-> k1]

Both(commands) == [r \in Reactors |-> commands]
Apart(first, second) == r1 :> first @@ r2 :> second

\* Two reactors that insert and update and do not remove: counters and strings,
\* lists, and hashes met by other types.
Pushes == {PushX(TRUE), PushX(FALSE), SetTo(1, "always", 0)}
Strings == Both({Incr1, AppendX, GetK, SetTo(1, "always", 0), SetTo(0, "nx", 0)})
Hashes == Both({HSetF(f1), HSetF(f2), PushX(TRUE), SetTo(x, "always", 0)})

\* One that inserts, updates and removes, and one that updates and removes.
Strikes == Apart({Incr1, AppendX, SetTo(1, "nx", 0), DelK}, {SetTo(0, "xx", 0), DelK, Expire1, TtlK})
Lists == Apart({PushX(TRUE), PushX(FALSE), PopX(TRUE), DelK}, {PopX(TRUE), PopX(FALSE), DelK})
Fields == Apart({HSetF(f1), HSetF(f2), HDelF(f1)}, {HDelF(f1), HDelF(f2), GetK})
\* The same with every command that gives or takes a deadline.
Deadlines == Apart({SetTo(1, "always", 1), SetTo(0, "always", 0), SetTo(0, "nx", 1), Incr1},
                   {SetTo(0, "xx", 1), PersistK, Expire1, GetK})
\* A field that is passed over.
OddFields == Apart({HSetF(NULL), HSetF(f1)}, {HDelF(f1), GetK})
\* A SET with a deadline, and one that replaces what it stored.
SetsWithTtl == Apart({SetTo(1, "always", 1)}, {SetTo(0, "xx", 0)})

Served == {Strings, Both(Pushes), Hashes, Strikes, Lists, Fields, Deadlines}
OnlyOddFields == {OddFields}
OnlySetsWithTtl == {SetsWithTtl}
=============================================================================

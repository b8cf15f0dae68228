------------------------------- MODULE KvMap -------------------------------
(* What the keyspace of lfkv.h promises: a map from keys to a value and an   *)
(* expiry, on which every operation takes effect in one step of its call,    *)
(* which is what linearizable means.  That step is mostly that of the        *)
(* answer; an operation that has not found its key answers so if the key was *)
(* absent, or out of date, at some moment between the call and the answer.   *)
EXTENDS Integers

CONSTANTS Threads, Keys, Requests, NULL

VARIABLES map,     \* per key: its entry, or NULL
          call,    \* per thread: the operation it runs, or NULL
          answer,  \* per thread: what its last operation returned
          clock,
          absent   \* per thread: its key has been absent at a moment of its call

kvVars == <<map, call, answer, clock>>
linVars == <<kvVars, absent>>

KvInit == /\ map = [k \in Keys |-> NULL]
          /\ call = [t \in Threads |-> NULL]
          /\ answer = [t \in Threads |-> NULL]
          /\ clock = 0

Stale(e, now) == e # NULL /\ e.expiry # 0 /\ now >= e.expiry

\* The operation of thread t ends with answer x and leaves e under its key.
Finish(t, x, e) ==
    /\ answer' = [answer EXCEPT ![t] = x]
    /\ call' = [call EXCEPT ![t] = NULL]
    /\ map' = [map EXCEPT ![call[t].key] = e]
    /\ UNCHANGED clock

\* A request that arrives: val is what to store, expected what cas and touch
\* compare with, expiry the deadline to set, now the time of the call.
At(c, now) == [op |-> c.op, key |-> c.key, val |-> c.val, expected |-> c.expected,
               expiry |-> c.expiry, now |-> now]

Invoke(t) == /\ call[t] = NULL
             /\ \E c \in Requests : call' = [call EXCEPT ![t] = At(c, clock)]
             /\ answer' = [answer EXCEPT ![t] = NULL]
             /\ UNCHANGED <<map, clock>>

Entry(v, x) == [val |-> v, expiry |-> x]

\* The effect of an operation on a key that holds a live entry e,
Hit(t, c, e) ==
    \/ c.op = "get" /\ Finish(t, e.val, e)
    \/ c.op = "get_expiry" /\ Finish(t, e.expiry, e)
    \/ c.op = "set" /\ Finish(t, 0, Entry(c.val, 0))
    \/ c.op = "set_nx" /\ Finish(t, 0, e)
    \/ c.op = "set_xx" /\ Finish(t, 1, Entry(c.val, 0))
    \/ c.op = "del" /\ Finish(t, 1, NULL)
    \/ c.op = "set_expiry" /\ Finish(t, 1, Entry(e.val, c.expiry))
    \/ /\ c.op \in {"touch", "cas", "cas_null"} /\ e.val # c.expected
       /\ Finish(t, 0, e)
    \/ /\ c.op = "touch" /\ e.val = c.expected
       /\ Finish(t, 1, Entry(e.val, c.expiry))
    \/ /\ c.op = "cas" /\ e.val = c.expected
       /\ Finish(t, 1, Entry(c.val, e.expiry))
    \/ /\ c.op = "cas_null" /\ e.val = c.expected
       /\ Finish(t, 1, NULL)

\* on a key that holds none (an expired one may be swept on the way),
Miss(t, c, e) ==
    \/ c.op = "get" /\ Finish(t, NULL, e)
    \/ c.op = "get_expiry" /\ Finish(t, -1, e)
    \/ c.op = "set" /\ Finish(t, 0, Entry(c.val, 0))
    \/ c.op = "set_nx" /\ Finish(t, 1, Entry(c.val, 0))
    \/ c.op \in {"set_xx", "del", "set_expiry", "touch", "cas", "cas_null"}
       /\ Finish(t, 0, e)

\* and when there is no room or no memory for a new key.
NoRoom(t, c, e) ==
    \/ c.op = "set" /\ Finish(t, -1, e)
    \/ c.op = "set_nx" /\ Finish(t, 0, e)

Apply(t) ==
    LET c == call[t]
        e == map[c.key]
    IN  /\ c # NULL
        /\ c.op \notin {"evict", "clear"}
        /\ IF e = NULL \/ Stale(e, c.now)
           THEN \/ Miss(t, c, e) \/ NoRoom(t, c, e)
                \/ Stale(e, c.now) /\ Miss(t, c, NULL)
           ELSE Hit(t, c, e)

\* Expired entries go, and all entries while a clear is under way.
Sweep(k) ==
    /\ map[k] # NULL
    /\ \/ Stale(map[k], clock)
       \/ \E t \in Threads : call[t] # NULL /\ call[t].op = "clear"
    /\ map' = [map EXCEPT ![k] = NULL]
    /\ UNCHANGED <<call, answer, clock>>

EndSweep(t) ==
    /\ call[t] # NULL
    /\ call[t].op \in {"evict", "clear"}
    /\ answer' = [answer EXCEPT ![t] = NULL]
    /\ call' = [call EXCEPT ![t] = NULL]
    /\ UNCHANGED <<map, clock>>

Tick == clock' > clock /\ UNCHANGED <<map, call, answer>>

KvNext == \/ \E t \in Threads : \/ call'[t] # NULL /\ Invoke(t)
                                \/ call'[t] = NULL /\ (Apply(t) \/ EndSweep(t))
          \/ \E k \in Keys : Sweep(k)
          \/ Tick

\* Operations that may answer that there is no such key and change nothing.
Looking == {"get", "get_expiry", "set_xx", "del", "set_expiry", "touch", "cas", "cas_null"}

Lacks(t) == map[call[t].key] = NULL \/ Stale(map[call[t].key], call[t].now)
Observed(t) == IF call[t] = NULL \/ call[t].op \notin Looking THEN FALSE ELSE Lacks(t)

\* A moment of a call is any state from that of its arrival on.
Observe == absent' = [t \in Threads |-> Observed(t)' \/ (absent[t] /\ call'[t] # NULL)]

Late(t) ==
    /\ call[t] # NULL
    /\ absent[t]
    /\ Finish(t, CASE call[t].op = "get" -> NULL [] call[t].op = "get_expiry" -> -1
                   [] OTHER -> 0, map[call[t].key])

LinInit == KvInit /\ absent = [t \in Threads |-> FALSE]
LinNext == (KvNext \/ \E t \in Threads : Late(t)) /\ Observe
LinSpec == LinInit /\ [][LinNext]_linVars
=============================================================================

------------------------------ MODULE RedisKeys -----------------------------
(* What a client of the server is promised: every command on a key takes     *)
(* effect in one step between its arrival and its reply.                     *)
EXTENDS RespData

CONSTANTS Reactors, Keys, Commands

VARIABLES store,  \* per key: its value and deadline, or NULL
          call,   \* per reactor: the command it serves, or NULL
          reply,  \* per reactor: the last reply
          clock

redisVars == <<store, call, reply, clock>>

RedisInit == /\ store = [k \in Keys |-> NULL]
             /\ call = [r \in Reactors |-> NULL]
             /\ reply = [r \in Reactors |-> NULL]
             /\ clock = 0

Fresh(e) == e # NULL /\ ~ (e.expiry # 0 /\ clock >= e.expiry)
Holding(d, x) == [data |-> d, expiry |-> x]

Arrive(r) ==
    /\ call[r] = NULL
    /\ call'[r] \in Commands
    /\ call' = [call EXCEPT ![r] = call'[r]]
    /\ reply' = [reply EXCEPT ![r] = NULL]
    /\ UNCHANGED <<store, clock>>

Finish(r, x, e) ==
    /\ reply' = [reply EXCEPT ![r] = x]
    /\ call' = [call EXCEPT ![r] = NULL]
    /\ store' = [store EXCEPT ![call[r].key] = e]
    /\ UNCHANGED clock

\* A copying command keeps the deadline of the key it changes.
Copy(r, c, e, live) ==
    LET effect == Effect(c, IF live THEN e.data ELSE NULL)
        kept == IF live THEN e.expiry ELSE 0
    IN  /\ c.name \in Copying
        /\ IF ~ effect.writes
           THEN Finish(r, effect.reply, IF live THEN e ELSE NULL)
           ELSE Finish(r, effect.reply,
                       IF effect.data = NULL THEN NULL ELSE Holding(effect.data, kept))

Set(r, c, e, live) ==
    /\ c.name = "set"
    /\ IF (c.cond = "nx" /\ live) \/ (c.cond = "xx" /\ ~ live)
       THEN Finish(r, Text("nil"), e) \/ Finish(r, Text("nil"), IF live THEN e ELSE NULL)
       ELSE Finish(r, Text("OK"), Holding(Blob(<<c.arg>>), 0))

Expire(r, c, e, live) ==
    /\ c.name = "expire"
    /\ IF live THEN Finish(r, Number(1), Holding(e.data, clock + c.ttl)) ELSE Finish(r, Number(0), NULL)

Ttl(r, c, e, live) ==
    /\ c.name = "ttl"
    /\ IF ~ live THEN Finish(r, Number(-2), NULL)
       ELSE Finish(r, Number(IF e.expiry = 0 THEN -1 ELSE e.expiry - clock), e)

Del(r, c, live) ==
    /\ c.name = "del"
    /\ Finish(r, Number(IF live THEN 1 ELSE 0), NULL)

\* No memory, a full table or too many retries: an error and no effect.
Fail(r, e, live) == Finish(r, Text("error"), e) \/ Finish(r, Text("error"), IF live THEN e ELSE NULL)

Serve(r) ==
    LET c == call[r]
        e == store[c.key]
        live == Fresh(e)
    IN  /\ c # NULL
        /\ \/ Copy(r, c, e, live) \/ Set(r, c, e, live) \/ Expire(r, c, e, live)
           \/ Ttl(r, c, e, live) \/ Del(r, c, live) \/ Fail(r, e, live)

\* A value past its deadline disappears.
Lapse(k) ==
    /\ store[k] # NULL /\ ~ Fresh(store[k])
    /\ store' = [store EXCEPT ![k] = NULL]
    /\ UNCHANGED <<call, reply, clock>>

Tick == clock' > clock /\ UNCHANGED <<store, call, reply>>

RedisNext == \/ \E r \in Reactors : Arrive(r) \/ Serve(r)
             \/ \E k \in Keys : Lapse(k)
             \/ Tick


=============================================================================

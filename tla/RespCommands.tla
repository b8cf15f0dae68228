---------------------------- MODULE RespCommands ----------------------------
(* The key commands of resp.c on one keyspace, served by several reactors.   *)
(* Each access to the keyspace is one step.  lfkv.c gives that where no       *)
(* reactor removes keys or at most one inserts them (Lfkv, LfkvHistory), and  *)
(* the module is about such clients only: AtomicAssumption.                   *)
(* Commands that change a value read it, build a changed copy, and swap the   *)
(* copy in if the value is still the one they read: a value has an address,   *)
(* and one that a reactor still refers to is not freed and used again.        *)
EXTENDS RespData

CONSTANTS Reactors,
          Keys,
          Workloads,   \* what the clients may send: per reactor, a set of commands
          Objects,     \* the addresses of values
          MaxRetries,  \* 1000 in resp.c
          MaxClock,    \* the bound on time
          MaxLen       \* the bound on the length of a value

\* Records with a name, a key and arguments.
Commands == UNION {UNION {w[r] : r \in Reactors} : w \in Workloads}

ASSUME CommandsAssumption ==
    /\ MaxRetries \in Nat
    /\ MaxClock \in Nat
    /\ \A w \in Workloads : DOMAIN w = Reactors
    /\ \A c \in Commands : /\ c.key \in Keys
                           /\ c.name \in Copying \cup {"set", "expire", "ttl", "del", "persist"}
                           /\ c.name = "set" => c.cond \in {"always", "nx", "xx"}
                           /\ c.name \in {"set", "expire"} => c.ttl \in Nat

\* Commands that may insert a key that is absent, and those that may remove one,
\* or give it a deadline at which any access removes it.
Inserts(c) == c.name \in {"incr", "append", "push", "hset"} \/ (c.name = "set" /\ c.cond # "xx")
Removes(c) == c.name \in {"del", "pop", "hdel", "expire"} \/ (c.name = "set" /\ c.ttl # 0)

\* The clients for which an access of lfkv.c is one step of a map (LfkvProofs,
\* InsertsLinearize, and the run lfkv).  When several reactors insert and remove
\* keys it is not: a key can then have two slots, or a set_nx get lost.
ASSUME AtomicAssumption ==
    \A w \in Workloads :
        \/ \A r \in Reactors : \A c \in w[r] : ~ Removes(c)
        \/ \E r \in Reactors : \A q \in Reactors \ {r} : \A c \in w[q] : ~ Inserts(c)

\* What a blob, a list or a hash may hold, and what the keyspace holds: the
\* value's address, what it holds, its deadline.
Atoms == Int \cup {c.arg : c \in {q \in Commands : q.name \in {"set", "append", "push"}}}
HSets == {c \in Commands : c.name = "hset"}
Bodies == UNION {[S -> {c.arg : c \in HSets}] : S \in SUBSET {c.field : c \in HSets}}
Datas == [type : {"blob", "list"}, body : Seq(Atoms)] \cup [type : {"hash"}, body : Bodies]
Entries == [obj : Objects, data : Datas, expiry : Nat]

\* NULL is none of these.
ASSUME NullAssumption ==
    /\ NULL \notin Commands
    /\ NULL \notin Objects
    /\ NULL \notin Datas
    /\ NULL \notin Entries
    /\ NULL \notin [data : Datas, expiry : Nat]
    /\ NULL # Text("OK")

\* An allocation finds an address: there are more than the keyspace and the
\* other reactors refer to.
ASSUME ObjectsAssumption ==
    /\ IsFiniteSet(Keys) /\ IsFiniteSet(Reactors) /\ IsFiniteSet(Objects)
    /\ Cardinality(Objects) > Cardinality(Keys) + 2 * (Cardinality(Reactors) - 1)

VARIABLES workload, \* what the clients send in this behaviour; never changes
          map,    \* per key: its entry, or NULL
          clock,
          call,   \* per reactor: the command it serves, or NULL
          reply,  \* per reactor: the last reply
          pc,     \* per reactor: its next access
          reg     \* per reactor: its locals

respVars == <<workload, map, clock, call, reply, pc, reg>>

Entry(o, d, x) == [obj |-> o, data |-> d, expiry |-> x]

\* Locals: the value read, the changed copy and its address, the reply to give
\* when it is in, the retries, the deadline of a SET.
Clear == [cur |-> NULL, obj |-> NULL, data |-> NULL, then |-> NULL,
          retries |-> 0, deadline |-> 0]

RespInit == /\ workload \in Workloads
            /\ map = [k \in Keys |-> NULL]
            /\ clock = 0
            /\ call = [r \in Reactors |-> NULL]
            /\ reply = [r \in Reactors |-> NULL]
            /\ pc = [r \in Reactors |-> "idle"]
            /\ reg = [r \in Reactors |-> Clear]

-----------------------------------------------------------------------------
key(r) == call[r].key
Expired(e) == e.expiry # 0 /\ clock >= e.expiry

\* The live entry under r's key, or NULL.
Live(r) == LET e == map[key(r)] IN IF e = NULL THEN NULL ELSE IF Expired(e) THEN NULL ELSE e

Keep(r, e) == map' = [map EXCEPT ![key(r)] = e]
\* An access that finds the entry expired removes it.
Sweep(r) == Keep(r, Live(r))

Continue(r, step, l) ==
    /\ pc' = [pc EXCEPT ![r] = step]
    /\ reg' = [reg EXCEPT ![r] = l]
    /\ UNCHANGED <<workload, clock, call, reply>>

Return(r, x) ==
    /\ reply' = [reply EXCEPT ![r] = x]
    /\ call' = [call EXCEPT ![r] = NULL]
    /\ pc' = [pc EXCEPT ![r] = "idle"]
    /\ reg' = [reg EXCEPT ![r] = Clear]
    /\ UNCHANGED <<workload, clock>>

Error(r) == Return(r, Text("error"))

\* make_blob and the clones: an address nobody refers to.
Referenced == {map[k].obj : k \in {x \in Keys : map[x] # NULL}}
              \cup {reg[r].cur : r \in Reactors} \cup {reg[r].obj : r \in Reactors}
NewObject == CHOOSE o \in Objects \ Referenced : TRUE

-----------------------------------------------------------------------------
(* Arrival *)

Plain(c) == c.name = "set" /\ c.cond = "always" /\ c.ttl = 0

\* The bound: values that could still grow do not pass MaxLen.
Grows(c) == c.name \in {"append", "push"}
Size(k) == IF map[k] = NULL THEN 0 ELSE Cardinality(DOMAIN map[k].data.body)
Room(c) == Grows(c) => Size(c.key) + Cardinality({r \in Reactors : call[r] # NULL}) < MaxLen

Arrive(r, c) ==
    /\ pc[r] = "idle"
    /\ c \in workload[r]
    /\ Room(c)
    /\ call' = [call EXCEPT ![r] = c]
    /\ reply' = [reply EXCEPT ![r] = NULL]
    /\ pc' = [pc EXCEPT ![r] = IF c.name \in Copying THEN "lookup"
                               ELSE IF Plain(c) THEN "peek" ELSE c.name]
    /\ UNCHANGED <<workload, map, clock, reg>>

-----------------------------------------------------------------------------
(* GET, INCR, APPEND, the list and the hash commands *)

Lookup(r) ==
    LET e == Live(r)
        effect == Effect(call[r], IF e = NULL THEN NULL ELSE e.data)
    IN  /\ pc[r] = "lookup"
        /\ Sweep(r)
        /\ IF effect.writes
           THEN Continue(r, "swap", [reg[r] EXCEPT !.cur = IF e = NULL THEN NULL ELSE e.obj,
                                                   !.obj = NewObject,
                                                   !.data = effect.data,
                                                   !.then = effect.reply])
           ELSE Return(r, effect.reply)

SameMut(r) == Live(r) # NULL
\* lfkv_cas: the value is still the one read.
Same(r) == Live(r) # NULL /\ Live(r).obj = reg[r].cur

KeptMut(r) == 0
\* The deadline of the entry that is replaced.
Kept(r) == Live(r).expiry

CountedMut(r) == reg[r].retries
\* A retry counts.
Counted(r) == reg[r].retries + 1

GivesUpMut(r) == reg[r].retries > MaxRetries
\* INCR counts the attempts after the swap, the others before the look-up.
GivesUp(r) == reg[r].retries = MaxRetries

Retry(r) ==
    IF GivesUp(r)
    THEN Error(r)
    ELSE Continue(r, "lookup", [Clear EXCEPT !.retries = Counted(r)])

\* lfkv_cas with the copy, or with NULL to delete; lfkv_set_nx when there was
\* no value: one step each, by AtomicAssumption.  Either fails on another value, and for lack of memory or room.
Swap(r) ==
    LET new == reg[r].data IN
    /\ pc[r] = "swap"
    /\ \/ /\ reg[r].cur # NULL /\ Same(r)
          /\ Keep(r, IF new = NULL THEN NULL ELSE Entry(reg[r].obj, new, Kept(r)))
          /\ Return(r, reg[r].then)
       \/ /\ reg[r].cur = NULL /\ Live(r) = NULL
          /\ Keep(r, Entry(reg[r].obj, new, 0))
          /\ Return(r, reg[r].then)
       \/ /\ Sweep(r)
          /\ Retry(r)

-----------------------------------------------------------------------------
(* SET *)

\* A plain SET of the bytes that are there only clears the deadline.
Peek(r) ==
    LET e == Live(r)
        same == IF e = NULL THEN FALSE
                ELSE e.data.type = "blob" /\ e.data.body = <<call[r].arg>>
    IN  /\ pc[r] = "peek"
        /\ Sweep(r)
        /\ IF same
           THEN Continue(r, "touch", [reg[r] EXCEPT !.cur = e.obj])
           ELSE Continue(r, "set", reg[r])

Touch(r) ==
    /\ pc[r] = "touch"
    /\ IF Same(r)
       THEN Keep(r, [Live(r) EXCEPT !.expiry = 0]) /\ Return(r, Text("OK"))
       ELSE Sweep(r) /\ Continue(r, "set", Clear)

\* lfkv_set, lfkv_set_nx or lfkv_set_xx: the condition, memory or room fails.
Met(r) == CASE call[r].cond = "always" -> TRUE
            [] call[r].cond = "nx" -> Live(r) = NULL
            [] call[r].cond = "xx" -> Live(r) # NULL

HasTtlMut(r) == call[r].ttl # 0 /\ call[r].cond = "always"
\* EX or PX was given.
HasTtl(r) == call[r].ttl # 0

Write(r) ==
    LET o == NewObject IN
    /\ pc[r] = "set"
    /\ \/ /\ Met(r)
          /\ Keep(r, Entry(o, Blob(<<call[r].arg>>), 0))
          /\ IF HasTtl(r) THEN Continue(r, "ex_peek", [Clear EXCEPT !.obj = o])
             ELSE Return(r, Text("OK"))
       \/ /\ Sweep(r)
          /\ IF call[r].cond = "always" THEN Error(r) ELSE Continue(r, "why", Clear)

\* What the client is told when the condition failed, from another look.
Why(r) ==
    /\ pc[r] = "why"
    /\ Sweep(r)
    /\ IF (Live(r) = NULL) = (call[r].cond = "nx") THEN Error(r) ELSE Return(r, Text("nil"))

\* SET with a deadline looks the key up again,
ExPeek(r) ==
    LET e == Live(r) IN
    /\ pc[r] = "ex_peek"
    /\ Sweep(r)
    /\ IF e = NULL
       THEN Return(r, Text("OK"))
       ELSE Continue(r, "ex_touch", [reg[r] EXCEPT !.cur = e.obj, !.deadline = clock + call[r].ttl])

\* and gives the deadline to the value it found.
ExTouch(r) ==
    /\ pc[r] = "ex_touch"
    /\ IF Same(r) THEN Keep(r, [Live(r) EXCEPT !.expiry = reg[r].deadline]) ELSE Sweep(r)
    /\ Return(r, Text("OK"))

-----------------------------------------------------------------------------
(* DEL, EXPIRE, TTL, PERSIST *)

Del(r) ==
    /\ pc[r] = "del"
    /\ Keep(r, NULL)
    /\ Return(r, Number(IF Live(r) = NULL THEN 0 ELSE 1))

Expire(r) ==
    /\ pc[r] = "expire"
    /\ IF Live(r) = NULL
       THEN Keep(r, NULL) /\ Return(r, Number(0))
       ELSE /\ Keep(r, [Live(r) EXCEPT !.expiry = clock + call[r].ttl])
            /\ Return(r, Number(1))

Ttl(r) ==
    LET e == Live(r) IN
    /\ pc[r] = "ttl"
    /\ Sweep(r)
    /\ Return(r, Number(IF e = NULL THEN -2 ELSE IF e.expiry = 0 THEN -1 ELSE e.expiry - clock))

PersistRead(r) ==
    LET e == Live(r)
        none == IF e = NULL THEN TRUE ELSE e.expiry = 0
    IN
    /\ pc[r] = "persist"
    /\ Sweep(r)
    /\ IF none
       THEN Return(r, Number(0))
       ELSE Continue(r, "persist_clear", reg[r])

PersistClear(r) ==
    /\ pc[r] = "persist_clear"
    /\ Keep(r, IF Live(r) = NULL THEN NULL ELSE [Live(r) EXCEPT !.expiry = 0])
    /\ Return(r, Number(1))

-----------------------------------------------------------------------------
\* The background sweep of resp_kv_maybe_sweep.
Evict(k) ==
    /\ map[k] # NULL /\ Expired(map[k])
    /\ map' = [map EXCEPT ![k] = NULL]
    /\ UNCHANGED <<workload, clock, call, reply, pc, reg>>

Tick == clock < MaxClock /\ clock' = clock + 1 /\ UNCHANGED <<workload, map, call, reply, pc, reg>>

Serve(r) == \/ Lookup(r) \/ Swap(r) \/ Peek(r) \/ Touch(r) \/ Write(r) \/ Why(r)
            \/ ExPeek(r) \/ ExTouch(r) \/ Del(r) \/ Expire(r) \/ Ttl(r)
            \/ PersistRead(r) \/ PersistClear(r)

RespNext == \/ \E r \in Reactors : (\E c \in Commands : Arrive(r, c)) \/ Serve(r)
            \/ \E k \in Keys : Evict(k)
            \/ Tick

RespSpec == RespInit /\ [][RespNext]_respVars
FairRespSpec == RespSpec /\ \A r \in Reactors : WF_respVars(Serve(r))

-----------------------------------------------------------------------------
RespTypeOK ==
    /\ workload \in Workloads
    /\ \A k \in Keys : map[k] # NULL =>
          /\ map[k].obj \in Objects
          /\ map[k].data.type \in {"blob", "list", "hash"}
          /\ map[k].expiry \in Nat
    /\ clock \in 0 .. MaxClock
    /\ DOMAIN call = Reactors
    /\ \A r \in Reactors : call[r] \in workload[r] \cup {NULL}
    /\ \A r \in Reactors : (pc[r] = "idle") = (call[r] = NULL)
    /\ \A r \in Reactors : /\ reg[r].retries \in 0 .. MaxRetries
                           /\ {reg[r].cur, reg[r].obj} \subseteq Objects \cup {NULL}

\* A container whose last element went away is not kept ("just delete the key",
\* cmd_lpop_rpop).
NoEmptyContainer == \A k \in Keys : map[k] # NULL => ~ Empty(map[k].data)

\* The deadline of a SET goes to the value that this SET stored and to no
\* concurrent replacement (cmd_set).
TtlOnOwnValue ==
    [][\A r \in Reactors :
          ExTouch(r) /\ Same(r) => reg[r].cur = reg[r].obj]_respVars

\* When a SET with a deadline answers OK, its value has one or is gone.
StoredBy(r) == IF pc[r] = "set" THEN map'[key(r)].obj ELSE reg[r].obj
TtlGiven ==
    [][\A r \in Reactors :
          /\ pc[r] \in {"set", "ex_peek", "ex_touch"} /\ call[r].ttl # 0
          /\ reply'[r] = Text("OK")
          /\ map'[key(r)] # NULL /\ map'[key(r)].obj = StoredBy(r)
          => map'[key(r)].expiry # 0]_respVars

\* A command ends, whoever else writes its key: a swap that keeps failing is
\* given up.
CommandsEnd == \A r \in Reactors : pc[r] # "idle" ~> pc[r] = "idle"

\* SET with a deadline and PERSIST change the keyspace in two accesses.
TwoAccesses(c) == c.name = "persist" \/ (c.name = "set" /\ c.ttl # 0)

\* The keyspace without its addresses.
Holds(e) == IF e = NULL THEN NULL ELSE [data |-> e.data, expiry |-> e.expiry]
Contents == [k \in Keys |-> Holds(map[k])]

\* Every other command takes effect in one step: no acknowledged update is
\* lost and no deadline goes astray, whatever those two do in between.
Redis == INSTANCE RedisKeys WITH store <- Contents
RefinesRedis ==
    /\ Redis!RedisInit
    /\ [][\/ Redis!RedisNext
          \/ \E r \in Reactors : call[r] # NULL /\ TwoAccesses(call[r]) /\ Serve(r)
         ]_(Redis!redisVars)
=============================================================================

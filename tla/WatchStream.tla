---------------------------- MODULE WatchStream ----------------------------
(* The layer-2 keyspace watch of resp.c over the queue of mpsc.h: reactors  *)
(* emit an event per mutation while the watch is enabled, and the main      *)
(* thread switches the watch, takes events, and may sleep for one on a wake *)
(* descriptor.  The queue is Mpsc itself, access by access.                 *)
EXTENDS Mpsc, Naturals

CONSTANTS QueueCap,   \* 65536 in resp_watch_emit
          MaxDropped  \* the bound on the dropped count

ASSUME WatchAssumption == /\ QueueCap \in Nat \ {0}
                          /\ MaxDropped \in Nat
                          /\ IsFiniteSet(Producers)

VARIABLES enabled,     \* g_lfkv_watch_enabled
          wake_ready,  \* g_lfkv_watch_wake_ready
          waiter,      \* g_lfkv_watch_waiter
          readable,    \* the wake descriptor has a signal to read
          qsize,       \* g_lfkv_watch_qsize
          dropped,     \* g_lfkv_watch_dropped
          epc,         \* per producer: its next step in resp_watch_emit
          mpc,         \* the main thread's next step
          op           \* the builtin the main thread runs

flagVars == <<enabled, wake_ready, waiter, readable>>
watchVars == <<flagVars, qsize, dropped, epc, mpc, op>>
streamVars == <<mpscVars, watchVars>>

Ops == {"none", "next", "probe", "timed", "forever", "drain", "enable", "disable"}
Waits == {"probe", "timed", "forever"}

StreamInit == /\ MpscInit
              /\ enabled = FALSE
              /\ wake_ready = FALSE
              /\ waiter = FALSE
              /\ readable = FALSE
              /\ qsize = 0
              /\ dropped = 0
              /\ epc = [p \in Producers |-> "out"]
              /\ mpc = "out"
              /\ op = "none"

-----------------------------------------------------------------------------
(* resp_watch_emit *)

Emitting(p, from, to) == epc[p] = from /\ epc' = [epc EXCEPT ![p] = to]

\* LFKV_EMIT: a mutation found the watch enabled.  The bound: every emit under
\* way may still be dropped.
EnterEmit(p) ==
    /\ enabled
    /\ dropped + Cardinality({q \in Producers : epc[q] = "check"}) < MaxDropped
    /\ Emitting(p, "out", "check")
    /\ UNCHANGED <<mpscVars, flagVars, qsize, dropped, mpc, op>>

\* The queue is full, or there is no memory for the event.
Drop(p) ==
    /\ Emitting(p, "check", "out")
    /\ dropped' = dropped + 1
    /\ UNCHANGED <<mpscVars, flagVars, qsize, mpc, op>>

RoomMut == TRUE
Room == qsize < QueueCap

Accept(p) ==
    /\ Room
    /\ Emitting(p, "check", "count")
    /\ UNCHANGED <<mpscVars, flagVars, qsize, dropped, mpc, op>>

\* The size is raised in an access of its own, after the check.
Count(p) ==
    /\ Emitting(p, "count", "push")
    /\ qsize' = qsize + 1
    /\ UNCHANGED <<mpscVars, flagVars, dropped, mpc, op>>

Push(p, n) ==
    /\ Emitting(p, "push", "link")
    /\ Exchange(p, n)
    /\ UNCHANGED <<flagVars, qsize, dropped, mpc, op>>

Publish(p) ==
    /\ Emitting(p, "link", "wake")
    /\ Link(p)
    /\ UNCHANGED <<flagVars, qsize, dropped, mpc, op>>

\* Behind the fence: is anybody asleep?
CheckWaiter(p) ==
    /\ Emitting(p, "wake", IF waiter /\ wake_ready THEN "signal" ELSE "out")
    /\ UNCHANGED <<mpscVars, flagVars, qsize, dropped, mpc, op>>

Signal(p) ==
    /\ Emitting(p, "signal", "out")
    /\ readable' = TRUE
    /\ UNCHANGED <<mpscVars, enabled, wake_ready, waiter, qsize, dropped, mpc, op>>

-----------------------------------------------------------------------------
(* The main thread's builtins.  Each begins with a dequeue. *)

Begin(builtin, step) == op' = builtin /\ mpc' = step
Done == Begin("none", "out")

\* redis-next-event!, redis-wait-event!, redis-drain-events!
StartTake(builtin) ==
    /\ mpc = "out"
    /\ builtin \in Waits \cup {"next", "drain"}
    /\ Begin(builtin, "dequeue")
    /\ Call
    /\ UNCHANGED <<flagVars, qsize, dropped, epc>>

\* redis-watch! when the flag changes: both ways drain the queue, a disable
\* after the store of the flag.
StartToggle ==
    /\ mpc = "out"
    /\ Begin(IF enabled THEN "disable" ELSE "enable", "dequeue")
    /\ enabled' = FALSE
    /\ Call
    /\ UNCHANGED <<wake_ready, waiter, readable, qsize, dropped, epc>>

\* redis-watch-dropped
ReadDropped ==
    /\ mpc = "out"
    /\ dropped # 0
    /\ dropped' = 0
    /\ UNCHANGED <<mpscVars, flagVars, qsize, epc, mpc, op>>

\* What a dequeue that has returned makes of the step it was for.
Hit == [dequeue |-> "hit_dequeue", recheck |-> "hit_recheck"]
Miss == [dequeue |-> "miss_dequeue", recheck |-> "miss_recheck"]

Dequeuing ==
    /\ mpc \in {"dequeue", "recheck"}
    /\ Dequeue
    /\ mpc' = IF cpc' # "idle" THEN mpc ELSE IF answer' = NULL THEN Miss[mpc] ELSE Hit[mpc]
    /\ UNCHANGED <<flagVars, qsize, dropped, epc, op>>

\* A node was handed out while the flag was up: take the flag down first.
Disarm ==
    /\ mpc = "hit_recheck"
    /\ waiter' = FALSE
    /\ mpc' = "hit_dequeue"
    /\ UNCHANGED <<mpscVars, enabled, wake_ready, readable, qsize, dropped, epc, op>>

DecrementedMut == qsize
\* watch_qsize_dec, never below zero.
Decremented == IF qsize > 0 THEN qsize - 1 ELSE 0

\* Account for the event and free it.  A drain goes on.
Take ==
    /\ mpc = "hit_dequeue"
    /\ qsize' = Decremented
    /\ IF op \in {"drain", "enable", "disable"}
       THEN mpc' = "dequeue" /\ Call /\ UNCHANGED op
       ELSE Done /\ UNCHANGED mpscVars
    /\ UNCHANGED <<flagVars, dropped, epc>>

\* The queue looked empty: a builtin that does not sleep is finished.
FinishEmpty ==
    /\ mpc = "miss_dequeue"
    /\ \/ op \in {"next", "probe", "drain", "disable"}
       \/ op \in {"timed", "forever"} /\ ~ (enabled /\ wake_ready)
    /\ Done
    /\ UNCHANGED <<mpscVars, flagVars, qsize, dropped, epc>>

\* The end of an enable: the descriptor is made once, and may fail to be.
FinishEnable ==
    /\ mpc = "miss_dequeue"
    /\ op = "enable"
    /\ wake_ready' \in {wake_ready, TRUE}
    /\ dropped' = 0
    /\ enabled' = TRUE
    /\ Done
    /\ UNCHANGED <<mpscVars, waiter, readable, qsize, epc>>

ArmedMut == waiter
\* The flag a sleeper raises.
Armed == TRUE

\* Raise the flag, fence, look again.
Arm ==
    /\ mpc = "miss_dequeue"
    /\ op \in {"timed", "forever"}
    /\ enabled /\ wake_ready
    /\ waiter' = Armed
    /\ mpc' = "recheck"
    /\ Call
    /\ UNCHANGED <<enabled, wake_ready, readable, qsize, dropped, epc, op>>

Sleep ==
    /\ mpc = "miss_recheck"
    /\ mpc' = "poll"
    /\ UNCHANGED <<mpscVars, flagVars, qsize, dropped, epc, op>>

\* The deadline has passed, or a signal or an error ended the poll.
GiveUp ==
    /\ \/ mpc = "miss_recheck" /\ op = "timed"
       \/ mpc = "poll"
    /\ waiter' = FALSE
    /\ Done
    /\ UNCHANGED <<mpscVars, enabled, wake_ready, readable, qsize, dropped, epc>>

\* poll timed out before the deadline (its argument is clamped): look again.
PollTimeout ==
    /\ mpc = "poll"
    /\ op = "timed"
    /\ waiter' = FALSE
    /\ mpc' = "dequeue"
    /\ Call
    /\ UNCHANGED <<enabled, wake_ready, readable, qsize, dropped, epc, op>>

WakeUp ==
    /\ mpc = "poll"
    /\ readable
    /\ waiter' = FALSE
    /\ mpc' = "drain_wake"
    /\ UNCHANGED <<mpscVars, enabled, wake_ready, readable, qsize, dropped, epc, op>>

DrainWake ==
    /\ mpc = "drain_wake"
    /\ readable' = FALSE
    /\ mpc' = "dequeue"
    /\ Call
    /\ UNCHANGED <<enabled, wake_ready, waiter, qsize, dropped, epc, op>>

-----------------------------------------------------------------------------
Emit(p) == \/ Drop(p) \/ Accept(p) \/ Count(p)
           \/ \E n \in Nodes : Push(p, n)
           \/ Publish(p) \/ CheckWaiter(p) \/ Signal(p)

\* What the main thread does inside a builtin without an outside event.
Builtin == \/ Dequeuing \/ Disarm \/ Take \/ FinishEmpty \/ FinishEnable
           \/ Arm \/ Sleep \/ WakeUp \/ DrainWake

StreamNext ==
    \/ \E p \in Producers : EnterEmit(p) \/ Emit(p)
    \/ \E builtin \in Ops : StartTake(builtin)
    \/ StartToggle \/ ReadDropped
    \/ Builtin \/ GiveUp \/ PollTimeout

StreamSpec == StreamInit /\ [][StreamNext]_streamVars

\* Every thread keeps running.
FairStreamSpec == /\ StreamSpec
                  /\ \A p \in Producers : WF_streamVars(Emit(p))
                  /\ WF_streamVars(Builtin)

-----------------------------------------------------------------------------
Events == ToSet(chain) \ {stub}

StreamTypeOK ==
    /\ MpscTypeOK
    /\ enabled \in BOOLEAN /\ wake_ready \in BOOLEAN
    /\ waiter \in BOOLEAN /\ readable \in BOOLEAN
    /\ qsize \in Nat
    /\ dropped \in 0 .. MaxDropped
    /\ epc \in [Producers -> {"out", "check", "count", "push", "link", "wake", "signal"}]
    /\ mpc \in {"out", "dequeue", "recheck", "hit_dequeue", "hit_recheck",
                "miss_dequeue", "miss_recheck", "poll", "drain_wake"}
    /\ op \in Ops

\* The size is per-node accurate at every step: it counts the queued events,
\* those about to be pushed, and the one the main thread is accounting for.
SizeExact ==
    qsize = Cardinality(Events)
            + Cardinality({p \in Producers : epc[p] = "push"})
            + (IF mpc \in {"hit_dequeue", "hit_recheck"} THEN 1 ELSE 0)

\* The check and the increment are apart, so the cap can be passed, but by less
\* than one event per producer.
OvershootBounded == qsize < QueueCap + Cardinality(Producers)

\* g_lfkv_watch_qsize, which emits check and raise in two accesses and takes
\* lower, agrees with the queue all the same, and passes the cap by little.
SizeRight == SizeExact /\ OvershootBounded

\* What the documentation says of the queue (docs/multithreading.md, "capped at
\* 65536 events").
QueueCapped == Cardinality(Events) <= QueueCap

\* No lost wakeup: when the main thread sleeps and an event is queued, the
\* descriptor is readable or a producer is on its way to signal it.
NoLostWakeup ==
    mpc = "poll" /\ Events # {}
        => readable \/ \E p \in Producers : epc[p] \in {"link", "wake", "signal"}

\* A wait without a deadline returns once there is an event.
WaitServed ==
    op = "forever" /\ mpc = "poll" /\ Events # {} ~> mpc = "out"
=============================================================================

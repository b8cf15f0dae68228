----------------------------- MODULE FifoQueue -----------------------------
(* What the queue of mpsc.h promises: first in, first out, with an enqueue  *)
(* in two parts (the node takes its place, then becomes reachable) and a    *)
(* dequeue that may answer NULL for a queue that is not empty only when an   *)
(* enqueue was in flight at some moment of the call.                        *)
EXTENDS Sequences, SequencesExt

CONSTANTS Items, NULL

VARIABLES queue,     \* the items in the order of their places
          inflight,  \* the items that are not reachable yet
          busy,      \* a dequeue is under way
          excused,   \* an enqueue overlapped it
          answer     \* what the last dequeue returned

fifoVars == <<queue, inflight, busy, excused, answer>>

FifoInit == /\ queue = <<>>
            /\ inflight = {}
            /\ busy = FALSE
            /\ excused = FALSE
            /\ answer = NULL

Place(x) == /\ x \notin ToSet(queue)
            /\ queue' = Append(queue, x)
            /\ inflight' = inflight \cup {x}
            /\ excused' = busy
            /\ UNCHANGED <<busy, answer>>

Reach(x) == /\ x \in inflight
            /\ inflight' = inflight \ {x}
            /\ UNCHANGED <<queue, busy, excused, answer>>

Begin == /\ ~ busy
         /\ busy' = TRUE
         /\ excused' = (inflight # {})
         /\ UNCHANGED <<queue, inflight, answer>>

Finish(x) == /\ busy
             /\ answer' = x
             /\ busy' = FALSE
             /\ excused' = FALSE
             /\ UNCHANGED inflight

TakeFirst == /\ queue # <<>>
             /\ Head(queue) \notin inflight
             /\ queue' = Tail(queue)
             /\ Finish(Head(queue))

TakeNothing == /\ queue = <<>> \/ excused
               /\ UNCHANGED queue
               /\ Finish(NULL)

FifoNext == \/ \E x \in Items : Place(x) \/ Reach(x)
            \/ Begin \/ TakeFirst \/ TakeNothing

FifoSpec == FifoInit /\ [][FifoNext]_fifoVars
=============================================================================

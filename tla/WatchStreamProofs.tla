------------------------- MODULE WatchStreamProofs -------------------------
(* The size of the watch queue is exact and no wakeup is lost, for every     *)
(* number of reactors, of addresses and every cap.                          *)
EXTENDS WatchStream, MpscProofs, FiniteSetTheorems

-----------------------------------------------------------------------------
(* The inductive invariant                                                 *)

At(step) == {p \in Producers : epc[p] = step}

\* The steps of the emits and of the main thread are those of the queue.
ControlInv ==
    /\ \A p \in Producers : ppc[p] = "link" <=> epc[p] = "link"
    /\ mpc \in {"dequeue", "recheck"} <=> cpc # "idle"

Held == IF mpc \in {"hit_dequeue", "hit_recheck"} THEN 1 ELSE 0

SizeInv == /\ IsFiniteSet(Events)
           /\ qsize = Cardinality(Events) + Cardinality(At("push")) + Held

\* Whoever found room raises the size later.
CapInv == qsize + Cardinality(At("count")) < QueueCap + Cardinality(Producers)

\* An emit that has begun may still be dropped.
DroppedInv == dropped + Cardinality(At("check")) <= MaxDropped

\* The descriptor is readable, or some reactor will look at the waiter flag.
Wakes == readable \/ \E p \in Producers : epc[p] \in {"link", "wake", "signal"}

\* From the moment the flag is up, an enqueue that the main thread may miss is
\* one whose producer will still see the flag.
WakeInv ==
    /\ mpc \in {"recheck", "miss_recheck", "poll"} => waiter /\ wake_ready
    /\ mpc = "recheck" /\ excused => Wakes
    /\ mpc \in {"miss_recheck", "poll"} /\ Events # {} => Wakes

StreamIInv == /\ MpscIInv
              /\ StreamTypeOK
              /\ ControlInv
              /\ SizeInv
              /\ CapInv
              /\ DroppedInv
              /\ WakeInv

-----------------------------------------------------------------------------
(* The stream uses the queue as the queue is meant to be used              *)

USE MpscAssumption, WatchAssumption
    DEF Links, producerVars, consumerVars, flagVars, Begin, Done

LEMMA StreamCalls ==
    ASSUME StreamNext
    PROVE  MpscNext \/ UNCHANGED mpscVars
<1>1. ASSUME NEW p \in Producers, EnterEmit(p) \/ Emit(p) PROVE MpscNext \/ UNCHANGED mpscVars
  BY <1>1 DEF MpscNext, EnterEmit, Emit, Drop, Accept, Count, Push, Publish, CheckWaiter, Signal
<1>2. ASSUME NEW builtin \in Ops, StartTake(builtin) PROVE MpscNext
  BY <1>2 DEF MpscNext, StartTake
<1>3. CASE StartToggle \/ ReadDropped \/ GiveUp \/ PollTimeout
  BY <1>3 DEF MpscNext, StartToggle, ReadDropped, GiveUp, PollTimeout
<1>4. CASE Builtin
  BY <1>4 DEF MpscNext, Builtin, Dequeuing, Disarm, Take, FinishEmpty, FinishEnable, Arm, Sleep,
     WakeUp, DrainWake
<1>. QED
  BY <1>1, <1>2, <1>3, <1>4 DEF StreamNext

\* Every dequeue of the stream ends with the first event or, when the queue is
\* empty or an enqueue was in flight, with none.
LEMMA DequeueEvents ==
    ASSUME MpscIInv, Dequeue
    PROVE  /\ cpc # "idle" /\ UNCHANGED ppc
           /\ \/ /\ cpc' = "idle" /\ answer' # NULL
                 /\ answer' \in Events /\ Events' = Events \ {answer'}
              \/ /\ cpc' = "idle" /\ answer' = NULL
                 /\ UNCHANGED Events
                 /\ Events = {} \/ excused
              \/ cpc' # "idle" /\ UNCHANGED <<Events, excused>>
<1>. USE DEF Events
<1>1. cpc # "idle" => cur = tail
  BY DEF MpscIInv, ConsumerInv
<1>2. chain[1] \in ToSet(chain) /\ ToSet(Tail(chain)) = ToSet(chain) \ {chain[1]}
  <2>1. ToSet(Tail(chain)) = ToSet(chain) \ {chain[1]}
    BY ChainFacts, Dropped
  <2>2. 1 \in 1 .. Len(chain)
    BY ChainFacts, ChainPlaces DEF MpscIInv
  <2>. QED
    BY <2>1, <2>2, ChainPlaces DEF MpscIInv
<1>3. ASSUME HandOut(cur), cpc # "idle", cur # stub
      PROVE  /\ cpc' = "idle" /\ answer' # NULL
             /\ answer' \in Events /\ Events' = Events \ {answer'}
  <2>1. cur = chain[1] /\ cur \in Links
    BY <1>1, <1>3, ChainFacts DEF MpscIInv, MpscTypeOK
  <2>. QED
    BY <1>2, <1>3, <2>1 DEF HandOut, Advance, Return
<1>4. CASE First
  <2>. USE <1>4 DEF First
  <2>1. CASE cur = stub /\ next[stub] = NULL
    <3>1. tail = head => Events = {}
      <4>1. 1 \in DOMAIN chain /\ Len(chain) \in DOMAIN chain /\ DOMAIN chain = 1 .. Len(chain)
        BY ChainFacts, ChainPlaces DEF MpscIInv
      <4>2. tail = head => Len(chain) = 1
        BY <4>1 DEF MpscIInv, WellFormed, IsInjective
      <4>3. ASSUME tail = head PROVE ToSet(chain) \subseteq {stub}
        <5>1. DOMAIN chain = 1 .. 1 /\ chain[1] = stub
          BY <1>1, <2>1, <4>1, <4>2, <4>3, ChainFacts
        <5>2. \A i \in DOMAIN chain : i = 1
          BY <5>1
        <5>. QED
          BY <5>1, <5>2 DEF ToSet
      <4>. QED
        BY <4>3
    <3>2. Events = {} \/ excused
      BY <1>1, <2>1, <3>1, UnlinkedExcused
    <3>. QED
      BY <2>1, <3>2 DEF Return
  <2>2. CASE cur = stub /\ next[stub] # NULL
    BY <1>1, <1>2, <2>2, ChainFacts DEF Advance
  <2>3. CASE cur # stub /\ next[cur] # NULL
    BY <1>3, <2>3
  <2>4. CASE cur # stub /\ next[cur] = NULL
    BY <2>4
  <2>. QED
    BY <2>1, <2>2, <2>3, <2>4
<1>5. CASE Second
  BY <1>3, <1>5 DEF Second, MpscIInv, ConsumerInv
<1>6. CASE CheckHead
  BY <1>6 DEF CheckHead, AtHead, Return, MpscIInv, ExcuseInv
<1>7. CASE RestubExchange
  <2>1. ToSet(chain') = ToSet(chain) \cup {stub}
    BY <1>7, ChainFacts, Appended DEF RestubExchange, MpscIInv, StubInv
  <2>. QED
    BY <1>7, <2>1 DEF RestubExchange
<1>8. CASE RestubLink
  BY <1>8 DEF RestubLink
<1>9. CASE Final
  <2>. USE <1>9 DEF Final
  <2>1. CASE Ready
    BY <1>3, <2>1 DEF MpscIInv, ConsumerInv
  <2>2. CASE ~ Ready
    <3>1. tail # head /\ next[tail] = NULL
      BY <2>2, <1>1 DEF Ready, MpscIInv, StubInv
    <3>. QED
      BY <2>2, <3>1, UnlinkedExcused DEF Return
  <2>. QED
    BY <2>1, <2>2
<1>. QED
  BY <1>4, <1>5, <1>6, <1>7, <1>8, <1>9 DEF Dequeue

\* The other accesses: an exchange adds the event, and nothing else matters.
LEMMA ExchangeEvents ==
    ASSUME MpscIInv, NEW p \in Producers, NEW n \in Nodes, Exchange(p, n)
    PROVE  n \notin Events /\ Events' = Events \cup {n}
<1>1. ToSet(chain') = ToSet(chain) \cup {n}
  BY ChainFacts, Appended DEF Exchange
<1>. QED
  BY <1>1 DEF Exchange, Events

-----------------------------------------------------------------------------
(* The emits at a step                                                     *)

LEMMA AtFinite ==
    ASSUME NEW step
    PROVE  /\ IsFiniteSet(At(step)) /\ Cardinality(At(step)) \in Nat
           /\ Cardinality(Producers) \in Nat
           /\ Cardinality(At(step)) <= Cardinality(Producers)
<1>1. At(step) \in SUBSET Producers
  BY DEF At
<1>. QED
  BY <1>1, FS_Subset, FS_CardinalityType

LEMMA EmitMoves ==
    ASSUME StreamTypeOK, NEW p \in Producers, NEW from, NEW to, from # to, Emitting(p, from, to)
    PROVE  /\ Cardinality(At(from)') = Cardinality(At(from)) - 1
           /\ Cardinality(At(from)) >= 1
           /\ Cardinality(At(to)') = Cardinality(At(to)) + 1
           /\ \A step : step # from /\ step # to => At(step)' = At(step)
           /\ epc'[p] = to /\ \A q \in Producers \ {p} : epc'[q] = epc[q]
<1>1. /\ epc'[p] = to /\ epc[p] = from
      /\ \A q \in Producers \ {p} : epc'[q] = epc[q]
  BY DEF Emitting, StreamTypeOK
<1>2. /\ At(from)' = At(from) \ {p} /\ p \in At(from)
      /\ At(to)' = At(to) \cup {p} /\ p \notin At(to)
      /\ \A step : step # from /\ step # to => At(step)' = At(step)
  BY <1>1 DEF At
<1>3. /\ Cardinality(At(from) \ {p}) = Cardinality(At(from)) - 1
      /\ Cardinality(At(to) \cup {p}) = Cardinality(At(to)) + 1
  BY <1>2, AtFinite, FS_RemoveElement, FS_AddElement
<1>4. Cardinality(At(from)) # 0
  BY <1>2, AtFinite, FS_EmptySet
<1>. QED
  BY <1>1, <1>2, <1>3, <1>4, AtFinite

-----------------------------------------------------------------------------
(* The steps                                                               *)

\* The steps of an emit that stay away from the queue, and the main thread's
\* steps by what they do to the queue.
Aside(p) == \/ EnterEmit(p) \/ Drop(p) \/ Accept(p) \/ Count(p)
            \/ CheckWaiter(p) \/ Signal(p)
Calling == \/ \E builtin \in Ops : StartTake(builtin)
           \/ StartToggle \/ Arm \/ PollTimeout \/ DrainWake
Resting == \/ ReadDropped \/ Disarm \/ FinishEmpty \/ FinishEnable
           \/ Sleep \/ GiveUp \/ WakeUp

LEMMA StreamSteps ==
    ASSUME StreamNext
    PROVE  \/ \E p \in Producers : Aside(p) \/ (\E n \in Nodes : Push(p, n)) \/ Publish(p)
           \/ Calling \/ Dequeuing \/ Take \/ Resting
  BY DEF StreamNext, Emit, Builtin, Aside, Calling, Resting

LEMMA ControlStep ==
    ASSUME StreamIInv, StreamNext
    PROVE  ControlInv'
<1>. USE DEF StreamIInv, StreamTypeOK, MpscTypeOK, ControlInv, Emitting
<1>1. ASSUME NEW p \in Producers, Aside(p) PROVE ControlInv'
  BY <1>1 DEF Aside, EnterEmit, Drop, Accept, Count, CheckWaiter, Signal, mpscVars
<1>2. ASSUME NEW p \in Producers, NEW n \in Nodes, Push(p, n) PROVE ControlInv'
  BY <1>2 DEF Push, Exchange
<1>3. ASSUME NEW p \in Producers, Publish(p) PROVE ControlInv'
  BY <1>3 DEF Publish, Link
<1>4. CASE Calling
  BY <1>4 DEF Calling, StartTake, StartToggle, Arm, PollTimeout, DrainWake, Call
<1>5. CASE Dequeuing
  BY <1>5, DequeueEvents DEF Dequeuing, Hit, Miss
<1>6. CASE Take
  BY <1>6 DEF Take, Call, mpscVars
<1>7. CASE Resting
  BY <1>7 DEF Resting, ReadDropped, Disarm, FinishEmpty, FinishEnable, Sleep, GiveUp, WakeUp, mpscVars
<1>. QED
  BY <1>1, <1>2, <1>3, <1>4, <1>5, <1>6, <1>7, StreamSteps

LEMMA SizeStep ==
    ASSUME StreamIInv, StreamNext
    PROVE  SizeInv'
<1>. USE DEF StreamIInv, SizeInv, Held
<1>0. Cardinality(Events) \in Nat /\ Cardinality(At("push")) \in Nat /\ qsize \in Nat
  BY AtFinite, FS_CardinalityType DEF StreamTypeOK
<1>1. ASSUME NEW p \in Producers, Aside(p) PROVE SizeInv'
  <2>1. UNCHANGED <<Events, mpc>>
    BY <1>1 DEF Aside, EnterEmit, Drop, Accept, Count, CheckWaiter, Signal, mpscVars, Events
  <2>2. CASE Count(p)
    BY <1>0, <2>1, <2>2, EmitMoves DEF Count
  <2>3. CASE ~ Count(p)
    <3>1. /\ UNCHANGED qsize
          /\ \E from, to : /\ from # "push" /\ to # "push" /\ from # to
                           /\ Emitting(p, from, to)
      BY <1>1, <2>3 DEF Aside, EnterEmit, Drop, Accept, CheckWaiter, Signal
    <3>2. At("push")' = At("push")
      BY <3>1, EmitMoves
    <3>. QED
      BY <2>1, <3>1, <3>2
  <2>. QED
    BY <2>2, <2>3
<1>2. ASSUME NEW p \in Producers, NEW n \in Nodes, Push(p, n) PROVE SizeInv'
  <2>1. /\ n \notin Events /\ Events' = Events \cup {n}
        /\ UNCHANGED <<qsize, mpc>>
    BY <1>2, ExchangeEvents DEF Push
  <2>2. IsFiniteSet(Events') /\ Cardinality(Events') = Cardinality(Events) + 1
    BY <2>1, FS_AddElement
  <2>3. Cardinality(At("push")') = Cardinality(At("push")) - 1
    BY <1>2, EmitMoves DEF Push
  <2>. QED
    BY <1>0, <2>1, <2>2, <2>3
<1>3. ASSUME NEW p \in Producers, Publish(p) PROVE SizeInv'
  <2>1. UNCHANGED <<Events, qsize, mpc>>
    BY <1>3 DEF Publish, Link, Events
  <2>2. At("push")' = At("push")
    BY <1>3, EmitMoves DEF Publish
  <2>. QED
    BY <2>1, <2>2
<1>4. CASE Calling
  BY <1>4 DEF Calling, StartTake, StartToggle, Arm, PollTimeout, DrainWake, Call, Events, At
<1>5. CASE Dequeuing
  <2>1. UNCHANGED <<qsize, At("push")>> /\ Held = 0
    BY <1>5 DEF Dequeuing, At
  <2>2. CASE /\ cpc' = "idle" /\ answer' # NULL
             /\ answer' \in Events /\ Events' = Events \ {answer'}
    <3>1. IsFiniteSet(Events') /\ Cardinality(Events') = Cardinality(Events) - 1
      BY <2>2, FS_RemoveElement
    <3>2. Held' = 1
      BY <1>5, <2>2 DEF Dequeuing, Hit
    <3>. QED
      BY <1>0, <2>1, <3>1, <3>2
  <2>3. CASE cpc' # "idle" \/ answer' = NULL
    <3>1. UNCHANGED Events
      BY <1>5, <2>3, DequeueEvents DEF Dequeuing
    <3>2. Held' = 0
      BY <1>5, <2>3 DEF Dequeuing, Miss
    <3>. QED
      BY <2>1, <3>1, <3>2
  <2>. QED
    BY <1>5, <2>2, <2>3, DequeueEvents DEF Dequeuing
<1>6. CASE Take
  <2>1. UNCHANGED <<Events, At("push")>> /\ qsize' = qsize - 1 /\ Held = 1 /\ Held' = 0
    BY <1>0, <1>6 DEF Take, Decremented, Call, mpscVars, Events, At
  <2>. QED
    BY <1>0, <2>1
<1>7. CASE Resting
  BY <1>7 DEF Resting, ReadDropped, Disarm, FinishEmpty, FinishEnable, Sleep, GiveUp, WakeUp,
     mpscVars, Events, At
<1>. QED
  BY <1>1, <1>2, <1>3, <1>4, <1>5, <1>6, <1>7, StreamSteps

LEMMA CapStep ==
    ASSUME StreamIInv, StreamNext
    PROVE  CapInv'
<1>. USE DEF StreamIInv, CapInv
<1>0. qsize \in Nat
  BY DEF StreamTypeOK
<1>1. ASSUME NEW p \in Producers, Aside(p) PROVE CapInv'
  <2>1. CASE Accept(p)
    <3>1. At("count")' \subseteq Producers
      BY DEF At
    <3>2. Cardinality(At("count")') \in Nat /\ Cardinality(At("count")') <= Cardinality(Producers)
      BY <3>1, FS_Subset, FS_CardinalityType
    <3>. QED
      BY <1>0, <2>1, <3>2, AtFinite DEF Accept, Room
  <2>2. CASE Count(p)
    BY <1>0, <2>2, EmitMoves, AtFinite DEF Count
  <2>3. CASE ~ Accept(p) /\ ~ Count(p)
    <3>1. /\ UNCHANGED qsize
          /\ \E from, to : /\ from # "count" /\ to # "count" /\ from # to
                           /\ Emitting(p, from, to)
      BY <1>1, <2>3 DEF Aside, EnterEmit, Drop, CheckWaiter, Signal
    <3>2. At("count")' = At("count")
      BY <3>1, EmitMoves
    <3>. QED
      BY <3>1, <3>2
  <2>. QED
    BY <2>1, <2>2, <2>3
<1>2. ASSUME NEW p \in Producers, NEW n \in Nodes, Push(p, n) PROVE CapInv'
  BY <1>2, EmitMoves DEF Push
<1>3. ASSUME NEW p \in Producers, Publish(p) PROVE CapInv'
  BY <1>3, EmitMoves DEF Publish
<1>4. CASE Calling
  BY <1>4 DEF Calling, StartTake, StartToggle, Arm, PollTimeout, DrainWake, At
<1>5. CASE Dequeuing
  BY <1>5 DEF Dequeuing, At
<1>6. CASE Take
  <2>1. UNCHANGED At("count") /\ qsize' \in Nat /\ qsize' <= qsize
    BY <1>0, <1>6 DEF Take, Decremented, At
  <2>. QED
    BY <1>0, <2>1, AtFinite
<1>7. CASE Resting
  BY <1>7 DEF Resting, ReadDropped, Disarm, FinishEmpty, FinishEnable, Sleep, GiveUp, WakeUp, At
<1>. QED
  BY <1>1, <1>2, <1>3, <1>4, <1>5, <1>6, <1>7, StreamSteps

LEMMA DroppedStep ==
    ASSUME StreamIInv, StreamNext
    PROVE  DroppedInv' /\ dropped' \in Nat
<1>. USE DEF StreamIInv, DroppedInv
<1>0. dropped \in Nat /\ Cardinality(At("check")) \in Nat /\ Cardinality(At("check")') \in Nat
  <2>1. At("check")' \subseteq Producers
    BY DEF At
  <2>. QED
    BY <2>1, AtFinite, FS_Subset, FS_CardinalityType DEF StreamTypeOK
<1>. DEFINE Q == DroppedInv' /\ dropped' \in Nat
<1>1. ASSUME NEW p \in Producers, Aside(p) PROVE Q
  <2>1. CASE EnterEmit(p)
    <3>1. dropped + Cardinality(At("check")) < MaxDropped /\ UNCHANGED dropped
      BY <2>1 DEF EnterEmit, At
    <3>2. Cardinality(At("check")') = Cardinality(At("check")) + 1
      BY <2>1, EmitMoves DEF EnterEmit
    <3>. QED
      BY <1>0, <3>1, <3>2
  <2>2. CASE Drop(p)
    BY <1>0, <2>2, EmitMoves DEF Drop
  <2>3. CASE Accept(p)
    BY <1>0, <2>3, EmitMoves DEF Accept
  <2>4. CASE ~ EnterEmit(p) /\ ~ Drop(p) /\ ~ Accept(p)
    <3>1. /\ UNCHANGED dropped
          /\ \E from, to : /\ from # "check" /\ to # "check" /\ from # to
                           /\ Emitting(p, from, to)
      BY <1>1, <2>4 DEF Aside, Count, CheckWaiter, Signal
    <3>2. At("check")' = At("check")
      BY <3>1, EmitMoves
    <3>. QED
      BY <1>0, <3>1, <3>2
  <2>. QED
    BY <2>1, <2>2, <2>3, <2>4
<1>2. ASSUME NEW p \in Producers, NEW n \in Nodes, Push(p, n) PROVE Q
  BY <1>0, <1>2, EmitMoves DEF Push
<1>3. ASSUME NEW p \in Producers, Publish(p) PROVE Q
  BY <1>0, <1>3, EmitMoves DEF Publish
<1>4. CASE Calling
  BY <1>0, <1>4 DEF Calling, StartTake, StartToggle, Arm, PollTimeout, DrainWake, At
<1>5. CASE Dequeuing
  BY <1>0, <1>5 DEF Dequeuing, At
<1>6. CASE Take
  BY <1>0, <1>6 DEF Take, At
<1>7. CASE Resting
  <2>1. UNCHANGED At("check") /\ (dropped' = 0 \/ dropped' = dropped)
    BY <1>7 DEF Resting, ReadDropped, Disarm, FinishEmpty, FinishEnable, Sleep, GiveUp, WakeUp, At
  <2>. QED
    BY <1>0, <2>1
<1>. QED
  BY <1>1, <1>2, <1>3, <1>4, <1>5, <1>6, <1>7, StreamSteps

LEMMA WakeStep ==
    ASSUME StreamIInv, StreamNext
    PROVE  WakeInv'
<1>. USE DEF StreamIInv, WakeInv, Wakes
<1>0. epc \in [Producers -> {"out", "check", "count", "push", "link", "wake", "signal"}]
  BY DEF StreamTypeOK
<1>1. ASSUME NEW p \in Producers, Aside(p) PROVE WakeInv'
  <2>1. UNCHANGED <<Events, mpc, excused, waiter, wake_ready>>
    BY <1>1 DEF Aside, EnterEmit, Drop, Accept, Count, CheckWaiter, Signal, mpscVars, Events
  <2>2. CASE EnterEmit(p) \/ Drop(p) \/ Accept(p) \/ Count(p)
    <3>1. Wakes => Wakes'
      BY <1>0, <2>2 DEF EnterEmit, Drop, Accept, Count, Emitting
    <3>. QED
      BY <2>1, <3>1
  <2>3. CASE CheckWaiter(p)
    <3>1. waiter /\ wake_ready => Wakes'
      BY <1>0, <2>3 DEF CheckWaiter, Emitting
    <3>. QED
      BY <2>1, <3>1
  <2>4. CASE Signal(p)
    BY <2>1, <2>4 DEF Signal
  <2>. QED
    BY <1>1, <2>2, <2>3, <2>4 DEF Aside
<1>2. ASSUME NEW p \in Producers, NEW n \in Nodes, Push(p, n) PROVE WakeInv'
  <2>1. epc'[p] = "link"
    BY <1>0, <1>2 DEF Push, Emitting
  <2>. QED
    BY <1>2, <2>1 DEF Push
<1>3. ASSUME NEW p \in Producers, Publish(p) PROVE WakeInv'
  <2>1. epc'[p] = "wake"
    BY <1>0, <1>3 DEF Publish, Emitting
  <2>. QED
    BY <1>3, <2>1 DEF Publish
<1>4. CASE Calling
  <2>1. CASE Arm
    <3>1. excused' => Wakes'
      BY <2>1 DEF Arm, Call, InFlight, ControlInv
    <3>. QED
      BY <2>1, <3>1 DEF Arm, Armed
  <2>2. CASE ~ Arm
    BY <1>4, <2>2 DEF Calling, StartTake, StartToggle, PollTimeout, DrainWake
  <2>. QED
    BY <2>1, <2>2
<1>5. CASE Dequeuing
  <2>1. UNCHANGED <<waiter, wake_ready, Wakes>>
    BY <1>5 DEF Dequeuing
  <2>2. CASE cpc' = "idle" /\ answer' # NULL
    BY <1>5, <2>2 DEF Dequeuing, Hit
  <2>3. CASE cpc' = "idle" /\ answer' = NULL
    <3>1. UNCHANGED Events /\ (Events = {} \/ excused)
      BY <1>5, <2>3, DequeueEvents DEF Dequeuing
    <3>2. mpc' = Miss[mpc] /\ mpc \in {"dequeue", "recheck"}
      BY <1>5, <2>3 DEF Dequeuing
    <3>. QED
      BY <2>1, <3>1, <3>2 DEF Miss
  <2>4. CASE cpc' # "idle"
    <3>1. mpc' = mpc /\ UNCHANGED excused /\ mpc \in {"dequeue", "recheck"}
      BY <1>5, <2>4, DequeueEvents DEF Dequeuing
    <3>. QED
      BY <2>1, <3>1
  <2>. QED
    BY <2>2, <2>3, <2>4
<1>6. CASE Take
  BY <1>6 DEF Take
<1>7. CASE Resting
  <2>1. CASE ReadDropped \/ Sleep
    BY <2>1 DEF ReadDropped, Sleep, mpscVars, Events
  <2>2. CASE Disarm \/ FinishEmpty \/ FinishEnable \/ GiveUp \/ WakeUp
    BY <2>2 DEF Disarm, FinishEmpty, FinishEnable, GiveUp, WakeUp
  <2>. QED
    BY <1>7, <2>1, <2>2 DEF Resting
<1>. QED
  BY <1>1, <1>2, <1>3, <1>4, <1>5, <1>6, <1>7, StreamSteps

LEMMA StreamTypeStep ==
    ASSUME StreamIInv, StreamNext
    PROVE  StreamTypeOK'
<1>1. MpscTypeOK'
  BY StreamCalls, NextMpscIInv DEF StreamIInv, MpscIInv
<1>2. dropped' \in 0 .. MaxDropped
  <2>1. At("check")' \subseteq Producers
    BY DEF At
  <2>2. Cardinality(At("check")') \in Nat
    BY <2>1, FS_Subset, FS_CardinalityType
  <2>. QED
    BY <2>2, DroppedStep DEF DroppedInv
<1>. DEFINE Rest == /\ enabled \in BOOLEAN /\ wake_ready \in BOOLEAN
                    /\ waiter \in BOOLEAN /\ readable \in BOOLEAN
                    /\ qsize \in Nat
                    /\ epc \in [Producers -> {"out", "check", "count", "push", "link", "wake", "signal"}]
                    /\ mpc \in {"out", "dequeue", "recheck", "hit_dequeue", "hit_recheck",
                                "miss_dequeue", "miss_recheck", "poll", "drain_wake"}
                    /\ op \in Ops
<1>3. Rest
  BY DEF StreamIInv, StreamTypeOK
<1>4. ASSUME NEW p \in Producers, Aside(p) PROVE Rest'
  <2>. USE <1>3 DEF Emitting
  <2>1. CASE EnterEmit(p) \/ Drop(p) \/ Accept(p)
    BY <2>1 DEF EnterEmit, Drop, Accept
  <2>2. CASE Count(p)
    BY <2>2 DEF Count
  <2>3. CASE CheckWaiter(p)
    BY <2>3 DEF CheckWaiter
  <2>4. CASE Signal(p)
    BY <2>4 DEF Signal
  <2>. QED
    BY <1>4, <2>1, <2>2, <2>3, <2>4 DEF Aside
<1>5. ASSUME NEW p \in Producers, NEW n \in Nodes, Push(p, n) PROVE Rest'
  BY <1>3, <1>5 DEF Push, Emitting
<1>6. ASSUME NEW p \in Producers, Publish(p) PROVE Rest'
  BY <1>3, <1>6 DEF Publish, Emitting
<1>7. ASSUME Calling PROVE Rest'
  BY <1>3, <1>7 DEF Calling, StartTake, StartToggle, Arm, Armed, PollTimeout, DrainWake, Ops
<1>8. ASSUME Dequeuing PROVE Rest'
  BY <1>3, <1>8 DEF Dequeuing, Hit, Miss
<1>9. ASSUME Take PROVE Rest'
  BY <1>3, <1>9 DEF Take, Decremented, Ops
<1>10. ASSUME Resting PROVE Rest'
  BY <1>3, <1>10 DEF Resting, ReadDropped, Disarm, FinishEmpty, FinishEnable, Sleep, GiveUp, WakeUp, Ops
<1>11. Rest'
  <2>. HIDE DEF Rest
  <2>. QED
    BY <1>4, <1>5, <1>6, <1>7, <1>8, <1>9, <1>10, StreamSteps
<1>. QED
  BY <1>1, <1>2, <1>11 DEF StreamTypeOK

-----------------------------------------------------------------------------
(* The theorems                                                            *)

LEMMA InitStreamIInv == StreamInit => StreamIInv
<1>. SUFFICES ASSUME StreamInit PROVE StreamIInv
  OBVIOUS
<1>. USE DEF StreamInit
<1>1. MpscIInv
  BY InitMpscIInv
<1>2. StreamTypeOK
  <2>1. MpscTypeOK
    BY <1>1 DEF MpscIInv
  <2>2. enabled \in BOOLEAN /\ wake_ready \in BOOLEAN /\ waiter \in BOOLEAN /\ readable \in BOOLEAN
    OBVIOUS
  <2>3. qsize \in Nat /\ dropped \in 0 .. MaxDropped
    OBVIOUS
  <2>. QED
    BY <2>1, <2>2, <2>3 DEF StreamTypeOK, Ops
<1>3. ControlInv /\ WakeInv
  BY DEF ControlInv, WakeInv, MpscInit
<1>4. /\ At("push") = {} /\ At("count") = {} /\ At("check") = {}
      /\ Events = {}
  <2>1. ToSet(chain) = {stub}
    <3>1. DOMAIN chain = {1} /\ chain[1] = stub
      BY DEF MpscInit
    <3>. QED
      BY <3>1 DEF ToSet
  <2>. QED
    BY <2>1 DEF At, Events
<1>5. SizeInv
  BY <1>4, FS_EmptySet DEF SizeInv, Held
<1>6. CapInv /\ DroppedInv
  <2>1. Cardinality(Producers) \in Nat
    BY AtFinite
  <2>. QED
    BY <1>4, <2>1, FS_EmptySet DEF CapInv, DroppedInv
<1>. QED
  BY <1>1, <1>2, <1>3, <1>5, <1>6 DEF StreamIInv

LEMMA NextStreamIInv == StreamIInv /\ [StreamNext]_streamVars => StreamIInv'
<1>. SUFFICES ASSUME StreamIInv, [StreamNext]_streamVars PROVE StreamIInv'
  OBVIOUS
<1>1. CASE StreamNext
  <2>1. MpscIInv'
    BY <1>1, StreamCalls, NextMpscIInv DEF StreamIInv
  <2>. QED
    BY <1>1, <2>1, StreamTypeStep, ControlStep, SizeStep, CapStep, DroppedStep, WakeStep
       DEF StreamIInv
<1>2. CASE UNCHANGED streamVars
  <2>1. MpscIInv'
    BY <1>2, NextMpscIInv DEF StreamIInv, streamVars
  <2>2. StreamTypeOK' /\ ControlInv' /\ WakeInv'
    BY <1>2, <2>1 DEF StreamIInv, streamVars, mpscVars, watchVars, StreamTypeOK, MpscIInv,
       ControlInv, WakeInv, Wakes, Events
  <2>3. SizeInv' /\ CapInv' /\ DroppedInv'
    BY <1>2 DEF StreamIInv, streamVars, mpscVars, watchVars, SizeInv, Held, CapInv, DroppedInv,
       Events, At
  <2>. QED
    BY <2>1, <2>2, <2>3 DEF StreamIInv
<1>. QED
  BY <1>1, <1>2

LEMMA StreamInvariance == StreamSpec => []StreamIInv
<1>. QED
  BY InitStreamIInv, NextStreamIInv, PTL DEF StreamSpec

\* The threads of the stream are producers and the consumer of the queue, so
\* that all that holds of the queue holds here: it is whole and first in, first
\* out (resp_watch_emit, watch_take_event).
THEOREM StreamKeepsQueue == StreamSpec => MpscSpec /\ []ChainWhole /\ RefinesFifo
<1>1. StreamInit => MpscInit
  BY DEF StreamInit
<1>2. [StreamNext]_streamVars => [MpscNext]_mpscVars
  <2>1. UNCHANGED streamVars => UNCHANGED mpscVars
    BY DEF streamVars
  <2>. QED
    BY <2>1, StreamCalls
<1>3. StreamSpec => MpscSpec
  BY <1>1, <1>2, PTL DEF StreamSpec, MpscSpec
<1>. QED
  BY <1>3, QueueWhole, QueueIsFifo

\* g_lfkv_watch_qsize counts the queued events exactly at every step of every
\* interleaving, although the cap is checked, the size raised and the event
\* enqueued in three accesses; and the cap is passed by less than one event per
\* reactor.
THEOREM SizeStaysRight == StreamSpec => []SizeRight
<1>1. StreamIInv => SizeRight
  <2>. SUFFICES ASSUME StreamIInv PROVE SizeRight
    OBVIOUS
  <2>1. SizeExact
    BY DEF StreamIInv, SizeInv, Held, At, SizeExact
  <2>2. OvershootBounded
    <3>1. qsize \in Nat /\ qsize + Cardinality(At("count")) < QueueCap + Cardinality(Producers)
      BY DEF StreamIInv, StreamTypeOK, CapInv
    <3>. QED
      BY <3>1, AtFinite DEF OvershootBounded
  <2>. QED
    BY <2>1, <2>2 DEF SizeRight
<1>. QED
  BY <1>1, StreamInvariance, PTL

\* The main thread never sleeps on an event that nobody will wake it for: the
\* flag, the fence and the second look close the window between an empty queue
\* and the poll (redis-wait-event!).
THEOREM WakeupKept == StreamSpec => []NoLostWakeup
<1>1. StreamIInv => NoLostWakeup
  BY DEF StreamIInv, WakeInv, Wakes, NoLostWakeup
<1>. QED
  BY <1>1, StreamInvariance, PTL

=============================================================================

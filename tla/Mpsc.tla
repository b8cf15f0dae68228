-------------------------------- MODULE Mpsc --------------------------------
(* The intrusive multi-producer single-consumer queue of mpsc.h, one atomic *)
(* access per step.  Nodes are addresses: the consumer frees the node it is *)
(* handed, so that a producer can enqueue the same address again.           *)
EXTENDS FiniteSets, Sequences, SequencesExt

CONSTANTS Producers,  \* the threads that enqueue
          Nodes,      \* the addresses of the nodes
          stub,       \* the sentinel embedded in the queue
          NULL

ASSUME MpscAssumption ==
    /\ stub \notin Nodes
    /\ NULL \notin Nodes \cup {stub}

VARIABLES head,   \* where producers swap in their nodes
          tail,   \* the consumer's end
          next,   \* the next field of every node
          ppc,    \* per producer: "out", or "link" between its two stores
          prev,   \* per producer: the predecessor the exchange returned
          node,   \* per producer: the node it enqueues
          cpc,    \* the consumer's next access in mpsc_dequeue
          cur,    \* the consumer's local `tail'
          before, \* the consumer's local `prev'
          answer, \* what the last dequeue returned
          chain,  \* ghost: the nodes from tail to head, in exchange order
          excused \* ghost: an enqueue was in flight during this dequeue

producerVars == <<ppc, prev, node>>
consumerVars == <<tail, cpc, cur, before, answer>>
mpscVars == <<head, next, producerVars, consumerVars, chain, excused>>

Links == Nodes \cup {stub}

\* mpsc_init
MpscInit == /\ head = stub
            /\ tail = stub
            /\ next = [n \in Links |-> NULL]
            /\ ppc = [p \in Producers |-> "out"]
            /\ prev = [p \in Producers |-> NULL]
            /\ node = [p \in Producers |-> NULL]
            /\ cpc = "idle"
            /\ cur = NULL
            /\ before = NULL
            /\ answer = NULL
            /\ chain = <<stub>>
            /\ excused = FALSE

InFlight == {node[p] : p \in {q \in Producers : ppc[q] = "link"}}

-----------------------------------------------------------------------------
(* mpsc_enqueue *)

\* Clear the node's next field (nobody else reaches it) and swap it in.
Exchange(p, n) ==
    /\ ppc[p] = "out"
    /\ n \notin ToSet(chain)
    /\ head' = n
    /\ next' = [next EXCEPT ![n] = NULL]
    /\ prev' = [prev EXCEPT ![p] = head]
    /\ node' = [node EXCEPT ![p] = n]
    /\ ppc' = [ppc EXCEPT ![p] = "link"]
    /\ chain' = Append(chain, n)
    /\ excused' = (cpc # "idle")
    /\ UNCHANGED consumerVars

\* Publish it to the consumer.
Link(p) ==
    /\ ppc[p] = "link"
    /\ next' = [next EXCEPT ![prev[p]] = node[p]]
    /\ ppc' = [ppc EXCEPT ![p] = "out"]
    /\ prev' = [prev EXCEPT ![p] = NULL]
    /\ node' = [node EXCEPT ![p] = NULL]
    /\ UNCHANGED <<head, consumerVars, chain, excused>>

-----------------------------------------------------------------------------
(* mpsc_dequeue *)

\* Return n to the caller, which owns it from now on.
Return(n) ==
    /\ cpc' = "idle"
    /\ answer' = n
    /\ cur' = NULL
    /\ before' = NULL
    /\ excused' = FALSE

\* The consumer's end moves to the node after t.
Advance(t) == tail' = next[t] /\ chain' = Tail(chain)

\* Hand out t, whose successor is known.
HandOut(t) == Advance(t) /\ Return(t)

Call ==
    /\ cpc = "idle"
    /\ cpc' = "first"
    /\ cur' = tail
    /\ excused' = (InFlight # {})
    /\ UNCHANGED <<head, tail, next, producerVars, before, answer, chain>>

\* The first load of tail->next: step over the stub, hand out the tail, or go
\* and see whether it is the last node.
First ==
    /\ cpc = "first"
    /\ \/ /\ cur = stub /\ next[stub] = NULL
          /\ Return(NULL)
          /\ UNCHANGED <<tail, chain>>
       \/ /\ cur = stub /\ next[stub] # NULL
          /\ Advance(stub)
          /\ cur' = next[stub]
          /\ cpc' = "second"
          /\ UNCHANGED <<before, answer, excused>>
       \/ /\ cur # stub /\ next[cur] # NULL
          /\ HandOut(cur)
       \/ /\ cur # stub /\ next[cur] = NULL
          /\ cpc' = "head"
          /\ UNCHANGED <<tail, cur, before, answer, chain, excused>>
    /\ UNCHANGED <<head, next, producerVars>>

\* The load that follows the step over the stub.
Second ==
    /\ cpc = "second"
    /\ IF next[cur] # NULL
       THEN HandOut(cur)
       ELSE /\ cpc' = "head"
            /\ UNCHANGED <<tail, cur, before, answer, chain, excused>>
    /\ UNCHANGED <<head, next, producerVars>>

AtHeadMut == TRUE
StuckMut == FALSE
\* Nothing has been swapped in after the tail.
AtHead == cur = head

\* Bail out behind a producer in flight, or clear the stub for another use.
CheckHead ==
    /\ cpc = "head"
    /\ IF AtHead
       THEN /\ next' = [next EXCEPT ![stub] = NULL]
            /\ cpc' = "restub"
            /\ UNCHANGED <<tail, cur, before, answer, excused>>
       ELSE /\ Return(NULL)
            /\ UNCHANGED <<tail, next>>
    /\ UNCHANGED <<head, producerVars, chain>>

\* Enqueue the stub: the exchange,
RestubExchange ==
    /\ cpc = "restub"
    /\ head' = stub
    /\ before' = head
    /\ cpc' = "relink"
    /\ chain' = Append(chain, stub)
    /\ UNCHANGED <<tail, next, producerVars, cur, answer, excused>>

\* then the link.
RestubLink ==
    /\ cpc = "relink"
    /\ next' = [next EXCEPT ![before] = stub]
    /\ cpc' = "final"
    /\ UNCHANGED <<head, tail, producerVars, cur, before, answer, chain, excused>>

ReadyMut == TRUE
\* The tail's successor is linked: a producer may have come before the stub.
Ready == next[cur] # NULL

Final ==
    /\ cpc = "final"
    /\ IF Ready
       THEN HandOut(cur)
       ELSE Return(NULL) /\ UNCHANGED <<tail, chain>>
    /\ UNCHANGED <<head, next, producerVars>>

Dequeue == First \/ Second \/ CheckHead \/ RestubExchange \/ RestubLink \/ Final

-----------------------------------------------------------------------------
MpscNext == \/ \E p \in Producers : (\E n \in Nodes : Exchange(p, n)) \/ Link(p)
            \/ Call \/ Dequeue

\* A producer is not stopped between its two stores, and the consumer comes
\* back as long as the wake descriptor fires.
MpscFairness == /\ \A p \in Producers : WF_mpscVars(Link(p))
                /\ WF_mpscVars(Call \/ Dequeue)

MpscSpec == MpscInit /\ [][MpscNext]_mpscVars
FairMpscSpec == MpscSpec /\ MpscFairness

-----------------------------------------------------------------------------
MpscTypeOK ==
    /\ head \in Links
    /\ tail \in Links
    /\ next \in [Links -> Links \cup {NULL}]
    /\ ppc \in [Producers -> {"out", "link"}]
    /\ prev \in [Producers -> Links \cup {NULL}]
    /\ node \in [Producers -> Nodes \cup {NULL}]
    /\ cpc \in {"idle", "first", "second", "head", "restub", "relink", "final"}
    /\ cur \in Links \cup {NULL}
    /\ before \in Links \cup {NULL}
    /\ answer \in Nodes \cup {NULL}
    /\ chain \in Seq(Links)
    /\ excused \in BOOLEAN

\* The link from a to b is in memory, or the thread that swapped b in is about
\* to write it.
Joined(a, b) ==
    \/ next[a] = b
    \/ /\ next[a] = NULL
       /\ \/ \E p \in Producers : ppc[p] = "link" /\ prev[p] = a /\ node[p] = b
          \/ cpc = "relink" /\ before = a /\ b = stub

\* The nodes in exchange order are distinct, start at tail, end at head, and
\* every one is joined to its successor: no node is lost or queued twice.
WellFormed ==
    /\ chain # <<>>
    /\ chain[1] = tail
    /\ chain[Len(chain)] = head
    /\ next[head] = NULL
    /\ IsInjective(chain)
    /\ \A i \in 1 .. Len(chain) - 1 : Joined(chain[i], chain[i + 1])

\* A producer between its two stores writes into a node that the queue still
\* owns: the consumer has not been handed it, and nobody has freed it.
NoStrayLink ==
    \A p \in Producers : ppc[p] = "link" => prev[p] \in ToSet(chain)

\* At every access of an enqueue or of a dequeue the chain is whole, and no
\* store that is still to come can hit a node outside of it (mpsc_enqueue,
\* mpsc_dequeue).
ChainWhole == WellFormed /\ NoStrayLink

\* The nodes of a chain, in which the stub has one place at most.
WithoutStub(s) ==
    IF stub \in ToSet(s) THEN RemoveAt(s, CHOOSE i \in DOMAIN s : s[i] = stub) ELSE s

\* The queue behaves as FifoQueue.
Fifo == INSTANCE FifoQueue WITH
            Items <- Nodes,
            queue <- WithoutStub(chain),
            inflight <- InFlight,
            busy <- cpc # "idle"
RefinesFifo == Fifo!FifoSpec

\* Every node that was swapped in is handed out.
AllDequeued == \A n \in Nodes : n \in ToSet(chain) ~> answer = n
=============================================================================

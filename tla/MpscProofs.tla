----------------------------- MODULE MpscProofs -----------------------------
(* The queue of Mpsc is whole at every access, and behaves as FifoQueue, for *)
(* every number of producers and of nodes.                                  *)
EXTENDS Mpsc, Integers, SequenceTheorems, TLAPS

-----------------------------------------------------------------------------
(* The inductive invariant                                                 *)

\* b was swapped in right after a.
Adjacent(s, a, b) == \E i \in 1 .. Len(s) - 1 : s[i] = a /\ s[i + 1] = b

\* A producer between its two stores owns the end of the link it is to write,
\* and nobody else writes there.
LinkInv ==
    /\ \A p \in Producers : ppc[p] = "link" =>
          /\ node[p] \in Nodes
          /\ Adjacent(chain, prev[p], node[p])
          /\ next[prev[p]] = NULL
    /\ \A p, q \in Producers :
          ppc[p] = "link" /\ ppc[q] = "link" /\ prev[p] = prev[q] => p = q

\* The consumer's local copy of tail stays right, and it does not meet the stub
\* again once it has stepped over it.
ConsumerInv ==
    /\ cpc # "idle" => cur = tail
    /\ cpc \in {"second", "head", "restub", "relink", "final"} => cur # stub

\* The stub is out of the queue when the consumer is about to swap it in; its
\* link is then written like a producer's.
StubInv ==
    /\ cpc = "restub" => stub \notin ToSet(chain) /\ next[stub] = NULL
    /\ cpc = "relink" =>
          /\ Adjacent(chain, before, stub)
          /\ next[before] = NULL
          /\ \A p \in Producers : ppc[p] = "link" => prev[p] # before
    /\ cpc = "final" => cur # head

\* An enqueue in flight during a dequeue is remembered, whether it began before
\* the call or after it.
ExcuseInv ==
    /\ cpc # "idle" /\ InFlight # {} => excused
    /\ cpc = "head" /\ cur # head => excused

MpscIInv == /\ MpscTypeOK
            /\ WellFormed
            /\ LinkInv
            /\ ConsumerInv
            /\ StubInv
            /\ ExcuseInv

-----------------------------------------------------------------------------
(* What an exchange and a step of the consumer's end do to the chain       *)

LEMMA Appended ==
    ASSUME NEW S, NEW s \in Seq(S), NEW e \in S, IsInjective(s), e \notin ToSet(s)
    PROVE  /\ Append(s, e) \in Seq(S)
           /\ Append(s, e) # <<>>
           /\ Len(Append(s, e)) = Len(s) + 1
           /\ \A i \in 1 .. Len(s) : Append(s, e)[i] = s[i]
           /\ Append(s, e)[Len(s) + 1] = e
           /\ ToSet(Append(s, e)) = ToSet(s) \cup {e}
           /\ IsInjective(Append(s, e))
<1>1. /\ Append(s, e) \in Seq(S)
      /\ Len(Append(s, e)) = Len(s) + 1
      /\ \A i \in 1 .. Len(s) : Append(s, e)[i] = s[i]
      /\ Append(s, e)[Len(s) + 1] = e
      /\ Len(s) \in Nat
  OBVIOUS
<1>2. DOMAIN s = 1 .. Len(s) /\ DOMAIN Append(s, e) = 1 .. Len(s) + 1
  BY <1>1
<1>3. ToSet(Append(s, e)) = ToSet(s) \cup {e}
  <2>1. \A i \in DOMAIN s : i \in DOMAIN Append(s, e) /\ Append(s, e)[i] = s[i]
    BY <1>1, <1>2
  <2>2. Len(s) + 1 \in DOMAIN Append(s, e)
    BY <1>1, <1>2
  <2>3. \A i \in DOMAIN Append(s, e) : i \in DOMAIN s \/ i = Len(s) + 1
    BY <1>1, <1>2
  <2>. QED
    BY <1>1, <2>1, <2>2, <2>3 DEF ToSet
<1>4. IsInjective(Append(s, e))
  BY <1>1, <1>2 DEF IsInjective, ToSet
<1>. QED
  BY <1>1, <1>3, <1>4

LEMMA Dropped ==
    ASSUME NEW S, NEW s \in Seq(S), s # <<>>, IsInjective(s)
    PROVE  /\ Tail(s) \in Seq(S)
           /\ Len(Tail(s)) = Len(s) - 1
           /\ \A i \in 1 .. Len(s) - 1 : Tail(s)[i] = s[i + 1]
           /\ ToSet(Tail(s)) = ToSet(s) \ {s[1]}
           /\ IsInjective(Tail(s))
<1>1. /\ Tail(s) \in Seq(S)
      /\ Len(Tail(s)) = Len(s) - 1
      /\ \A i \in 1 .. Len(s) - 1 : Tail(s)[i] = s[i + 1]
      /\ Len(s) \in Nat \ {0}
  OBVIOUS
<1>2. DOMAIN s = 1 .. Len(s) /\ DOMAIN Tail(s) = 1 .. Len(s) - 1
  BY <1>1
<1>3. IsInjective(Tail(s))
  BY <1>1, <1>2 DEF IsInjective
<1>4. ToSet(Tail(s)) = ToSet(s) \ {s[1]}
  <2>1. \A i \in DOMAIN Tail(s) : /\ i + 1 \in DOMAIN s
                                 /\ i + 1 # 1
                                 /\ Tail(s)[i] = s[i + 1]
    BY <1>1, <1>2
  <2>2. \A i \in DOMAIN s : i # 1 => i - 1 \in DOMAIN Tail(s) /\ s[i] = Tail(s)[i - 1]
    BY <1>1, <1>2
  <2>3. 1 \in DOMAIN s
    BY <1>1, <1>2
  <2>4. ASSUME NEW x \in ToSet(Tail(s)) PROVE x \in ToSet(s) \ {s[1]}
    BY <2>1, <2>3 DEF ToSet, IsInjective
  <2>5. ASSUME NEW x \in ToSet(s) \ {s[1]} PROVE x \in ToSet(Tail(s))
    <3>1. PICK i \in DOMAIN s : x = s[i]
      BY DEF ToSet
    <3>. QED
      BY <3>1, <2>2 DEF ToSet
  <2>. QED
    BY <2>4, <2>5
<1>. QED
  BY <1>1, <1>3, <1>4

LEMMA AdjacentAppended ==
    ASSUME NEW S, NEW s \in Seq(S), NEW e \in S, IsInjective(s), e \notin ToSet(s)
    PROVE  /\ \A a, b : Adjacent(s, a, b) => Adjacent(Append(s, e), a, b)
           /\ s # <<>> => Adjacent(Append(s, e), s[Len(s)], e)
<1>. QED
  BY Appended DEF Adjacent

LEMMA AdjacentDropped ==
    ASSUME NEW S, NEW s \in Seq(S), s # <<>>, IsInjective(s)
    PROVE  \A a, b : Adjacent(s, a, b) /\ a # s[1] => Adjacent(Tail(s), a, b)
<1>. SUFFICES ASSUME NEW a, NEW b, Adjacent(s, a, b), a # s[1]
              PROVE  Adjacent(Tail(s), a, b)
  OBVIOUS
<1>1. PICK i \in 1 .. Len(s) - 1 : s[i] = a /\ s[i + 1] = b
  BY DEF Adjacent
<1>2. i - 1 \in 1 .. Len(Tail(s)) - 1 /\ Tail(s)[i - 1] = a /\ Tail(s)[i - 1 + 1] = b
  BY <1>1, Dropped
<1>. QED
  BY <1>2 DEF Adjacent

\* The first of two neighbours is not the head, and the second not the tail.
LEMMA AdjacentInside ==
    ASSUME NEW S, NEW s \in Seq(S), IsInjective(s), NEW a, NEW b, Adjacent(s, a, b)
    PROVE  /\ a \in ToSet(s) /\ b \in ToSet(s)
           /\ a \in S /\ b \in S
           /\ a # s[Len(s)] /\ b # s[1]
<1>1. PICK i \in 1 .. Len(s) - 1 : s[i] = a /\ s[i + 1] = b
  BY DEF Adjacent
<1>2. DOMAIN s = 1 .. Len(s) /\ Len(s) \in Nat
  OBVIOUS
<1>3. i \in Nat /\ 1 <= i /\ i < Len(s) /\ Len(s) \in Nat
  BY <1>2
<1>4. 1 \in 1 .. Len(s) /\ i \in 1 .. Len(s) /\ i + 1 \in 1 .. Len(s) /\ Len(s) \in 1 .. Len(s)
  BY <1>3
<1>5. i # Len(s) /\ i + 1 # 1
  BY <1>3
<1>6. a # s[Len(s)] /\ b # s[1]
  BY <1>1, <1>2, <1>4, <1>5 DEF IsInjective
<1>7. a \in ToSet(s) /\ b \in ToSet(s)
  BY <1>1, <1>2, <1>4 DEF ToSet
<1>8. a \in S /\ b \in S
  BY <1>1, <1>4
<1>. QED
  BY <1>6, <1>7, <1>8

\* The places of the chain hold nodes of the queue.
LEMMA ChainPlaces ==
    ASSUME MpscTypeOK
    PROVE  /\ Len(chain) \in Nat /\ DOMAIN chain = 1 .. Len(chain)
           /\ \A i \in 1 .. Len(chain) : chain[i] \in ToSet(chain) /\ chain[i] \in Links
           /\ ToSet(chain) \subseteq Links
<1>1. chain \in Seq(Links)
  BY DEF MpscTypeOK
<1>2. Len(chain) \in Nat /\ DOMAIN chain = 1 .. Len(chain)
  BY <1>1
<1>. QED
  BY <1>1, <1>2 DEF ToSet

-----------------------------------------------------------------------------
(* The steps                                                               *)

USE MpscAssumption DEF Links, producerVars, consumerVars

LEMMA ExchangeStep ==
    ASSUME MpscIInv, NEW p \in Producers, NEW n \in Nodes, Exchange(p, n)
    PROVE  MpscIInv'
<1>. USE DEF MpscIInv, Exchange
<1>1. chain \in Seq(Links) /\ n \in Links /\ IsInjective(chain) /\ chain # <<>>
  BY DEF MpscTypeOK, WellFormed
<1>2. /\ chain' \in Seq(Links) /\ chain' # <<>>
      /\ Len(chain') = Len(chain) + 1
      /\ \A i \in 1 .. Len(chain) : chain'[i] = chain[i]
      /\ chain'[Len(chain) + 1] = n
      /\ ToSet(chain') = ToSet(chain) \cup {n}
      /\ IsInjective(chain')
  BY <1>1, Appended
<1>3. /\ \A a, b : Adjacent(chain, a, b) => Adjacent(chain', a, b)
      /\ Adjacent(chain', head, n)
  BY <1>1, AdjacentAppended DEF WellFormed
<1>4. /\ Len(chain) \in Nat \ {0}
      /\ \A i \in 1 .. Len(chain) : chain[i] \in Links /\ chain[i] # n
      /\ head # n
  <2>1. Len(chain) \in Nat \ {0}
    BY <1>1
  <2>. QED
    BY <2>1, ChainPlaces DEF WellFormed
<1>5. /\ next'[n] = NULL
      /\ \A m \in Links \ {n} : next'[m] = next[m]
      /\ prev'[p] = head /\ node'[p] = n /\ ppc'[p] = "link" /\ ppc[p] = "out"
      /\ \A q \in Producers \ {p} :
            ppc'[q] = ppc[q] /\ prev'[q] = prev[q] /\ node'[q] = node[q]
  BY DEF MpscTypeOK
<1>6. MpscTypeOK'
  BY <1>2 DEF MpscTypeOK
<1>7. WellFormed'
  <2>1. ASSUME NEW i \in 1 .. Len(chain') - 1 PROVE Joined(chain[i], chain[i + 1])'
    <3>1. CASE i = Len(chain)
      BY <3>1, <1>2, <1>4, <1>5 DEF Joined, WellFormed
    <3>2. CASE i # Len(chain)
      <4>1. i \in 1 .. Len(chain) - 1
        BY <3>2, <1>2, <1>4
      <4>2. /\ Joined(chain[i], chain[i + 1])
            /\ next'[chain[i]] = next[chain[i]]
            /\ chain'[i] = chain[i] /\ chain'[i + 1] = chain[i + 1]
        BY <4>1, <1>2, <1>4, <1>5 DEF WellFormed
      <4>. QED
        BY <4>2, <1>5 DEF Joined
    <3>. QED
      BY <3>1, <3>2
  <2>2. chain'[1] = tail' /\ chain'[Len(chain')] = head' /\ next'[head'] = NULL
    BY <1>2, <1>4, <1>5 DEF WellFormed
  <2>. QED
    BY <1>2, <2>1, <2>2 DEF WellFormed
<1>8. LinkInv'
  <2>1. \A q \in Producers : ppc[q] = "link" => prev[q] # head /\ prev[q] # n
    BY <1>1, AdjacentInside DEF LinkInv, WellFormed
  <2>2. \A q \in Producers : ppc[q] = "link" => prev[q] \in Links
    BY <1>1, AdjacentInside DEF LinkInv
  <2>. QED
    BY <1>3, <1>4, <1>5, <2>1, <2>2 DEF LinkInv, WellFormed, MpscTypeOK
<1>9. ConsumerInv'
  BY DEF ConsumerInv
<1>10. StubInv'
  <2>1. cpc = "relink" => before # head /\ before # n /\ before \in Links
    BY <1>1, AdjacentInside DEF StubInv, WellFormed
  <2>2. cpc = "final" => cur # n
    <3>1. 1 \in 1 .. Len(chain)
      BY <1>4
    <3>. QED
      BY <1>4, <3>1 DEF WellFormed, ConsumerInv
  <2>. QED
    BY <1>2, <1>3, <1>5, <2>1, <2>2 DEF StubInv
<1>11. ExcuseInv'
  BY DEF ExcuseInv
<1>. QED
  BY <1>6, <1>7, <1>8, <1>9, <1>10, <1>11

LEMMA LinkStep ==
    ASSUME MpscIInv, NEW p \in Producers, Link(p)
    PROVE  MpscIInv'
<1>. USE DEF MpscIInv, Link
<1>1. /\ node[p] \in Nodes
      /\ Adjacent(chain, prev[p], node[p])
      /\ next[prev[p]] = NULL
  BY DEF LinkInv
<1>2. chain \in Seq(Links) /\ IsInjective(chain)
  BY DEF MpscTypeOK, WellFormed
<1>3. prev[p] \in Links /\ prev[p] # head
  BY <1>1, <1>2, AdjacentInside DEF WellFormed
<1>4. /\ next'[prev[p]] = node[p]
      /\ \A m \in Links : m # prev[p] => next'[m] = next[m]
      /\ ppc'[p] = "out"
      /\ \A q \in Producers \ {p} :
            ppc'[q] = ppc[q] /\ prev'[q] = prev[q] /\ node'[q] = node[q]
  BY <1>3 DEF MpscTypeOK
<1>5. MpscTypeOK'
  BY <1>1, <1>3 DEF MpscTypeOK
<1>6. WellFormed'
  <2>1. ASSUME NEW i \in 1 .. Len(chain) - 1 PROVE Joined(chain[i], chain[i + 1])'
    <3>0. /\ i \in 1 .. Len(chain) /\ i + 1 \in 1 .. Len(chain)
          /\ chain[i] \in Links
      BY ChainPlaces
    <3>1. CASE chain[i] = prev[p]
      <4>1. PICK j \in 1 .. Len(chain) - 1 : chain[j] = prev[p] /\ chain[j + 1] = node[p]
        BY <1>1 DEF Adjacent
      <4>2. j = i
        BY <1>2, <3>0, <3>1, <4>1, ChainPlaces DEF IsInjective
      <4>. QED
        BY <3>1, <4>1, <4>2, <1>4 DEF Joined
    <3>2. CASE chain[i] # prev[p]
      BY <3>0, <3>2, <1>4 DEF WellFormed, Joined
    <3>. QED
      BY <3>1, <3>2
  <2>. QED
    BY <1>3, <1>4, <2>1 DEF WellFormed, MpscTypeOK
<1>7. LinkInv'
  <2>1. \A q \in Producers \ {p} : ppc[q] = "link" => prev[q] # prev[p] /\ prev[q] \in Links
    BY <1>2, <1>4, AdjacentInside DEF LinkInv
  <2>. QED
    BY <1>4, <2>1 DEF LinkInv
<1>8. ConsumerInv'
  BY DEF ConsumerInv
<1>9. StubInv'
  <2>1. cpc = "restub" => prev[p] # stub
    BY <1>1, <1>2, AdjacentInside DEF StubInv
  <2>2. cpc = "relink" => before \in Links
    BY <1>2, AdjacentInside DEF StubInv
  <2>. QED
    BY <1>4, <2>1, <2>2 DEF StubInv
<1>10. ExcuseInv'
  <2>1. InFlight' \subseteq InFlight
    BY <1>4 DEF InFlight
  <2>. QED
    BY <2>1 DEF ExcuseInv
<1>. QED
  BY <1>5, <1>6, <1>7, <1>8, <1>9, <1>10

\* A step of the consumer that leaves the memory alone keeps the chain.
LEMMA MemoryKept ==
    ASSUME MpscIInv, cpc # "relink", UNCHANGED <<head, tail, next, producerVars, chain>>
    PROVE  WellFormed' /\ LinkInv' /\ UNCHANGED InFlight
<1>1. \A a, b : Joined(a, b) => Joined(a, b)'
  BY DEF Joined
<1>. QED
  BY <1>1 DEF MpscIInv, WellFormed, LinkInv, InFlight

\* The consumer's end moves over a node whose successor is linked.
LEMMA AdvanceStep ==
    ASSUME MpscIInv, Advance(tail), next[tail] # NULL, cpc # "relink",
           UNCHANGED <<head, next, producerVars>>
    PROVE  /\ WellFormed' /\ LinkInv' /\ UNCHANGED InFlight
           /\ chain' \in Seq(Links) /\ tail' \in Links
           /\ tail \notin ToSet(chain')
           /\ tail' # tail
<1>. USE DEF MpscIInv, Advance
<1>1. chain \in Seq(Links) /\ IsInjective(chain) /\ chain # <<>>
  BY DEF MpscTypeOK, WellFormed
<1>2. /\ chain' \in Seq(Links)
      /\ Len(chain') = Len(chain) - 1
      /\ \A i \in 1 .. Len(chain) - 1 : chain'[i] = chain[i + 1]
      /\ ToSet(chain') = ToSet(chain) \ {chain[1]}
      /\ IsInjective(chain')
  BY <1>1, Dropped
<1>3. Len(chain) \in Nat /\ 2 <= Len(chain)
  <2>1. Len(chain) # 1
    BY DEF WellFormed
  <2>. QED
    BY <1>1, <2>1, ChainPlaces
<1>4. chain[2] = tail' /\ chain[2] \in Links
  BY <1>3, ChainPlaces DEF WellFormed, Joined
<1>5. WellFormed'
  <2>1. ASSUME NEW i \in 1 .. Len(chain') - 1 PROVE Joined(chain[i], chain[i + 1])'
    <3>1. /\ i + 1 \in 1 .. Len(chain) - 1
          /\ chain'[i] = chain[i + 1] /\ chain'[i + 1] = chain[i + 1 + 1]
      BY <1>2, <1>3
    <3>2. Joined(chain[i + 1], chain[i + 1 + 1])
      BY <3>1 DEF WellFormed
    <3>. QED
      BY <3>1, <3>2 DEF Joined
  <2>2. chain' # <<>> /\ chain'[1] = tail' /\ chain'[Len(chain')] = head'
    <3>1. 1 \in 1 .. Len(chain) - 1 /\ Len(chain) - 1 \in 1 .. Len(chain) - 1
      BY <1>3
    <3>2. chain'[1] = chain[2] /\ chain'[Len(chain) - 1] = chain[Len(chain)]
      BY <1>2, <1>3, <3>1
    <3>3. chain' # <<>>
      <4>1. Len(chain') # 0
        BY <1>2, <1>3
      <4>. QED
        BY <4>1
    <3>. QED
      BY <1>2, <1>4, <3>2, <3>3 DEF WellFormed
  <2>. QED
    BY <1>2, <2>1, <2>2 DEF WellFormed
<1>6. LinkInv'
  <2>1. \A a, b : Adjacent(chain, a, b) /\ a # tail => Adjacent(chain', a, b)
    BY <1>1, AdjacentDropped DEF WellFormed
  <2>2. \A p \in Producers : ppc[p] = "link" => prev[p] # tail
    BY DEF LinkInv
  <2>. QED
    BY <2>1, <2>2 DEF LinkInv
<1>7. tail \notin ToSet(chain')
  BY <1>2 DEF WellFormed
<1>8. tail' # tail
  BY <1>1, <1>3, <1>4, ChainPlaces DEF WellFormed, IsInjective
<1>. QED
  BY <1>2, <1>4, <1>5, <1>6, <1>7, <1>8 DEF InFlight

LEMMA HandOutStep ==
    ASSUME MpscIInv, HandOut(cur), cpc \notin {"idle", "relink"}, cur # stub, next[cur] # NULL,
           UNCHANGED <<head, next, producerVars>>
    PROVE  MpscIInv'
<1>. USE DEF MpscIInv, HandOut, Return
<1>1. cur = tail
  BY DEF ConsumerInv
<1>2. /\ WellFormed' /\ LinkInv'
      /\ chain' \in Seq(Links) /\ tail' \in Links
  BY <1>1, AdvanceStep
<1>3. MpscTypeOK'
  BY <1>1, <1>2 DEF MpscTypeOK
<1>4. ConsumerInv' /\ StubInv' /\ ExcuseInv'
  BY DEF ConsumerInv, StubInv, ExcuseInv
<1>. QED
  BY <1>2, <1>3, <1>4

LEMMA NothingStep ==
    ASSUME MpscIInv, Return(NULL), cpc # "relink",
           UNCHANGED <<head, next, producerVars, tail, chain>>
    PROVE  MpscIInv'
<1>. USE DEF MpscIInv, Return
<1>1. WellFormed' /\ LinkInv'
  BY MemoryKept
<1>2. MpscTypeOK'
  BY DEF MpscTypeOK
<1>3. ConsumerInv' /\ StubInv' /\ ExcuseInv'
  BY DEF ConsumerInv, StubInv, ExcuseInv
<1>. QED
  BY <1>1, <1>2, <1>3

LEMMA CallStep ==
    ASSUME MpscIInv, Call
    PROVE  MpscIInv'
<1>. USE DEF MpscIInv, Call
<1>1. WellFormed' /\ LinkInv' /\ UNCHANGED InFlight
  BY MemoryKept
<1>2. MpscTypeOK'
  BY DEF MpscTypeOK
<1>3. ConsumerInv' /\ StubInv' /\ ExcuseInv'
  BY <1>1 DEF ConsumerInv, StubInv, ExcuseInv
<1>. QED
  BY <1>1, <1>2, <1>3

\* A node that has a successor and no link to it is a producer's to link.
LEMMA UnlinkedExcused ==
    ASSUME MpscIInv, cpc \in {"first", "second", "head", "final"}, next[tail] = NULL, tail # head
    PROVE  excused
<1>. USE DEF MpscIInv
<1>1. 1 \in 1 .. Len(chain) - 1
  BY ChainPlaces DEF WellFormed
<1>2. Joined(chain[1], chain[2]) /\ chain[2] \in Links
  BY <1>1, ChainPlaces DEF WellFormed
<1>3. PICK p \in Producers : ppc[p] = "link"
  BY <1>2 DEF WellFormed, Joined
<1>. QED
  BY <1>3 DEF InFlight, ExcuseInv

LEMMA FirstStep ==
    ASSUME MpscIInv, First
    PROVE  MpscIInv'
<1>. USE DEF First
<1>1. CASE cur = stub /\ next[stub] = NULL
  BY <1>1, NothingStep
<1>2. CASE cur = stub /\ next[stub] # NULL
  <2>. USE DEF MpscIInv
  <2>1. cur = tail
    BY DEF ConsumerInv
  <2>2. /\ WellFormed' /\ LinkInv' /\ UNCHANGED InFlight
        /\ chain' \in Seq(Links) /\ tail' \in Links /\ tail' # tail
    BY <1>2, <2>1, AdvanceStep
  <2>3. cur' = tail' /\ cpc' = "second" /\ UNCHANGED <<head, next, producerVars, before, answer, excused>>
    BY <1>2 DEF Advance
  <2>4. MpscTypeOK'
    BY <2>2, <2>3 DEF MpscTypeOK
  <2>5. ConsumerInv' /\ StubInv' /\ ExcuseInv'
    BY <1>2, <2>1, <2>2, <2>3 DEF ConsumerInv, StubInv, ExcuseInv
  <2>. QED
    BY <2>2, <2>4, <2>5
<1>3. CASE cur # stub /\ next[cur] # NULL
  BY <1>3, HandOutStep
<1>4. CASE cur # stub /\ next[cur] = NULL
  <2>. USE DEF MpscIInv
  <2>1. UNCHANGED <<head, tail, next, producerVars, chain, cur, before, answer, excused>> /\ cpc' = "head"
    BY <1>4
  <2>2. WellFormed' /\ LinkInv' /\ UNCHANGED InFlight
    BY <2>1, MemoryKept
  <2>3. MpscTypeOK'
    BY <2>1 DEF MpscTypeOK
  <2>4. ConsumerInv' /\ StubInv'
    BY <1>4, <2>1 DEF ConsumerInv, StubInv
  <2>5. ExcuseInv'
    BY <1>4, <2>1, <2>2, UnlinkedExcused DEF ExcuseInv, ConsumerInv
  <2>. QED
    BY <2>2, <2>3, <2>4, <2>5
<1>. QED
  BY <1>1, <1>2, <1>3, <1>4

LEMMA SecondStep ==
    ASSUME MpscIInv, Second
    PROVE  MpscIInv'
<1>. USE DEF Second
<1>0. cur # stub
  BY DEF MpscIInv, ConsumerInv
<1>1. CASE next[cur] # NULL
  BY <1>0, <1>1, HandOutStep
<1>2. CASE next[cur] = NULL
  <2>. USE DEF MpscIInv
  <2>1. UNCHANGED <<head, tail, next, producerVars, chain, cur, before, answer, excused>> /\ cpc' = "head"
    BY <1>2
  <2>2. WellFormed' /\ LinkInv' /\ UNCHANGED InFlight
    BY <2>1, MemoryKept
  <2>3. MpscTypeOK'
    BY <2>1 DEF MpscTypeOK
  <2>4. ConsumerInv' /\ StubInv'
    BY <1>0, <2>1 DEF ConsumerInv, StubInv
  <2>5. ExcuseInv'
    BY <1>2, <2>1, <2>2, UnlinkedExcused DEF ExcuseInv, ConsumerInv
  <2>. QED
    BY <2>2, <2>3, <2>4, <2>5
<1>. QED
  BY <1>1, <1>2

LEMMA CheckHeadStep ==
    ASSUME MpscIInv, CheckHead
    PROVE  MpscIInv'
<1>. USE DEF CheckHead
<1>1. CASE ~ AtHead
  BY <1>1, NothingStep
<1>2. CASE AtHead
  <2>. USE DEF MpscIInv
  <2>1. /\ next' = [next EXCEPT ![stub] = NULL] /\ cpc' = "restub"
        /\ UNCHANGED <<head, tail, producerVars, chain, cur, before, answer, excused>>
    BY <1>2
  <2>2. chain \in Seq(Links) /\ IsInjective(chain)
    BY DEF MpscTypeOK, WellFormed
  <2>3. Len(chain) = 1 /\ stub \notin ToSet(chain)
    <3>1. cur = tail /\ cur = head /\ cur # stub
      BY <1>2 DEF ConsumerInv, AtHead
    <3>2. 1 \in DOMAIN chain /\ Len(chain) \in DOMAIN chain
      BY <2>2, ChainPlaces DEF WellFormed
    <3>3. Len(chain) = 1
      BY <2>2, <3>1, <3>2 DEF WellFormed, IsInjective
    <3>. QED
      BY <3>1, <3>3, ChainPlaces DEF WellFormed, ToSet
  <2>4. \A m \in Links : m # stub => next'[m] = next[m]
    BY <2>1 DEF MpscTypeOK
  <2>5. next'[stub] = NULL
    BY <2>1 DEF MpscTypeOK
  <2>6. MpscTypeOK'
    BY <2>1 DEF MpscTypeOK
  <2>7. WellFormed'
    BY <2>1, <2>3, <2>4, <2>5 DEF WellFormed, MpscTypeOK
  <2>8. LinkInv'
    BY <2>1, <2>3, <2>4, <2>5, <2>2, AdjacentInside DEF LinkInv
  <2>9. ConsumerInv' /\ StubInv'
    BY <2>1, <2>3, <2>5 DEF ConsumerInv, StubInv
  <2>10. ExcuseInv'
    BY <2>1 DEF ExcuseInv, InFlight
  <2>. QED
    BY <2>6, <2>7, <2>8, <2>9, <2>10
<1>. QED
  BY <1>1, <1>2

LEMMA RestubExchangeStep ==
    ASSUME MpscIInv, RestubExchange
    PROVE  MpscIInv'
<1>. USE DEF MpscIInv, RestubExchange
<1>1. chain \in Seq(Links) /\ IsInjective(chain) /\ chain # <<>> /\ stub \notin ToSet(chain)
  BY DEF MpscTypeOK, WellFormed, StubInv
<1>2. /\ chain' \in Seq(Links) /\ chain' # <<>>
      /\ Len(chain') = Len(chain) + 1
      /\ \A i \in 1 .. Len(chain) : chain'[i] = chain[i]
      /\ chain'[Len(chain) + 1] = stub
      /\ IsInjective(chain')
  BY <1>1, Appended
<1>3. /\ \A a, b : Adjacent(chain, a, b) => Adjacent(chain', a, b)
      /\ Adjacent(chain', head, stub)
  BY <1>1, AdjacentAppended DEF WellFormed
<1>4. Len(chain) \in Nat \ {0}
  BY <1>1
<1>5. MpscTypeOK'
  BY <1>2 DEF MpscTypeOK
<1>6. WellFormed'
  <2>1. ASSUME NEW i \in 1 .. Len(chain') - 1 PROVE Joined(chain[i], chain[i + 1])'
    <3>1. CASE i = Len(chain)
      BY <3>1, <1>2, <1>4 DEF Joined, WellFormed
    <3>2. CASE i # Len(chain)
      <4>1. i \in 1 .. Len(chain) - 1
        BY <3>2, <1>2, <1>4
      <4>2. /\ Joined(chain[i], chain[i + 1])
            /\ chain'[i] = chain[i] /\ chain'[i + 1] = chain[i + 1]
        BY <4>1, <1>2, <1>4 DEF WellFormed
      <4>. QED
        BY <4>2 DEF Joined
    <3>. QED
      BY <3>1, <3>2
  <2>2. chain'[1] = tail' /\ chain'[Len(chain')] = head' /\ next'[head'] = NULL
    BY <1>2, <1>4 DEF WellFormed, StubInv
  <2>. QED
    BY <1>2, <2>1, <2>2 DEF WellFormed
<1>7. LinkInv'
  BY <1>3 DEF LinkInv
<1>8. ConsumerInv'
  BY DEF ConsumerInv
<1>9. StubInv'
  <2>1. \A p \in Producers : ppc[p] = "link" => prev[p] # head
    BY <1>1, AdjacentInside DEF LinkInv, WellFormed
  <2>. QED
    BY <1>3, <2>1 DEF StubInv, WellFormed
<1>10. ExcuseInv'
  BY DEF ExcuseInv, InFlight
<1>. QED
  BY <1>5, <1>6, <1>7, <1>8, <1>9, <1>10

LEMMA RestubLinkStep ==
    ASSUME MpscIInv, RestubLink
    PROVE  MpscIInv'
<1>. USE DEF MpscIInv, RestubLink
<1>1. chain \in Seq(Links) /\ IsInjective(chain)
  BY DEF MpscTypeOK, WellFormed
<1>2. Adjacent(chain, before, stub) /\ next[before] = NULL
  BY DEF StubInv
<1>3. before \in Links /\ before # head
  BY <1>1, <1>2, AdjacentInside DEF WellFormed
<1>4. next'[before] = stub /\ \A m \in Links : m # before => next'[m] = next[m]
  BY <1>3 DEF MpscTypeOK
<1>5. MpscTypeOK'
  BY <1>3 DEF MpscTypeOK
<1>6. WellFormed'
  <2>1. ASSUME NEW i \in 1 .. Len(chain) - 1 PROVE Joined(chain[i], chain[i + 1])'
    <3>0. i \in 1 .. Len(chain) /\ i + 1 \in 1 .. Len(chain) /\ chain[i] \in Links
      BY ChainPlaces
    <3>1. CASE chain[i] = before
      <4>1. PICK j \in 1 .. Len(chain) - 1 : chain[j] = before /\ chain[j + 1] = stub
        BY <1>2 DEF Adjacent
      <4>2. j = i
        BY <1>1, <3>0, <3>1, <4>1, ChainPlaces DEF IsInjective
      <4>. QED
        BY <3>1, <4>1, <4>2, <1>4 DEF Joined
    <3>2. CASE chain[i] # before
      BY <3>0, <3>2, <1>4 DEF WellFormed, Joined
    <3>. QED
      BY <3>1, <3>2
  <2>. QED
    BY <1>3, <1>4, <2>1 DEF WellFormed, MpscTypeOK
<1>7. LinkInv'
  <2>1. \A p \in Producers : ppc[p] = "link" => prev[p] # before /\ prev[p] \in Links
    BY <1>1, AdjacentInside DEF LinkInv, StubInv
  <2>. QED
    BY <1>4, <2>1 DEF LinkInv
<1>8. cur # head
  <2>1. 1 \in DOMAIN chain /\ Len(chain) \in DOMAIN chain /\ Len(chain) # 1
    BY <1>1, <1>2, ChainPlaces DEF WellFormed, Adjacent
  <2>. QED
    BY <2>1 DEF WellFormed, IsInjective, ConsumerInv
<1>9. ConsumerInv' /\ StubInv' /\ ExcuseInv'
  BY <1>8 DEF ConsumerInv, StubInv, ExcuseInv, InFlight
<1>. QED
  BY <1>5, <1>6, <1>7, <1>8, <1>9

LEMMA FinalStep ==
    ASSUME MpscIInv, Final
    PROVE  MpscIInv'
<1>. USE DEF Final
<1>0. cur # stub
  BY DEF MpscIInv, ConsumerInv
<1>1. CASE Ready
  BY <1>0, <1>1, HandOutStep DEF Ready
<1>2. CASE ~ Ready
  BY <1>2, NothingStep
<1>. QED
  BY <1>1, <1>2

-----------------------------------------------------------------------------
(* The theorems                                                            *)

LEMMA InitMpscIInv == MpscInit => MpscIInv
<1>. SUFFICES ASSUME MpscInit PROVE MpscIInv
  OBVIOUS
<1>. USE DEF MpscInit
<1>1. /\ chain \in Seq(Links) /\ chain # <<>> /\ Len(chain) = 1 /\ chain[1] = stub
      /\ DOMAIN chain = {1}
  OBVIOUS
<1>2. MpscTypeOK
  BY <1>1 DEF MpscTypeOK
<1>3. WellFormed
  BY <1>1 DEF WellFormed, IsInjective
<1>4. LinkInv /\ ConsumerInv /\ StubInv /\ ExcuseInv
  BY DEF LinkInv, ConsumerInv, StubInv, ExcuseInv
<1>. QED
  BY <1>2, <1>3, <1>4 DEF MpscIInv

LEMMA NextMpscIInv == MpscIInv /\ [MpscNext]_mpscVars => MpscIInv'
<1>. SUFFICES ASSUME MpscIInv, [MpscNext]_mpscVars PROVE MpscIInv'
  OBVIOUS
<1>1. ASSUME NEW p \in Producers, NEW n \in Nodes, Exchange(p, n) PROVE MpscIInv'
  BY <1>1, ExchangeStep
<1>2. ASSUME NEW p \in Producers, Link(p) PROVE MpscIInv'
  BY <1>2, LinkStep
<1>3. CASE Call
  BY <1>3, CallStep
<1>4. CASE Dequeue
  BY <1>4, FirstStep, SecondStep, CheckHeadStep, RestubExchangeStep, RestubLinkStep, FinalStep
     DEF Dequeue
<1>5. CASE UNCHANGED mpscVars
  BY <1>5 DEF mpscVars, MpscIInv, MpscTypeOK, WellFormed, Joined, LinkInv, ConsumerInv, StubInv,
     ExcuseInv, InFlight
<1>. QED
  BY <1>1, <1>2, <1>3, <1>4, <1>5 DEF MpscNext

LEMMA MpscInvariance == MpscSpec => []MpscIInv
<1>. QED
  BY InitMpscIInv, NextMpscIInv, PTL DEF MpscSpec

\* No node is lost, queued twice or written after it was handed out, at any
\* access of any interleaving of enqueues and of the dequeue (mpsc.h).
THEOREM QueueWhole == MpscSpec => []ChainWhole
<1>1. MpscIInv => ChainWhole
  <2>. SUFFICES ASSUME MpscIInv PROVE ChainWhole
    OBVIOUS
  <2>1. chain \in Seq(Links) /\ IsInjective(chain)
    BY DEF MpscIInv, MpscTypeOK, WellFormed
  <2>2. NoStrayLink
    BY <2>1, AdjacentInside DEF MpscIInv, LinkInv, NoStrayLink
  <2>. QED
    BY <2>2 DEF MpscIInv, ChainWhole
<1>. QED
  BY <1>1, MpscInvariance, PTL

-----------------------------------------------------------------------------
(* The nodes of the chain without the stub                                 *)

LEMMA StubTaken ==
    ASSUME NEW s \in Seq(Links), IsInjective(s), NEW k \in 1 .. Len(s), s[k] = stub
    PROVE  /\ WithoutStub(s) \in Seq(Links)
           /\ Len(WithoutStub(s)) = Len(s) - 1
           /\ \A i \in 1 .. Len(s) - 1 : WithoutStub(s)[i] = IF i < k THEN s[i] ELSE s[i + 1]
<1>1. /\ DOMAIN s = 1 .. Len(s) /\ Len(s) \in Nat /\ k \in Nat /\ 1 <= k /\ k <= Len(s)
      /\ \A i \in 1 .. Len(s) : s[i] \in Links
  BY LenProperties, ElementOfSeq
<1>2. stub \in ToSet(s) /\ (CHOOSE i \in DOMAIN s : s[i] = stub) = k
  BY <1>1 DEF ToSet, IsInjective
<1>. DEFINE a == SubSeq(s, 1, k - 1)
            b == SubSeq(s, k + 1, Len(s))
<1>3. WithoutStub(s) = a \o b
  BY <1>2 DEF WithoutStub, RemoveAt
<1>4. /\ a \in Seq(Links) /\ Len(a) = k - 1
      /\ \A i \in 1 .. k - 1 : a[i] = s[i]
  <2>1. \A i \in 1 .. k - 1 : s[i] \in Links
    BY <1>1
  <2>2. /\ a \in Seq(Links) /\ Len(a) = IF 1 <= k - 1 THEN k - 1 - 1 + 1 ELSE 0
        /\ \A i \in 1 .. k - 1 - 1 + 1 : a[i] = s[1 + i - 1]
    BY <1>1, <2>1, SubSeqProperties
  <2>. QED
    BY <1>1, <2>2
<1>5. /\ b \in Seq(Links) /\ Len(b) = Len(s) - k
      /\ \A i \in 1 .. Len(s) - k : b[i] = s[k + i]
  <2>1. \A i \in k + 1 .. Len(s) : s[i] \in Links
    BY <1>1
  <2>2. /\ b \in Seq(Links)
        /\ Len(b) = IF k + 1 <= Len(s) THEN Len(s) - (k + 1) + 1 ELSE 0
        /\ \A i \in 1 .. Len(s) - (k + 1) + 1 : b[i] = s[k + 1 + i - 1]
    BY <1>1, <2>1, SubSeqProperties
  <2>. HIDE DEF a, b
  <2>3. \A i \in 1 .. Len(s) - k : b[i] = s[k + i]
    <3>1. \A i \in 1 .. Len(s) - k :
             i \in 1 .. Len(s) - (k + 1) + 1 /\ k + 1 + i - 1 = k + i
      BY <1>1
    <3>. QED
      BY <2>2, <3>1
  <2>4. Len(b) = Len(s) - k
    <3>1. Len(b) = IF k + 1 <= Len(s) THEN Len(s) - (k + 1) + 1 ELSE 0
      BY <2>2
    <3>2. Len(s) \in Nat /\ k \in Nat /\ k <= Len(s)
      BY <1>1
    <3>3. CASE k = Len(s)
      BY <3>1, <3>2, <3>3
    <3>4. CASE k < Len(s)
      BY <3>1, <3>2, <3>4
    <3>. QED
      BY <3>2, <3>3, <3>4
  <2>. QED
    BY <2>2, <2>3, <2>4
<1>. HIDE DEF a, b
<1>6. /\ a \o b \in Seq(Links) /\ Len(a \o b) = Len(s) - 1
      /\ \A i \in 1 .. Len(s) - 1 : (a \o b)[i] = IF i <= k - 1 THEN a[i] ELSE b[i - (k - 1)]
  <2>1. /\ a \o b \in Seq(Links) /\ Len(a \o b) = Len(a) + Len(b)
        /\ \A i \in 1 .. Len(a) + Len(b) :
              (a \o b)[i] = IF i <= Len(a) THEN a[i] ELSE b[i - Len(a)]
    <3>1. a \in Seq(Links) /\ b \in Seq(Links)
      BY <1>4, <1>5
    <3>. QED
      BY <3>1, ConcatProperties
  <2>2. Len(a) + Len(b) = Len(s) - 1
    BY <1>1, <1>4, <1>5
  <2>. QED
    BY <2>1, <2>2, <1>4
<1>7. ASSUME NEW i \in 1 .. Len(s) - 1
      PROVE  (a \o b)[i] = IF i < k THEN s[i] ELSE s[i + 1]
  <2>1. CASE i < k
    BY <2>1, <1>1, <1>4, <1>6
  <2>2. CASE ~ (i < k)
    <3>1. i - (k - 1) \in 1 .. Len(s) - k /\ ~ (i <= k - 1) /\ k + (i - (k - 1)) = i + 1
      BY <2>2, <1>1
    <3>. QED
      BY <2>2, <3>1, <1>5, <1>6
  <2>. QED
    BY <2>1, <2>2
<1>. QED
  BY <1>3, <1>6, <1>7

LEMMA StubFree ==
    ASSUME NEW s, stub \notin ToSet(s)
    PROVE  WithoutStub(s) = s
<1>. QED
  BY DEF WithoutStub

LEMMA StubPlace ==
    ASSUME NEW s \in Seq(Links), stub \in ToSet(s)
    PROVE  \E k \in 1 .. Len(s) : s[k] = stub
<1>. QED
  BY LenProperties DEF ToSet

LEMMA WithoutStubType ==
    ASSUME NEW s \in Seq(Links), IsInjective(s)
    PROVE  /\ WithoutStub(s) \in Seq(Links)
           /\ ToSet(WithoutStub(s)) \subseteq ToSet(s)
<1>1. CASE stub \notin ToSet(s)
  BY <1>1, StubFree
<1>2. CASE stub \in ToSet(s)
  <2>1. PICK k \in 1 .. Len(s) : s[k] = stub
    BY <1>2, StubPlace
  <2>2. /\ WithoutStub(s) \in Seq(Links)
        /\ Len(WithoutStub(s)) = Len(s) - 1
        /\ \A i \in 1 .. Len(s) - 1 : WithoutStub(s)[i] = IF i < k THEN s[i] ELSE s[i + 1]
    BY <2>1, StubTaken
  <2>3. DOMAIN s = 1 .. Len(s) /\ DOMAIN WithoutStub(s) = 1 .. Len(s) - 1 /\ Len(s) \in Nat
    BY <2>2, LenProperties
  <2>4. \A i \in 1 .. Len(s) - 1 : i \in 1 .. Len(s) /\ i + 1 \in 1 .. Len(s)
    BY <2>3
  <2>. QED
    BY <2>2, <2>3, <2>4 DEF ToSet
<1>. QED
  BY <1>1, <1>2

\* A node swapped in takes the last place of the queue,
LEMMA NodeAppended ==
    ASSUME NEW s \in Seq(Links), IsInjective(s), NEW n \in Nodes, n \notin ToSet(s)
    PROVE  WithoutStub(Append(s, n)) = Append(WithoutStub(s), n)
<1>. DEFINE t == Append(s, n)
<1>1. /\ t \in Seq(Links) /\ Len(t) = Len(s) + 1
      /\ \A i \in 1 .. Len(s) : t[i] = s[i]
      /\ t[Len(s) + 1] = n
      /\ ToSet(t) = ToSet(s) \cup {n}
      /\ IsInjective(t)
  BY Appended
<1>2. CASE stub \notin ToSet(s)
  BY <1>1, <1>2, StubFree
<1>3. CASE stub \in ToSet(s)
  <2>1. PICK k \in 1 .. Len(s) : s[k] = stub
    BY <1>3, StubPlace
  <2>. HIDE DEF t
  <2>2. k \in Nat /\ 1 <= k /\ k <= Len(s) /\ Len(s) \in Nat
    BY LenProperties
  <2>3. k \in 1 .. Len(t) /\ t[k] = stub
    BY <1>1, <2>1, <2>2
  <2>4. /\ WithoutStub(t) \in Seq(Links) /\ Len(WithoutStub(t)) = Len(s)
        /\ \A i \in 1 .. Len(s) : WithoutStub(t)[i] = IF i < k THEN t[i] ELSE t[i + 1]
    <3>1. /\ WithoutStub(t) \in Seq(Links) /\ Len(WithoutStub(t)) = Len(t) - 1
          /\ \A i \in 1 .. Len(t) - 1 : WithoutStub(t)[i] = IF i < k THEN t[i] ELSE t[i + 1]
      BY <1>1, <2>3, StubTaken
    <3>2. Len(t) - 1 = Len(s)
      BY <1>1, <2>2
    <3>. QED
      BY <3>1, <3>2
  <2>5. /\ WithoutStub(s) \in Seq(Links) /\ Len(WithoutStub(s)) = Len(s) - 1
        /\ \A i \in 1 .. Len(s) - 1 : WithoutStub(s)[i] = IF i < k THEN s[i] ELSE s[i + 1]
    BY <2>1, StubTaken
  <2>. DEFINE u == WithoutStub(s)
              w == WithoutStub(t)
  <2>. HIDE DEF u, w
  <2>6. /\ Append(u, n) \in Seq(Links) /\ Len(Append(u, n)) = Len(s)
        /\ \A i \in 1 .. Len(s) - 1 : Append(u, n)[i] = u[i]
        /\ Append(u, n)[Len(s)] = n
    <3>1. u \in Seq(Links) /\ Len(u) = Len(s) - 1 /\ n \in Links
      BY <2>5 DEF u
    <3>2. /\ Append(u, n) \in Seq(Links) /\ Len(Append(u, n)) = Len(u) + 1
          /\ \A i \in 1 .. Len(u) : Append(u, n)[i] = u[i]
          /\ Append(u, n)[Len(u) + 1] = n
      BY <3>1, AppendProperties
    <3>3. Len(u) + 1 = Len(s)
      BY <3>1, <2>2
    <3>. QED
      BY <3>1, <3>2, <3>3
  <2>7. ASSUME NEW i \in 1 .. Len(s) PROVE w[i] = Append(u, n)[i]
    <3>1. CASE i < k
      <4>1. i \in 1 .. Len(s) - 1
        BY <3>1, <2>2
      <4>. QED
        BY <3>1, <4>1, <1>1, <2>4, <2>5, <2>6 DEF u, w
    <3>2. CASE ~ (i < k) /\ i # Len(s)
      <4>1. i \in 1 .. Len(s) - 1 /\ i + 1 \in 1 .. Len(s)
        BY <3>2, <2>2
      <4>. QED
        BY <3>2, <4>1, <1>1, <2>4, <2>5, <2>6 DEF u, w
    <3>3. CASE ~ (i < k) /\ i = Len(s)
      BY <3>3, <1>1, <2>4, <2>6 DEF w
    <3>. QED
      BY <3>1, <3>2, <3>3
  <2>8. w = Append(u, n)
    BY <2>4, <2>6, <2>7, SeqEqual DEF w
  <2>. QED
    BY <2>8 DEF t, u, w
<1>. QED
  BY <1>2, <1>3

\* the stub takes none,
LEMMA StubAppended ==
    ASSUME NEW s \in Seq(Links), IsInjective(s), stub \notin ToSet(s)
    PROVE  WithoutStub(Append(s, stub)) = WithoutStub(s)
<1>. DEFINE t == Append(s, stub)
<1>1. /\ t \in Seq(Links) /\ Len(t) = Len(s) + 1
      /\ \A i \in 1 .. Len(s) : t[i] = s[i]
      /\ t[Len(s) + 1] = stub
      /\ IsInjective(t)
  BY Appended
<1>. HIDE DEF t
<1>2. Len(s) \in Nat /\ Len(s) + 1 \in 1 .. Len(t) /\ Len(t) - 1 = Len(s)
  BY <1>1, LenProperties
<1>3. /\ WithoutStub(t) \in Seq(Links) /\ Len(WithoutStub(t)) = Len(s)
      /\ \A i \in 1 .. Len(s) : WithoutStub(t)[i] = IF i < Len(s) + 1 THEN t[i] ELSE t[i + 1]
  BY <1>1, <1>2, StubTaken
<1>4. \A i \in 1 .. Len(s) : WithoutStub(t)[i] = s[i]
  BY <1>1, <1>2, <1>3
<1>5. WithoutStub(t) = s
  BY <1>2, <1>3, <1>4, SeqEqual
<1>. QED
  BY <1>5, StubFree DEF t

\* a step over the stub leaves the queue as it is,
LEMMA StubDropped ==
    ASSUME NEW s \in Seq(Links), IsInjective(s), s # <<>>, s[1] = stub
    PROVE  WithoutStub(Tail(s)) = WithoutStub(s)
<1>1. /\ Tail(s) \in Seq(Links)
      /\ Len(Tail(s)) = Len(s) - 1
      /\ \A i \in 1 .. Len(s) - 1 : Tail(s)[i] = s[i + 1]
      /\ stub \notin ToSet(Tail(s))
  BY Dropped
<1>2. Len(s) \in Nat \ {0} /\ 1 \in 1 .. Len(s)
  BY EmptySeq
<1>3. /\ WithoutStub(s) \in Seq(Links) /\ Len(WithoutStub(s)) = Len(s) - 1
      /\ \A i \in 1 .. Len(s) - 1 : WithoutStub(s)[i] = IF i < 1 THEN s[i] ELSE s[i + 1]
  BY <1>2, StubTaken
<1>4. \A i \in 1 .. Len(s) - 1 : WithoutStub(s)[i] = Tail(s)[i]
  BY <1>1, <1>2, <1>3
<1>5. WithoutStub(s) = Tail(s)
  BY <1>1, <1>3, <1>4, SeqEqual
<1>. QED
  BY <1>1, <1>5, StubFree

\* and a step over a node takes the first.
LEMMA NodeDropped ==
    ASSUME NEW s \in Seq(Links), IsInjective(s), s # <<>>, s[1] # stub
    PROVE  /\ WithoutStub(s) # <<>>
           /\ Head(WithoutStub(s)) = s[1]
           /\ WithoutStub(Tail(s)) = Tail(WithoutStub(s))
<1>. DEFINE t == Tail(s)
<1>1. /\ t \in Seq(Links)
      /\ Len(t) = Len(s) - 1
      /\ \A i \in 1 .. Len(s) - 1 : t[i] = s[i + 1]
      /\ ToSet(t) = ToSet(s) \ {s[1]}
      /\ IsInjective(t)
  BY Dropped
<1>2. CASE stub \notin ToSet(s)
  <2>1. WithoutStub(s) = s /\ WithoutStub(t) = t
    BY <1>1, <1>2, StubFree
  <2>. QED
    BY <2>1
<1>3. CASE stub \in ToSet(s)
  <2>. HIDE DEF t
  <2>1. PICK k \in 1 .. Len(s) : s[k] = stub
    BY <1>3, StubPlace
  <2>2. k \in Nat /\ 1 < k /\ k <= Len(s) /\ Len(s) \in Nat
    BY <2>1, LenProperties
  <2>3. k - 1 \in 1 .. Len(t) /\ t[k - 1] = stub
    <3>1. k - 1 \in 1 .. Len(s) - 1 /\ k - 1 + 1 = k
      BY <2>2
    <3>. QED
      BY <1>1, <2>1, <3>1
  <2>. DEFINE u == WithoutStub(s)
              w == WithoutStub(t)
  <2>4. /\ u \in Seq(Links) /\ Len(u) = Len(s) - 1
        /\ \A i \in 1 .. Len(s) - 1 : u[i] = IF i < k THEN s[i] ELSE s[i + 1]
    BY <2>1, StubTaken
  <2>5. /\ w \in Seq(Links) /\ Len(w) = Len(s) - 2
        /\ \A i \in 1 .. Len(s) - 2 : w[i] = IF i < k - 1 THEN t[i] ELSE t[i + 1]
    <3>1. /\ w \in Seq(Links) /\ Len(w) = Len(t) - 1
          /\ \A i \in 1 .. Len(t) - 1 : w[i] = IF i < k - 1 THEN t[i] ELSE t[i + 1]
      BY <1>1, <2>3, StubTaken
    <3>2. Len(t) - 1 = Len(s) - 2
      BY <1>1, <2>2
    <3>. QED
      BY <3>1, <3>2
  <2>. HIDE DEF u, w
  <2>6. u # <<>> /\ Head(u) = s[1]
    <3>1. 1 \in 1 .. Len(s) - 1
      BY <2>2
    <3>2. u[1] = s[1]
      BY <2>2, <2>4, <3>1
    <3>3. Len(u) # 0
      BY <2>2, <2>4
    <3>. QED
      BY <2>4, <3>2, <3>3
  <2>7. /\ Tail(u) \in Seq(Links) /\ Len(Tail(u)) = Len(s) - 2
        /\ \A i \in 1 .. Len(s) - 2 : Tail(u)[i] = u[i + 1]
    <3>1. /\ Tail(u) \in Seq(Links) /\ Len(Tail(u)) = Len(u) - 1
          /\ \A i \in 1 .. Len(Tail(u)) : Tail(u)[i] = u[i + 1]
      BY <2>4, <2>6, HeadTailProperties
    <3>2. Len(u) - 1 = Len(s) - 2
      BY <2>2, <2>4
    <3>. QED
      BY <3>1, <3>2
  <2>8. ASSUME NEW i \in 1 .. Len(s) - 2 PROVE w[i] = Tail(u)[i]
    <3>1. /\ i \in 1 .. Len(s) - 1 /\ i + 1 \in 1 .. Len(s) - 1
          /\ (i < k - 1 <=> i + 1 < k)
      BY <2>2
    <3>. QED
      BY <3>1, <1>1, <2>4, <2>5, <2>7
  <2>9. w = Tail(u)
    BY <2>5, <2>7, <2>8, SeqEqual
  <2>. QED
    BY <2>6, <2>9 DEF t, u, w
<1>. QED
  BY <1>2, <1>3

-----------------------------------------------------------------------------
(* The refinement of FifoQueue                                             *)

\* What the invariant says of the chain as a sequence.
LEMMA ChainFacts ==
    ASSUME MpscIInv
    PROVE  /\ chain \in Seq(Links) /\ IsInjective(chain) /\ chain # <<>>
           /\ chain[1] = tail
  BY DEF MpscIInv, MpscTypeOK, WellFormed

\* Nothing is in the queue but the stub, or what follows the stub is in flight.
LEMMA NothingExcused ==
    ASSUME MpscIInv, cpc = "first", tail = stub, next[stub] = NULL
    PROVE  WithoutStub(chain) = <<>> \/ excused
<1>. SUFFICES ASSUME tail = head PROVE WithoutStub(chain) = <<>>
  BY UnlinkedExcused
<1>1. 1 \in DOMAIN chain /\ Len(chain) \in DOMAIN chain /\ Len(chain) \in Nat
  BY ChainFacts, ChainPlaces DEF MpscIInv
<1>2. Len(chain) = 1
  BY <1>1 DEF MpscIInv, WellFormed, IsInjective
<1>3. WithoutStub(chain) \in Seq(Links) /\ Len(WithoutStub(chain)) = Len(chain) - 1
  BY <1>2, ChainFacts, StubTaken
<1>. QED
  BY <1>2, <1>3, EmptySeq

\* Two producers in flight have two nodes.
LEMMA NodesApart ==
    ASSUME MpscIInv, NEW p \in Producers, NEW q \in Producers,
           ppc[p] = "link", ppc[q] = "link", node[p] = node[q]
    PROVE  p = q
<1>1. PICK i \in 1 .. Len(chain) - 1 : chain[i] = prev[p] /\ chain[i + 1] = node[p]
  BY DEF MpscIInv, LinkInv, Adjacent
<1>2. PICK j \in 1 .. Len(chain) - 1 : chain[j] = prev[q] /\ chain[j + 1] = node[q]
  BY DEF MpscIInv, LinkInv, Adjacent
<1>3. i + 1 \in DOMAIN chain /\ j + 1 \in DOMAIN chain /\ i \in Int /\ j \in Int
  BY ChainPlaces DEF MpscIInv
<1>4. i + 1 = j + 1
  BY <1>1, <1>2, <1>3, ChainFacts DEF IsInjective
<1>. QED
  BY <1>1, <1>2, <1>3, <1>4 DEF MpscIInv, LinkInv

LEMMA ExchangePlaces ==
    ASSUME MpscIInv, NEW p \in Producers, NEW n \in Nodes, Exchange(p, n)
    PROVE  Fifo!Place(n)
<1>. USE DEF Exchange
<1>1. WithoutStub(chain') = Append(WithoutStub(chain), n)
  BY ChainFacts, NodeAppended
<1>2. n \notin ToSet(WithoutStub(chain))
  BY ChainFacts, WithoutStubType
<1>3. InFlight' = InFlight \cup {n}
  <2>1. /\ ppc'[p] = "link" /\ node'[p] = n /\ ppc[p] = "out"
        /\ \A q \in Producers \ {p} : ppc'[q] = ppc[q] /\ node'[q] = node[q]
    BY DEF MpscIInv, MpscTypeOK
  <2>. QED
    BY <2>1 DEF InFlight
<1>. QED
  <2>1. Fifo!ToSet(WithoutStub(chain)) = ToSet(WithoutStub(chain))
    BY DEF ToSet, Fifo!ToSet
  <2>. QED
    BY <1>1, <1>2, <1>3, <2>1 DEF Fifo!Place

LEMMA LinkReaches ==
    ASSUME MpscIInv, NEW p \in Producers, Link(p)
    PROVE  node[p] \in Nodes /\ Fifo!Reach(node[p])
<1>. USE DEF Link
<1>1. InFlight' = InFlight \ {node[p]}
  <2>1. /\ ppc'[p] = "out"
        /\ \A q \in Producers \ {p} : ppc'[q] = ppc[q] /\ node'[q] = node[q]
    BY DEF MpscIInv, MpscTypeOK
  <2>2. \A q \in Producers \ {p} : ppc[q] = "link" => node[q] # node[p]
    BY NodesApart
  <2>. QED
    BY <2>1, <2>2 DEF InFlight
<1>2. node[p] \in InFlight
  BY DEF InFlight
<1>3. node[p] \in Nodes
  BY DEF MpscIInv, LinkInv
<1>. QED
  BY <1>1, <1>2, <1>3 DEF Fifo!Reach

LEMMA HandOutTakes ==
    ASSUME MpscIInv, HandOut(cur), cpc # "idle", cur # stub,
           UNCHANGED <<head, next, producerVars>>
    PROVE  Fifo!TakeFirst
<1>1. cur = tail
  BY DEF MpscIInv, ConsumerInv
<1>2. /\ WithoutStub(chain) # <<>>
      /\ Head(WithoutStub(chain)) = cur
      /\ WithoutStub(chain') = Tail(WithoutStub(chain))
  BY <1>1, ChainFacts, NodeDropped DEF HandOut, Advance
<1>3. cur \notin InFlight
  <2>1. \A p \in Producers : ppc[p] = "link" => node[p] # tail
    BY ChainFacts, AdjacentInside DEF MpscIInv, LinkInv
  <2>. QED
    BY <1>1, <2>1 DEF InFlight
<1>4. InFlight' = InFlight
  BY DEF InFlight
<1>. QED
  BY <1>2, <1>3, <1>4 DEF Fifo!TakeFirst, Fifo!Finish, HandOut, Return

LEMMA NothingTakes ==
    ASSUME Return(NULL), cpc # "idle", UNCHANGED <<producerVars, chain>>,
           WithoutStub(chain) = <<>> \/ excused
    PROVE  Fifo!TakeNothing
  BY DEF Fifo!TakeNothing, Fifo!Finish, Return, InFlight

\* An access of the dequeue takes the first node, answers NULL for a reason, or
\* changes nothing of the queue.
LEMMA DequeueRefines ==
    ASSUME MpscIInv, Dequeue
    PROVE  Fifo!TakeFirst \/ Fifo!TakeNothing \/ UNCHANGED Fifo!fifoVars
<1>. USE DEF Fifo!fifoVars
<1>0. cpc # "idle" => cur = tail
  BY DEF MpscIInv, ConsumerInv
<1>1. CASE First
  <2>. USE <1>1 DEF First
  <2>1. CASE cur = stub /\ next[stub] = NULL
    BY <2>1, <1>0, NothingExcused, NothingTakes
  <2>2. CASE cur = stub /\ next[stub] # NULL
    <3>1. WithoutStub(chain') = WithoutStub(chain)
      BY <2>2, <1>0, ChainFacts, StubDropped DEF Advance
    <3>. QED
      BY <2>2, <3>1 DEF InFlight
  <2>3. CASE cur # stub /\ next[cur] # NULL
    BY <2>3, HandOutTakes
  <2>4. CASE cur # stub /\ next[cur] = NULL
    BY <2>4 DEF InFlight
  <2>. QED
    BY <2>1, <2>2, <2>3, <2>4
<1>2. CASE Second
  <2>. USE <1>2 DEF Second
  <2>1. CASE next[cur] # NULL
    BY <2>1, HandOutTakes DEF MpscIInv, ConsumerInv
  <2>2. CASE next[cur] = NULL
    BY <2>2 DEF InFlight
  <2>. QED
    BY <2>1, <2>2
<1>3. CASE CheckHead
  <2>. USE <1>3 DEF CheckHead
  <2>1. CASE AtHead
    BY <2>1 DEF InFlight
  <2>2. CASE ~ AtHead
    BY <2>2, NothingTakes DEF AtHead, MpscIInv, ExcuseInv
  <2>. QED
    BY <2>1, <2>2
<1>4. CASE RestubExchange
  <2>. USE <1>4 DEF RestubExchange
  <2>1. WithoutStub(chain') = WithoutStub(chain)
    BY ChainFacts, StubAppended DEF MpscIInv, StubInv
  <2>. QED
    BY <2>1 DEF InFlight
<1>5. CASE RestubLink
  BY <1>5 DEF RestubLink, InFlight
<1>6. CASE Final
  <2>. USE <1>6 DEF Final
  <2>1. CASE Ready
    BY <2>1, HandOutTakes DEF MpscIInv, ConsumerInv
  <2>2. CASE ~ Ready
    <3>1. tail # head /\ next[tail] = NULL
      BY <2>2, <1>0 DEF Ready, MpscIInv, StubInv
    <3>. QED
      BY <2>2, <3>1, UnlinkedExcused, NothingTakes
  <2>. QED
    BY <2>1, <2>2
<1>. QED
  BY <1>1, <1>2, <1>3, <1>4, <1>5, <1>6 DEF Dequeue

LEMMA InitRefines == MpscInit => Fifo!FifoInit
<1>. SUFFICES ASSUME MpscInit PROVE Fifo!FifoInit
  OBVIOUS
<1>1. chain = <<stub>> /\ chain \in Seq(Links) /\ Len(chain) = 1 /\ chain[1] = stub
  BY DEF MpscInit
<1>2. IsInjective(chain)
  BY InitMpscIInv DEF MpscIInv, WellFormed
<1>3. WithoutStub(chain) \in Seq(Links) /\ Len(WithoutStub(chain)) = Len(chain) - 1
  <2>1. 1 \in 1 .. Len(chain)
    BY <1>1
  <2>. QED
    BY <1>1, <1>2, <2>1, StubTaken
<1>4. WithoutStub(chain) = <<>>
  BY <1>1, <1>3, EmptySeq
<1>5. InFlight = {}
  BY DEF MpscInit, InFlight
<1>. QED
  BY <1>4, <1>5 DEF MpscInit, Fifo!FifoInit

LEMMA NextRefines == MpscIInv /\ [MpscNext]_mpscVars => [Fifo!FifoNext]_(Fifo!fifoVars)
<1>. SUFFICES ASSUME MpscIInv, [MpscNext]_mpscVars PROVE [Fifo!FifoNext]_(Fifo!fifoVars)
  OBVIOUS
<1>1. ASSUME NEW p \in Producers, NEW n \in Nodes, Exchange(p, n) PROVE Fifo!FifoNext
  BY <1>1, ExchangePlaces DEF Fifo!FifoNext
<1>2. ASSUME NEW p \in Producers, Link(p) PROVE Fifo!FifoNext
  BY <1>2, LinkReaches DEF Fifo!FifoNext
<1>3. CASE Call
  <2>1. Fifo!Begin
    BY <1>3 DEF Call, Fifo!Begin, InFlight
  <2>. QED
    BY <2>1 DEF Fifo!FifoNext
<1>4. CASE Dequeue
  BY <1>4, DequeueRefines DEF Fifo!FifoNext
<1>5. CASE UNCHANGED mpscVars
  BY <1>5 DEF mpscVars, Fifo!fifoVars, InFlight
<1>. QED
  BY <1>1, <1>2, <1>3, <1>4, <1>5 DEF MpscNext

\* Nodes come out in the order of their exchanges, each once, and a dequeue of
\* a queue that is not empty answers NULL only behind an enqueue in flight
\* (mpsc_enqueue, mpsc_dequeue).
THEOREM QueueIsFifo == MpscSpec => RefinesFifo
<1>. QED
  BY InitRefines, NextRefines, MpscInvariance, PTL DEF MpscSpec, RefinesFifo, Fifo!FifoSpec

=============================================================================

---------------------------- MODULE ServerProofs ----------------------------
(***************************************************************************)
(* What the RESP servers of Server keep, for every number of reactors and  *)
(* clients, every script and every size of the buffers: what the reactors  *)
(* share is shared safely, and the units of the terminal stay in step with *)
(* its prompts.  Neither depends on what a connection does with its        *)
(* buffers: of Handle the proofs use what it leaves alone, and that with   *)
(* several reactors it counts no binding.                                  *)
(***************************************************************************)
EXTENDS Server, FiniteSetTheorems, TLAPS

Phases == {"none", "spawn", "boot", "listening", "serving", "ended"}

\* The life of the reactors in both modes.  The combined loop is the main
\* thread alone; in the pool nothing runs and nothing is shared before Spawn,
\* and after it the flag of the callbacks says whether there are several.
PhaseInv ==
  /\ mode \in {"pool", "repl"}
  /\ phase \in [Reactors -> Phases]
  /\ mode = "repl" => /\ ~multi
                      /\ \A r \in Reactors \ {Main} : phase[r] = "none"
  /\ mode = "pool" /\ phase[Main] = "spawn" =>
       \A r \in Reactors \ {Main} : phase[r] = "none"
  /\ mode = "pool" /\ phase[Main] # "spawn" =>
       /\ multi = (Cardinality(Reactors) > 1)
       /\ \A r \in Reactors : phase[r] \in {"boot", "listening", "serving", "ended"}
  /\ keyspace = "cleared" => \A r \in Reactors : phase[r] \in {"none", "ended"}
  /\ mode = "pool" /\ Cardinality(Reactors) > 1 => defined = 0

TermType ==
  term \in [reader : {"none", "top", "typing", "wake", "checking", "asleep", "ended"},
            unit : Nat, isReady : BOOLEAN, isDone : BOOLEAN, eof : BOOLEAN, bytes : Nat,
            open : BOOLEAN, idx : Nat, took : Nat, tookEof : BOOLEAN,
            evaluated : Seq(Nat \X Nat)]

\* A unit is outstanding from the moment it is put until it is evaluated, in
\* the mailbox or in the hands of the reactor.
Outstanding == term.isReady \/ term.took # 0 \/ term.tookEof
InStep == ~Outstanding /\ term.idx = Len(term.evaluated)

\* Before the reader's thread there is nothing to hand over.
Unopened == term.reader = "none" /\ InStep /\ term.evaluated = << >>

\* The hand-over of the units: at most one is outstanding, it is the next one,
\* and whoever draws a prompt has seen the last one evaluated, or the stop.
TermInv ==
  /\ TermType
  /\ stop \in BOOLEAN
  /\ mode = "pool" \/ phase[Main] \in {"spawn", "listening"} => Unopened
  /\ \A i \in DOMAIN term.evaluated : term.evaluated[i] = <<i, i>>
  /\ term.isReady => /\ term.took = 0 /\ ~term.tookEof
                     /\ term.idx = Len(term.evaluated) + 1
                     /\ term.unit = IF term.eof THEN 0 ELSE term.idx
  /\ term.took # 0 => /\ ~term.tookEof
                      /\ term.idx = Len(term.evaluated) + 1
                      /\ term.took = term.idx
  /\ term.reader = "top" /\ ~stop => InStep
  /\ term.reader = "typing" => ~Outstanding /\ term.idx = Len(term.evaluated) + 1
  /\ term.reader \in {"wake", "checking", "asleep"} /\ term.isDone /\ ~stop => InStep

-----------------------------------------------------------------------------

(* Without several reactors the main thread is the only one.               *)
LEMMA OneReactor ==
  ASSUME ~(Cardinality(Reactors) > 1)
  PROVE  Reactors = {Main}
<1>1. IsFiniteSet(Reactors) /\ Main \in Reactors
  BY ServerAssumption
<1>2. /\ IsFiniteSet(Reactors \ {Main})
      /\ Cardinality(Reactors \ {Main}) = Cardinality(Reactors) - 1
  BY <1>1, FS_RemoveElement
<1>3. Cardinality(Reactors) \in Nat /\ Cardinality(Reactors \ {Main}) \in Nat
  BY <1>1, <1>2, FS_CardinalityType
<1>4. Cardinality(Reactors \ {Main}) = 0
  BY <1>2, <1>3
<1>5. Reactors \ {Main} = {}
  BY <1>2, <1>4, FS_EmptySet
<1> QED BY <1>1, <1>5

(* A reactor that serves is the main thread, unless there are several.     *)
LEMMA ServesAlone ==
  ASSUME PhaseInv, ~multi, NEW r \in Reactors, phase[r] = "serving"
  PROVE  r = Main
<1>1. CASE mode = "repl"
  BY <1>1 DEF PhaseInv
<1>2. CASE mode = "pool"
  <2>1. phase[Main] # "spawn"
    BY <1>2 DEF PhaseInv
  <2>2. ~(Cardinality(Reactors) > 1)
    BY <1>2, <2>1 DEF PhaseInv
  <2> QED BY <2>2, OneReactor
<1> QED BY <1>1, <1>2 DEF PhaseInv

-----------------------------------------------------------------------------
LEMMA PhaseInitially == ServerInit => PhaseInv
<1> SUFFICES ASSUME ServerInit PROVE PhaseInv
  OBVIOUS
<1>1. mode \in {"pool", "repl"}
  BY ServerAssumption DEF ServerInit
<1>2. phase = [r \in Reactors |-> IF r = Main THEN "spawn" ELSE "none"] /\ Main \in Reactors
  BY ServerAssumption DEF ServerInit
<1>3. phase \in [Reactors -> Phases] /\ phase[Main] = "spawn" /\ \A r \in Reactors \ {Main} : phase[r] = "none"
  BY <1>2 DEF Phases
<1>4. ~multi /\ keyspace = "none" /\ defined = 0
  BY DEF ServerInit
<1> QED BY <1>1, <1>3, <1>4 DEF PhaseInv

(* What a step does to a single reactor keeps the invariant when what is   *)
(* shared stays as it is, or is cleared by the last one that leaves.       *)
LEMMA PhaseSteps ==
  ASSUME PhaseInv, [Next]_vars
  PROVE  PhaseInv'
<1> USE DEF Phases, poolVars, netVars
<1>0. mode' = mode
  BY Zenon DEF Next, vars, ReactorStep, ReaderStep, Spawn, Listen, Register, Wait, Accept, Handle, Teardown,
       TakeUnit, Evaluate, Prompt, Wake, Check, Put, Join, Sigint, Connect, Send, HalfClose, Reset, Receive,
       ReaderSet, NetSet
<1>a. ASSUME UNCHANGED <<phase, multi, keyspace, defined>> PROVE PhaseInv'
  BY <1>0, <1>a DEF PhaseInv
<1>1. CASE Spawn
  <2>1. /\ mode = "pool" /\ phase[Main] = "spawn" /\ defined' = defined
        /\ multi' = (Cardinality(Reactors) > 1)
        /\ keyspace' = "live" \/ keyspace' = keyspace
    BY <1>1 DEF Spawn
  <2>2. PICK made \in SUBSET (Reactors \ {Main}) :
          phase' = [r \in Reactors |-> IF r \in made \cup {Main} THEN "boot" ELSE "ended"]
    BY <1>1 DEF Spawn
  <2>3. phase'[Main] = "boot"
    BY <2>2, ServerAssumption
  <2>4. keyspace # "cleared"
    BY <2>1, ServerAssumption DEF PhaseInv
  <2> QED BY <1>0, <2>1, <2>2, <2>3, <2>4 DEF PhaseInv
<1>2. ASSUME NEW r \in Reactors, ReactorStep(r) PROVE PhaseInv'
  <2>1. CASE Listen(r)
    <3>1. /\ UNCHANGED <<multi, defined>>
          /\ r \in Members /\ phase[r] = IF mode = "pool" THEN "boot" ELSE "spawn"
          /\ \/ phase' = [phase EXCEPT ![r] = "listening"] /\ keyspace' = "live"
             \/ phase' = [phase EXCEPT ![r] = "ended"] /\ keyspace' = keyspace
      BY <2>1 DEF Listen
    <3>2. mode = "repl" => r = Main
      BY <3>1 DEF Members, PhaseInv
    <3>3. mode = "pool" => phase[Main] # "spawn"
      BY <3>1 DEF PhaseInv
    <3>4. mode = "pool" => phase'[Main] # "spawn"
      BY <3>1, <3>3, ServerAssumption DEF PhaseInv
    <3> QED BY <1>0, <3>1, <3>2, <3>3, <3>4 DEF PhaseInv
  <2>2. CASE Register(r)
    <3>1. /\ UNCHANGED <<multi, keyspace, defined>>
          /\ r \in Members /\ phase[r] = "listening"
          /\ \/ phase' = [phase EXCEPT ![r] = "serving"]
             \/ phase' = [phase EXCEPT ![r] = "ended"]
      BY <2>2 DEF Register
    <3>2. mode = "repl" => r = Main
      BY <3>1 DEF Members, PhaseInv
    <3>3. mode = "pool" => phase[Main] # "spawn"
      BY <3>1 DEF PhaseInv
    <3>4. mode = "pool" => phase'[Main] # "spawn"
      BY <3>1, <3>3, ServerAssumption DEF PhaseInv
    <3>5. keyspace # "cleared"
      BY <3>1 DEF PhaseInv
    <3> QED BY <1>0, <3>1, <3>2, <3>3, <3>4, <3>5 DEF PhaseInv
  <2>3. CASE Wait(r)
    BY <1>a, <2>3 DEF Wait
  <2>4. CASE Accept(r)
    BY <1>a, <2>4 DEF Accept
  <2>5. CASE Handle(r)
    <3>1. /\ UNCHANGED <<phase, multi, keyspace>> /\ phase[r] = "serving"
          /\ multi => defined' = defined
      BY <2>5 DEF Handle, Guarded
    <3>2. mode = "pool" => phase[Main] # "spawn"
      BY <3>1 DEF PhaseInv
    <3>3. mode = "pool" /\ Cardinality(Reactors) > 1 => defined' = 0
      BY <3>1, <3>2 DEF PhaseInv
    <3> QED BY <1>0, <3>1, <3>3 DEF PhaseInv
  <2>6. CASE Teardown(r)
    <3>1. /\ UNCHANGED <<multi, defined>> /\ phase[r] = "serving"
          /\ phase' = [phase EXCEPT ![r] = "ended"]
          /\ keyspace' = IF multi THEN keyspace ELSE "cleared"
      BY <2>6 DEF Teardown, LeavesSharedToMain
    <3>2. mode = "pool" => phase[Main] # "spawn" /\ phase'[Main] # "spawn"
      BY <3>1 DEF PhaseInv
    <3>3. keyspace' = "cleared" => \A q \in Reactors : phase'[q] \in {"none", "ended"}
      <4>1. CASE multi
        BY <3>1, <4>1 DEF PhaseInv
      <4>2. CASE ~multi
        <5>1. r = Main
          BY <3>1, <4>2, ServesAlone
        <5>2. mode = "pool" => Reactors = {Main}
          BY <3>2, <4>2, OneReactor DEF PhaseInv
        <5> QED BY <3>1, <5>1, <5>2 DEF PhaseInv
      <4> QED BY <4>1, <4>2
    <3> QED BY <1>0, <3>1, <3>2, <3>3 DEF PhaseInv
  <2>7. CASE TakeUnit(r)
    BY <1>a, <2>7 DEF TakeUnit
  <2>8. CASE Evaluate(r)
    BY <1>a, <2>8 DEF Evaluate
  <2> QED BY <1>2, <2>1, <2>2, <2>3, <2>4, <2>5, <2>6, <2>7, <2>8 DEF ReactorStep
<1>3. CASE ReaderStep \/ Put
  BY <1>a, <1>3 DEF ReaderStep, Prompt, Wake, Check, Put, ReaderSet
<1>4. CASE Join
  BY <1>0, <1>4 DEF Join, PhaseInv
<1>5. CASE Sigint
  BY <1>a, <1>5 DEF Sigint
<1>6. ASSUME NEW c \in Clients, Connect(c) \/ Send(c) \/ HalfClose(c) \/ Reset(c) \/ Receive(c)
      PROVE  UNCHANGED <<phase, multi, keyspace, defined>>
  BY <1>6 DEF Connect, Send, HalfClose, Reset, Receive, NetSet
<1>7. CASE UNCHANGED vars
  BY <1>a, <1>7 DEF vars
<1> QED BY <1>a, <1>1, <1>2, <1>3, <1>4, <1>5, <1>6, <1>7 DEF Next

(* What the invariant says of the reactors.                                *)
LEMMA PhaseIsSafe == PhaseInv => SharedSafely
<1> SUFFICES ASSUME PhaseInv PROVE SharedSafely
  OBVIOUS
<1>1. ASSUME defined > 0 PROVE Cardinality(Serving) <= 1
  <2>1. ~(mode = "pool" /\ Cardinality(Reactors) > 1)
    BY <1>1 DEF PhaseInv
  <2>2. \A r \in Serving : r = Main
    <3> SUFFICES ASSUME NEW r \in Serving PROVE r = Main
      OBVIOUS
    <3>1. r \in Reactors /\ phase[r] = "serving"
      BY DEF Serving
    <3>2. CASE mode = "repl"
      BY <3>1, <3>2, ServesAlone DEF PhaseInv
    <3>3. CASE mode = "pool"
      BY <2>1, <3>1, <3>3, OneReactor
    <3> QED BY <3>2, <3>3 DEF PhaseInv
  <2>3. Serving \subseteq {Main}
    BY <2>2
  <2>4. IsFiniteSet({Main}) /\ Cardinality({Main}) = 1
    BY FS_Singleton
  <2> QED BY <2>3, <2>4, FS_Subset
<1>2. ASSUME keyspace = "cleared" PROVE Serving = {}
  BY <1>2 DEF PhaseInv, Serving
<1> QED BY <1>1, <1>2 DEF SharedSafely

(* Server.SharedSafely: globals are bound by callbacks only where one      *)
(* reactor serves (g_resp_cb_guard, resp_user_dispatch), and the keyspace  *)
(* is cleared only when the last reactor has left (resp_reactor_teardown,  *)
(* respN_serve), however many reactors there are, whichever of them fail   *)
(* to start and whenever the stop comes.                                   *)
THEOREM ReactorsShareSafely == ServerSpec => []SharedSafely
<1>1. PhaseInv /\ [Next]_vars => PhaseInv'
  BY PhaseSteps
<1> QED BY PhaseInitially, <1>1, PhaseIsSafe, PTL DEF ServerSpec

-----------------------------------------------------------------------------

(* The records of the reader, the mailbox and the evaluation.              *)
LEMMA NoTermRight ==
  ASSUME term = NoTerm
  PROVE  TermType /\ Unopened
<1>1. << >> \in Seq(Nat \X Nat) /\ Len(<< >>) = 0
  OBVIOUS
<1>2. /\ term.reader = "none" /\ term.evaluated = << >> /\ term.idx = 0
      /\ ~term.isReady /\ term.took = 0 /\ ~term.tookEof
  BY DEF NoTerm
<1>3. TermType
  BY <1>1 DEF NoTerm, TermType
<1> QED BY <1>1, <1>2, <1>3 DEF Unopened, InStep, Outstanding

LEMMA TermInitially == ServerInit => TermInv
<1> SUFFICES ASSUME ServerInit PROVE TermInv
  OBVIOUS
<1>1. term = NoTerm /\ stop = FALSE
  BY DEF ServerInit
<1>2. TermType /\ Unopened
  BY <1>1, NoTermRight
<1>3. DOMAIN term.evaluated = {} /\ ~Outstanding /\ term.reader = "none"
  BY <1>2 DEF Unopened, InStep
<1> QED BY <1>1, <1>2, <1>3 DEF TermInv, Outstanding

(* Where the reader, the mailbox and the evaluation stay as they are, the  *)
(* stop may come, and a reactor may end or go on from its start.           *)
LEMMA TermKept ==
  ASSUME TermInv, mode' = mode, term' = term, stop' \in BOOLEAN, stop => stop',
         phase'[Main] \in {"spawn", "listening"} => mode = "pool" \/ phase[Main] \in {"spawn", "listening"}
  PROVE  TermInv'
  BY DEF TermInv, TermType, Outstanding, InStep, Unopened

(* The next unit of those evaluated goes behind them.                      *)
LEMMA NextUnit ==
  ASSUME NEW s \in Seq(Nat \X Nat), \A i \in DOMAIN s : s[i] = <<i, i>>, NEW n \in Nat, n = Len(s) + 1
  PROVE  /\ Append(s, <<n, n>>) \in Seq(Nat \X Nat)
         /\ \A i \in DOMAIN Append(s, <<n, n>>) : Append(s, <<n, n>>)[i] = <<i, i>>
         /\ Len(Append(s, <<n, n>>)) = n
<1>1. <<n, n>> \in Nat \X Nat
  OBVIOUS
<1>2. /\ Append(s, <<n, n>>) \in Seq(Nat \X Nat)
      /\ Len(Append(s, <<n, n>>)) = n
      /\ DOMAIN s = 1 .. Len(s) /\ DOMAIN Append(s, <<n, n>>) = 1 .. n
      /\ \A i \in 1 .. Len(s) : Append(s, <<n, n>>)[i] = s[i]
      /\ Append(s, <<n, n>>)[n] = <<n, n>>
  BY <1>1
<1>3. Len(s) \in Nat
  OBVIOUS
<1>4. ASSUME NEW i \in 1 .. n PROVE Append(s, <<n, n>>)[i] = <<i, i>>
  <2>1. i = n \/ i \in 1 .. Len(s)
    BY <1>3
  <2> QED BY <1>2, <2>1
<1> QED BY <1>2, <1>4

-----------------------------------------------------------------------------
(* The reader.                                                             *)

LEMMA PromptKeeps == ASSUME TermInv, Prompt PROVE TermInv'
<1>1. term.reader = "top" /\ UNCHANGED <<mode, phase, stop>>
  BY DEF Prompt, ReaderSet, poolVars
<1>2. ~Unopened /\ ~(mode = "pool" \/ phase[Main] \in {"spawn", "listening"})
  BY <1>1 DEF TermInv, Unopened
<1>3. CASE stop
  <2>1. term' = [term EXCEPT !.reader = "ended"]
    BY <1>3 DEF Prompt, ReaderSet
  <2> QED BY <1>1, <1>2, <1>3, <2>1 DEF TermInv, TermType, Outstanding, InStep
<1>4. CASE ~stop
  <2>1. term' = [term EXCEPT !.reader = "typing", !.idx = @ + 1]
    BY <1>4 DEF Prompt, ReaderSet
  <2>2. InStep /\ TermType
    BY <1>1, <1>4 DEF TermInv
  <2>a. term.idx + 1 \in Nat
    BY <2>2 DEF TermType
  <2>3. /\ TermType' /\ term'.reader = "typing"
        /\ term'.idx = term.idx + 1 /\ term'.evaluated = term.evaluated
        /\ term'.took = term.took /\ term'.tookEof = term.tookEof /\ term'.isReady = term.isReady
    <3> DEFINE next == term.idx + 1
    <3>1. next \in Nat /\ term' = [term EXCEPT !.reader = "typing", !.idx = next]
      BY <2>1, <2>a, <2>2 DEF TermType
    <3>2. next = term.idx + 1
      OBVIOUS
    <3> HIDE DEF next
    <3> QED BY <2>2, <3>1, <3>2 DEF TermType
  <2>4. ~Outstanding' /\ term'.idx = Len(term'.evaluated) + 1
    BY <2>2, <2>3 DEF Outstanding, InStep
  <2> QED BY <1>1, <1>2, <2>3, <2>4 DEF TermInv, Outstanding
<1> QED BY <1>3, <1>4

LEMMA PutKeeps == ASSUME TermInv, Put PROVE TermInv'
<1>1. term.reader = "typing" /\ UNCHANGED <<mode, phase, stop>>
  BY DEF Put, ReaderSet, poolVars
<1>2. ~Unopened /\ ~(mode = "pool" \/ phase[Main] \in {"spawn", "listening"})
  BY <1>1 DEF TermInv, Unopened
<1>3. PICK end \in BOOLEAN : term' = Deposited(term, end)
  BY DEF Put, ReaderSet
<1>4. TermType /\ ~Outstanding /\ term.idx = Len(term.evaluated) + 1
  BY <1>1 DEF TermInv
<1>5. /\ TermType'
      /\ term'.evaluated = term.evaluated /\ term'.idx = term.idx
      /\ term'.took = 0 /\ ~term'.tookEof /\ ~term'.isDone
      /\ term'.reader = "wake"
      /\ term'.unit = IF term'.eof THEN 0 ELSE term'.idx
  BY <1>3, <1>4 DEF TermType, Outstanding, Deposited
<1> QED BY <1>1, <1>2, <1>4, <1>5 DEF TermInv

LEMMA WakeKeeps == ASSUME TermInv, Wake PROVE TermInv'
<1>1. /\ term.reader = "wake" /\ UNCHANGED <<mode, phase, stop>>
      /\ term' = [term EXCEPT !.bytes = IF term.open THEN @ + 1 ELSE @,
                              !.reader = IF term.eof THEN "ended" ELSE "checking"]
  BY DEF Wake, ReaderSet, poolVars
<1>2. ~Unopened /\ ~(mode = "pool" \/ phase[Main] \in {"spawn", "listening"})
  BY <1>1 DEF TermInv, Unopened
<1>3. TermType
  BY DEF TermInv
<1>4. /\ TermType'
      /\ term'.evaluated = term.evaluated /\ term'.idx = term.idx
      /\ term'.took = term.took /\ term'.tookEof = term.tookEof /\ term'.isDone = term.isDone
      /\ term'.isReady = term.isReady /\ term'.unit = term.unit /\ term'.eof = term.eof
      /\ term'.reader \in {"ended", "checking"}
  <2> DEFINE bytes == IF term.open THEN term.bytes + 1 ELSE term.bytes
             reader == IF term.eof THEN "ended" ELSE "checking"
  <2>1. bytes \in Nat
    BY <1>3 DEF TermType
  <2>2. reader \in {"ended", "checking"}
    OBVIOUS
  <2>3. term' = [term EXCEPT !.bytes = bytes, !.reader = reader]
    BY <1>1, <1>3 DEF TermType
  <2> HIDE DEF bytes, reader
  <2> QED BY <1>3, <2>1, <2>2, <2>3 DEF TermType
<1>5. (Outstanding' <=> Outstanding) /\ (InStep' <=> InStep)
  BY <1>4 DEF Outstanding, InStep
<1> QED BY <1>1, <1>2, <1>4, <1>5 DEF TermInv

LEMMA CheckKeeps == ASSUME TermInv, Check PROVE TermInv'
<1>1. /\ term.reader = "checking" /\ UNCHANGED <<mode, phase, stop>>
      /\ term' = [term EXCEPT !.reader = IF term.isDone \/ stop THEN "top" ELSE "asleep"]
  BY DEF Check, ReaderSet, poolVars
<1>2. ~Unopened /\ ~(mode = "pool" \/ phase[Main] \in {"spawn", "listening"})
  BY <1>1 DEF TermInv, Unopened
<1>3. TermType
  BY DEF TermInv
<1>4. /\ TermType'
      /\ term'.evaluated = term.evaluated /\ term'.idx = term.idx
      /\ term'.took = term.took /\ term'.tookEof = term.tookEof /\ term'.isDone = term.isDone
      /\ term'.isReady = term.isReady /\ term'.unit = term.unit /\ term'.eof = term.eof
      /\ term'.reader = IF term.isDone \/ stop THEN "top" ELSE "asleep"
  BY <1>1, <1>3 DEF TermType
<1>5. (Outstanding' <=> Outstanding) /\ (InStep' <=> InStep)
  BY <1>4 DEF Outstanding, InStep
<1> QED BY <1>1, <1>2, <1>4, <1>5 DEF TermInv

-----------------------------------------------------------------------------
(* The reactor.                                                            *)

LEMMA TakeKeeps == ASSUME TermInv, NEW r \in Reactors, TakeUnit(r) PROVE TermInv'
<1>1. /\ term.took = 0 /\ ~term.tookEof /\ UNCHANGED <<mode, phase, stop>>
      /\ term' = IF term.isReady
                 THEN [term EXCEPT !.bytes = 0, !.took = term.unit, !.tookEof = term.eof, !.unit = 0,
                                   !.isReady = FALSE]
                 ELSE [term EXCEPT !.bytes = 0]
  BY DEF TakeUnit
<1>2. TermType
  BY DEF TermInv
<1>4. CASE term.isReady
  <2>1. /\ TermType' /\ term'.reader = term.reader /\ term'.isDone = term.isDone
        /\ term'.evaluated = term.evaluated /\ term'.idx = term.idx
        /\ term'.took = term.unit /\ term'.tookEof = term.eof /\ ~term'.isReady
    BY <1>1, <1>2, <1>4 DEF TermType
  <2>2. /\ Outstanding
        /\ term.idx = Len(term.evaluated) + 1
        /\ term.unit = IF term.eof THEN 0 ELSE term.idx
    BY <1>4 DEF TermInv, Outstanding
  <2>3. term'.took # 0 => ~term'.tookEof /\ term'.took = term'.idx
    BY <2>1, <2>2
  <2>4. ~InStep /\ ~Unopened
    BY <2>2 DEF InStep, Unopened
  <2>5. /\ ~(mode = "pool" \/ phase[Main] \in {"spawn", "listening"})
        /\ term.reader # "typing" /\ (term.reader = "top" => stop)
        /\ term.reader \in {"wake", "checking", "asleep"} /\ term.isDone => stop
    BY <2>2, <2>4 DEF TermInv
  <2> QED BY <1>1, <2>1, <2>2, <2>3, <2>5 DEF TermInv
<1>5. CASE ~term.isReady
  <2>1. /\ TermType' /\ term'.reader = term.reader /\ term'.isDone = term.isDone
        /\ term'.evaluated = term.evaluated /\ term'.idx = term.idx
        /\ term'.took = 0 /\ ~term'.tookEof /\ ~term'.isReady
    BY <1>1, <1>2, <1>5 DEF TermType
  <2>2. ~Outstanding' /\ (InStep => InStep') /\ (Unopened => Unopened')
    BY <2>1 DEF Outstanding, InStep, Unopened
  <2> QED BY <1>1, <2>1, <2>2 DEF TermInv
<1> QED BY <1>4, <1>5

LEMMA EvaluateKeeps == ASSUME TermInv, NEW r \in Reactors, Evaluate(r) PROVE TermInv'
<1>1. /\ term.took # 0 \/ term.tookEof
      /\ UNCHANGED <<mode, phase>>
      /\ term' = [Released(term) EXCEPT !.evaluated = IF term.tookEof THEN @ ELSE Append(@, <<term.took, term.idx>>),
                                        !.took = 0, !.tookEof = FALSE]
  BY DEF Evaluate
<1>2. PICK quit \in BOOLEAN : stop' = (stop \/ quit \/ term.tookEof)
  BY DEF Evaluate
<1>3. TermType /\ stop \in BOOLEAN
  BY DEF TermInv
<1>4. ~(mode = "pool" \/ phase[Main] \in {"spawn", "listening"}) /\ ~term.isReady
  BY <1>1 DEF TermInv, Unopened, InStep, Outstanding
<1>5. stop' \in BOOLEAN /\ (stop => stop') /\ (term.tookEof => stop')
  BY <1>2, <1>3 DEF TermType
<1>6. Outstanding
  BY <1>1 DEF Outstanding
<1>7. term.reader # "typing" /\ (~stop => term.reader # "top")
  BY <1>6 DEF TermInv, InStep
<1>8. /\ term'.took = 0 /\ ~term'.tookEof /\ ~term'.isReady /\ term'.idx = term.idx
      /\ term'.reader \in {"none", "top", "typing", "wake", "checking", "asleep", "ended"}
      /\ term'.reader = term.reader \/ term'.reader = "checking"
  BY <1>1, <1>3, <1>4 DEF TermType, Released
<1>9. ~Outstanding'
  BY <1>8 DEF Outstanding
<1>10. CASE term.tookEof
  <2>1. TermType' /\ term'.evaluated = term.evaluated
    BY <1>1, <1>3, <1>10 DEF TermType, Released
  <2> QED BY <1>1, <1>4, <1>5, <1>7, <1>8, <1>9, <1>10, <2>1 DEF TermInv
<1>11. CASE ~term.tookEof
  <2>1. term.took = term.idx /\ term.idx = Len(term.evaluated) + 1
    BY <1>1, <1>11 DEF TermInv
  <2>2. term'.evaluated = Append(term.evaluated, <<term.idx, term.idx>>)
    BY <1>1, <1>3, <1>11, <2>1 DEF TermType, Released
  <2>3. /\ term.evaluated \in Seq(Nat \X Nat) /\ term.idx \in Nat
        /\ \A i \in DOMAIN term.evaluated : term.evaluated[i] = <<i, i>>
    BY <1>3 DEF TermInv, TermType
  <2>4. /\ term'.evaluated \in Seq(Nat \X Nat)
        /\ \A i \in DOMAIN term'.evaluated : term'.evaluated[i] = <<i, i>>
        /\ Len(term'.evaluated) = term.idx
    BY <2>1, <2>2, <2>3, NextUnit
  <2>5. TermType'
    BY <1>1, <1>3, <2>4 DEF TermType, Released
  <2>6. InStep'
    BY <1>8, <1>9, <2>4 DEF InStep
  <2> QED BY <1>1, <1>4, <1>5, <1>7, <1>8, <1>9, <2>4, <2>5, <2>6 DEF TermInv
<1> QED BY <1>10, <1>11

LEMMA TeardownKeeps == ASSUME PhaseInv, TermInv, NEW r \in Reactors, Teardown(r) PROVE TermInv'
<1>1. /\ stop /\ stop' = stop /\ mode' = mode /\ phase[r] = "serving"
      /\ phase' = [phase EXCEPT ![r] = "ended"]
      /\ term' = IF mode = "repl" THEN [Released(term) EXCEPT !.open = FALSE, !.bytes = 0] ELSE term
  BY DEF Teardown
<1>2. phase \in [Reactors -> Phases] /\ Main \in Reactors
  BY ServerAssumption DEF PhaseInv
<1>3. phase'[Main] \in {"spawn", "listening"} => phase[Main] \in {"spawn", "listening"}
  BY <1>1, <1>2
<1>4. CASE mode # "repl"
  BY <1>1, <1>3, <1>4, TermKept DEF TermInv
<1>5. CASE mode = "repl"
  <2>1. TermType
    BY DEF TermInv
  <2>2. term' = [Released(term) EXCEPT !.open = FALSE, !.bytes = 0]
    BY <1>1, <1>5
  <2>4. /\ TermType'
        /\ term'.evaluated = term.evaluated /\ term'.idx = term.idx
        /\ term'.took = term.took /\ term'.tookEof = term.tookEof
        /\ term'.isReady = term.isReady /\ term'.unit = term.unit /\ term'.eof = term.eof
        /\ term'.reader = term.reader \/ (term.reader = "asleep" /\ term'.reader = "checking")
    BY <2>1, <2>2 DEF TermType, Released
  <2>5. (Outstanding' <=> Outstanding) /\ (InStep' <=> InStep) /\ (Unopened => Unopened')
    BY <2>4 DEF Outstanding, InStep, Unopened
  <2> QED BY <1>1, <1>3, <1>5, <2>4, <2>5 DEF TermInv
<1> QED BY <1>4, <1>5

LEMMA RegisterKeeps == ASSUME PhaseInv, TermInv, NEW r \in Reactors, Register(r) PROVE TermInv'
<1>1. /\ mode' = mode /\ r \in Members /\ phase[r] = "listening"
      /\ \/ phase' = [phase EXCEPT ![r] = "serving"] /\ stop' = stop
         \/ phase' = [phase EXCEPT ![r] = "ended"] /\ stop' = TRUE
      /\ term' = IF mode = "repl" THEN [term EXCEPT !.reader = "top", !.open = TRUE] ELSE term
  BY DEF Register
<1>2. phase \in [Reactors -> Phases] /\ Main \in Reactors
  BY ServerAssumption DEF PhaseInv
<1>a. stop \in BOOLEAN
  BY DEF TermInv
<1>b. stop' = stop \/ stop' = TRUE
  BY <1>1
<1>3. stop' \in BOOLEAN /\ (stop => stop')
  BY <1>a, <1>b, Zenon
<1>4. CASE mode # "repl"
  <2>1. mode = "pool"
    BY <1>4 DEF PhaseInv
  <2> QED BY <1>1, <1>3, <1>4, <2>1, TermKept
<1>5. CASE mode = "repl"
  <2>1. r = Main
    BY <1>1, <1>5 DEF Members
  <2>2. Unopened /\ TermType
    BY <1>1, <2>1 DEF TermInv
  <2>3. phase'[Main] \notin {"spawn", "listening"}
    BY <1>1, <1>2, <2>1
  <2>4. /\ TermType' /\ term'.reader = "top"
        /\ term'.idx = term.idx /\ term'.evaluated = term.evaluated
        /\ term'.took = term.took /\ term'.tookEof = term.tookEof /\ term'.isReady = term.isReady
    BY <1>1, <1>5, <2>2 DEF TermType
  <2>5. ~Outstanding' /\ InStep' /\ DOMAIN term'.evaluated = {}
    BY <2>2, <2>4 DEF Outstanding, InStep, Unopened
  <2> QED BY <1>1, <1>3, <1>5, <2>3, <2>4, <2>5 DEF TermInv, Outstanding
<1> QED BY <1>4, <1>5

-----------------------------------------------------------------------------
LEMMA TermSteps ==
  ASSUME PhaseInv, TermInv, [Next]_vars
  PROVE  TermInv'
<1>0. stop \in BOOLEAN /\ phase \in [Reactors -> Phases] /\ Main \in Reactors
  BY ServerAssumption DEF TermInv, PhaseInv
<1>a. ASSUME UNCHANGED <<mode, phase, stop, term>> PROVE TermInv'
  BY <1>a, <1>0, TermKept
<1>1. CASE Spawn
  <2>1. mode = "pool" /\ UNCHANGED <<mode, stop, term>>
    BY <1>1 DEF Spawn
  <2> QED BY <1>0, <2>1, TermKept
<1>2. ASSUME NEW r \in Reactors, ReactorStep(r) PROVE TermInv'
  <2>1. CASE Listen(r)
    <3>1. /\ UNCHANGED <<mode, stop, term>> /\ r \in Members
          /\ phase[r] = IF mode = "pool" THEN "boot" ELSE "spawn"
          /\ \/ phase' = [phase EXCEPT ![r] = "listening"]
             \/ phase' = [phase EXCEPT ![r] = "ended"]
      BY <2>1 DEF Listen
    <3>2. phase'[Main] \in {"spawn", "listening"} => mode = "pool" \/ phase[Main] \in {"spawn", "listening"}
      BY <1>0, <3>1
    <3> QED BY <1>0, <3>1, <3>2, TermKept
  <2>2. CASE Register(r)
    BY <2>2, RegisterKeeps
  <2>3. CASE Wait(r) \/ Accept(r) \/ Handle(r)
    BY <1>a, <2>3 DEF Wait, Accept, Handle
  <2>4. CASE Teardown(r)
    BY <2>4, TeardownKeeps
  <2>5. CASE TakeUnit(r)
    BY <2>5, TakeKeeps
  <2>6. CASE Evaluate(r)
    BY <2>6, EvaluateKeeps
  <2> QED BY <1>2, <2>1, <2>2, <2>3, <2>4, <2>5, <2>6 DEF ReactorStep
<1>3. CASE ReaderStep \/ Put
  BY <1>3, PromptKeeps, WakeKeeps, CheckKeeps, PutKeeps DEF ReaderStep
<1>4. CASE Join
  BY <1>a, <1>4 DEF Join, netVars
<1>5. CASE Sigint
  <2>1. stop' = TRUE /\ UNCHANGED <<mode, phase, term>>
    BY <1>5 DEF Sigint, poolVars
  <2> QED BY <1>0, <2>1, TermKept
<1>6. ASSUME NEW c \in Clients, Connect(c) \/ Send(c) \/ HalfClose(c) \/ Reset(c) \/ Receive(c)
      PROVE  UNCHANGED <<mode, phase, stop, term>>
  BY <1>6 DEF Connect, Send, HalfClose, Reset, Receive, NetSet, poolVars
<1>7. CASE UNCHANGED vars
  BY <1>a, <1>7 DEF vars, poolVars
<1> QED BY <1>a, <1>1, <1>2, <1>3, <1>4, <1>5, <1>6, <1>7 DEF Next

(* Server.UnitsInStep: what is typed is evaluated in order, each unit once *)
(* and under its own number, and no prompt is drawn over an evaluation to  *)
(* come (resp_rl_reader_main, resp_rl_consume_unit), for any number of     *)
(* units, and wherever the stop falls between the two threads.             *)
THEOREM PromptsInStep == ServerSpec => []UnitsInStep
<1>1. ServerInit => PhaseInv /\ TermInv
  BY PhaseInitially, TermInitially
<1>2. PhaseInv /\ TermInv /\ [Next]_vars => (PhaseInv /\ TermInv)'
  BY PhaseSteps, TermSteps
<1>3. TermInv => UnitsInStep
  <2> SUFFICES ASSUME TermInv PROVE UnitsInStep
    OBVIOUS
  <2>1. /\ term.evaluated \in Seq(Nat \X Nat)
        /\ term.reader = "typing" => term.idx = Len(term.evaluated) + 1
    BY DEF TermInv, TermType
  <2>2. term.reader = "typing" => Len(term.evaluated) = term.idx - 1
    <3>1. Len(term.evaluated) \in Nat
      BY <2>1
    <3> DEFINE n == Len(term.evaluated)
    <3>2. term.reader = "typing" => term.idx = n + 1
      BY <2>1
    <3> HIDE DEF n
    <3>3. ASSUME n \in Nat, term.reader = "typing" PROVE n = term.idx - 1
      BY <3>2, <3>3
    <3> QED BY <3>1, <3>3 DEF n
  <2>3. \A i \in DOMAIN term.evaluated : term.evaluated[i] = <<i, i>>
    BY DEF TermInv
  <2> QED BY <2>2, <2>3 DEF UnitsInStep
<1> QED BY <1>1, <1>2, <1>3, PTL DEF ServerSpec

=============================================================================

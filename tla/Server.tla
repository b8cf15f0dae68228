------------------------------- MODULE Server -------------------------------
(***************************************************************************)
(* The RESP servers of alcove.  In mode "pool", respN_serve starts a       *)
(* reactor thread for each listening socket and joins them                 *)
(* (src/repl_builtins.h); in mode "repl", resp_repl_serve drives the       *)
(* connections and evaluates what a reader thread types, handed over       *)
(* through a mailbox of one place and a pipe (src/resp.c).                 *)
(*                                                                         *)
(* The kernel hands a connection to one listening socket; from its accept  *)
(* on the connection belongs to that reactor.  A reactor waits, and then   *)
(* handles one ready descriptor after another: ready holds what is left of *)
(* the round.  The clients and the terminal are the environment.           *)
(***************************************************************************)
EXTENDS Connection

CONSTANTS Clients, Reactors,   \* the main thread is a reactor too
          Main, Modes,
          Scripts,             \* by mode, what the clients may mean to send
          MaxClients,          \* connections of a reactor
          Lines                \* units the terminal has to give

ASSUME ServerAssumption == Main \in Reactors /\ IsFiniteSet(Reactors)
                            /\ Modes \subseteq {"pool", "repl"}
                            /\ Lines \in Nat /\ MaxClients \in Nat

VARIABLES mode, script, conn,
          phase,      \* of each reactor: none, boot, listening, serving, ended
          ready,      \* of each reactor: what its wait returned, to be handled
          listening,  \* sockets that are open
          stop,       \* resp_stop
          multi,      \* g_resp_multi
          keyspace,   \* none, live, cleared
          defined,    \* globals bound by callbacks
          term        \* reader, mailbox and evaluation of mode repl

netVars == <<script, conn>>
poolVars == <<phase, ready, listening, multi, keyspace>>
vars == <<mode, netVars, poolVars, stop, defined, term>>

Listener == [c |-> "listener", readable |-> TRUE, writable |-> FALSE]
Pipe == [c |-> "pipe", readable |-> TRUE, writable |-> FALSE]
Members == IF mode = "pool" THEN Reactors ELSE {Main}
Of(r) == {c \in Clients : conn[c].at = r /\ conn[c].phase = "open"}
Backlog(r) == {c \in Clients : conn[c].at = r /\ conn[c].phase = "queued"}

NoTerm == [reader |-> "none", unit |-> 0, isReady |-> FALSE, isDone |-> TRUE, eof |-> FALSE, bytes |-> 0,
           open |-> FALSE, idx |-> 0, took |-> 0, tookEof |-> FALSE, evaluated |-> << >>]

ServerInit ==
  /\ mode \in Modes
  /\ script \in Scripts[mode]
  /\ conn = [c \in Clients |-> Fresh]
  /\ phase = [r \in Reactors |-> IF r = Main THEN "spawn" ELSE "none"]
  /\ ready = [r \in Reactors |-> {}]
  /\ listening = {} /\ stop = FALSE /\ multi = FALSE /\ keyspace = "none" /\ defined = 0
  /\ term = NoTerm

-----------------------------------------------------------------------------
(* Start.                                                                  *)

\* respN_serve: with more than one reactor, what is shared is set up before
\* any thread runs; a thread that cannot be created is done without.
Spawn ==
  /\ mode = "pool" /\ phase[Main] = "spawn"
  /\ multi' = (Cardinality(Reactors) > 1)
  /\ keyspace' = IF multi' THEN "live" ELSE keyspace
  /\ \E made \in SUBSET (Reactors \ {Main}) :
       phase' = [r \in Reactors |-> IF r \in made \cup {Main} THEN "boot" ELSE "ended"]
  /\ UNCHANGED <<mode, netVars, ready, listening, stop, defined, term>>

\* resp_listen, and what is shared if it is not there yet.  A reactor that
\* cannot listen gives up alone.
Listen(r) ==
  /\ r \in Members /\ phase[r] = IF mode = "pool" THEN "boot" ELSE "spawn"
  /\ \/ /\ phase' = [phase EXCEPT ![r] = "listening"]
        /\ listening' = listening \cup {r}
        /\ keyspace' = "live"
     \/ phase' = [phase EXCEPT ![r] = "ended"] /\ UNCHANGED <<listening, keyspace>>
  /\ UNCHANGED <<mode, netVars, ready, stop, multi, defined, term>>

\* epoch_register, and before it the reader thread of the combined loop.  A
\* reactor that cannot register stops all of them.
Register(r) ==
  /\ r \in Members /\ phase[r] = "listening"
  /\ \/ phase' = [phase EXCEPT ![r] = "serving"] /\ UNCHANGED stop
     \/ phase' = [phase EXCEPT ![r] = "ended"] /\ stop' = TRUE
  /\ term' = IF mode = "repl" THEN [term EXCEPT !.reader = "top", !.open = TRUE] ELSE term
  /\ UNCHANGED <<mode, netVars, ready, listening, multi, keyspace, defined>>

-----------------------------------------------------------------------------
(* The round of a reactor.                                                 *)

\* The pool waits with epoll, which reports a hang-up as both; the combined
\* loop with select, which is told anew each time whom to ask for writing.
Mask(c) ==
  LET k == conn[c]
      writable == IF mode = "pool" THEN (k.armed /\ Room(k)) \/ HangUp(k) ELSE Pending(k) /\ (Room(k) \/ k.gone)
  IN [c |-> c, readable |-> Readable(k), writable |-> writable]
ReadyNow(r) ==
  {k \in {Mask(c) : c \in Of(r)} : k.readable \/ k.writable}
  \cup (IF Backlog(r) # {} THEN {Listener} ELSE {})
  \cup (IF mode = "repl" /\ term.bytes > 0 THEN {Pipe} ELSE {})

Wait(r) ==
  /\ phase[r] = "serving" /\ ready[r] = {} /\ ~stop
  /\ ReadyNow(r) # {}
  /\ ready' = [ready EXCEPT ![r] = ReadyNow(r)]
  /\ UNCHANGED <<mode, netVars, phase, listening, stop, multi, keyspace, defined, term>>

\* resp_accept_drain.  A full reactor accepts one connection to close it, and
\* leaves the others queued.
Accept(r) ==
  /\ phase[r] = "serving" /\ Listener \in ready[r] /\ Pipe \notin ready[r]
  /\ \E new \in SUBSET Backlog(r), over \in SUBSET Backlog(r) :
       /\ Cardinality(new) = Min({Cardinality(Backlog(r)), MaxClients - Cardinality(Of(r))})
       /\ over \cap new = {} /\ Cardinality(over) = IF new = Backlog(r) THEN 0 ELSE 1
       /\ conn' = [c \in Clients |-> CASE c \in new -> [conn[c] EXCEPT !.phase = "open"]
                                       [] c \in over -> [conn[c] EXCEPT !.phase = "refused"]
                                       [] OTHER -> conn[c]]
  /\ ready' = [ready EXCEPT ![r] = @ \ {Listener}]
  /\ UNCHANGED <<mode, script, phase, listening, stop, multi, keyspace, defined, term>>

\* resp_client_handle_events, and what the reactor does of its answer: the
\* interest in writing follows what is pending, a dropped client is freed.
ArmedMut(c) == [c EXCEPT !.armed = FALSE]
Armed(c) == [c EXCEPT !.armed = Pending(c)]
Closed(c) == [Fresh EXCEPT !.phase = "closed", !.at = c.at, !.next = c.next, !.received = c.received, !.toCli = c.toCli,
              !.gone = c.gone, !.eof = c.eof, !.oom = c.oom]
GuardedMut == FALSE
\* With several reactors a callback binds no global.
Guarded == multi
Handle(r) ==
  /\ phase[r] = "serving"
  /\ mode = "repl" => {Pipe, Listener} \cap ready[r] = {}
  /\ \E k \in ready[r] \ {Pipe, Listener} :
       /\ \E h \in HandleEvents(conn[k.c], k.readable, k.writable, script[k.c]) :
            /\ conn' = [conn EXCEPT ![k.c] = IF h.drop THEN Closed(h.c) ELSE Armed(h.c)]
            /\ defined' = IF Guarded THEN defined ELSE defined + h.defines
       /\ ready' = [ready EXCEPT ![r] = @ \ {k}]
  /\ UNCHANGED <<mode, script, phase, listening, stop, multi, keyspace, term>>

-----------------------------------------------------------------------------
(* The end.                                                                *)

\* resp_reactor_teardown: the socket and the clients of this reactor; the
\* keyspace too when it is alone.
FreeAll(r) ==
  [c \in Clients |-> IF c \in Of(r) THEN Closed(conn[c])
                     ELSE IF c \in Backlog(r) THEN [conn[c] EXCEPT !.phase = "refused"] ELSE conn[c]]
LeavesSharedToMainMut == FALSE
LeavesSharedToMain == multi
\* resp_rl_done, and the signal of its condition.
ReleasedMut(t) == [t EXCEPT !.isDone = TRUE]
Released(t) == [t EXCEPT !.isDone = TRUE, !.reader = IF @ = "asleep" THEN "checking" ELSE @]
RoundOverMut(r) == ready[r] = {} /\ Of(r) = {}
RoundOver(r) == ready[r] = {}
Teardown(r) ==
  /\ phase[r] = "serving" /\ RoundOver(r) /\ stop
  /\ phase' = [phase EXCEPT ![r] = "ended"]
  /\ listening' = listening \ {r}
  /\ conn' = FreeAll(r)
  /\ keyspace' = IF LeavesSharedToMain THEN keyspace ELSE "cleared"
  /\ term' = IF mode = "repl" THEN [Released(term) EXCEPT !.open = FALSE, !.bytes = 0] ELSE term
  /\ UNCHANGED <<mode, script, ready, stop, multi, defined>>

\* respN_serve again: joined, it tears down what was shared.
Join ==
  /\ mode = "pool" /\ multi /\ keyspace = "live"
  /\ \A r \in Reactors : phase[r] = "ended"
  /\ keyspace' = "cleared"
  /\ UNCHANGED <<mode, netVars, phase, ready, listening, stop, multi, defined, term>>

Sigint ==
  /\ ~stop /\ stop' = TRUE
  /\ keyspace = "live"
  /\ UNCHANGED <<mode, netVars, poolVars, defined, term>>

-----------------------------------------------------------------------------
(* The reader and its mailbox (mode "repl").                               *)

ReaderSet(t) == /\ term' = t
                /\ UNCHANGED <<mode, netVars, poolVars, stop, defined>>

\* A prompt is drawn; the reader blocks in the line editor.
Prompt == /\ term.reader = "top"
          /\ ReaderSet(IF stop THEN [term EXCEPT !.reader = "ended"]
                       ELSE [term EXCEPT !.reader = "typing", !.idx = @ + 1])
\* A unit, or the end of the input, is put under the lock.
DepositedMut(t, end) == [t EXCEPT !.reader = "wake", !.unit = IF end THEN 0 ELSE t.idx, !.eof = end,
                                  !.isReady = TRUE]
Deposited(t, end) == [t EXCEPT !.reader = "wake", !.unit = IF end THEN 0 ELSE t.idx, !.eof = end,
                               !.isReady = TRUE, !.isDone = FALSE]
Put == /\ term.reader = "typing"
       /\ \E end \in {e \in BOOLEAN : e \/ term.idx <= Lines} : ReaderSet(Deposited(term, end))
\* The byte that wakes the reactor; after the end nothing is waited for.
Wake == /\ term.reader = "wake"
        /\ ReaderSet([term EXCEPT !.bytes = IF term.open THEN @ + 1 ELSE @,
                                  !.reader = IF term.eof THEN "ended" ELSE "checking"])
\* Under the lock: done, or to sleep until the signal.
Check == /\ term.reader = "checking"
         /\ ReaderSet([term EXCEPT !.reader = IF term.isDone \/ stop THEN "top" ELSE "asleep"])

\* The reactor drains the pipe and takes what is in the mailbox.
TakeUnit(r) ==
  /\ phase[r] = "serving" /\ Pipe \in ready[r] /\ term.took = 0 /\ ~term.tookEof
  /\ term' = IF term.isReady
             THEN [term EXCEPT !.bytes = 0, !.took = term.unit, !.tookEof = term.eof, !.unit = 0, !.isReady = FALSE]
             ELSE [term EXCEPT !.bytes = 0]
  /\ ready' = IF term.isReady THEN ready ELSE [ready EXCEPT ![r] = @ \ {Pipe}]
  /\ UNCHANGED <<mode, netVars, phase, listening, stop, multi, keyspace, defined>>
\* It evaluates the unit, which may be (quit), under the prompt's number as it
\* is then, and releases the reader.
Evaluate(r) ==
  /\ phase[r] = "serving" /\ Pipe \in ready[r] /\ (term.took # 0 \/ term.tookEof)
  /\ \E quit \in BOOLEAN : stop' = (stop \/ quit \/ term.tookEof)
  /\ term' = [Released(term) EXCEPT !.evaluated = IF term.tookEof THEN @ ELSE Append(@, <<term.took, term.idx>>),
                          !.took = 0, !.tookEof = FALSE]
  /\ ready' = [ready EXCEPT ![r] = @ \ {Pipe}]
  /\ UNCHANGED <<mode, netVars, phase, listening, multi, keyspace, defined>>

-----------------------------------------------------------------------------
(* The clients.                                                            *)

NetSet(c, k) == /\ conn' = [conn EXCEPT ![c] = k]
                /\ UNCHANGED <<mode, script, poolVars, stop, defined, term>>
Connected(c) == conn[c].phase \in {"queued", "open"} /\ ~conn[c].gone

\* A client with nothing to say stays away.
Connect(c) == /\ conn[c].phase = "idle" /\ script[c] # << >>
              /\ \E r \in listening : NetSet(c, [conn[c] EXCEPT !.phase = "queued", !.at = r])
Send(c) ==
  LET k == conn[c].next[1]
      j == conn[c].next[2]
  IN /\ Connected(c) /\ ~conn[c].eof /\ k <= Len(script[c])
     /\ NetSet(c, [conn[c] EXCEPT !.toSrv = Append(@, <<k, j>>),
                                  !.next = IF j = script[c][k].len THEN <<k + 1, 1>> ELSE <<k, j + 1>>])
HalfClose(c) == /\ Connected(c) /\ ~conn[c].eof /\ conn[c].next[1] > Len(script[c])
                /\ NetSet(c, [conn[c] EXCEPT !.eof = TRUE])
Reset(c) == /\ Connected(c)
            /\ NetSet(c, [conn[c] EXCEPT !.gone = TRUE, !.toSrv = << >>, !.toCli = << >>])
Receive(c) == /\ ~conn[c].gone /\ conn[c].toCli # << >>
              /\ NetSet(c, [conn[c] EXCEPT !.received = @ \o conn[c].toCli, !.toCli = << >>])

-----------------------------------------------------------------------------
ReactorStep(r) == \/ Listen(r) \/ Register(r) \/ Wait(r) \/ Accept(r) \/ Handle(r)
                  \/ Teardown(r) \/ TakeUnit(r) \/ Evaluate(r)
ReaderStep == Prompt \/ Wake \/ Check
Next == \/ Spawn
        \/ \E r \in Reactors : ReactorStep(r)
        \/ ReaderStep \/ Put \/ Join \/ Sigint
        \/ \E c \in Clients : Connect(c) \/ Send(c) \/ HalfClose(c) \/ Reset(c) \/ Receive(c)
Fairness == /\ WF_vars(Spawn)
            /\ \A r \in Reactors : WF_vars(ReactorStep(r))
            /\ WF_vars(ReaderStep) /\ WF_vars(Join)
            /\ \A c \in Clients : WF_vars(Receive(c))
ServerSpec == ServerInit /\ [][Next]_vars /\ Fairness

-----------------------------------------------------------------------------
(* Properties.                                                             *)

\* What the requests of a script are answered with, up to the first bad one.
Answers(s) ==
  LET bad == {k \in DOMAIN s : s[k].kind = "bad"}
      upto == IF bad = {} THEN Len(s) ELSE Min(bad) - 1
  IN FoldLeft(LAMBDA a, k : IF s[k].kind = "blank" THEN a ELSE a \o Replies(k, s[k].out), << >>,
              [k \in 1 .. upto |-> k])
\* What a client was told and, unless it has gone, what its socket holds for it
\* and what waits to be written.
Told(c) == conn[c].received \o
           IF conn[c].gone THEN << >> ELSE conn[c].toCli \o Window(conn[c].wbuf, conn[c].whead)

\* However its bytes are cut into reads, its replies into writes, and both
\* buffers slid and grown, a client is told the answers of its requests, each
\* once, in order and whole, and after them nothing but protocol errors.  (Not
\* where a realloc failed: what the reply was to be is then anything.)
RepliesInOrder ==
  \A c \in Clients : ~conn[c].oom =>
    LET ans == Answers(script[c])
    IN \A i \in DOMAIN Told(c) :
         Told(c)[i] = IF i <= Len(ans) THEN ans[i] ELSE ErrLine

\* A connection is dropped for what its client did, for a limit that what is
\* still to be parsed or to be written really exceeds, or when the server
\* stops; never for space its buffers only seem to lack.
Oversize(c) == Len(Window(conn[c].rbuf, conn[c].rhead)) + Chunk > RbufMax
Backlogged(c) ==
  LET waiting == {b[1] : b \in Range(Window(conn[c].rbuf, conn[c].rhead) \o conn[c].toSrv)}
  IN Len(Window(conn[c].wbuf, conn[c].whead)) + MapThenSumSet(LAMBDA k : script[c][k].reserved, waiting) > WbufMax
DropsOnlyForCause ==
  [][\A c \in Clients : conn[c].phase = "open" /\ conn'[c].phase = "closed" =>
       \/ stop \/ conn[c].gone \/ conn[c].eof \/ conn[c].shutRd \/ conn'[c].oom
       \/ Oversize(c) \/ Backlogged(c)]_vars

\* What the reactors share besides the keyspace's own synchronisation: globals
\* are bound by callbacks only where one reactor serves, and the keyspace is
\* cleared only when the last reactor that could hold a value of it has left.
Serving == {r \in Reactors : phase[r] = "serving"}
SharedSafely == /\ defined > 0 => Cardinality(Serving) <= 1
                /\ keyspace = "cleared" => Serving = {}

\* The units typed are evaluated in order, each once and under its own number,
\* and no prompt is drawn over an evaluation to come.
UnitsInStep ==
  /\ \A i \in DOMAIN term.evaluated : term.evaluated[i] = <<i, i>>
  /\ term.reader = "typing" /\ ~stop => Len(term.evaluated) = term.idx - 1

\* Whoever has sent all of its requests and reads what it is sent has all of
\* the answers in the end, or is dropped: no reply waits for an event that
\* does not come.
Answered ==
  \A c \in Clients :
    (conn[c].phase = "open" /\ conn[c].next[1] > Len(script[c]))
      ~> (conn[c].phase = "closed" \/ Len(conn[c].received) >= Len(Answers(script[c])))
\* The reader that gave a unit draws its prompt again, or the thread ends.
PromptReturns == term.reader \in {"wake", "checking", "asleep"} ~> term.reader \in {"typing", "ended"}
\* After a stop every reactor leaves, and the pool clears what it shared.
Stops == stop ~> (\A r \in Reactors : phase[r] \in {"none", "ended"}) /\ (multi => keyspace = "cleared")

\* "<0 = protocol error (caller drops the client)": a client is told of a
\* protocol error once.
OneProtocolError == \A c \in Clients : Len(SelectSeq(Told(c), LAMBDA u : u = ErrLine)) <= 1
=============================================================================

----------------------------- MODULE Connection -----------------------------
(***************************************************************************)
(* One RESP connection of a reactor (src/resp.c): the read and the write   *)
(* window, the frame parser over them, and the step a reactor makes when   *)
(* the socket is ready.  Nothing here blocks and nothing here is shared,   *)
(* so the operators are functions of the connection; where a realloc may fail *)
(* they give the set of the outcomes.                                      *)
(*                                                                         *)
(* A script is what a client means to send: requests [len, kind, out,      *)
(* reserved], len bytes each; after "quit" the server reads no more, but   *)
(* answers what it has.  A byte is <<k, j>>, the j-th of the k-th request, *)
(* and a unit of reply is <<k, j>> too; a blank line has no reply.         *)
(*                                                                         *)
(* The socket is two queues: toSrv, with the half-close (eof) and the      *)
(* reset (gone) of the client behind it, and toCli, of SockOut units.      *)
(***************************************************************************)
EXTENDS SequencesExt, Integers

CONSTANTS Chunk,      \* the room a read wants: 4096
          RbufInit, RbufMax,
          WbufInit, WbufMax,
          SockOut,    \* what the kernel holds for the client
          NoRealloc   \* whether a realloc may fail

ASSUME BuffersAssumption ==
  /\ {Chunk, RbufInit, RbufMax, WbufInit, WbufMax, SockOut} \subseteq Nat \ {0}
  /\ Chunk <= RbufInit /\ RbufInit <= RbufMax
  /\ NoRealloc \in BOOLEAN

\* A protocol error is answered with a line of its own; what a failed realloc
\* leaves between wlen and wcap is no reply.
ErrLine == <<"err", 1>>
Junk == <<"junk", 0>>

Fresh == [phase |-> "idle", at |-> "", toSrv |-> << >>, next |-> <<1, 1>>, eof |-> FALSE, gone |-> FALSE,
          shutRd |-> FALSE, rbuf |-> << >>, rhead |-> 0, rcap |-> RbufInit,
          wbuf |-> << >>, whead |-> 0, wcap |-> 0, wfail |-> FALSE, armed |-> FALSE,
          oom |-> FALSE,   \* a realloc for it failed
          toCli |-> << >>, received |-> << >>]

Oom == IF NoRealloc THEN BOOLEAN ELSE {FALSE}
Window(s, head) == SubSeq(s, head + 1, Len(s))
Pending(c) == Len(c.wbuf) > c.whead

-----------------------------------------------------------------------------
(* The write side.                                                         *)

Doubled(cap, need) == Min({n \in {cap * 2 ^ i : i \in 0 .. need} : n >= need})

\* The live window moves to the bottom of the buffer.
SlideWriteMut(c) == [c EXCEPT !.wbuf = Window(@, c.whead)]
SlideWrite(c) == [c EXCEPT !.wbuf = Window(@, c.whead), !.whead = 0]

\* resp_write_reserve and what its caller puts there: units, out of a
\* reservation of n.  The live window slides down before the buffer grows;
\* past WbufMax the reply is still written and the client flagged.
Write(c, units, n, oom) ==
  LET slid == IF Len(c.wbuf) + n > c.wcap THEN SlideWrite(c) ELSE c
      need == Len(slid.wbuf) + n
      grown == [slid EXCEPT !.wfail = @ \/ need > WbufMax,
                            !.wcap = Doubled(IF @ = 0 THEN WbufInit ELSE @, need)]
      junk == [i \in 1 .. slid.wcap - Len(slid.wbuf) |-> Junk]
  IN CASE need <= slid.wcap -> [slid EXCEPT !.wbuf = @ \o units]
       [] need > slid.wcap /\ ~oom -> [grown EXCEPT !.wbuf = @ \o units]
       [] OTHER -> [slid EXCEPT !.wfail = TRUE, !.wbuf = @ \o junk, !.oom = TRUE]

\* resp_client_drain_write: what the socket takes.
DrainWrite(c) ==
  LET live == Window(c.wbuf, c.whead)
      n == Min({Len(live), SockOut - Len(c.toCli)})
      sent == [c EXCEPT !.toCli = @ \o SubSeq(live, 1, n)]
  IN IF n = Len(live) THEN [sent EXCEPT !.wbuf = << >>, !.whead = 0] ELSE [sent EXCEPT !.whead = @ + n]

-----------------------------------------------------------------------------
(* The read side.                                                          *)

\* resp_parse_one: the request at the head of the window, or what it wants.
ParseOne(c, script) ==
  LET w == Window(c.rbuf, c.rhead)
      k == w[1][1]
  IN CASE w = << >> -> [say |-> "more"]
       [] w # << >> /\ (w[1][2] # 1 \/ script[k].kind = "bad") -> [say |-> "error"]
       [] w # << >> /\ Len(w) < script[k].len -> [say |-> "more"]
       [] OTHER -> [say |-> "request", k |-> k]

Replies(k, n) == [j \in 1 .. n |-> <<k, j>>]

\* One turn of resp_process_input; s.halt when there is nothing more to do.
\* A request of kind "define" is a registered command whose callback binds a
\* global (resp_user_dispatch), or is refused and says so: the server decides
\* (Guarded), and is told how many there were.
ProcessTurn(s, script, oom) ==
  LET p == ParseOne(s.c, script)
      q == script[p.k]
      replied == IF q.kind = "blank" THEN s.c ELSE Write(s.c, Replies(p.k, q.out), q.reserved, oom)
  IN CASE s.halt -> s
       [] ~s.halt /\ p.say = "more" ->
            [s EXCEPT !.halt = TRUE,
                      !.c = IF s.c.rhead = Len(s.c.rbuf) THEN [@ EXCEPT !.rbuf = << >>, !.rhead = 0] ELSE @]
       [] ~s.halt /\ p.say = "error" ->
            [s EXCEPT !.halt = TRUE, !.c = [Write(@, <<ErrLine>>, 1, oom) EXCEPT !.shutRd = TRUE]]
       [] OTHER -> [s EXCEPT !.c = [replied EXCEPT !.rhead = @ + q.len],
                             !.c.shutRd = @ \/ q.kind = "quit",
                             !.defines = @ + IF q.kind = "define" THEN 1 ELSE 0]
\* The outcomes of resp_process_input.
ProcessInput(c, script) ==
  FoldLeft(LAMBDA outcomes, i : {ProcessTurn(s, script, oom) : s \in outcomes, oom \in Oom},
           {[c |-> c, halt |-> FALSE, defines |-> 0]}, [i \in 1 .. Len(c.rbuf) + 1 |-> i])

-----------------------------------------------------------------------------
(* resp_client_handle_events.                                              *)

SlideReadMut(c) == c
SlideRead(c) == [c EXCEPT !.rbuf = Window(@, c.rhead), !.rhead = 0]

\* Room for a read: the parsed prefix goes first, then the buffer grows.
MakeRoom(c, oom) ==
  LET slid == IF Len(c.rbuf) + Chunk > c.rcap THEN SlideRead(c) ELSE c
      tight == Len(slid.rbuf) + Chunk > slid.rcap
      grows == tight /\ slid.rcap < RbufMax
  IN [c |-> CASE grows /\ oom -> [slid EXCEPT !.oom = TRUE]
              [] grows /\ ~oom -> [slid EXCEPT !.rcap = Min({2 * @, RbufMax})]
              [] OTHER -> slid,
      drop |-> tight /\ (oom \/ ~grows)]

\* The outcomes [c, drop, defines] of a readable socket, after MakeRoom.
Read(r, script) ==
  LET c == r.c
      n == Min({Len(c.toSrv), c.rcap - Len(c.rbuf)})
      got == [c EXCEPT !.rbuf = @ \o SubSeq(c.toSrv, 1, n), !.toSrv = SubSeq(@, n + 1, Len(@))]
  IN IF r.drop \/ c.gone \/ n = 0
     THEN {[c |-> c, drop |-> r.drop \/ c.gone \/ c.eof \/ c.shutRd, defines |-> 0]}
     ELSE {[c |-> IF Pending(p.c) THEN DrainWrite(p.c) ELSE p.c, drop |-> FALSE, defines |-> p.defines] :
             p \in ProcessInput(got, script)}
OnReadable(c, script) == UNION {Read(MakeRoom(c, oom), script) : oom \in Oom}

\* The flush of a writable socket, and a client that is flagged.
OnWritable(r, writable) ==
  LET flush == ~r.drop /\ writable /\ Pending(r.c)
  IN [r EXCEPT !.c = IF flush /\ ~@.gone THEN DrainWrite(@) ELSE @,
               !.drop = @ \/ (flush /\ r.c.gone) \/ r.c.wfail]
HandleEvents(c, readable, writable, script) ==
  {OnWritable(r, writable) :
     r \in IF readable THEN OnReadable(c, script) ELSE {[c |-> c, drop |-> FALSE, defines |-> 0]}}

\* What poll says of the socket.
Readable(c) == c.toSrv # << >> \/ c.eof \/ c.gone \/ c.shutRd
HangUp(c) == c.eof \/ c.gone \/ c.shutRd
Room(c) == Len(c.toCli) < SockOut
=============================================================================

------------------------------ MODULE MCServer ------------------------------
(***************************************************************************)
(* The bounded instance of Server: both servers, with what their clients   *)
(* may mean to send.                                                       *)
(***************************************************************************)
EXTENDS Server

CONSTANTS r1, r2, c1, c2

\* [len, kind, out, reserved]: a reply of one unit; an integer, which reserves
\* more than it takes; a reply larger than the write buffer may become.
Request(len, kind, out, reserved) == [len |-> len, kind |-> kind, out |-> out, reserved |-> reserved]
Short == Request(1, "cmd", 1, 1)
Count == Request(2, "cmd", 1, 2)
Bulk == Request(1, "cmd", 2, 2)
Large == Request(1, "cmd", 4, 4)
Long == Request(3, "cmd", 1, 1)
Huge == Request(4, "cmd", 1, 1)
Blank == Request(1, "blank", 0, 0)
Define == Request(1, "define", 1, 1)
Quit == Request(1, "quit", 1, 1)
Bad == Request(1, "bad", 0, 1)

\* In the pool two clients meet; the combined loop has one, and the terminal.
Two(a, b) == c1 :> a @@ c2 :> b
MCScripts ==
  [pool |-> {Two(<<Short>>, <<Define>>), Two(<<Bulk, Count>>, << >>), Two(<<Large>>, << >>), Two(<<Quit, Short>>, << >>),
             Two(<<Blank, Long>>, << >>), Two(<<Huge>>, << >>)},
   repl |-> {Two(<<Bulk>>, << >>), Two(<<Bad>>, << >>), Two(<<Define>>, << >>)}]
BadFirst == [pool |-> {Two(<<Bad, Count>>, << >>)}]
=============================================================================

------------------------------ MODULE RespData ------------------------------
(* What the commands of resp.c do to one value, as a function of the command *)
(* and of the value: the part of each handler that is local to its thread.   *)
(* A value is a blob, a list or a hash.  The bytes of a blob are a sequence   *)
(* of chunks: a number that was formatted as a whole, or other text.          *)
EXTENDS Integers, Sequences, SequencesExt, FiniteSets

CONSTANTS MaxInt,  \* LLONG_MAX
          NULL

Blob(b) == [type |-> "blob", body |-> b]
List(s) == [type |-> "list", body |-> s]
Hash(f) == [type |-> "hash", body |-> f]

\* Replies: an integer, a bulk string, a value read, or a fixed text.
Number(n) == <<"int", n>>
Bulk(x) == <<"bulk", x>>
Value(d) == <<"value", d>>
Text(t) == <<t>>

\* One command ends with a reply and, when it writes, a value (NULL deletes).
Answers(reply) == [writes |-> FALSE, data |-> NULL, reply |-> reply]
Becomes(data, reply) == [writes |-> TRUE, data |-> data, reply |-> reply]
WrongType == Answers(Text("wrongtype"))
Nil == Answers(Text("nil"))

\* A blob that parses as an integer.
IsInt(d) == Len(d.body) = 1 /\ d.body[1] \in Int

Incr(c, d) ==
    LET cur == IF d = NULL THEN 0 ELSE d.body[1] IN
    IF d # NULL /\ d.type # "blob" THEN WrongType
    ELSE IF d # NULL /\ ~ IsInt(d) THEN Answers(Text("not an integer"))
    ELSE IF cur + c.arg \notin -MaxInt - 1 .. MaxInt THEN Answers(Text("overflow"))
    ELSE Becomes(Blob(<<cur + c.arg>>), Number(cur + c.arg))

Append_(c, d) ==
    IF d = NULL THEN Becomes(Blob(<<c.arg>>), Number(1))
    ELSE IF d.type # "blob" THEN WrongType
    ELSE Becomes(Blob(Append(d.body, c.arg)), Number(Len(d.body) + 1))

Push(c, d) ==
    LET old == IF d = NULL THEN <<>> ELSE d.body
        new == IF c.left THEN <<c.arg>> \o old ELSE Append(old, c.arg)
    IN  IF d # NULL /\ d.type # "list" THEN WrongType
        ELSE Becomes(List(new), Number(Len(new)))

ShrunkMut(s) == List(s)
\* The last element takes the key with it.
Shrunk(s) == IF s = <<>> THEN NULL ELSE List(s)

Pop(c, d) ==
    IF d = NULL THEN Nil
    ELSE IF d.type # "list" THEN WrongType
    ELSE IF d.body = <<>> THEN Nil
    ELSE IF c.left THEN Becomes(Shrunk(Tail(d.body)), Bulk(Head(d.body)))
    ELSE Becomes(Shrunk(Front(d.body)), Bulk(Last(d.body)))

\* A field that cannot be copied (it holds a NUL) is passed over.
Usable(c) == c.field # NULL

HSet(c, d) ==
    LET old == IF d = NULL THEN [x \in {} |-> NULL] ELSE d.body
        new == [x \in DOMAIN old \cup {c.field} |-> IF x = c.field THEN c.arg ELSE old[x]]
    IN  IF d # NULL /\ d.type # "hash" THEN WrongType
        ELSE IF ~ Usable(c) THEN Becomes(Hash(old), Number(0))
        ELSE Becomes(Hash(new), Number(IF c.field \in DOMAIN old THEN 0 ELSE 1))

HDel(c, d) ==
    LET rest == [x \in DOMAIN d.body \ {c.field} |-> d.body[x]]
    IN  IF d = NULL THEN Answers(Number(0))
        ELSE IF d.type # "hash" THEN WrongType
        ELSE Becomes(IF DOMAIN rest = {} THEN NULL ELSE Hash(rest),
                     Number(IF c.field \in DOMAIN d.body THEN 1 ELSE 0))

\* GET, and the other commands that only read.
Get(c, d) == IF d = NULL THEN Nil ELSE Answers(Value(d))

Effect(c, d) == CASE c.name = "incr" -> Incr(c, d)
                  [] c.name = "append" -> Append_(c, d)
                  [] c.name = "push" -> Push(c, d)
                  [] c.name = "pop" -> Pop(c, d)
                  [] c.name = "hset" -> HSet(c, d)
                  [] c.name = "hdel" -> HDel(c, d)
                  [] c.name = "get" -> Get(c, d)

Copying == {"incr", "append", "push", "pop", "hset", "hdel", "get"}

\* A container without elements.
Empty(d) == d.type # "blob" /\ DOMAIN d.body = {}
=============================================================================

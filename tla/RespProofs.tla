----------------------------- MODULE RespProofs -----------------------------
(***************************************************************************)
(* What the key commands of RespCommands keep for every number of          *)
(* reactors, keys, commands and retries: each takes effect in one step of  *)
(* RedisKeys, the deadline of a SET is there when it answers, and no empty *)
(* container stays.  What all three rest on is that a copy is swapped in   *)
(* only for the value it was made from, because the address of a value     *)
(* somebody still refers to is not used again.                             *)
(***************************************************************************)
EXTENDS RespCommands, FiniteSetTheorems, TLAPS

USE CommandsAssumption, NullAssumption, ObjectsAssumption

IsReg(l) ==
  /\ l = [cur |-> l.cur, obj |-> l.obj, data |-> l.data, then |-> l.then,
          retries |-> l.retries, deadline |-> l.deadline]
  /\ l.cur \in Objects \cup {NULL}
  /\ l.obj \in Objects \cup {NULL}
  /\ l.data \in Datas \cup {NULL}
  /\ l.deadline \in Nat

Steps == {"idle", "lookup", "swap", "peek", "touch", "set", "why", "ex_peek", "ex_touch",
          "del", "expire", "ttl", "persist", "persist_clear"}

RespTypes ==
  /\ map \in [Keys -> Entries \cup {NULL}]
  /\ clock \in Nat
  /\ call \in [Reactors -> Commands \cup {NULL}]
  /\ reply = [r \in Reactors |-> reply[r]]
  /\ pc \in [Reactors -> Steps]
  /\ reg = [r \in Reactors |-> reg[r]]

\* What a reactor is doing: the command its next access is of, and the locals
\* that hold something there.
Local(r) ==
  /\ IsReg(reg[r])
  /\ pc[r] = "idle" <=> call[r] = NULL
  /\ pc[r] = "idle" => reg[r] = Clear
  /\ pc[r] # "idle" => reply[r] = NULL
  /\ pc[r] \in {"lookup", "swap"} => call[r].name \in Copying
  /\ pc[r] \in {"peek", "touch"} => Plain(call[r])
  /\ pc[r] \in {"set", "why"} => call[r].name = "set"
  /\ pc[r] = "why" => call[r].cond # "always"
  /\ pc[r] \in {"ex_peek", "ex_touch"} => call[r].name = "set" /\ call[r].ttl # 0
  /\ pc[r] \in {"del", "expire", "ttl"} => call[r].name = pc[r]
  /\ pc[r] \in {"persist", "persist_clear"} => call[r].name = "persist"
  /\ pc[r] \notin {"swap", "touch", "ex_peek", "ex_touch"} => reg[r].cur = NULL /\ reg[r].obj = NULL
  /\ pc[r] = "swap" => reg[r].obj # NULL
  /\ pc[r] = "ex_touch" => reg[r].deadline # 0

\* The copy that r would swap in is what its command makes of a value d.
Made(r, d) ==
  LET effect == Effect(call[r], d)
  IN effect.writes /\ reg[r].data = effect.data /\ reg[r].then = effect.reply

\* What r knows of the entry under its key, if that is still the one it read.
Reads(r) ==
  /\ pc[r] = "swap" /\ reg[r].cur = NULL => Made(r, NULL)
  /\ map[key(r)] # NULL =>
       /\ pc[r] = "swap" /\ map[key(r)].obj = reg[r].cur => Made(r, map[key(r)].data)
       /\ pc[r] = "touch" /\ map[key(r)].obj = reg[r].cur => map[key(r)].data = Blob(<<call[r].arg>>)
       /\ pc[r] = "ex_touch" /\ map[key(r)].obj = reg[r].obj => reg[r].cur = reg[r].obj

\* The address of a copy not yet swapped in is nobody else's.
Unused(r) ==
  pc[r] = "swap" =>
    /\ \A k \in Keys : map[k] # NULL => map[k].obj # reg[r].obj
    /\ \A q \in Reactors : reg[q].cur # reg[r].obj /\ (q # r => reg[q].obj # reg[r].obj)

RespInv ==
  /\ RespTypes
  /\ \A r \in Reactors : Local(r) /\ (pc[r] # "idle" => Reads(r)) /\ Unused(r)

-----------------------------------------------------------------------------
(* What the commands make of a value.                                      *)

LEMMA DataTypes ==
  /\ \A s \in Seq(Atoms) : Blob(s) \in Datas /\ List(s) \in Datas
  /\ \A h \in Bodies : Hash(h) \in Datas
  /\ \A d \in Datas : /\ d.type \in {"blob", "list"} => d.body \in Seq(Atoms)
                      /\ d.type = "hash" => d.body \in Bodies
                      /\ d.type \in {"blob", "list", "hash"}
                      /\ d = [type |-> d.type, body |-> d.body]
  /\ \A d \in Datas : d # NULL
<1>1. ASSUME NEW s \in Seq(Atoms) PROVE Blob(s) \in Datas /\ List(s) \in Datas
  BY DEF Blob, List, Datas
<1>2. ASSUME NEW h \in Bodies PROVE Hash(h) \in Datas
  BY DEF Hash, Datas
<1>3. ASSUME NEW d \in Datas
      PROVE  /\ d.type \in {"blob", "list"} => d.body \in Seq(Atoms)
             /\ d.type = "hash" => d.body \in Bodies
             /\ d.type \in {"blob", "list", "hash"}
             /\ d = [type |-> d.type, body |-> d.body]
  BY DEF Datas
<1>4. \A d \in Datas : d # NULL
  OBVIOUS
<1> QED BY <1>1, <1>2, <1>3, <1>4

LEMMA IncrTyped ==
  ASSUME NEW c \in Commands, NEW d \in Datas \cup {NULL}, Incr(c, d).writes
  PROVE  Incr(c, d).data \in Datas /\ ~Empty(Incr(c, d).data)
<1> DEFINE cur == IF d = NULL THEN 0 ELSE d.body[1]
           sum == cur + c.arg
<1>1. sum \in -MaxInt - 1 .. MaxInt /\ Incr(c, d) = Becomes(Blob(<<sum>>), Number(sum))
  BY DEF Incr, Answers, WrongType
<1>2. sum \in Int
  BY <1>1
<1> HIDE DEF sum
<1>3. <<sum>> \in Seq(Atoms)
  BY <1>2 DEF Atoms
<1>4. Incr(c, d).data = Blob(<<sum>>)
  BY <1>1 DEF Becomes
<1> QED BY <1>3, <1>4, DataTypes DEF Empty, Blob

LEMMA AppendTyped ==
  ASSUME NEW c \in Commands, c.name = "append", NEW d \in Datas \cup {NULL}, Append_(c, d).writes
  PROVE  Append_(c, d).data \in Datas /\ ~Empty(Append_(c, d).data)
<1>1. c.arg \in Atoms
  BY DEF Atoms
<1>2. PICK s \in Seq(Atoms) : Append_(c, d).data = Blob(s)
  <2>1. CASE d = NULL
    <3>1. Append_(c, d).data = Blob(<<c.arg>>)
      BY <2>1 DEF Append_, Becomes
    <3>2. <<c.arg>> \in Seq(Atoms)
      BY <1>1
    <3> QED BY <3>1, <3>2
  <2>2. CASE d # NULL
    <3>1. d.type = "blob" /\ Append_(c, d).data = Blob(Append(d.body, c.arg))
      BY <2>2 DEF Append_, Becomes, WrongType, Answers
    <3>2. d.body \in Seq(Atoms)
      BY <2>2, <3>1, DataTypes
    <3>3. Append(d.body, c.arg) \in Seq(Atoms)
      BY <1>1, <3>2
    <3> QED BY <3>1, <3>3
  <2> QED BY <2>1, <2>2
<1> QED BY <1>2, DataTypes DEF Empty, Blob

LEMMA PushTyped ==
  ASSUME NEW c \in Commands, c.name = "push", NEW d \in Datas \cup {NULL}, Push(c, d).writes
  PROVE  Push(c, d).data \in Datas /\ ~Empty(Push(c, d).data)
<1> DEFINE old == IF d = NULL THEN <<>> ELSE d.body
           new == IF c.left THEN <<c.arg>> \o old ELSE Append(old, c.arg)
<1>1. c.arg \in Atoms
  BY DEF Atoms
<1>2. (d # NULL => d.type = "list") /\ Push(c, d).data = List(new)
  BY DEF Push, Becomes, WrongType, Answers
<1>3. old \in Seq(Atoms)
  BY <1>2, DataTypes
<1>4. new \in Seq(Atoms) /\ Len(new) = Len(old) + 1
  <2> HIDE DEF old
  <2>1. <<c.arg>> \o old \in Seq(Atoms) /\ Len(<<c.arg>> \o old) = Len(old) + 1
    BY <1>1, <1>3
  <2>2. Append(old, c.arg) \in Seq(Atoms) /\ Len(Append(old, c.arg)) = Len(old) + 1
    BY <1>1, <1>3
  <2> QED BY <2>1, <2>2
<1>5. Len(old) \in Nat
  BY <1>3
<1> HIDE DEF new, old
<1>6. DOMAIN new = 1 .. Len(new)
  BY <1>4
<1>7. 1 \in DOMAIN new
  BY <1>4, <1>5, <1>6
<1>8. List(new).body = new
  BY DEF List
<1> QED BY <1>2, <1>4, <1>7, <1>8, DataTypes DEF Empty

LEMMA PopTyped ==
  ASSUME NEW c \in Commands, NEW d \in Datas \cup {NULL}, Pop(c, d).writes
  PROVE  /\ d # NULL
         /\ Pop(c, d).data \in Datas \cup {NULL}
         /\ Pop(c, d).data # NULL => ~Empty(Pop(c, d).data)
<1> DEFINE rest == IF c.left THEN Tail(d.body) ELSE Front(d.body)
<1>1. d # NULL /\ d.type = "list" /\ d.body # <<>>
  BY DEF Pop, Nil, WrongType, Answers
<1>2. Pop(c, d).data = Shrunk(rest)
  BY <1>1 DEF Pop, Becomes
<1>3. d.body \in Seq(Atoms)
  BY <1>1, DataTypes
<1>4. Tail(d.body) \in Seq(Atoms)
  BY <1>1, <1>3
<1>5. Front(d.body) \in Seq(Atoms)
  BY <1>1, <1>3 DEF Front
<1>6. rest \in Seq(Atoms)
  BY <1>4, <1>5
<1> HIDE DEF rest
<1>7. rest # <<>> => DOMAIN rest # {}
  <2>1. Len(rest) \in Nat /\ DOMAIN rest = 1 .. Len(rest) /\ (Len(rest) = 0 => rest = <<>>)
    BY <1>6
  <2>2. Len(rest) # 0 => 1 \in 1 .. Len(rest)
    BY <2>1
  <2> QED BY <2>1, <2>2
<1>8. List(rest).body = rest
  BY DEF List
<1> QED BY <1>1, <1>2, <1>6, <1>7, <1>8, DataTypes DEF Shrunk, Empty

LEMMA HSetTyped ==
  ASSUME NEW c \in Commands, c.name = "hset", NEW d \in Datas \cup {NULL}, HSet(c, d).writes
  PROVE  /\ HSet(c, d).data \in Datas
         /\ Usable(c) => ~Empty(HSet(c, d).data)
<1> DEFINE old == IF d = NULL THEN [x \in {} |-> NULL] ELSE d.body
           new == [x \in DOMAIN old \cup {c.field} |-> IF x = c.field THEN c.arg ELSE old[x]]
           args == {q.arg : q \in HSets}
           fields == {q.field : q \in HSets}
<1>1. c \in HSets /\ c.arg \in args /\ c.field \in fields
  BY DEF HSets
<1>2. d # NULL => d.type = "hash"
  BY DEF HSet, WrongType, Answers
<1>3. HSet(c, d).data = IF Usable(c) THEN Hash(new) ELSE Hash(old)
  BY <1>2 DEF HSet, Becomes
<1>4. PICK S \in SUBSET fields : old \in [S -> args]
  <2>1. CASE d = NULL
    <3>1. old \in [{} -> args]
      BY <2>1
    <3> QED BY <3>1
  <2>2. CASE d # NULL
    <3>1. old \in Bodies
      BY <1>2, <2>2, DataTypes
    <3> QED BY <3>1 DEF Bodies
  <2> QED BY <2>1, <2>2
<1> HIDE DEF old
<1>5. new \in [S \cup {c.field} -> args]
  BY <1>1, <1>4
<1>6. S \cup {c.field} \in SUBSET fields
  BY <1>1
<1> HIDE DEF new
<1>7. new \in Bodies /\ old \in Bodies
  BY <1>4, <1>5, <1>6 DEF Bodies
<1>8. c.field \in DOMAIN new
  BY <1>5
<1>9. Hash(new).body = new
  BY DEF Hash
<1> QED BY <1>3, <1>7, <1>8, <1>9, DataTypes DEF Empty

LEMMA HDelTyped ==
  ASSUME NEW c \in Commands, NEW d \in Datas \cup {NULL}, HDel(c, d).writes
  PROVE  /\ d # NULL
         /\ HDel(c, d).data \in Datas \cup {NULL}
         /\ HDel(c, d).data # NULL => ~Empty(HDel(c, d).data)
<1> DEFINE rest == [x \in DOMAIN d.body \ {c.field} |-> d.body[x]]
           args == {q.arg : q \in HSets}
           fields == {q.field : q \in HSets}
<1>1. d # NULL /\ d.type = "hash"
  BY DEF HDel, WrongType, Answers
<1>2. HDel(c, d).data = IF DOMAIN rest = {} THEN NULL ELSE Hash(rest)
  BY <1>1 DEF HDel, Becomes
<1>3. d.body \in Bodies
  BY <1>1, DataTypes
<1>4. PICK S \in SUBSET fields : d.body \in [S -> args]
  BY <1>3 DEF Bodies
<1>5. rest \in [S \ {c.field} -> args] /\ S \ {c.field} \in SUBSET fields
  BY <1>4
<1> HIDE DEF rest
<1>6. rest \in Bodies
  BY <1>5 DEF Bodies
<1>7. Hash(rest).body = rest
  BY DEF Hash
<1> QED BY <1>1, <1>2, <1>6, <1>7, DataTypes DEF Empty

(* RespData.Effect: what a command writes is a value or a deletion, never  *)
(* a deletion of nothing, and no empty container unless it is an HSET of a *)
(* field that is passed over.                                              *)
LEMMA EffectTyped ==
  ASSUME NEW c \in Commands, c.name \in Copying, NEW d \in Datas \cup {NULL}, Effect(c, d).writes
  PROVE  /\ Effect(c, d).data \in Datas \cup {NULL}
         /\ d = NULL => Effect(c, d).data # NULL
         /\ (c.name = "hset" => Usable(c)) /\ Effect(c, d).data # NULL => ~Empty(Effect(c, d).data)
<1>1. CASE c.name = "incr"
  BY <1>1, IncrTyped, DataTypes DEF Effect
<1>2. CASE c.name = "append"
  BY <1>2, AppendTyped, DataTypes DEF Effect
<1>3. CASE c.name = "push"
  BY <1>3, PushTyped, DataTypes DEF Effect
<1>4. CASE c.name = "pop"
  BY <1>4, PopTyped DEF Effect
<1>5. CASE c.name = "hset"
  BY <1>5, HSetTyped, DataTypes DEF Effect
<1>6. CASE c.name = "hdel"
  BY <1>6, HDelTyped DEF Effect
<1>7. CASE c.name = "get"
  BY <1>7 DEF Effect, Get, Nil, Answers
<1> QED BY <1>1, <1>2, <1>3, <1>4, <1>5, <1>6, <1>7 DEF Copying

-----------------------------------------------------------------------------
(* An allocation: the address is not referred to.                          *)

LEMMA ImageBound ==
  ASSUME NEW S, IsFiniteSet(S), NEW f, f = [s \in S |-> f[s]]
  PROVE  IsFiniteSet({f[s] : s \in S}) /\ Cardinality({f[s] : s \in S}) <= Cardinality(S)
<1>1. f \in Surjection(S, {f[s] : s \in S})
  BY DEF Surjection
<1> QED BY <1>1, FS_Surjection

LEMMA NewObjectIsFresh ==
  ASSUME NEW r \in Reactors, reg[r].cur = NULL, reg[r].obj = NULL
  PROVE  NewObject \in Objects /\ NewObject \notin Referenced
<1> DEFINE M == {k \in Keys : map[k] # NULL}
           Q == Reactors \ {r}
           fm == [k \in M |-> map[k].obj]
           fc == [q \in Q |-> reg[q].cur]
           fo == [q \in Q |-> reg[q].obj]
           A == {fm[k] : k \in M}
           B == {fc[q] : q \in Q}
           C == {fo[q] : q \in Q}
<1>1. IsFiniteSet(M) /\ Cardinality(M) <= Cardinality(Keys)
  BY FS_Subset
<1>2. IsFiniteSet(Q) /\ Cardinality(Q) = Cardinality(Reactors) - 1
  BY FS_RemoveElement
<1>3. IsFiniteSet(A) /\ Cardinality(A) <= Cardinality(M)
  <2>1. fm = [k \in M |-> fm[k]]
    OBVIOUS
  <2> HIDE DEF fm, M
  <2> QED BY <1>1, <2>1, ImageBound
<1>4. IsFiniteSet(B) /\ Cardinality(B) <= Cardinality(Q)
  <2>1. fc = [q \in Q |-> fc[q]]
    OBVIOUS
  <2> HIDE DEF fc, Q
  <2> QED BY <1>2, <2>1, ImageBound
<1>5. IsFiniteSet(C) /\ Cardinality(C) <= Cardinality(Q)
  <2>1. fo = [q \in Q |-> fo[q]]
    OBVIOUS
  <2> HIDE DEF fo, Q
  <2> QED BY <1>2, <2>1, ImageBound
<1>6. Referenced \subseteq (A \cup B) \cup (C \cup {NULL})
  <2>1. \A k \in M : map[k].obj \in A
    OBVIOUS
  <2>2. \A q \in Reactors : q # r => reg[q].cur \in B /\ reg[q].obj \in C
    OBVIOUS
  <2> HIDE DEF A, B, C
  <2> QED BY <2>1, <2>2 DEF Referenced
<1> HIDE DEF A, B, C, M, Q, fm, fc, fo
<1>7. Objects \ Referenced # {}
  <2> SUFFICES ASSUME Objects \subseteq Referenced PROVE FALSE
    OBVIOUS
  <2>1. Objects \subseteq A \cup (B \cup C)
    BY <1>6
  <2>2. /\ IsFiniteSet(B \cup C)
        /\ Cardinality(B \cup C) = Cardinality(B) + Cardinality(C) - Cardinality(B \cap C)
    BY <1>4, <1>5, FS_Union
  <2>3. /\ IsFiniteSet(A \cup (B \cup C))
        /\ Cardinality(A \cup (B \cup C)) = Cardinality(A) + Cardinality(B \cup C) - Cardinality(A \cap (B \cup C))
    BY <1>3, <2>2, FS_Union
  <2>4. IsFiniteSet(B \cap C) /\ IsFiniteSet(A \cap (B \cup C))
    BY <1>3, <1>4, FS_Subset
  <2>5. /\ Cardinality(A) \in Nat /\ Cardinality(B) \in Nat /\ Cardinality(C) \in Nat
        /\ Cardinality(M) \in Nat /\ Cardinality(Q) \in Nat
        /\ Cardinality(Keys) \in Nat /\ Cardinality(Reactors) \in Nat /\ Cardinality(Objects) \in Nat
        /\ Cardinality(B \cap C) \in Nat /\ Cardinality(A \cap (B \cup C)) \in Nat
        /\ Cardinality(B \cup C) \in Nat
    BY <1>1, <1>2, <1>3, <1>4, <1>5, <2>2, <2>4, FS_CardinalityType
  <2>6. Cardinality(Objects) <= Cardinality(A \cup (B \cup C))
    BY <2>1, <2>3, FS_Subset
  <2> QED BY <1>1, <1>2, <1>3, <1>4, <1>5, <2>2, <2>3, <2>5, <2>6
<1> QED BY <1>7 DEF NewObject

-----------------------------------------------------------------------------
(* One step of one reactor.                                                *)

LEMMA RespInitially == RespInit => RespInv
<1> SUFFICES ASSUME RespInit PROVE RespInv
  OBVIOUS
<1>1. /\ map = [k \in Keys |-> NULL] /\ clock = 0
      /\ call = [r \in Reactors |-> NULL] /\ reply = [r \in Reactors |-> NULL]
      /\ pc = [r \in Reactors |-> "idle"] /\ reg = [r \in Reactors |-> Clear]
  BY DEF RespInit
<1>2. IsReg(Clear) /\ Clear.cur = NULL /\ Clear.obj = NULL
  BY DEF Clear, IsReg
<1>3. RespTypes
  BY <1>1 DEF RespTypes, Steps
<1>4. ASSUME NEW r \in Reactors PROVE Local(r) /\ pc[r] = "idle"
  <2>1. pc[r] = "idle" /\ call[r] = NULL /\ reg[r] = Clear
    BY <1>1
  <2> QED BY <1>2, <2>1 DEF Local
<1> QED BY <1>3, <1>4 DEF RespInv, Unused

\* What goes under r's key without disturbing what the others have read: nothing,
\* the value that is there, or one at an address they do not refer to.
Harmless(r, e) ==
  /\ e \in Entries \cup {NULL}
  /\ e # NULL =>
       \/ map[key(r)] # NULL /\ e.obj = map[key(r)].obj /\ e.data = map[key(r)].data
       \/ \A q \in Reactors \ {r} : e.obj # reg[q].cur /\ e.obj # reg[q].obj

\* Of the other reactors nothing changes.
Elsewhere(r) ==
  \A q \in Reactors \ {r} :
    pc'[q] = pc[q] /\ reg'[q] = reg[q] /\ call'[q] = call[q] /\ reply'[q] = reply[q]

(* The invariant of the others is kept by a harmless step.                 *)
LEMMA StepKeeps ==
  ASSUME RespInv, NEW r \in Reactors, RespTypes', Elsewhere(r), key(r) \in Keys,
         NEW e, Harmless(r, e), Keep(r, e),
         \/ reg'[r].cur = NULL \/ reg'[r].cur = reg[r].cur
         \/ map[key(r)] # NULL /\ reg'[r].cur = map[key(r)].obj,
         \/ reg'[r].obj = NULL \/ reg'[r].obj = reg[r].obj
         \/ \A q \in Reactors \ {r} : reg'[r].obj # reg[q].obj,
         Local(r)', pc'[r] # "idle" => Reads(r)', Unused(r)'
  PROVE  RespInv'
<1>1. ASSUME NEW q \in Reactors, q # r PROVE (Local(q) /\ (pc[q] # "idle" => Reads(q)) /\ Unused(q))'
  <2>1. pc'[q] = pc[q] /\ reg'[q] = reg[q] /\ call'[q] = call[q] /\ reply'[q] = reply[q]
    BY <1>1 DEF Elsewhere
  <2>2. Local(q) /\ (pc[q] # "idle" => Reads(q)) /\ Unused(q)
    BY DEF RespInv
  <2>3. Local(q)'
    BY <2>1, <2>2 DEF Local, IsReg, Plain, Clear
  <2>4. map' = [map EXCEPT ![key(r)] = e] /\ map \in [Keys -> Entries \cup {NULL}]
    BY DEF Keep, RespInv, RespTypes
  <2>5. ASSUME NEW k \in Keys, map'[k] # NULL
        PROVE  \/ map[k] # NULL /\ map'[k].obj = map[k].obj /\ map'[k].data = map[k].data
               \/ map'[k].obj # reg[q].cur /\ map'[k].obj # reg[q].obj
    <3>1. CASE k = key(r)
      BY <1>1, <2>4, <2>5, <3>1 DEF Harmless
    <3>2. CASE k # key(r)
      BY <2>4, <2>5, <3>2
    <3> QED BY <3>1, <3>2
  <2>6. pc'[q] # "idle" => Reads(q)'
    <3> SUFFICES ASSUME pc[q] # "idle" PROVE Reads(q)'
      BY <2>1
    <3>1. key(q)' = key(q) /\ \A d : Made(q, d)' <=> Made(q, d)
      BY <2>1 DEF key, Made
    <3>2. key(q) \in Keys
      BY <2>2 DEF key, Local, RespInv, RespTypes
    <3>3. Reads(q)
      BY <2>2
    <3>4. pc[q] = "swap" => reg[q].obj # NULL
      BY <2>2 DEF Local
    <3>5. CASE map'[key(q)] = NULL
      BY <2>1, <3>1, <3>3, <3>5 DEF Reads
    <3>6. CASE map'[key(q)] # NULL
      <4>1. \/ map[key(q)] # NULL /\ map'[key(q)].obj = map[key(q)].obj /\ map'[key(q)].data = map[key(q)].data
            \/ map'[key(q)].obj # reg[q].cur /\ map'[key(q)].obj # reg[q].obj
        BY <2>5, <3>2, <3>6
      <4> QED BY <2>1, <3>1, <3>3, <4>1 DEF Reads
    <3> QED BY <3>5, <3>6
  <2>7. Unused(q)'
    <3> SUFFICES ASSUME pc[q] = "swap" PROVE Unused(q)'
      BY <2>1 DEF Unused
    <3>1. reg[q].obj \in Objects
      BY <2>2 DEF Local, IsReg
    <3>2. /\ \A k \in Keys : map[k] # NULL => map[k].obj # reg[q].obj
          /\ \A p \in Reactors : reg[p].cur # reg[q].obj /\ (p # q => reg[p].obj # reg[q].obj)
      BY <2>2 DEF Unused
    <3>3. \A k \in Keys : map'[k] # NULL => map'[k].obj # reg'[q].obj
      BY <2>1, <2>5, <3>2
    <3>4. reg'[r].cur # reg[q].obj /\ reg'[r].obj # reg[q].obj
      BY <1>1, <3>1, <3>2
    <3>5. ASSUME NEW p \in Reactors PROVE reg'[p].cur # reg'[q].obj /\ (p # q => reg'[p].obj # reg'[q].obj)
      <4>1. CASE p = r
        BY <2>1, <3>4, <4>1
      <4>2. CASE p # r
        BY <2>1, <3>2, <4>2 DEF Elsewhere
      <4> QED BY <4>1, <4>2
    <3> QED BY <3>3, <3>5 DEF Unused
  <2> QED BY <2>3, <2>6, <2>7
<1> QED BY <1>1 DEF RespInv

(* What a reactor that serves a command knows of its entry.                *)
LEMMA Serving ==
  ASSUME RespInv, NEW r \in Reactors, pc[r] # "idle"
  PROVE  /\ call[r] \in Commands /\ key(r) \in Keys /\ call[r] # NULL
         /\ Live(r) \in Entries \cup {NULL}
         /\ Live(r) # NULL => map[key(r)] # NULL /\ Live(r) = map[key(r)]
         /\ Local(r) /\ Reads(r) /\ Unused(r)
         /\ Harmless(r, NULL) /\ Harmless(r, Live(r))
         /\ \A n \in Nat : Live(r) # NULL => /\ [Live(r) EXCEPT !.expiry = n] \in Entries
                                             /\ Harmless(r, [Live(r) EXCEPT !.expiry = n])
<1>1. Local(r) /\ Reads(r) /\ Unused(r)
  BY DEF RespInv
<1>2. call[r] # NULL /\ call[r] \in Commands
  BY <1>1 DEF Local, RespInv, RespTypes
<1>3. key(r) \in Keys
  BY <1>2 DEF key
<1>4. map[key(r)] \in Entries \cup {NULL}
  BY <1>3 DEF RespInv, RespTypes
<1>5. Live(r) \in Entries \cup {NULL} /\ (Live(r) # NULL => map[key(r)] # NULL /\ Live(r) = map[key(r)])
  BY <1>4 DEF Live
<1>6. Harmless(r, NULL) /\ Harmless(r, Live(r))
  BY <1>5 DEF Harmless
<1>7. ASSUME NEW n \in Nat, Live(r) # NULL
      PROVE  /\ [Live(r) EXCEPT !.expiry = n] \in Entries
             /\ Harmless(r, [Live(r) EXCEPT !.expiry = n])
  <2> DEFINE e == [Live(r) EXCEPT !.expiry = n]
  <2>1. e \in Entries /\ e.obj = map[key(r)].obj /\ e.data = map[key(r)].data
    BY <1>5, <1>7 DEF Entries
  <2> HIDE DEF e
  <2>2. Harmless(r, e)
    BY <1>5, <1>7, <2>1 DEF Harmless
  <2> QED BY <2>1, <2>2 DEF e
<1> QED BY <1>1, <1>2, <1>3, <1>5, <1>6, <1>7

(* The reply ends a command.                                               *)
LEMMA ReturnKeeps ==
  ASSUME RespInv, NEW r \in Reactors, pc[r] # "idle", NEW e, Harmless(r, e), Keep(r, e),
         NEW x, Return(r, x)
  PROVE  RespInv'
<1>1. /\ reply' = [reply EXCEPT ![r] = x] /\ call' = [call EXCEPT ![r] = NULL]
      /\ pc' = [pc EXCEPT ![r] = "idle"] /\ reg' = [reg EXCEPT ![r] = Clear]
      /\ clock' = clock
  BY DEF Return
<1>2. RespTypes /\ key(r) \in Keys
  BY Serving DEF RespInv
<1>3. /\ Elsewhere(r) /\ pc'[r] = "idle" /\ call'[r] = NULL /\ reg'[r] = Clear
  BY <1>1, <1>2 DEF Elsewhere, RespTypes
<1>4. RespTypes'
  BY <1>1, <1>2 DEF RespTypes, Keep, Harmless, Steps
<1>5. IsReg(Clear) /\ Clear.cur = NULL /\ Clear.obj = NULL
  BY DEF Clear, IsReg
<1>6. Local(r)'
  BY <1>3, <1>5 DEF Local, Clear, IsReg
<1>7. Unused(r)'
  BY <1>3 DEF Unused
<1> QED BY <1>2, <1>3, <1>4, <1>5, <1>6, <1>7, StepKeeps

(* A step that goes on: what is left to show is about r's own locals.      *)
LEMMA ContinueKeeps ==
  ASSUME RespInv, NEW r \in Reactors, pc[r] # "idle", NEW e, Harmless(r, e), Keep(r, e),
         NEW step \in Steps \ {"idle"}, NEW l, IsReg(l), Continue(r, step, l),
         \/ l.cur = NULL \/ l.cur = reg[r].cur
         \/ map[key(r)] # NULL /\ l.cur = map[key(r)].obj,
         \/ l.obj = NULL \/ l.obj = reg[r].obj
         \/ \A q \in Reactors \ {r} : l.obj # reg[q].obj,
         step \in {"lookup", "swap"} => call[r].name \in Copying,
         step \in {"peek", "touch"} => Plain(call[r]),
         step \in {"set", "why"} => call[r].name = "set",
         step = "why" => call[r].cond # "always",
         step \in {"ex_peek", "ex_touch"} => call[r].name = "set" /\ call[r].ttl # 0,
         step \in {"persist", "persist_clear"} => call[r].name = "persist",
         step \notin {"del", "expire", "ttl"},
         step \notin {"swap", "touch", "ex_peek", "ex_touch"} => l.cur = NULL /\ l.obj = NULL,
         step = "swap" => l.obj # NULL,
         step = "ex_touch" => l.deadline # 0,
         pc'[r] = step /\ reg'[r] = l => Reads(r)' /\ Unused(r)'
  PROVE  RespInv'
<1>1. /\ UNCHANGED <<reply, call, clock>>
      /\ pc' = [pc EXCEPT ![r] = step] /\ reg' = [reg EXCEPT ![r] = l]
  BY DEF Continue
<1>2. RespTypes /\ key(r) \in Keys /\ Local(r) /\ call[r] # NULL
  BY Serving DEF RespInv
<1>3. Elsewhere(r) /\ pc'[r] = step /\ call'[r] = call[r] /\ reply'[r] = reply[r] /\ reg'[r] = l
  BY <1>1, <1>2 DEF Elsewhere, RespTypes
<1>4. RespTypes'
  BY <1>1, <1>2 DEF RespTypes, Keep, Harmless, Steps
<1>5. Local(r)'
  <2>1. IsReg(reg'[r])
    BY <1>3
  <2>2. IsReg(reg[r])'
    BY <2>1 DEF IsReg
  <2> QED BY <1>2, <1>3, <2>2 DEF Local, Plain
<1>6. Reads(r)' /\ Unused(r)'
  BY <1>3
<1> QED BY <1>2, <1>3, <1>4, <1>5, <1>6, StepKeeps

(* A step that goes on with no address in its locals.                      *)
LEMMA PlainKeeps ==
  ASSUME RespInv, NEW r \in Reactors, pc[r] # "idle", NEW e, Harmless(r, e), Keep(r, e),
         NEW step \in {"lookup", "set", "why", "persist_clear"}, NEW l, IsReg(l), Continue(r, step, l),
         l.cur = NULL, l.obj = NULL,
         step = "lookup" => call[r].name \in Copying,
         step \in {"set", "why"} => call[r].name = "set",
         step = "why" => call[r].cond # "always",
         step = "persist_clear" => call[r].name = "persist"
  PROVE  RespInv'
<1>1. pc'[r] = step => Reads(r)' /\ Unused(r)'
  BY DEF Reads, Unused
<1>2. step \in Steps \ {"idle"}
  BY DEF Steps
<1> QED BY <1>1, <1>2, ContinueKeeps

LEMMA ClearFacts ==
  /\ IsReg(Clear) /\ Clear.cur = NULL /\ Clear.obj = NULL
  /\ \A n : LET l == [Clear EXCEPT !.retries = n] IN IsReg(l) /\ l.cur = NULL /\ l.obj = NULL
BY DEF Clear, IsReg

-----------------------------------------------------------------------------
(* The actions.                                                            *)

LEMMA LookupKeeps == ASSUME RespInv, NEW r \in Reactors, Lookup(r) PROVE RespInv'
<1> DEFINE e == Live(r)
           d == IF e = NULL THEN NULL ELSE e.data
           effect == Effect(call[r], d)
           l == [reg[r] EXCEPT !.cur = IF e = NULL THEN NULL ELSE e.obj, !.obj = NewObject,
                               !.data = effect.data, !.then = effect.reply]
<1>1. pc[r] = "lookup" /\ Keep(r, e)
  BY DEF Lookup, Sweep
<1>2. /\ call[r] \in Commands /\ Local(r) /\ Harmless(r, e)
      /\ e \in Entries \cup {NULL}
      /\ e # NULL => map[key(r)] # NULL /\ e = map[key(r)]
      /\ key(r) \in Keys
  BY <1>1, Serving
<1>3. CASE ~effect.writes
  <2>1. Return(r, effect.reply)
    BY <1>3 DEF Lookup
  <2> QED BY <1>1, <1>2, <2>1, ReturnKeeps
<1>4. CASE effect.writes
  <2>1. Continue(r, "swap", l)
    BY <1>4 DEF Lookup
  <2>2. call[r].name \in Copying /\ reg[r].cur = NULL /\ reg[r].obj = NULL /\ IsReg(reg[r])
    BY <1>1, <1>2 DEF Local
  <2>3. d \in Datas \cup {NULL}
    BY <1>2 DEF Entries
  <2>4. effect.data \in Datas \cup {NULL}
    <3> HIDE DEF d
    <3> QED BY <1>2, <1>4, <2>2, <2>3, EffectTyped
  <2>5. NewObject \in Objects /\ NewObject \notin Referenced
    BY <2>2, NewObjectIsFresh
  <2>6. e # NULL => e.obj \in Objects
    BY <1>2 DEF Entries
  <2>a. \A q \in Reactors : reg[q].obj \in Referenced /\ reg[q].cur \in Referenced
    BY DEF Referenced
  <2>b. \A k \in Keys : map[k] # NULL => map[k].obj \in Referenced
    BY DEF Referenced
  <2> DEFINE cur == IF e = NULL THEN NULL ELSE e.obj
             new == NewObject
             data == effect.data
             then == effect.reply
  <2>c. cur \in Objects \cup {NULL} /\ cur # new
    BY <1>2, <2>5, <2>6, <2>b
  <2>7. /\ IsReg(l) /\ l.cur = cur /\ l.obj = new /\ l.data = data /\ l.then = then
    <3>1. l = [reg[r] EXCEPT !.cur = cur, !.obj = new, !.data = data, !.then = then]
      OBVIOUS
    <3> HIDE DEF cur, new, data, then, l
    <3>2. /\ l.cur = cur /\ l.obj = new /\ l.data = data /\ l.then = then
          /\ l.retries = reg[r].retries /\ l.deadline = reg[r].deadline
          /\ l = [cur |-> l.cur, obj |-> l.obj, data |-> l.data, then |-> l.then,
                  retries |-> l.retries, deadline |-> l.deadline]
      BY <2>2, <3>1 DEF IsReg
    <3>3. new \in Objects /\ data \in Datas \cup {NULL}
      BY <2>4, <2>5 DEF new, data
    <3> QED BY <2>2, <2>c, <3>2, <3>3 DEF IsReg
  <2>8. call' = call /\ map' = [map EXCEPT ![key(r)] = e] /\ map \in [Keys -> Entries \cup {NULL}]
    BY <1>1, <2>1 DEF Keep, Continue, RespInv, RespTypes
  <2> HIDE DEF l
  <2>9. ASSUME pc'[r] = "swap", reg'[r] = l PROVE Reads(r)'
    <3>1. key(r)' = key(r) /\ map'[key(r)] = e
      BY <1>2, <2>8 DEF key
    <3>2. \A z : Made(r, z)' <=> (Effect(call[r], z).writes /\ data = Effect(call[r], z).data
                                  /\ then = Effect(call[r], z).reply)
      BY <2>7, <2>8, <2>9 DEF Made
    <3>a. PICK z : z = d
      OBVIOUS
    <3>3. Made(r, z)'
      BY <1>4, <3>2, <3>a
    <3>4. reg'[r].cur = cur
      BY <2>7, <2>9
    <3>5. CASE e = NULL
      <4>1. z = NULL /\ map'[key(r)'] = NULL
        BY <3>1, <3>a, <3>5
      <4> QED BY <2>9, <3>3, <4>1 DEF Reads
    <3>6. CASE e # NULL
      <4>1. reg'[r].cur # NULL /\ z = map'[key(r)'].data
        BY <2>6, <3>1, <3>4, <3>6, <3>a
      <4>2. Made(r, map[key(r)].data)'
        BY <3>3, <4>1
      <4> QED BY <2>9, <4>1, <4>2 DEF Reads
    <3> QED BY <3>5, <3>6
  <2>10. ASSUME pc'[r] = "swap", reg'[r] = l PROVE Unused(r)'
    <3>1. \A k \in Keys : map'[k] # NULL => map'[k].obj # reg'[r].obj
      <4> SUFFICES ASSUME NEW k \in Keys, map'[k] # NULL PROVE map'[k].obj # new
        BY <2>7, <2>10
      <4>1. map[k] # NULL /\ map'[k] = map[k]
        BY <1>2, <2>8
      <4> QED BY <2>5, <2>b, <4>1
    <3>2. ASSUME NEW q \in Reactors PROVE reg'[q].cur # reg'[r].obj /\ (q # r => reg'[q].obj # reg'[r].obj)
      <4>1. CASE q = r
        BY <2>7, <2>10, <2>c, <4>1
      <4>2. CASE q # r
        <5>1. reg'[q] = reg[q]
          BY <2>1, <4>2 DEF Continue, RespInv, RespTypes
        <5> QED BY <2>5, <2>7, <2>10, <2>a, <5>1
      <4> QED BY <4>1, <4>2
    <3> QED BY <3>1, <3>2 DEF Unused
  <2>11. \A q \in Reactors \ {r} : l.obj # reg[q].obj
    BY <2>5, <2>7, <2>a
  <2>12. l.cur = NULL \/ (map[key(r)] # NULL /\ l.cur = map[key(r)].obj)
    BY <1>2, <2>7
  <2>13. l.obj # NULL
    BY <2>5, <2>7
  <2>14. "swap" \in Steps \ {"idle"}
    BY DEF Steps
  <2> HIDE DEF e
  <2> QED BY <1>1, <1>2, <2>1, <2>2, <2>7, <2>9, <2>10, <2>11, <2>12, <2>13, <2>14, ContinueKeeps
<1> QED BY <1>3, <1>4

(* A value at an address that r has just made, or has made before it read. *)
LEMMA EntryFacts ==
  ASSUME NEW r \in Reactors, NEW o \in Objects, NEW d \in Datas, NEW n \in Nat,
         \A q \in Reactors \ {r} : o # reg[q].cur /\ o # reg[q].obj
  PROVE  /\ Entry(o, d, n) \in Entries /\ Entry(o, d, n) # NULL /\ Harmless(r, Entry(o, d, n))
         /\ Entry(o, d, n).obj = o /\ Entry(o, d, n).data = d /\ Entry(o, d, n).expiry = n
<1>1. Entry(o, d, n) \in Entries /\ Entry(o, d, n).obj = o
      /\ Entry(o, d, n).data = d /\ Entry(o, d, n).expiry = n
  BY DEF Entry, Entries
<1> QED BY <1>1 DEF Harmless

(* What goes in with a swap is what the command makes of what is there.    *)
LEMMA SwapFacts ==
  ASSUME RespInv, NEW r \in Reactors, pc[r] = "swap"
  PROVE  /\ call[r].name \in Copying
         /\ reg[r].cur = NULL => Made(r, NULL) /\ reg[r].data \in Datas
         /\ reg[r].cur # NULL /\ Same(r) => /\ Live(r) # NULL
                                            /\ Made(r, Live(r).data)
         /\ reg[r].data \in Datas \cup {NULL}
         /\ \A n \in Nat : reg[r].data # NULL => /\ Entry(reg[r].obj, reg[r].data, n) \in Entries
                                                 /\ Harmless(r, Entry(reg[r].obj, reg[r].data, n))
<1>1. /\ Local(r) /\ Reads(r) /\ Unused(r) /\ call[r] \in Commands
      /\ Live(r) # NULL => map[key(r)] # NULL /\ Live(r) = map[key(r)]
  BY Serving
<1>2. /\ call[r].name \in Copying /\ reg[r].obj # NULL
      /\ reg[r].obj \in Objects \cup {NULL} /\ reg[r].data \in Datas \cup {NULL}
  BY <1>1 DEF Local, IsReg
<1>3. reg[r].cur = NULL => Made(r, NULL) /\ reg[r].data \in Datas
  <2> SUFFICES ASSUME reg[r].cur = NULL PROVE Made(r, NULL) /\ reg[r].data \in Datas
    OBVIOUS
  <2>1. Made(r, NULL)
    BY <1>1 DEF Reads
  <2>2. Effect(call[r], NULL).writes /\ reg[r].data = Effect(call[r], NULL).data
    BY <2>1 DEF Made
  <2>3. reg[r].data # NULL
    BY <1>1, <1>2, <2>2, EffectTyped
  <2> QED BY <1>2, <2>1, <2>3
<1>4. reg[r].cur # NULL /\ Same(r) => Live(r) # NULL /\ Made(r, Live(r).data)
  BY <1>1 DEF Same, Reads
<1>5. \A q \in Reactors \ {r} : reg[r].obj # reg[q].cur /\ reg[r].obj # reg[q].obj
  BY <1>1 DEF Unused
<1> QED BY <1>2, <1>3, <1>4, <1>5, EntryFacts

LEMMA SwapKeeps == ASSUME RespInv, NEW r \in Reactors, Swap(r) PROVE RespInv'
<1>1. pc[r] = "swap"
  BY DEF Swap
<1>2. CASE reg[r].cur # NULL /\ Same(r) /\ Keep(r, IF reg[r].data = NULL THEN NULL ELSE Entry(reg[r].obj, reg[r].data, Kept(r)))
           /\ Return(r, reg[r].then)
  <2>1. Kept(r) \in Nat
    BY <1>1, <1>2, Serving DEF Kept, Entries, Same
  <2>2. Harmless(r, IF reg[r].data = NULL THEN NULL ELSE Entry(reg[r].obj, reg[r].data, Kept(r)))
    BY <1>1, <2>1, SwapFacts, Serving
  <2> QED BY <1>1, <1>2, <2>2, ReturnKeeps
<1>3. CASE reg[r].cur = NULL /\ Keep(r, Entry(reg[r].obj, reg[r].data, 0)) /\ Return(r, reg[r].then)
  <2>1. Harmless(r, Entry(reg[r].obj, reg[r].data, 0))
    BY <1>1, <1>3, SwapFacts
  <2> QED BY <1>1, <1>3, <2>1, ReturnKeeps
<1>4. CASE Sweep(r) /\ Retry(r)
  <2>1. Keep(r, Live(r)) /\ Harmless(r, Live(r))
    BY <1>1, <1>4, Serving DEF Sweep
  <2>2. CASE GivesUp(r)
    BY <1>1, <1>4, <2>1, <2>2, ReturnKeeps DEF Retry, Error
  <2>3. CASE ~GivesUp(r)
    <3>1. Continue(r, "lookup", [Clear EXCEPT !.retries = Counted(r)])
      BY <1>4, <2>3 DEF Retry
    <3>2. call[r].name \in Copying
      BY <1>1, SwapFacts
    <3> DEFINE l == [Clear EXCEPT !.retries = Counted(r)]
    <3>3. IsReg(l) /\ l.cur = NULL /\ l.obj = NULL
      BY ClearFacts
    <3> HIDE DEF l
    <3> QED BY <1>1, <2>1, <3>1, <3>2, <3>3, PlainKeeps DEF l
  <2> QED BY <2>2, <2>3
<1> QED BY <1>2, <1>3, <1>4 DEF Swap

LEMMA PeekKeeps == ASSUME RespInv, NEW r \in Reactors, Peek(r) PROVE RespInv'
<1> DEFINE e == Live(r)
           l == [reg[r] EXCEPT !.cur = e.obj]
<1>1. pc[r] = "peek" /\ Keep(r, e)
  BY DEF Peek, Sweep
<1>2. /\ call[r] \in Commands /\ Local(r) /\ Harmless(r, e) /\ key(r) \in Keys
      /\ e \in Entries \cup {NULL}
      /\ e # NULL => map[key(r)] # NULL /\ e = map[key(r)]
  BY <1>1, Serving
<1>3. Plain(call[r]) /\ IsReg(reg[r]) /\ reg[r].cur = NULL /\ reg[r].obj = NULL
  BY <1>1, <1>2 DEF Local
<1>4. CASE Continue(r, "set", reg[r])
  <2>1. call[r].name = "set"
    BY <1>3 DEF Plain
  <2> QED BY <1>1, <1>2, <1>3, <1>4, <2>1, PlainKeeps
<1>5. CASE e # NULL /\ e.data.type = "blob" /\ e.data.body = <<call[r].arg>> /\ Continue(r, "touch", l)
  <2>1. e.obj \in Objects /\ e.data \in Datas
    BY <1>2, <1>5 DEF Entries
  <2>2. e.data = Blob(<<call[r].arg>>)
    BY <1>5, <2>1, DataTypes DEF Blob
  <2>3. IsReg(l) /\ l.cur = e.obj /\ l.obj = NULL
    BY <1>3, <2>1 DEF IsReg
  <2>4. call' = call /\ map' = [map EXCEPT ![key(r)] = e] /\ map \in [Keys -> Entries \cup {NULL}]
    BY <1>1, <1>5 DEF Keep, Continue, RespInv, RespTypes
  <2>5. pc'[r] = "touch" => Reads(r)' /\ Unused(r)'
    <3>1. map'[key(r)'].data = Blob(<<call'[r].arg>>)
      BY <1>2, <2>2, <2>4 DEF key
    <3>2. Blob(<<call[r].arg>>)' = Blob(<<call'[r].arg>>)
      BY DEF Blob
    <3> QED BY <3>1, <3>2 DEF Reads, Unused
  <2>6. "touch" \in Steps \ {"idle"}
    BY DEF Steps
  <2> HIDE DEF l
  <2>7. l.cur = map[key(r)].obj /\ map[key(r)] # NULL
    BY <1>2, <1>5, <2>3
  <2> HIDE DEF e
  <2> QED BY <1>1, <1>2, <1>3, <1>5, <2>3, <2>5, <2>6, <2>7, ContinueKeeps
<1> QED BY <1>4, <1>5 DEF Peek

LEMMA TouchKeeps == ASSUME RespInv, NEW r \in Reactors, Touch(r) PROVE RespInv'
<1>1. pc[r] = "touch"
  BY DEF Touch
<1>2. CASE Same(r)
  <2>1. Keep(r, [Live(r) EXCEPT !.expiry = 0]) /\ Return(r, Text("OK")) /\ Live(r) # NULL
    BY <1>2 DEF Touch, Same
  <2>2. Harmless(r, [Live(r) EXCEPT !.expiry = 0])
    BY <1>1, <2>1, Serving
  <2> QED BY <1>1, <2>1, <2>2, ReturnKeeps
<1>3. CASE ~Same(r)
  <2>1. Keep(r, Live(r)) /\ Continue(r, "set", Clear) /\ Harmless(r, Live(r)) /\ Local(r)
    BY <1>1, <1>3, Serving DEF Touch, Sweep
  <2>2. call[r].name = "set"
    BY <1>1, <2>1 DEF Local, Plain
  <2> QED BY <1>1, <2>1, <2>2, ClearFacts, PlainKeeps
<1> QED BY <1>2, <1>3

LEMMA WriteKeeps == ASSUME RespInv, NEW r \in Reactors, Write(r) PROVE RespInv'
<1> DEFINE o == NewObject
           d == Blob(<<call[r].arg>>)
           l == [Clear EXCEPT !.obj = o]
<1>1. pc[r] = "set"
  BY DEF Write
<1>2. call[r] \in Commands /\ Local(r) /\ Harmless(r, Live(r)) /\ key(r) \in Keys
  BY <1>1, Serving
<1>3. call[r].name = "set" /\ reg[r].cur = NULL /\ reg[r].obj = NULL
  BY <1>1, <1>2 DEF Local
<1>4. o \in Objects /\ o \notin Referenced
  BY <1>3, NewObjectIsFresh
<1>5. d \in Datas
  <2>1. call[r].arg \in Atoms
    BY <1>2, <1>3 DEF Atoms
  <2>2. <<call[r].arg>> \in Seq(Atoms)
    BY <2>1
  <2> QED BY <2>2, DataTypes
<1>6. \A q \in Reactors \ {r} : o # reg[q].cur /\ o # reg[q].obj
  BY <1>4 DEF Referenced
<1> HIDE DEF o, d
<1>7. Harmless(r, Entry(o, d, 0))
  BY <1>4, <1>5, <1>6, EntryFacts
<1>8. CASE Keep(r, Entry(o, d, 0)) /\ Return(r, Text("OK"))
  BY <1>1, <1>7, <1>8, ReturnKeeps
<1>9. CASE Keep(r, Entry(o, d, 0)) /\ HasTtl(r) /\ Continue(r, "ex_peek", l)
  <2>1. IsReg(l) /\ l.cur = NULL /\ l.obj = o
    BY <1>4 DEF IsReg, Clear
  <2>2. pc'[r] = "ex_peek" => Reads(r)' /\ Unused(r)'
    BY DEF Reads, Unused
  <2>3. call[r].ttl # 0
    BY <1>9 DEF HasTtl
  <2>4. "ex_peek" \in Steps \ {"idle"}
    BY DEF Steps
  <2> HIDE DEF l
  <2> QED BY <1>1, <1>3, <1>6, <1>7, <1>9, <2>1, <2>2, <2>3, <2>4, ContinueKeeps
<1>10. CASE Sweep(r) /\ call[r].cond = "always" /\ Error(r)
  BY <1>1, <1>2, <1>10, ReturnKeeps DEF Error, Sweep
<1>11. CASE Sweep(r) /\ call[r].cond # "always" /\ Continue(r, "why", Clear)
  BY <1>1, <1>2, <1>3, <1>11, ClearFacts, PlainKeeps DEF Sweep
<1> QED BY <1>8, <1>9, <1>10, <1>11 DEF Write, o, d

LEMMA WhyKeeps == ASSUME RespInv, NEW r \in Reactors, Why(r) PROVE RespInv'
<1>1. pc[r] = "why" /\ Keep(r, Live(r)) /\ (Return(r, Text("error")) \/ Return(r, Text("nil")))
  BY DEF Why, Sweep, Error
<1> QED BY <1>1, Serving, ReturnKeeps

LEMMA ExPeekKeeps == ASSUME RespInv, NEW r \in Reactors, ExPeek(r) PROVE RespInv'
<1> DEFINE e == Live(r)
           n == clock + call[r].ttl
           l == [reg[r] EXCEPT !.cur = e.obj, !.deadline = n]
<1>1. pc[r] = "ex_peek" /\ Keep(r, e)
  BY DEF ExPeek, Sweep
<1>2. /\ call[r] \in Commands /\ Local(r) /\ Harmless(r, e) /\ key(r) \in Keys
      /\ e \in Entries \cup {NULL}
      /\ e # NULL => map[key(r)] # NULL /\ e = map[key(r)]
  BY <1>1, Serving
<1>3. CASE Return(r, Text("OK"))
  BY <1>1, <1>2, <1>3, ReturnKeeps
<1>4. CASE e # NULL /\ Continue(r, "ex_touch", l)
  <2>1. call[r].name = "set" /\ call[r].ttl # 0 /\ IsReg(reg[r])
    BY <1>1, <1>2 DEF Local
  <2>2. n \in Nat /\ n # 0
    <3>1. clock \in Nat /\ call[r].ttl \in Nat
      BY <1>2, <2>1 DEF RespInv, RespTypes
    <3> QED BY <2>1, <3>1
  <2> HIDE DEF n
  <2>3. e.obj \in Objects
    BY <1>2, <1>4 DEF Entries
  <2>4. IsReg(l) /\ l.cur = e.obj /\ l.obj = reg[r].obj /\ l.deadline = n
    <3> DEFINE cur == e.obj
    <3>1. l = [reg[r] EXCEPT !.cur = cur, !.deadline = n] /\ cur \in Objects
      BY <2>3
    <3> HIDE DEF cur, l
    <3>2. /\ l.cur = cur /\ l.obj = reg[r].obj /\ l.deadline = n
          /\ l.data = reg[r].data /\ l.then = reg[r].then /\ l.retries = reg[r].retries
          /\ l = [cur |-> l.cur, obj |-> l.obj, data |-> l.data, then |-> l.then,
                  retries |-> l.retries, deadline |-> l.deadline]
      BY <2>1, <3>1 DEF IsReg
    <3> QED BY <2>1, <2>2, <3>1, <3>2 DEF IsReg, cur
  <2>5. call' = call /\ map' = [map EXCEPT ![key(r)] = e] /\ map \in [Keys -> Entries \cup {NULL}]
    BY <1>1, <1>4 DEF Keep, Continue, RespInv, RespTypes
  <2> HIDE DEF l
  <2>6. pc'[r] = "ex_touch" /\ reg'[r] = l => Reads(r)' /\ Unused(r)'
    <3>1. map'[key(r)'] = e
      BY <1>2, <2>5 DEF key
    <3> QED BY <2>4, <3>1 DEF Reads, Unused
  <2>7. "ex_touch" \in Steps \ {"idle"}
    BY DEF Steps
  <2>8. l.cur = map[key(r)].obj /\ map[key(r)] # NULL /\ l.deadline # 0
    BY <1>2, <1>4, <2>2, <2>4
  <2> HIDE DEF e
  <2> QED BY <1>1, <1>2, <1>4, <2>1, <2>4, <2>6, <2>7, <2>8, ContinueKeeps
<1> QED BY <1>3, <1>4 DEF ExPeek

LEMMA ExTouchKeeps == ASSUME RespInv, NEW r \in Reactors, ExTouch(r) PROVE RespInv'
<1>1. pc[r] = "ex_touch" /\ Return(r, Text("OK"))
  BY DEF ExTouch
<1>2. reg[r].deadline \in Nat
  BY <1>1, Serving DEF Local, IsReg
<1>3. PICK e : Keep(r, e) /\ Harmless(r, e)
  <2>1. CASE Same(r)
    <3>1. Keep(r, [Live(r) EXCEPT !.expiry = reg[r].deadline]) /\ Live(r) # NULL
      BY <2>1 DEF ExTouch, Same
    <3>2. Harmless(r, [Live(r) EXCEPT !.expiry = reg[r].deadline])
      BY <1>1, <1>2, <3>1, Serving
    <3> QED BY <3>1, <3>2
  <2>2. CASE ~Same(r)
    BY <1>1, <2>2, Serving DEF ExTouch, Sweep
  <2> QED BY <2>1, <2>2
<1> QED BY <1>1, <1>3, ReturnKeeps

LEMMA OneStepKeeps ==
  ASSUME RespInv, NEW r \in Reactors, Del(r) \/ Expire(r) \/ Ttl(r) \/ PersistRead(r) \/ PersistClear(r)
  PROVE  RespInv'
<1>1. CASE Del(r)
  <2>1. pc[r] = "del" /\ Keep(r, NULL)
    BY <1>1 DEF Del
  <2> QED BY <1>1, <2>1, Serving, ReturnKeeps DEF Del
<1>2. CASE Expire(r)
  <2>1. pc[r] = "expire"
    BY <1>2 DEF Expire
  <2>2. clock + call[r].ttl \in Nat
    <3>1. call[r] \in Commands /\ call[r].name = "expire"
      BY <2>1, Serving DEF Local
    <3>2. clock \in Nat /\ call[r].ttl \in Nat
      BY <3>1 DEF RespInv, RespTypes
    <3> QED BY <3>2
  <2>3. CASE Live(r) = NULL
    BY <1>2, <2>1, <2>3, Serving, ReturnKeeps DEF Expire
  <2>4. CASE Live(r) # NULL
    <3>1. Keep(r, [Live(r) EXCEPT !.expiry = clock + call[r].ttl]) /\ Return(r, Number(1))
      BY <1>2, <2>4 DEF Expire
    <3>2. Harmless(r, [Live(r) EXCEPT !.expiry = clock + call[r].ttl])
      BY <2>1, <2>2, <2>4, Serving
    <3> QED BY <2>1, <3>1, <3>2, ReturnKeeps
  <2> QED BY <2>3, <2>4
<1>3. CASE Ttl(r)
  <2>1. pc[r] = "ttl" /\ Keep(r, Live(r))
    BY <1>3 DEF Ttl, Sweep
  <2> QED BY <1>3, <2>1, Serving, ReturnKeeps DEF Ttl
<1>4. CASE PersistRead(r)
  <2>1. pc[r] = "persist" /\ Keep(r, Live(r))
        /\ (Return(r, Number(0)) \/ Continue(r, "persist_clear", reg[r]))
    BY <1>4 DEF PersistRead, Sweep
  <2>2. /\ Local(r) /\ Harmless(r, Live(r))
        /\ IsReg(reg[r]) /\ reg[r].cur = NULL /\ reg[r].obj = NULL /\ call[r].name = "persist"
    BY <2>1, Serving DEF Local
  <2> QED BY <2>1, <2>2, ReturnKeeps, PlainKeeps
<1>5. CASE PersistClear(r)
  <2>1. pc[r] = "persist_clear" /\ Return(r, Number(1))
        /\ Keep(r, IF Live(r) = NULL THEN NULL ELSE [Live(r) EXCEPT !.expiry = 0])
    BY <1>5 DEF PersistClear
  <2>2. Harmless(r, IF Live(r) = NULL THEN NULL ELSE [Live(r) EXCEPT !.expiry = 0])
    BY <2>1, Serving
  <2> QED BY <2>1, <2>2, ReturnKeeps
<1> QED BY <1>1, <1>2, <1>3, <1>4, <1>5

LEMMA ArriveKeeps == ASSUME RespInv, NEW r \in Reactors, NEW c \in Commands, Arrive(r, c) PROVE RespInv'
<1> DEFINE step == IF c.name \in Copying THEN "lookup" ELSE IF Plain(c) THEN "peek" ELSE c.name
<1>1. /\ pc[r] = "idle" /\ call' = [call EXCEPT ![r] = c] /\ reply' = [reply EXCEPT ![r] = NULL]
      /\ pc' = [pc EXCEPT ![r] = step] /\ UNCHANGED <<map, clock, reg>>
  BY DEF Arrive
<1>2. RespTypes /\ Local(r) /\ Unused(r)
  BY DEF RespInv
<1>3. /\ step \in {"lookup", "peek", "set", "expire", "ttl", "del", "persist"}
      /\ step = "lookup" => c.name \in Copying
      /\ step = "peek" => Plain(c)
      /\ step \notin {"lookup", "peek"} => step = c.name
  OBVIOUS
<1>4. c # NULL
  OBVIOUS
<1> HIDE DEF step
<1>5. RespTypes'
  BY <1>1, <1>2, <1>3 DEF RespTypes, Steps
<1>6. pc'[r] = step /\ call'[r] = c /\ reply'[r] = NULL /\ reg'[r] = reg[r]
  BY <1>1, <1>2 DEF RespTypes
<1>7. reg[r] = Clear /\ IsReg(reg[r])
  BY <1>1, <1>2 DEF Local
<1>8. IsReg(reg[r])'
  BY <1>6, <1>7 DEF IsReg
<1>9. Local(r)'
  BY <1>3, <1>4, <1>6, <1>7, <1>8, ClearFacts DEF Local, Plain
<1>10. Reads(r)' /\ Unused(r)'
  BY <1>3, <1>6 DEF Reads, Unused
<1>11. ASSUME NEW q \in Reactors, q # r PROVE (Local(q) /\ (pc[q] # "idle" => Reads(q)) /\ Unused(q))'
  <2>1. pc'[q] = pc[q] /\ call'[q] = call[q] /\ reply'[q] = reply[q] /\ UNCHANGED <<map, reg>>
    BY <1>1, <1>2, <1>11 DEF RespTypes
  <2>2. Local(q) /\ (pc[q] # "idle" => Reads(q)) /\ Unused(q)
    BY DEF RespInv
  <2>3. \A d : Made(q, d)' <=> Made(q, d)
    BY <2>1 DEF Made
  <2>4. Local(q)' /\ Unused(q)'
    BY <2>1, <2>2 DEF Local, Unused, IsReg, Plain
  <2>5. (pc[q] # "idle" => Reads(q))'
    BY <2>1, <2>2, <2>3 DEF Reads, key
  <2> QED BY <2>4, <2>5
<1> QED BY <1>5, <1>9, <1>10, <1>11 DEF RespInv

(* Entries that lapse, and time, take nothing from what is known of those  *)
(* that stay.                                                              *)
LEMMA LapseKeeps ==
  ASSUME RespInv, map' \in [Keys -> Entries \cup {NULL}], clock' \in Nat,
         \A k \in Keys : map'[k] # NULL => map'[k] = map[k],
         UNCHANGED <<call, reply, pc, reg>>
  PROVE  RespInv'
<1>1. RespTypes'
  BY DEF RespInv, RespTypes
<1>2. ASSUME NEW q \in Reactors PROVE (Local(q) /\ (pc[q] # "idle" => Reads(q)) /\ Unused(q))'
  <2>2. Local(q) /\ (pc[q] # "idle" => Reads(q)) /\ Unused(q)
    BY DEF RespInv
  <2>3. \A d : Made(q, d)' <=> Made(q, d)
    BY DEF Made
  <2>4. Local(q)' /\ Unused(q)'
    BY <2>2 DEF Local, Unused, IsReg, Plain
  <2>5. pc[q] # "idle" => key(q) \in Keys
    BY Serving
  <2>6. (pc[q] # "idle" => Reads(q))'
    BY <2>2, <2>3, <2>5 DEF Reads, key
  <2> QED BY <2>4, <2>6
<1> QED BY <1>1, <1>2 DEF RespInv

LEMMA RespSteps == ASSUME RespInv, [RespNext]_respVars PROVE RespInv'
<1>1. ASSUME NEW r \in Reactors, Serve(r) PROVE RespInv'
  BY <1>1, LookupKeeps, SwapKeeps, PeekKeeps, TouchKeeps, WriteKeeps, WhyKeeps, ExPeekKeeps,
     ExTouchKeeps, OneStepKeeps DEF Serve
<1>2. ASSUME NEW r \in Reactors, NEW c \in Commands, Arrive(r, c) PROVE RespInv'
  BY <1>2, ArriveKeeps
<1>3. ASSUME NEW k \in Keys, Evict(k) PROVE RespInv'
  BY <1>3, LapseKeeps DEF Evict, RespInv, RespTypes
<1>4. CASE Tick
  BY <1>4, LapseKeeps DEF Tick, RespInv, RespTypes
<1>5. CASE UNCHANGED respVars
  BY <1>5, LapseKeeps DEF respVars, RespInv, RespTypes
<1> QED BY <1>1, <1>2, <1>3, <1>4, <1>5 DEF RespNext

LEMMA RespInvariant == RespSpec => []RespInv
<1>1. RespInv /\ [RespNext]_respVars => RespInv'
  BY RespSteps
<1> QED BY RespInitially, <1>1, PTL DEF RespSpec

-----------------------------------------------------------------------------
(* The promise of RedisKeys.                                               *)

LEMMA SameReplies ==
  /\ \A x : Redis!Text(x) = Text(x) /\ Redis!Number(x) = Number(x) /\ Redis!Blob(x) = Blob(x)
  /\ Redis!Copying = Copying
BY DEF Redis!Text, Text, Redis!Number, Number, Redis!Blob, Blob, Redis!Copying, Copying

LEMMA SameEffect == \A c, d : Redis!Effect(c, d) = Effect(c, d)
<1> USE DEF Redis!Text, Text, Redis!Number, Number, Redis!Blob, Blob, Redis!Bulk, Bulk, Redis!Value, Value,
            Redis!List, List, Redis!Hash, Hash, Redis!Answers, Answers, Redis!Becomes, Becomes,
            Redis!WrongType, WrongType, Redis!Nil, Nil
<1> SUFFICES ASSUME NEW c, NEW d PROVE Redis!Effect(c, d) = Effect(c, d)
  OBVIOUS
<1>1. Redis!Incr(c, d) = Incr(c, d)
  BY DEF Redis!Incr, Incr, Redis!IsInt, IsInt
<1>2. Redis!Append_(c, d) = Append_(c, d)
  BY DEF Redis!Append_, Append_
<1>3. Redis!Push(c, d) = Push(c, d)
  BY DEF Redis!Push, Push
<1>4. Redis!Pop(c, d) = Pop(c, d)
  BY DEF Redis!Pop, Pop, Redis!Shrunk, Shrunk, Redis!Front, Front, Redis!Last, Last
<1>5. Redis!HSet(c, d) = HSet(c, d)
  BY DEF Redis!HSet, HSet, Redis!Usable, Usable
<1>6. Redis!HDel(c, d) = HDel(c, d)
  BY DEF Redis!HDel, HDel
<1>7. Redis!Get(c, d) = Get(c, d)
  BY DEF Redis!Get, Get
<1> QED BY <1>1, <1>2, <1>3, <1>4, <1>5, <1>6, <1>7 DEF Redis!Effect, Effect

\* What a step may be to a client: one of RedisKeys, one of the two commands of
\* two accesses, or nothing.
Promised ==
  \/ Redis!RedisNext
  \/ \E r \in Reactors : call[r] # NULL /\ TwoAccesses(call[r]) /\ Serve(r)
  \/ UNCHANGED Redis!redisVars

(* The entry a command meets, seen through RedisKeys.                      *)
LEMMA Meets ==
  ASSUME RespInv, NEW r \in Reactors, pc[r] # "idle"
  PROVE  /\ call[r].key \in Keys
         /\ Contents[call[r].key] = Holds(map[call[r].key])
         /\ Redis!Fresh(Contents[call[r].key]) <=> Live(r) # NULL
         /\ Live(r) # NULL => /\ Contents[call[r].key].data = Live(r).data
                              /\ Contents[call[r].key].expiry = Live(r).expiry
                              /\ Contents[call[r].key] = Holds(Live(r))
                              /\ Contents[call[r].key] # NULL
         /\ Holds(NULL) = NULL
         /\ Holds(Live(r)) = IF Live(r) # NULL THEN Contents[call[r].key] ELSE NULL
<1>1. /\ call[r] \in Commands /\ key(r) \in Keys /\ key(r) = call[r].key
      /\ Live(r) # NULL => map[key(r)] # NULL /\ Live(r) = map[key(r)]
  BY Serving DEF key
<1>2. map[key(r)] \in Entries \cup {NULL}
  BY <1>1 DEF RespInv, RespTypes
<1>3. Contents[call[r].key] = Holds(map[call[r].key]) /\ Holds(NULL) = NULL
  BY <1>1 DEF Contents, Holds
<1>4. CASE map[key(r)] = NULL
  <2>1. Live(r) = NULL /\ Contents[call[r].key] = NULL
    BY <1>1, <1>3, <1>4 DEF Live
  <2> QED BY <1>1, <1>3, <2>1 DEF Redis!Fresh
<1>5. CASE map[key(r)] # NULL
  <2> DEFINE e == map[key(r)]
             h == [data |-> e.data, expiry |-> e.expiry]
  <2>1. Holds(e) = h /\ h.data = e.data /\ h.expiry = e.expiry
    BY <1>5 DEF Holds
  <2>2. e.data \in Datas /\ e.expiry \in Nat
    BY <1>2, <1>5 DEF Entries
  <2>3. h # NULL
    <3>1. h \in [data : Datas, expiry : Nat]
      BY <2>2
    <3> HIDE DEF h
    <3> QED BY <3>1
  <2>4. Contents[call[r].key] = h
    BY <1>1, <1>3, <2>1
  <2> HIDE DEF h
  <2>5. Redis!Fresh(Contents[call[r].key]) <=> ~Expired(e)
    BY <2>1, <2>3, <2>4 DEF Redis!Fresh, Expired
  <2>6. Live(r) = IF Expired(e) THEN NULL ELSE e
    BY <1>5 DEF Live
  <2> QED BY <1>1, <1>3, <1>5, <2>1, <2>3, <2>4, <2>5, <2>6
<1> QED BY <1>4, <1>5

(* An access of the keyspace, and the reply to a command.                  *)
LEMMA KeepStep ==
  ASSUME RespInv, NEW r \in Reactors, pc[r] # "idle", NEW e, Keep(r, e)
  PROVE  Contents' = [Contents EXCEPT ![call[r].key] = Holds(e)]
<1>1. map' = [map EXCEPT ![key(r)] = e] /\ map \in [Keys -> Entries \cup {NULL}] /\ key(r) = call[r].key
      /\ key(r) \in Keys
  BY Serving DEF Keep, RespInv, RespTypes, key
<1>2. \A k \in Keys : Contents'[k] = Holds(map'[k])
  BY DEF Contents, Holds
<1>3. \A k \in Keys : Contents[k] = Holds(map[k])
  BY DEF Contents
<1>4. Contents' = [k \in Keys |-> Contents'[k]] /\ Contents = [k \in Keys |-> Contents[k]]
  BY DEF Contents
<1>5. ASSUME NEW k \in Keys PROVE Contents'[k] = IF k = call[r].key THEN Holds(e) ELSE Contents[k]
  BY <1>1, <1>2, <1>3
<1> QED BY <1>1, <1>4, <1>5

LEMMA FinishStep ==
  ASSUME RespInv, NEW r \in Reactors, pc[r] # "idle", NEW e, Keep(r, e), NEW x, Return(r, x)
  PROVE  Redis!Finish(r, x, Holds(e))
<1>1. Contents' = [Contents EXCEPT ![call[r].key] = Holds(e)]
  BY KeepStep
<1> QED BY <1>1 DEF Redis!Finish, Return

(* A look that finds the entry expired removes it, and that is a lapse.    *)
LEMMA SweepStep ==
  ASSUME RespInv, NEW r \in Reactors, pc[r] # "idle", Sweep(r), UNCHANGED <<call, reply, clock>>
  PROVE  Promised
<1>1. Contents' = [Contents EXCEPT ![call[r].key] = Holds(Live(r))]
  BY KeepStep DEF Sweep
<1>2. call[r].key \in Keys /\ Contents = [k \in Keys |-> Contents[k]]
  BY Meets DEF Contents
<1>3. CASE Contents[call[r].key] = Holds(Live(r))
  <2>1. Contents' = Contents
    BY <1>1, <1>2, <1>3
  <2> QED BY <2>1 DEF Promised, Redis!redisVars
<1>4. CASE Contents[call[r].key] # Holds(Live(r))
  <2>1. Contents[call[r].key] # NULL /\ ~Redis!Fresh(Contents[call[r].key]) /\ Holds(Live(r)) = NULL
    BY <1>4, Meets
  <2>2. Redis!Lapse(call[r].key)
    BY <1>1, <2>1 DEF Redis!Lapse
  <2> QED BY <1>2, <2>2 DEF Promised, Redis!RedisNext
<1> QED BY <1>3, <1>4

(* An error leaves the key as it is, or takes what has lapsed.             *)
LEMMA FailStep ==
  ASSUME RespInv, NEW r \in Reactors, pc[r] # "idle", Sweep(r), Error(r)
  PROVE  Promised
<1>1. Redis!Finish(r, Redis!Text("error"), Holds(Live(r)))
  BY FinishStep, SameReplies DEF Sweep, Error
<1>2. Holds(Live(r)) = IF Redis!Fresh(Contents[call[r].key]) THEN Contents[call[r].key] ELSE NULL
  BY Meets
<1>3. call[r] # NULL
  BY Serving
<1>4. Redis!Fail(r, Contents[call[r].key], Redis!Fresh(Contents[call[r].key]))
  BY <1>1, <1>2 DEF Redis!Fail
<1>5. Redis!Serve(r)
  BY <1>3, <1>4 DEF Redis!Serve
<1> QED BY <1>5 DEF Promised, Redis!RedisNext

(* A copying command that ends: with what it makes of a live value, or of  *)
(* none.                                                                   *)
LEMMA CopyStep ==
  ASSUME RespInv, NEW r \in Reactors, pc[r] # "idle", call[r].name \in Copying,
         NEW effect, effect = Effect(call[r], IF Live(r) = NULL THEN NULL ELSE Live(r).data),
         NEW e, Redis!Finish(r, effect.reply, e),
         ~effect.writes => e = Holds(Live(r)),
         effect.writes => e = IF effect.data = NULL THEN NULL
                              ELSE [data |-> effect.data,
                                    expiry |-> IF Live(r) = NULL THEN 0 ELSE Live(r).expiry]
  PROVE  Promised
<1> DEFINE live == Redis!Fresh(Contents[call[r].key])
           a == Contents[call[r].key]
<1>1. live <=> Live(r) # NULL
  BY Meets
<1>2. Live(r) # NULL => a.data = Live(r).data /\ a.expiry = Live(r).expiry
  BY Meets
<1>3. Holds(Live(r)) = IF live THEN a ELSE NULL
  BY <1>1, Meets
<1>4. effect = Redis!Effect(call[r], IF live THEN a.data ELSE NULL)
  BY <1>1, <1>2, SameEffect
<1>5. call[r] # NULL
  BY Serving
<1>6. (IF live THEN a.expiry ELSE 0) = IF Live(r) = NULL THEN 0 ELSE Live(r).expiry
  BY <1>1, <1>2
<1> HIDE DEF live, a
<1>7. Redis!Copy(r, call[r], a, live)
  BY <1>3, <1>4, <1>6, SameReplies DEF Redis!Copy, Redis!Holding
<1>8. Redis!Serve(r)
  BY <1>5, <1>7 DEF Redis!Serve, live, a
<1> QED BY <1>8 DEF Promised, Redis!RedisNext

LEMMA LookupPromised == ASSUME RespInv, NEW r \in Reactors, Lookup(r) PROVE Promised
<1> DEFINE effect == Effect(call[r], IF Live(r) = NULL THEN NULL ELSE Live(r).data)
<1>1. pc[r] = "lookup" /\ Sweep(r)
  BY DEF Lookup
<1>2. call[r].name \in Copying
  BY <1>1, Serving DEF Local
<1>3. CASE ~effect.writes
  <2>1. Return(r, effect.reply)
    BY <1>3 DEF Lookup
  <2>2. Redis!Finish(r, effect.reply, Holds(Live(r)))
    BY <1>1, <2>1, FinishStep DEF Sweep
  <2> QED BY <1>1, <1>2, <1>3, <2>2, CopyStep
<1>4. CASE effect.writes
  <2>1. UNCHANGED <<call, reply, clock>>
    BY <1>4 DEF Lookup, Continue
  <2> QED BY <1>1, <2>1, SweepStep
<1> QED BY <1>3, <1>4

LEMMA SwapPromised == ASSUME RespInv, NEW r \in Reactors, Swap(r) PROVE Promised
<1>1. pc[r] = "swap" /\ call[r].name \in Copying
  BY SwapFacts DEF Swap
<1>2. ASSUME NEW d \in Datas \cup {NULL}, Made(r, d), d = (IF Live(r) = NULL THEN NULL ELSE Live(r).data),
             NEW e, Keep(r, e), Return(r, reg[r].then),
             e = IF reg[r].data = NULL THEN NULL
                 ELSE Entry(reg[r].obj, reg[r].data, IF Live(r) = NULL THEN 0 ELSE Live(r).expiry),
             e # NULL <=> reg[r].data # NULL
      PROVE  Promised
  <2> DEFINE effect == Effect(call[r], d)
  <2>1. effect.writes /\ reg[r].data = effect.data /\ reg[r].then = effect.reply
    BY <1>2 DEF Made
  <2>2. Redis!Finish(r, effect.reply, Holds(e))
    BY <1>1, <1>2, <2>1, FinishStep
  <2>3. Holds(e) = IF effect.data = NULL THEN NULL
                   ELSE [data |-> effect.data, expiry |-> IF Live(r) = NULL THEN 0 ELSE Live(r).expiry]
    BY <1>2, <2>1 DEF Holds, Entry
  <2>4. effect = Effect(call[r], IF Live(r) = NULL THEN NULL ELSE Live(r).data)
    BY <1>2
  <2> HIDE DEF effect
  <2> QED BY <1>1, <2>1, <2>2, <2>3, <2>4, CopyStep
<1>3. CASE reg[r].cur # NULL /\ Same(r) /\ Keep(r, IF reg[r].data = NULL THEN NULL ELSE Entry(reg[r].obj, reg[r].data, Kept(r)))
           /\ Return(r, reg[r].then)
  <2>1. Live(r) # NULL /\ Made(r, Live(r).data) /\ Kept(r) = Live(r).expiry
    BY <1>1, <1>3, SwapFacts DEF Kept
  <2>2. Live(r) \in Entries
    BY <1>1, <2>1, Serving
  <2>3. Live(r).data \in Datas /\ Live(r).expiry \in Nat
    BY <2>2 DEF Entries
  <2>4. reg[r].data # NULL => Entry(reg[r].obj, reg[r].data, Kept(r)) \in Entries
    BY <1>1, <2>1, <2>3, SwapFacts
  <2> DEFINE e == IF reg[r].data = NULL THEN NULL ELSE Entry(reg[r].obj, reg[r].data, Kept(r))
  <2>5. e # NULL <=> reg[r].data # NULL
    BY <2>4
  <2>6. e = IF reg[r].data = NULL THEN NULL
            ELSE Entry(reg[r].obj, reg[r].data, IF Live(r) = NULL THEN 0 ELSE Live(r).expiry)
    BY <2>1
  <2>7. Keep(r, e)
    BY <1>3
  <2> HIDE DEF e
  <2> QED BY <1>2, <1>3, <2>1, <2>3, <2>5, <2>6, <2>7
<1>4. CASE reg[r].cur = NULL /\ Live(r) = NULL /\ Keep(r, Entry(reg[r].obj, reg[r].data, 0)) /\ Return(r, reg[r].then)
  <2>1. Made(r, NULL) /\ reg[r].data # NULL /\ Entry(reg[r].obj, reg[r].data, 0) \in Entries
    BY <1>1, <1>4, SwapFacts
  <2> DEFINE e == Entry(reg[r].obj, reg[r].data, 0)
  <2>2. e # NULL /\ Keep(r, e)
    BY <1>4, <2>1
  <2>3. e = Entry(reg[r].obj, reg[r].data, IF Live(r) = NULL THEN 0 ELSE Live(r).expiry)
    BY <1>4
  <2> HIDE DEF e
  <2> QED BY <1>2, <1>4, <2>1, <2>2, <2>3
<1>5. CASE Sweep(r) /\ Retry(r)
  <2>1. CASE GivesUp(r)
    BY <1>1, <1>5, <2>1, FailStep DEF Retry
  <2>2. CASE ~GivesUp(r)
    BY <1>1, <1>5, <2>2, SweepStep DEF Retry, Continue
  <2> QED BY <2>1, <2>2
<1> QED BY <1>3, <1>4, <1>5 DEF Swap

(* The steps of a SET that answer with OK, or that it was not to be.       *)
LEMMA SetDone ==
  ASSUME RespInv, NEW r \in Reactors, pc[r] # "idle", call[r].name = "set",
         call[r].cond = "nx" => Live(r) = NULL,
         call[r].cond = "xx" => Live(r) # NULL,
         Redis!Finish(r, Text("OK"), [data |-> Blob(<<call[r].arg>>), expiry |-> 0])
  PROVE  Promised
<1> DEFINE live == Redis!Fresh(Contents[call[r].key])
           a == Contents[call[r].key]
<1>1. live <=> Live(r) # NULL
  BY Meets
<1>2. call[r] # NULL
  BY Serving
<1> HIDE DEF live, a
<1>3. Redis!Set(r, call[r], a, live)
  BY <1>1, SameReplies DEF Redis!Set, Redis!Holding
<1>4. Redis!Serve(r)
  BY <1>2, <1>3 DEF Redis!Serve, live, a
<1> QED BY <1>4 DEF Promised, Redis!RedisNext

LEMMA SetRefused ==
  ASSUME RespInv, NEW r \in Reactors, pc[r] # "idle", call[r].name = "set",
         \/ call[r].cond = "nx" /\ Live(r) # NULL
         \/ call[r].cond = "xx" /\ Live(r) = NULL,
         Redis!Finish(r, Text("nil"), Holds(Live(r)))
  PROVE  Promised
<1> DEFINE live == Redis!Fresh(Contents[call[r].key])
           a == Contents[call[r].key]
<1>1. (live <=> Live(r) # NULL) /\ Holds(Live(r)) = IF live THEN a ELSE NULL
  BY Meets
<1>2. call[r] # NULL
  BY Serving
<1> HIDE DEF live, a
<1>3. Redis!Set(r, call[r], a, live)
  BY <1>1, SameReplies DEF Redis!Set
<1>4. Redis!Serve(r)
  BY <1>2, <1>3 DEF Redis!Serve, live, a
<1> QED BY <1>4 DEF Promised, Redis!RedisNext

LEMMA TouchPromised == ASSUME RespInv, NEW r \in Reactors, Touch(r) PROVE Promised
<1>1. pc[r] = "touch"
  BY DEF Touch
<1>2. CASE ~Same(r)
  BY <1>1, <1>2, SweepStep DEF Touch, Continue
<1>3. CASE Same(r)
  <2> DEFINE e == [Live(r) EXCEPT !.expiry = 0]
  <2>1. Keep(r, e) /\ Return(r, Text("OK")) /\ Live(r) # NULL /\ Live(r).obj = reg[r].cur
    BY <1>3 DEF Touch, Same
  <2>2. /\ Live(r) \in Entries /\ Live(r) = map[key(r)] /\ map[key(r)] # NULL
        /\ Reads(r) /\ Plain(call[r]) /\ e \in Entries
    BY <1>1, <2>1, Serving DEF Local
  <2>3. Live(r).data = Blob(<<call[r].arg>>)
    BY <1>1, <2>1, <2>2 DEF Reads
  <2>4. e # NULL /\ e.data = Blob(<<call[r].arg>>) /\ e.expiry = 0
    BY <2>2, <2>3 DEF Entries
  <2> HIDE DEF e
  <2>5. Holds(e) = [data |-> Blob(<<call[r].arg>>), expiry |-> 0]
    BY <2>4 DEF Holds
  <2>6. Redis!Finish(r, Text("OK"), Holds(e))
    BY <1>1, <2>1, FinishStep
  <2> QED BY <1>1, <2>2, <2>5, <2>6, SetDone DEF Plain
<1> QED BY <1>2, <1>3

LEMMA WritePromised == ASSUME RespInv, NEW r \in Reactors, Write(r) PROVE Promised
<1>1. pc[r] = "set" /\ Local(r) /\ call[r] \in Commands
  BY Serving DEF Write
<1>2. call[r].name = "set" /\ call[r].cond \in {"always", "nx", "xx"}
  BY <1>1 DEF Local
<1>3. CASE Met(r) /\ Keep(r, Entry(NewObject, Blob(<<call[r].arg>>), 0)) /\ ~HasTtl(r) /\ Return(r, Text("OK"))
  <2> DEFINE e == Entry(NewObject, Blob(<<call[r].arg>>), 0)
  <2>1. e # NULL
    <3>1. NewObject \in Objects
      BY <1>1, NewObjectIsFresh DEF Local
    <3>2. call[r].arg \in Atoms
      BY <1>1, <1>2 DEF Atoms
    <3>3. <<call[r].arg>> \in Seq(Atoms)
      BY <3>2
    <3>4. e \in Entries
      BY <3>1, <3>3, DataTypes DEF Entry, Entries
    <3> HIDE DEF e
    <3> QED BY <3>4
  <2>2. Holds(e) = [data |-> Blob(<<call[r].arg>>), expiry |-> 0]
    BY <2>1 DEF Holds, Entry
  <2>3. Keep(r, e)
    BY <1>3
  <2> HIDE DEF e
  <2>4. Redis!Finish(r, Text("OK"), Holds(e))
    BY <1>1, <1>3, <2>3, FinishStep
  <2>5. (call[r].cond = "nx" => Live(r) = NULL) /\ (call[r].cond = "xx" => Live(r) # NULL)
    BY <1>2, <1>3 DEF Met
  <2> QED BY <1>1, <1>2, <2>2, <2>4, <2>5, SetDone
<1>4. CASE HasTtl(r)
  <2>1. TwoAccesses(call[r]) /\ call[r] # NULL
    BY <1>1, <1>2, <1>4 DEF TwoAccesses, HasTtl
  <2> QED BY <2>1 DEF Promised, Serve
<1>5. CASE Sweep(r) /\ call[r].cond = "always" /\ Error(r)
  BY <1>1, <1>5, FailStep
<1>6. CASE Sweep(r) /\ Continue(r, "why", Clear)
  BY <1>1, <1>6, SweepStep DEF Continue
<1> QED BY <1>3, <1>4, <1>5, <1>6 DEF Write

LEMMA WhyPromised == ASSUME RespInv, NEW r \in Reactors, Why(r) PROVE Promised
<1>1. pc[r] = "why" /\ Sweep(r) /\ Local(r) /\ call[r] \in Commands
  BY Serving DEF Why
<1>2. call[r].name = "set" /\ call[r].cond \in {"nx", "xx"}
  BY <1>1 DEF Local
<1>3. CASE Error(r)
  BY <1>1, <1>3, FailStep
<1>4. CASE ~((Live(r) = NULL) = (call[r].cond = "nx")) /\ Return(r, Text("nil"))
  <2>1. Redis!Finish(r, Text("nil"), Holds(Live(r)))
    BY <1>1, <1>4, FinishStep DEF Sweep
  <2>2. \/ call[r].cond = "nx" /\ Live(r) # NULL
        \/ call[r].cond = "xx" /\ Live(r) = NULL
    BY <1>2, <1>4
  <2> QED BY <1>1, <1>2, <2>1, <2>2, SetRefused
<1> QED BY <1>3, <1>4 DEF Why

LEMMA OnePromised ==
  ASSUME RespInv, NEW r \in Reactors, Del(r) \/ Expire(r) \/ Ttl(r)
  PROVE  Promised
<1> DEFINE live == Redis!Fresh(Contents[call[r].key])
           a == Contents[call[r].key]
<1>1. pc[r] \in {"del", "expire", "ttl"} /\ pc[r] # "idle"
  BY DEF Del, Expire, Ttl
<1>2. /\ live <=> Live(r) # NULL
      /\ Live(r) # NULL => a.data = Live(r).data /\ a.expiry = Live(r).expiry
      /\ Holds(NULL) = NULL
      /\ Holds(Live(r)) = IF live THEN a ELSE NULL
  BY <1>1, Meets
<1>3. call[r] # NULL /\ call[r].name = pc[r] /\ call[r] \in Commands
  BY <1>1, Serving DEF Local
<1>4. Redis!Serve(r)
  <2>1. CASE Del(r)
    <3>1. Redis!Finish(r, Number(IF Live(r) = NULL THEN 0 ELSE 1), Holds(NULL))
      BY <1>1, <2>1, FinishStep DEF Del
    <3>2. pc[r] = "del"
      BY <2>1 DEF Del
    <3>3. Redis!Del(r, call[r], live)
      <4> HIDE DEF live
      <4>1. Redis!Number(IF live THEN 1 ELSE 0) = Number(IF Live(r) = NULL THEN 0 ELSE 1)
        BY <1>2, SameReplies
      <4> QED BY <1>2, <1>3, <3>1, <3>2, <4>1 DEF Redis!Del
    <3> QED BY <1>3, <3>3 DEF Redis!Serve
  <2>2. CASE Expire(r)
    <3>2. pc[r] = "expire"
      BY <2>2 DEF Expire
    <3>3. Redis!Expire(r, call[r], a, live)
      <4>1. CASE Live(r) = NULL
        <5>1. Redis!Finish(r, Number(0), Holds(NULL))
          BY <1>1, <2>2, <4>1, FinishStep DEF Expire
        <5> HIDE DEF live, a
        <5> QED BY <1>2, <1>3, <3>2, <4>1, <5>1, SameReplies DEF Redis!Expire
      <4>2. CASE Live(r) # NULL
        <5> DEFINE e == [Live(r) EXCEPT !.expiry = clock + call[r].ttl]
        <5>1. Keep(r, e) /\ Return(r, Number(1))
          BY <2>2, <4>2 DEF Expire
        <5>2. Live(r) \in Entries /\ e \in Entries
          <6>1. clock \in Nat /\ call[r].ttl \in Nat
            BY <1>3, <3>2 DEF RespInv, RespTypes
          <6>2. clock + call[r].ttl \in Nat
            BY <6>1
          <6> QED BY <1>1, <4>2, <6>2, Serving
        <5>3. e.data = Live(r).data /\ e.expiry = clock + call[r].ttl
          BY <5>2 DEF Entries
        <5> HIDE DEF e
        <5>4. Redis!Finish(r, Number(1), Holds(e))
          BY <1>1, <5>1, FinishStep
        <5>5. Holds(e) = [data |-> a.data, expiry |-> clock + call[r].ttl]
          BY <1>2, <4>2, <5>2, <5>3 DEF Holds
        <5> HIDE DEF live, a
        <5> QED BY <1>2, <1>3, <3>2, <4>2, <5>4, <5>5, SameReplies DEF Redis!Expire, Redis!Holding
      <4> QED BY <4>1, <4>2
    <3> QED BY <1>3, <3>3 DEF Redis!Serve
  <2>3. CASE Ttl(r)
    <3>1. Redis!Finish(r, Number(IF Live(r) = NULL THEN -2 ELSE IF Live(r).expiry = 0 THEN -1 ELSE Live(r).expiry - clock),
                       Holds(Live(r)))
      BY <1>1, <2>3, FinishStep DEF Ttl, Sweep
    <3>2. pc[r] = "ttl"
      BY <2>3 DEF Ttl
    <3>3. Redis!Ttl(r, call[r], a, live)
      <4>1. CASE Live(r) = NULL
        <5>1. Redis!Finish(r, Redis!Number(-2), NULL)
          BY <1>2, <3>1, <4>1, SameReplies
        <5> HIDE DEF live, a
        <5> QED BY <1>2, <1>3, <3>2, <4>1, <5>1 DEF Redis!Ttl
      <4>2. CASE Live(r) # NULL
        <5>1. Redis!Finish(r, Redis!Number(IF a.expiry = 0 THEN -1 ELSE a.expiry - clock), a)
          BY <1>2, <3>1, <4>2, SameReplies
        <5> HIDE DEF live, a
        <5> QED BY <1>2, <1>3, <3>2, <4>2, <5>1 DEF Redis!Ttl
      <4> QED BY <4>1, <4>2
    <3> QED BY <1>3, <3>3 DEF Redis!Serve
  <2> QED BY <2>1, <2>2, <2>3
<1> QED BY <1>4 DEF Promised, Redis!RedisNext

LEMMA ServePromised == ASSUME RespInv, NEW r \in Reactors, Serve(r) PROVE Promised
<1>1. CASE Peek(r)
  <2>1. pc[r] = "peek" /\ Sweep(r) /\ UNCHANGED <<call, reply, clock>>
    BY <1>1 DEF Peek, Continue
  <2> QED BY <2>1, SweepStep
<1>2. CASE ExPeek(r) \/ ExTouch(r) \/ PersistRead(r) \/ PersistClear(r)
  <2>1. pc[r] \in {"ex_peek", "ex_touch", "persist", "persist_clear"}
    BY <1>2 DEF ExPeek, ExTouch, PersistRead, PersistClear
  <2>2. call[r] # NULL /\ TwoAccesses(call[r])
    BY <2>1, Serving DEF Local, TwoAccesses
  <2> QED BY <2>2 DEF Promised
<1> QED BY <1>1, <1>2, LookupPromised, SwapPromised, TouchPromised, WritePromised, WhyPromised, OnePromised
        DEF Serve

LEMMA StepPromised == ASSUME RespInv, [RespNext]_respVars PROVE Promised
<1>1. ASSUME NEW r \in Reactors, Serve(r) PROVE Promised
  BY <1>1, ServePromised
<1>2. ASSUME NEW r \in Reactors, NEW c \in Commands, Arrive(r, c) PROVE Promised
  <2>1. /\ pc[r] = "idle" /\ call' = [call EXCEPT ![r] = c] /\ reply' = [reply EXCEPT ![r] = NULL]
        /\ UNCHANGED <<map, clock>>
    BY <1>2 DEF Arrive
  <2>2. call[r] = NULL /\ call \in [Reactors -> Commands \cup {NULL}]
    BY <2>1 DEF RespInv, Local, RespTypes
  <2>3. call'[r] = c
    BY <2>1, <2>2
  <2>4. Contents' = Contents
    BY <2>1 DEF Contents, Holds
  <2>5. Redis!Arrive(r)
    BY <2>1, <2>2, <2>3, <2>4 DEF Redis!Arrive
  <2> QED BY <2>5 DEF Promised, Redis!RedisNext
<1>3. ASSUME NEW k \in Keys, Evict(k) PROVE Promised
  <2>1. /\ map[k] # NULL /\ Expired(map[k]) /\ map' = [map EXCEPT ![k] = NULL]
        /\ UNCHANGED <<clock, call, reply>> /\ map \in [Keys -> Entries \cup {NULL}]
    BY <1>3 DEF Evict, RespInv, RespTypes
  <2> DEFINE h == [data |-> map[k].data, expiry |-> map[k].expiry]
  <2>2. Contents[k] = h /\ h.expiry = map[k].expiry
    BY <2>1 DEF Contents, Holds
  <2>3. h # NULL
    <3>1. h \in [data : Datas, expiry : Nat]
      BY <2>1 DEF Entries
    <3> HIDE DEF h
    <3> QED BY <3>1
  <2> HIDE DEF h
  <2>4. Contents[k] # NULL /\ ~Redis!Fresh(Contents[k])
    BY <2>1, <2>2, <2>3 DEF Redis!Fresh, Expired
  <2>5. Contents' = [Contents EXCEPT ![k] = NULL]
    <3>1. \A j \in Keys : Contents'[j] = Holds(map'[j]) /\ Contents[j] = Holds(map[j])
      BY DEF Contents, Holds
    <3>2. Contents' = [j \in Keys |-> Contents'[j]] /\ Contents = [j \in Keys |-> Contents[j]]
      BY DEF Contents
    <3>3. Holds(NULL) = NULL
      BY DEF Holds
    <3>4. \A j \in Keys : Contents'[j] = IF j = k THEN NULL ELSE Contents[j]
      BY <2>1, <3>1, <3>3
    <3> QED BY <3>2, <3>4
  <2>6. Redis!Lapse(k)
    BY <2>1, <2>4, <2>5 DEF Redis!Lapse
  <2> QED BY <2>6 DEF Promised, Redis!RedisNext
<1>4. CASE Tick
  <2>1. clock' > clock
    <3>1. clock \in Nat /\ clock' = clock + 1
      BY <1>4 DEF Tick, RespInv, RespTypes
    <3> QED BY <3>1
  <2>2. Contents' = Contents /\ UNCHANGED <<call, reply>>
    BY <1>4 DEF Tick, Contents, Holds
  <2> QED BY <2>1, <2>2 DEF Promised, Redis!RedisNext, Redis!Tick
<1>5. CASE UNCHANGED respVars
  BY <1>5 DEF respVars, Promised, Redis!redisVars, Contents, Holds
<1> QED BY <1>1, <1>2, <1>3, <1>4, <1>5 DEF RespNext

(* RespCommands.RefinesRedis: every command but PERSIST and a SET with a   *)
(* deadline takes effect in one step (lfkv_cas and its retries, cmd_set,   *)
(* resp_apply_incr, cmd_append, the commands on lists and hashes),         *)
(* whatever the other reactors do, expire, evict or run out of.  Like the  *)
(* module it is about clients under which an access of lfkv.c is one step, *)
(* AtomicAssumption: no reactor removes keys, where that is proved for any *)
(* number of reactors (LfkvProofs, InsertsLinearize), or one reactor       *)
(* inserts them, where the run lfkv checks it for two.  For others the     *)
(* code breaks the promise (NxInserts and NxOnlyIfAbsent of Lfkv).         *)
THEOREM CommandsRefineRedis == RespSpec => RefinesRedis
<1>1. RespInit => Redis!RedisInit
  <2> SUFFICES ASSUME RespInit PROVE Redis!RedisInit
    OBVIOUS
  <2>1. map = [k \in Keys |-> NULL] /\ call = [r \in Reactors |-> NULL]
        /\ reply = [r \in Reactors |-> NULL] /\ clock = 0
    BY DEF RespInit
  <2>2. Contents = [k \in Keys |-> NULL]
    BY <2>1 DEF Contents, Holds
  <2> QED BY <2>1, <2>2 DEF Redis!RedisInit
<1>2. RespInv /\ [RespNext]_respVars =>
        [Redis!RedisNext \/ \E r \in Reactors : call[r] # NULL /\ TwoAccesses(call[r]) /\ Serve(r)]_(Redis!redisVars)
  BY StepPromised DEF Promised
<1> QED BY RespInvariant, <1>1, <1>2, PTL DEF RespSpec, RefinesRedis

-----------------------------------------------------------------------------
(* Deadlines.                                                              *)

(* RespCommands.TtlGiven: when a SET with a deadline answers OK, the value *)
(* that it stored has a deadline, or is no longer there (cmd_set with EX   *)
(* or PX: a store, a look-up and a touch).                                 *)
THEOREM SetGivesTtl == RespSpec => TtlGiven
<1>1. ASSUME RespInv, [RespNext]_respVars, NEW r \in Reactors,
             pc[r] \in {"set", "ex_peek", "ex_touch"}, call[r].ttl # 0, reply'[r] = Text("OK"),
             map'[key(r)] # NULL, map'[key(r)].obj = StoredBy(r)
      PROVE  map'[key(r)].expiry # 0
  <2>1. /\ reply[r] = NULL /\ pc[r] # "idle" /\ Local(r) /\ Reads(r) /\ key(r) \in Keys
        /\ Live(r) \in Entries \cup {NULL}
        /\ Live(r) # NULL => map[key(r)] # NULL /\ Live(r) = map[key(r)]
        /\ map \in [Keys -> Entries \cup {NULL}] /\ reply = [q \in Reactors |-> reply[q]]
    BY <1>1, Serving DEF Local, RespInv, RespTypes
  <2>2. reply'[r] # reply[r]
    BY <1>1, <2>1
  <2>3. Serve(r)
    <3>1. ASSUME NEW q \in Reactors, Serve(q), q # r PROVE FALSE
      <4>1. reply' = reply \/ \E x : reply' = [reply EXCEPT ![q] = x]
        BY <3>1, Zenon DEF Serve, Lookup, Swap, Peek, Touch, Write, Why, ExPeek, ExTouch, Del, Expire, Ttl,
           PersistRead, PersistClear, Retry, Error, Return, Continue
      <4> QED BY <2>1, <2>2, <3>1, <4>1
    <3>2. ASSUME NEW q \in Reactors, NEW c \in Commands, Arrive(q, c) PROVE FALSE
      <4>1. reply' = [reply EXCEPT ![q] = NULL]
        BY <3>2 DEF Arrive
      <4> QED BY <2>1, <2>2, <4>1
    <3>3. CASE Tick \/ UNCHANGED respVars \/ \E k \in Keys : Evict(k)
      BY <2>2, <3>3 DEF Tick, respVars, Evict
    <3> QED BY <1>1, <3>1, <3>2, <3>3 DEF RespNext
  <2>4. Write(r) \/ ExPeek(r) \/ ExTouch(r)
    BY <1>1, <2>3 DEF Serve, Lookup, Swap, Peek, Touch, Why, Del, Expire, Ttl, PersistRead, PersistClear
  <2>5. CASE Write(r)
    <3>1. reply' = reply \/ Return(r, Text("error"))
      BY <1>1, <2>5 DEF Write, HasTtl, Continue, Error
    <3>2. Text("error") # Text("OK")
      BY DEF Text
    <3>3. Return(r, Text("error")) => reply'[r] = Text("error")
      BY <2>1 DEF Return
    <3> QED BY <1>1, <2>2, <3>1, <3>2, <3>3
  <2>6. CASE ExPeek(r)
    <3>1. Live(r) = NULL /\ Keep(r, Live(r))
      BY <2>2, <2>6 DEF ExPeek, Sweep, Continue
    <3> QED BY <1>1, <2>1, <3>1 DEF Keep
  <2>7. CASE ExTouch(r)
    <3>1. pc[r] = "ex_touch" /\ reg[r].deadline # 0
      BY <2>1, <2>7 DEF ExTouch, Local
    <3>2. CASE Same(r)
      <4>1. map' = [map EXCEPT ![key(r)] = [Live(r) EXCEPT !.expiry = reg[r].deadline]] /\ Live(r) # NULL
        BY <2>7, <3>2 DEF ExTouch, Keep, Same
      <4>2. map'[key(r)].expiry = reg[r].deadline
        BY <2>1, <4>1 DEF Entries
      <4> QED BY <3>1, <4>2
    <3>3. CASE ~Same(r)
      <4>1. map'[key(r)] = Live(r)
        BY <2>1, <2>7, <3>3 DEF ExTouch, Sweep, Keep
      <4>2. Live(r) # NULL /\ Live(r).obj = reg[r].obj
        BY <1>1, <3>1, <4>1 DEF StoredBy
      <4>3. Same(r)
        BY <2>1, <3>1, <4>2 DEF Reads, Same
      <4> QED BY <3>3, <4>3
    <3> QED BY <3>2, <3>3
  <2> QED BY <2>4, <2>5, <2>6, <2>7
<1>2. RespInv /\ [RespNext]_respVars =>
        [\A r \in Reactors :
           /\ pc[r] \in {"set", "ex_peek", "ex_touch"} /\ call[r].ttl # 0
           /\ reply'[r] = Text("OK")
           /\ map'[key(r)] # NULL /\ map'[key(r)].obj = StoredBy(r)
           => map'[key(r)].expiry # 0]_respVars
  BY <1>1
<1> QED BY RespInvariant, <1>2, PTL DEF RespSpec, TtlGiven

-----------------------------------------------------------------------------
(* Containers.                                                             *)

\* What a reactor is about to swap in is no empty container.
NothingEmpty ==
  /\ NoEmptyContainer
  /\ \A r \in Reactors : pc[r] = "swap" /\ reg[r].data # NULL => ~Empty(reg[r].data)

\* No client names a field that the server passes over (one with a NUL in it).
UsableFields == \A c \in Commands : c.name = "hset" => Usable(c)

LEMMA NothingEmptySteps ==
  ASSUME UsableFields, RespInv, NothingEmpty, [RespNext]_respVars
  PROVE  NothingEmpty'
<1>1. map \in [Keys -> Entries \cup {NULL}] /\ reg = [r \in Reactors |-> reg[r]] /\ pc \in [Reactors -> Steps]
  BY DEF RespInv, RespTypes
<1>2. ASSUME NEW r \in Reactors, key(r) \in Keys, NEW e, Keep(r, e), e # NULL => ~Empty(e.data),
             \A q \in Reactors \ {r} : pc'[q] = pc[q] /\ reg'[q] = reg[q],
             pc'[r] = "swap" /\ reg'[r].data # NULL => ~Empty(reg'[r].data)
      PROVE  NothingEmpty'
  <2>1. ASSUME NEW k \in Keys, map'[k] # NULL PROVE ~Empty(map'[k].data)
    BY <1>1, <1>2, <2>1 DEF Keep, NothingEmpty, NoEmptyContainer
  <2>2. ASSUME NEW q \in Reactors, pc'[q] = "swap", reg'[q].data # NULL PROVE ~Empty(reg'[q].data)
    BY <1>2, <2>2 DEF NothingEmpty
  <2>3. NoEmptyContainer'
    BY <2>1 DEF NoEmptyContainer, Empty
  <2> QED BY <2>2, <2>3 DEF NothingEmpty, Empty
<1>3. ASSUME NEW r \in Reactors, Serve(r) PROVE NothingEmpty'
  <2>1. pc[r] # "idle"
    BY <1>3 DEF Serve, Lookup, Swap, Peek, Touch, Write, Why, ExPeek, ExTouch, Del, Expire, Ttl,
       PersistRead, PersistClear
  <2>2. /\ call[r] \in Commands /\ key(r) \in Keys /\ Local(r)
        /\ Live(r) \in Entries \cup {NULL}
        /\ Live(r) # NULL => map[key(r)] # NULL /\ Live(r) = map[key(r)]
    BY <2>1, Serving
  <2>3. Live(r) # NULL => ~Empty(Live(r).data)
    BY <2>2 DEF NothingEmpty, NoEmptyContainer
  <2>4. \A n : Live(r) # NULL => [Live(r) EXCEPT !.expiry = n].data = Live(r).data
    BY <2>2 DEF Entries
  <2>5. (\E x : Return(r, x)) \/ (\E s, l : Continue(r, s, l)) =>
          \A q \in Reactors \ {r} : pc'[q] = pc[q] /\ reg'[q] = reg[q]
    BY <1>1 DEF Return, Continue
  <2>6. ASSUME NEW e, Keep(r, e), e = NULL \/ ~Empty(e.data),
               \/ \E x : Return(r, x)
               \/ \E s, l : s # "swap" /\ Continue(r, s, l)
        PROVE  NothingEmpty'
    <3>1. pc'[r] # "swap"
      BY <1>1, <2>6 DEF Return, Continue
    <3> QED BY <1>2, <2>2, <2>5, <2>6, <3>1
  <2>7. CASE Lookup(r)
    <3> DEFINE d == IF Live(r) = NULL THEN NULL ELSE Live(r).data
               effect == Effect(call[r], d)
    <3>1. pc[r] = "lookup" /\ Keep(r, Live(r))
      BY <2>7 DEF Lookup, Sweep
    <3>2. CASE ~effect.writes
      <4>1. Return(r, effect.reply)
        BY <2>7, <3>2 DEF Lookup
      <4> QED BY <2>3, <2>6, <3>1, <4>1
    <3>3. CASE effect.writes
      <4> DEFINE l == [reg[r] EXCEPT !.cur = IF Live(r) = NULL THEN NULL ELSE Live(r).obj,
                                     !.obj = NewObject, !.data = effect.data, !.then = effect.reply]
      <4>1. Continue(r, "swap", l)
        BY <2>7, <3>3 DEF Lookup
      <4>2. l.data = effect.data
        <5>1. "data" \in DOMAIN reg[r]
          BY <2>2 DEF Local, IsReg
        <5> QED BY <5>1
      <4>3. call[r].name \in Copying /\ (call[r].name = "hset" => Usable(call[r]))
        BY <2>2, <3>1 DEF Local, UsableFields
      <4>4. d \in Datas \cup {NULL}
        BY <2>2 DEF Entries
      <4> HIDE DEF d, l
      <4>5. effect.data # NULL => ~Empty(effect.data)
        BY <2>2, <3>3, <4>3, <4>4, EffectTyped
      <4>6. reg'[r] = l
        BY <1>1, <4>1 DEF Continue
      <4> QED BY <1>2, <2>2, <2>3, <2>5, <3>1, <4>1, <4>2, <4>5, <4>6
    <3> QED BY <3>2, <3>3
  <2>8. CASE Swap(r)
    <3>1. pc[r] = "swap" /\ (reg[r].data # NULL => ~Empty(reg[r].data))
      BY <2>8 DEF Swap, NothingEmpty
    <3>2. PICK e : Keep(r, e) /\ (e = Live(r) \/ e = NULL \/ (reg[r].data # NULL /\ e.data = reg[r].data))
      <4>1. reg[r].cur = NULL => reg[r].data # NULL
        BY <3>1, SwapFacts
      <4>2. \A n : Entry(reg[r].obj, reg[r].data, n).data = reg[r].data
        BY DEF Entry
      <4> QED BY <2>8, <4>1, <4>2 DEF Swap, Sweep
    <3>3. (\E x : Return(r, x)) \/ (\E s, l : s # "swap" /\ Continue(r, s, l))
      BY <2>8 DEF Swap, Retry, Error
    <3>4. e = NULL \/ ~Empty(e.data)
      BY <2>3, <3>1, <3>2
    <3> QED BY <2>6, <3>2, <3>3, <3>4
  <2>9. CASE Write(r)
    <3>1. PICK e : Keep(r, e) /\ (e = Live(r) \/ e = Entry(NewObject, Blob(<<call[r].arg>>), 0))
      BY <2>9 DEF Write, Sweep
    <3>2. ~Empty(Entry(NewObject, Blob(<<call[r].arg>>), 0).data)
      BY DEF Entry, Blob, Empty
    <3>3. (\E x : Return(r, x)) \/ (\E s, l : s # "swap" /\ Continue(r, s, l))
      BY <2>9 DEF Write, Error
    <3>4. e = NULL \/ ~Empty(e.data)
      BY <2>3, <3>1, <3>2
    <3> QED BY <2>6, <3>1, <3>3, <3>4
  <2>10. CASE Peek(r) \/ Touch(r) \/ Why(r) \/ ExPeek(r) \/ ExTouch(r)
    <3>1. PICK e : Keep(r, e) /\ (e = Live(r) \/ \E n : Live(r) # NULL /\ e = [Live(r) EXCEPT !.expiry = n])
      BY <2>10 DEF Peek, Touch, Why, ExPeek, ExTouch, Sweep, Same
    <3>2. (\E x : Return(r, x)) \/ (\E s, l : s # "swap" /\ Continue(r, s, l))
      BY <2>10 DEF Peek, Touch, Why, ExPeek, ExTouch, Error
    <3>3. e = NULL \/ ~Empty(e.data)
      BY <2>3, <2>4, <3>1
    <3> QED BY <2>6, <3>1, <3>2, <3>3
  <2>11. CASE Del(r) \/ Expire(r) \/ Ttl(r) \/ PersistRead(r) \/ PersistClear(r)
    <3>1. PICK e : Keep(r, e) /\ (e = NULL \/ e = Live(r) \/ \E n : Live(r) # NULL /\ e = [Live(r) EXCEPT !.expiry = n])
      BY <2>11 DEF Del, Expire, Ttl, PersistRead, PersistClear, Sweep
    <3>2. (\E x : Return(r, x)) \/ (\E s, l : s # "swap" /\ Continue(r, s, l))
      BY <2>11 DEF Del, Expire, Ttl, PersistRead, PersistClear
    <3>3. e = NULL \/ ~Empty(e.data)
      BY <2>3, <2>4, <3>1
    <3> QED BY <2>6, <3>1, <3>2, <3>3
  <2> QED BY <1>3, <2>7, <2>8, <2>9, <2>10, <2>11 DEF Serve
<1>4. ASSUME NEW r \in Reactors, NEW c \in Commands, Arrive(r, c) PROVE NothingEmpty'
  <2>1. /\ UNCHANGED <<map, reg>> /\ \A q \in Reactors : pc'[q] = pc[q] \/ pc'[q] # "swap"
    BY <1>1, <1>4 DEF Arrive, Copying
  <2> QED BY <2>1 DEF NothingEmpty, NoEmptyContainer, Empty
<1>5. CASE Tick \/ UNCHANGED respVars
  BY <1>5 DEF Tick, respVars, NothingEmpty, NoEmptyContainer, Empty
<1>6. ASSUME NEW k \in Keys, Evict(k) PROVE NothingEmpty'
  BY <1>1, <1>6 DEF Evict, NothingEmpty, NoEmptyContainer, Empty
<1> QED BY <1>3, <1>4, <1>5, <1>6 DEF RespNext

(* RespCommands.NoEmptyContainer: the last element of a list or a hash     *)
(* takes the key with it (cmd_lpop_rpop, cmd_hdel), where no HSET names a  *)
(* field that is passed over: such an HSET of a new key stores an empty    *)
(* hash.                                                                   *)
THEOREM ContainersNotEmpty ==
  ASSUME UsableFields
  PROVE  RespSpec => []NoEmptyContainer
<1>1. RespInit => NothingEmpty
  BY DEF RespInit, NothingEmpty, NoEmptyContainer
<1>2. RespInv /\ NothingEmpty /\ [RespNext]_respVars => NothingEmpty'
  BY NothingEmptySteps
<1>3. NothingEmpty => NoEmptyContainer
  BY DEF NothingEmpty
<1> QED BY RespInvariant, <1>1, <1>2, <1>3, PTL DEF RespSpec

=============================================================================

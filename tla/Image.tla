-------------------------------- MODULE Image -------------------------------
(***************************************************************************)
(* savedb and loaddb (alcove.c) over the serialisers of persist.h and      *)
(* hamt.h: the global variables marked persistent are written to a file of *)
(* tokens and read back.  A value is <<type, data>>; the data of a         *)
(* container is the structure its module describes, that of a list the     *)
(* sequence of its elements, that of a map of hamt.h [heap, map].          *)
(***************************************************************************)
EXTENDS Integers, Sequences, SequencesExt, FiniteSets

CONSTANTS
  Vars,      \* the global variables, in the order the dictionary lists them
  Stored,    \* the values a program puts into each
  HashOf, InitialSize, TextOf, NumberOf,   \* as Dictionary has them
  Bits, Width, HashKey                     \* as Hamt has them

VARIABLES
  globals,   \* variable -> [val, mark], the mark of persist
  file,      \* the db file: [tokens, of], "of" what a complete image holds
  cached     \* variable -> the value a compiled reader has cached

Dict == INSTANCE Dictionary
List == INSTANCE Deque
Vect == INSTANCE Vectors
Hamt == INSTANCE Hamt

Scalars == {"nil", "t", "fix", "flo", "sym", "str"}
\* The types with a dump function; a port or an iterator has none.
Dumpable == Scalars \cup {"list", "vec", "set", "dict", "deque", "hamt", "fn"}

-----------------------------------------------------------------------------
(* Writing.  A writer is [ok, out].                                        *)

\* is_fully_dumpable, which does not look into a hamt.
Inside(v) ==
  CASE v[1] = "vec" -> Vect!Elements(v[2])
    [] v[1] \in {"set", "dict"} -> Dict!ValsOf(v[2])
    [] v[1] = "deque" -> List!Forward(v[2])
    [] v[1] = "list" -> v[2]
    [] OTHER -> << >>
RECURSIVE FullyDumpable(_)
FullyDumpable(v) == v[1] \in Dumpable /\ \A x \in Range(Inside(v)) : FullyDumpable(x)

\* What a dump function writes: tokens, and values that their own dump
\* functions write.
Token(kind, x) == [value |-> FALSE, of |-> <<kind, x>>]
Value(v) == [value |-> TRUE, of |-> v]
Values(vs) == [i \in 1 .. Len(vs) |-> Value(vs[i])]
Raw(cells) == [i \in 1 .. Len(cells) |-> [value |-> FALSE, of |-> cells[i]]]

DumpScalar(v) == <<Token("data", v)>>
DumpSet(d) == <<Token("count", d.used)>> \o Values(Dict!ValsOf(d))
DumpDict(d) ==
  FoldLeft(LAMBDA out, kv : out \o <<Token("key", kv.key), Value(kv.val)>>,
           <<Token("count", d.used)>>, Dict!Entries(d))
DumpDeque(l) == <<Token("count", l.len)>> \o Values(List!Forward(l))
DumpHamt(m) ==
  FoldLeft(LAMBDA out, e : out \o <<Value(e.key), Value(e.val)>>,
           <<Token("count", m.map.count)>>, Hamt!Walk(m.heap, m.map.root))
\* dump_vec: the cells of a typed vector are written raw.
DumpVectorMut(v) ==
  <<Token("kind", v.kind), Token("count", Vect!LenOf(v))>>
  \o IF v.kind = "gen" THEN Values(Vect!Elements(v)) ELSE Raw(SubSeq(v.cells, 1, Vect!LenOf(v)))
DumpVector(v) ==
  <<Token("kind", v.kind), Token("count", Vect!LenOf(v))>>
  \o IF v.kind = "gen" THEN Values(Vect!Elements(v)) ELSE Raw(SubSeq(v.cells, v.start + 1, v.end))
\* dump_pair: the flags say whether a cell has a content and a next one.
DumpList(vs) ==
  IF Len(vs) = 1 THEN <<Token("flags", 1), Value(vs[1])>>
  ELSE <<Token("flags", 3), Value(vs[1]), Value(<<"list", Tail(vs)>>)>>
\* dump_callable: the name, the parameters and the body, no environment.
DumpFunction(f) == <<Token("name", f.name), Value(f.params), Value(f.body)>>
Written(v) ==
  CASE v[1] = "set" -> DumpSet(v[2])
    [] v[1] = "dict" -> DumpDict(v[2])
    [] v[1] = "deque" -> DumpDeque(v[2])
    [] v[1] = "hamt" -> DumpHamt(v[2])
    [] v[1] = "vec" -> DumpVector(v[2])
    [] v[1] = "list" -> DumpList(v[2])
    [] v[1] = "fn" -> DumpFunction(v[2])
    [] OTHER -> DumpScalar(v)

Emit(w, token) == IF w.ok THEN [w EXCEPT !.out = Append(@, token)] ELSE w
RECURSIVE Dump(_, _)
Dump(w, v) ==
  IF ~w.ok \/ v[1] \notin Dumpable THEN [w EXCEPT !.ok = FALSE]
  ELSE FoldLeft(LAMBDA x, item : IF item.value THEN Dump(x, item.of) ELSE Emit(x, item.of),
                Emit(w, <<"type", v[1]>>), Written(v))

\* dump_lisp_section and the frame alcove_dump_unified puts around it.
Persistent == SelectSeq(Vars, LAMBDA x : x \in DOMAIN globals /\ globals[x].mark)
DumpSection(w, xs) ==
  FoldLeft(LAMBDA u, x : IF ~FullyDumpable(globals[x].val) THEN u
                         ELSE Emit(Dump(Emit(u, <<"record", 0>>), globals[x].val), <<"var", x>>),
           w, xs)
DumpUnified ==
  LET head == [ok |-> TRUE, out |-> <<<<"magic", 5>>, <<"section", "L">>>>]
  IN Emit(Emit(DumpSection(head, Persistent), <<"end", 0>>), <<"end", 0>>)

-----------------------------------------------------------------------------
(* Reading.  A reader answers [ok, val, rest].                             *)

Bad == [ok |-> FALSE, val |-> << >>, rest |-> << >>]
Good(v, ts) == [ok |-> TRUE, val |-> v, rest |-> ts]
Starts(ts, kind) == ts # << >> /\ Head(ts)[1] = kind
\* The tokens a load function reads first, and how many things come after:
\* values, but for the keys of a hash-map and the cells of a typed vector.
Opening(type) ==
  CASE type \in {"set", "dict", "deque", "hamt"} -> <<"count">>
    [] type = "vec" -> <<"kind", "count">>
    [] type = "list" -> <<"flags">>
    [] type = "fn" -> <<"name">>
    [] OTHER -> <<"data">>
Opens(ts, kinds) == Len(kinds) <= Len(ts) /\ \A i \in DOMAIN kinds : ts[i][1] = kinds[i]
Following(type, head) ==
  CASE type \in {"set", "deque", "vec"} -> Last(head)[2]
    [] type \in {"dict", "hamt"} -> 2 * head[1][2]
    [] type = "list" -> IF head[1][2] = 1 THEN 1 ELSE 2
    [] type = "fn" -> 2
    [] OTHER -> 0
RawKind(type, head, i) ==
  CASE type = "vec" /\ head[1][2] # "gen" -> head[1][2]
    [] type = "dict" /\ i % 2 = 1 -> "key"
    [] OTHER -> "value"

LoadSet(vs) == <<"set", Dict!SetOf(vs)>>
LoadDict(vs) ==
  <<"dict", FoldLeft(LAMBDA d, i : Dict!Put(d, vs[2 * i - 1][2], vs[2 * i]), Dict!NewDict,
                     [i \in 1 .. Len(vs) \div 2 |-> i])>>
LoadDeque(vs) == <<"deque", List!DequeOf(vs)>>
LoadHamt(vs) ==
  <<"hamt", Hamt!HamtOf(<< >>, [i \in 1 .. Len(vs) \div 2 |-> Hamt!Entry(vs[2 * i - 1], vs[2 * i])])>>
LoadVector(kind, vs) ==
  <<"vec", [kind |-> kind, cap |-> Len(vs), start |-> 0, end |-> Len(vs), cells |-> vs]>>
LoadList(vs) == <<"list", IF Len(vs) = 1 THEN vs ELSE <<vs[1]>> \o vs[2][2]>>
LoadFunction(name, vs) == <<"fn", [name |-> name, params |-> vs[1], body |-> vs[2]]>>
Built(type, head, vs) ==
  CASE type = "set" -> LoadSet(vs)
    [] type = "dict" -> LoadDict(vs)
    [] type = "deque" -> LoadDeque(vs)
    [] type = "hamt" -> LoadHamt(vs)
    [] type = "vec" -> LoadVector(head[1][2], vs)
    [] type = "list" -> LoadList(vs)
    [] type = "fn" -> LoadFunction(head[1][2], vs)
    [] OTHER -> head[1][2]
\* load_set refuses a member that a set cannot have.
Loaded(type, head, r) ==
  IF ~r.ok \/ (type = "set" /\ \E i \in DOMAIN r.val : Dict!MemberKey(r.val[i]) = Dict!Absent) THEN Bad
  ELSE Good(Built(type, head, r.val), r.rest)

\* load_exp_t.
Joined(r, one) == IF one.ok THEN Good(Append(r.val, one.val), one.rest) ELSE Bad
RECURSIVE Load(_)
LoadOne(kind, ts) ==
  IF kind = "value" THEN Load(ts) ELSE IF Starts(ts, kind) THEN Good(Head(ts), Tail(ts)) ELSE Bad
LoadAs(type, head, ts) ==
  Loaded(type, head,
         FoldLeft(LAMBDA r, i : IF r.ok THEN Joined(r, LoadOne(RawKind(type, head, i), r.rest)) ELSE Bad,
                  Good(<< >>, ts), [i \in 1 .. Following(type, head) |-> i]))
LoadOf(type, size, ts) == LoadAs(type, SubSeq(ts, 1, size), SubSeq(ts, size + 1, Len(ts)))
Load(ts) ==
  IF ~Starts(ts, "type") \/ ~Opens(Tail(ts), Opening(Head(ts)[2])) THEN Bad
  ELSE LoadOf(Head(ts)[2], Len(Opening(Head(ts)[2])), Tail(ts))

Bound(x, v) == [y \in DOMAIN globals \cup {x} |-> IF y = x THEN v ELSE globals[y]]
\* load_section_records: every record is installed as it is read.
Installed(g, x, v) == [y \in DOMAIN g \cup {x} |-> IF y = x THEN [val |-> v, mark |-> TRUE] ELSE g[y]]
RECURSIVE LoadRecords(_, _)
AfterRecord(g, r) ==
  IF ~r.ok \/ ~Starts(r.rest, "var") THEN [ok |-> FALSE, globals |-> g, rest |-> << >>]
  ELSE LoadRecords(Tail(r.rest), Installed(g, Head(r.rest)[2], r.val))
LoadRecords(ts, g) ==
  IF Starts(ts, "end") THEN [ok |-> TRUE, globals |-> g, rest |-> Tail(ts)]
  ELSE AfterRecord(g, IF Starts(ts, "record") THEN Load(Tail(ts)) ELSE Bad)
\* alcove_load_unified: a file without its trailer is refused, the records
\* before the cut stay.
Trailed(r) == [ok |-> r.ok /\ Starts(r.rest, "end"), globals |-> r.globals]
LoadUnified(ts) ==
  IF Len(ts) < 2 THEN [ok |-> FALSE, globals |-> globals]
  ELSE Trailed(LoadRecords(SubSeq(ts, 3, Len(ts)), globals))

-----------------------------------------------------------------------------
(* What a value means, whatever its layout.                                *)

RECURSIVE Meaning(_)
Meaning(v) ==
  LET All(vs) == [i \in 1 .. Len(vs) |-> Meaning(vs[i])]
  IN CASE v[1] = "set" -> <<"set", Range(Dict!ValsOf(v[2]))>>
       [] v[1] = "dict" -> <<"dict", {<<e.key, Meaning(e.val)>> : e \in Range(Dict!Entries(v[2]))}>>
       [] v[1] = "deque" -> <<"deque", All(List!Forward(v[2]))>>
       [] v[1] = "hamt" -> <<"hamt", {<<e.key, Meaning(e.val)>> : e \in Range(Hamt!Walk(v[2].heap, v[2].map.root))}>>
       [] v[1] = "vec" -> <<"vec", All(Vect!Elements(v[2]))>>
       [] v[1] = "list" -> <<"list", All(v[2])>>
       [] v[1] = "fn" -> <<"fn", <<v[2].name, Meaning(v[2].params), Meaning(v[2].body)>>>>
       [] OTHER -> v
Holdings == [x \in {y \in DOMAIN globals : globals[y].mark /\ FullyDumpable(globals[y].val)} |->
               Meaning(globals[x].val)]

-----------------------------------------------------------------------------
ImageInit == globals = << >> /\ file = [tokens |-> << >>, of |-> << >>, whole |-> FALSE] /\ cached = << >>

\* (= x v) keeps the mark of the binding and retires the cached reads.
Assign(x, v) ==
  /\ globals' = Bound(x, [val |-> v, mark |-> x \in DOMAIN globals /\ globals[x].mark])
  /\ cached' = << >>
  /\ UNCHANGED file
\* persist and unpersist.
Persist(x, on) ==
  /\ x \in DOMAIN globals
  /\ globals' = [globals EXCEPT ![x].mark = on]
  /\ UNCHANGED <<file, cached>>
Forget(x) ==
  /\ globals' = [y \in DOMAIN globals \ {x} |-> globals[y]]
  /\ cached' = << >>
  /\ UNCHANGED file
\* A compiled function reads x through the global cache.
ReadGlobal(x) ==
  /\ x \in DOMAIN globals \ DOMAIN cached
  /\ cached' = [y \in DOMAIN cached \cup {x} |-> IF y = x THEN globals[x].val ELSE cached[y]]
  /\ UNCHANGED <<globals, file>>
\* savedb writes over the file it had.
Completed(w) == [tokens |-> w.out, of |-> Holdings, whole |-> w.ok]
Save == file' = Completed(DumpUnified) /\ UNCHANGED <<globals, cached>>
\* The process dies while it writes, and a new one starts.
SaveCut(out, of) ==
  /\ file' \in {[tokens |-> SubSeq(out, 1, n), of |-> of, whole |-> FALSE] : n \in 0 .. Len(out) - 1}
  /\ globals' = << >> /\ cached' = << >>
Restart == globals' = << >> /\ cached' = << >> /\ UNCHANGED file
\* loaddb, and the load at startup.  Only a load that succeeds retires the
\* cached reads.
Install(r) ==
  /\ globals' = r.globals
  /\ cached' = IF r.ok THEN << >> ELSE cached
  /\ UNCHANGED file
LoadDb == Install(LoadUnified(file.tokens))

ImageNext ==
  \/ \E x \in Range(Vars) : \E v \in Stored[x] : Assign(x, v)
  \/ \E x \in Range(Vars), on \in BOOLEAN : Persist(x, on)
  \/ \E x \in Range(Vars) : Forget(x) \/ ReadGlobal(x)
  \/ Save \/ SaveCut(DumpUnified.out, Holdings) \/ Restart \/ LoadDb

-----------------------------------------------------------------------------
RestoredBy(r) ==
  LET Back(x) == x \in DOMAIN file.of /\ r.globals[x].mark /\ Meaning(r.globals[x].val) = file.of[x]
  IN /\ file.whole => r.ok /\ DOMAIN file.of \subseteq DOMAIN r.globals
     /\ \A x \in DOMAIN r.globals :
          Back(x) \/ (x \in DOMAIN globals /\ r.globals[x] = globals[x] /\ (file.whole => x \notin DOMAIN file.of))
(* loaddb of a file savedb completed brings every variable it saved back   *)
(* with the value it had, marked; loaddb of any other file installs        *)
(* nothing that was not being saved (alcove_dump_unified,                  *)
(* alcove_load_unified).                                                   *)
ImageRestores == RestoredBy(LoadUnified(file.tokens))

(* savedb succeeds whatever the persistent variables hold: one that cannot *)
(* be written is left out (is_fully_dumpable).                             *)
SaveSkips == DumpUnified.ok

(* What a compiled function has cached of a global variable is the value   *)
(* of that variable (GEN_BUMP at the end of a load).                       *)
GlobalsFresh == \A x \in DOMAIN cached : x \in DOMAIN globals /\ cached[x] = globals[x].val
=============================================================================

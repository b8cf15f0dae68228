----------------------------- MODULE Dictionary -----------------------------
(***************************************************************************)
(* The chained hash table of dict.h, and the two containers that stand on  *)
(* it: the hash-map (builtins_dict.h), whose keys are texts, and the set   *)
(* (set.h), whose keys are texts that carry the type of the member.        *)
(* A value is a pair of its type and its datum; so is a key of a table.    *)
(***************************************************************************)
EXTENDS Naturals, Sequences, SequencesExt

CONSTANTS
  HashOf,       \* the hash of each key
  InitialSize,  \* DICT_KVHT_INITIAL_SIZE, a power of two
  TextOf,       \* the text of each fixnum, as snprintf writes it
  NumberOf      \* the fixnum each all-digit text reads as

Nil == <<"nil", 0>>
True == <<"t", 0>>
Absent == <<"absent", 0>>

NewDict == [size |-> 0, used |-> 0, table |-> << >>]
Bucket(d, key) == (HashOf[key] % d.size) + 1

\* The entries, bucket by bucket (DICT_FOREACH).
Entries(d) == FlattenSeq(d.table)
PositionIn(chain, key) == SelectInSeq(chain, LAMBDA kv : kv.key = key)

\* dict_rehash: each entry goes in front of its new bucket.
RehashedMut(d, n) ==
  LET InFront(t, kv) == [t EXCEPT ![Bucket(d, kv.key)] = <<kv>> \o @]
  IN [d EXCEPT !.size = n,
               !.table = FoldLeft(InFront, [b \in 1 .. n |-> << >>], Entries(d))]
Rehashed(d, n) ==
  LET InFront(t, kv) == [t EXCEPT ![(HashOf[kv.key] % n) + 1] = <<kv>> \o @]
  IN [d EXCEPT !.size = n,
               !.table = FoldLeft(InFront, [b \in 1 .. n |-> << >>], Entries(d))]

\* set_get_keyval_dict without a value: the entry of a key, as a sequence of
\* at most one.
EntryOf(d, key) ==
  IF d.size = 0 THEN << >>
  ELSE SelectSeq(d.table[Bucket(d, key)], LAMBDA kv : kv.key = key)
Has(d, key) == EntryOf(d, key) # << >>
Get(d, key) == IF Has(d, key) THEN Head(EntryOf(d, key)).val ELSE Absent

\* set_get_keyval_dict with a value: replaced where it is, or added at the
\* end of the chain; the table doubles when it has an entry per bucket.
Opened(d) ==
  IF d.size > 0 THEN d
  ELSE [d EXCEPT !.size = InitialSize, !.table = [b \in 1 .. InitialSize |-> << >>]]
Chained(d, b, key, val) ==
  LET at == PositionIn(d.table[b], key)
  IN IF at # 0 THEN [d EXCEPT !.table[b][at].val = val]
     ELSE [d EXCEPT !.used = @ + 1, !.table[b] = Append(@, [key |-> key, val |-> val])]
Doubled(d) == IF d.used >= d.size THEN Rehashed(d, 2 * d.size) ELSE d
PutIn(d, key, val) == Doubled(Chained(d, Bucket(d, key), key, val))
Put(d, key, val) == PutIn(Opened(d), key, val)

\* del_keyval_dict.
Delete(d, key) ==
  IF ~Has(d, key) THEN d
  ELSE LET b == Bucket(d, key)
       IN [d EXCEPT !.used = @ - 1, !.table[b] = RemoveAt(@, PositionIn(@, key))]

-----------------------------------------------------------------------------
(* Hash-maps.                                                              *)

\* alc_key_to_cstr: a number and its text are one key.
KeyText(v) == CASE v[1] \in {"sym", "str"} -> <<"text", v[2]>>
                [] v[1] = "fix" -> <<"text", TextOf[v[2]]>>
                [] OTHER -> Absent
\* alc_cstr_to_key: a text that reads as a number is a number, one that
\* begins with a colon a keyword.
KeyOfText(key) ==
  IF key[2] \in DOMAIN NumberOf THEN <<"fix", NumberOf[key[2]]>>
  ELSE <<IF key[2] \in {":a", ":b"} THEN "sym" ELSE "str", key[2]>>

\* hash-map: Absent stands for the error on an unsupported key.
HashMap(pairs) == FoldLeft(LAMBDA d, p : Put(d, KeyText(p[1]), p[2]), NewDict, pairs)
\* get, contains?, keys and vals.
Lookup(d, k, default) == IF KeyText(k) # Absent /\ Has(d, KeyText(k))
                         THEN Get(d, KeyText(k)) ELSE default
ContainsKey(d, k) == KeyText(k) # Absent /\ Has(d, KeyText(k))
KeysOf(d) == [i \in 1 .. Len(Entries(d)) |-> KeyOfText(Entries(d)[i].key)]
ValsOf(d) == [i \in 1 .. Len(Entries(d)) |-> Entries(d)[i].val]

\* isoequal on two hash-maps.
IsoMaps(d, c) ==
  d.used = c.used /\ \A i \in 1 .. Len(Entries(d)) : Get(c, Entries(d)[i].key) = Entries(d)[i].val

-----------------------------------------------------------------------------
(* Sets.                                                                   *)

\* set_key_for_value: the type and the value of a scalar; a list, a
\* container or a function has none.
MemberKey(v) == IF v[1] \in {"nil", "t", "fix", "flo", "str", "sym"} THEN v ELSE Absent

\* set_insert_value, set and set-has?.
Inserted(d, v) == IF MemberKey(v) = Absent THEN d ELSE Put(d, MemberKey(v), v)
SetOf(vs) == FoldLeft(Inserted, NewDict, vs)
HasMember(d, v) == MemberKey(v) # Absent /\ Has(d, MemberKey(v))

\* set-union, set-intersection and set-difference; isoequal on two sets.
Union(a, b) == FoldLeft(Inserted, SetOf(ValsOf(a)), ValsOf(b))
Among(a, b, wanted) ==
  FoldLeft(LAMBDA d, kv : IF Has(b, kv.key) = wanted THEN Inserted(d, kv.val) ELSE d,
           NewDict, Entries(a))
Intersection(a, b) == Among(a, b, TRUE)
Difference(a, b) == Among(a, b, FALSE)
IsoSets(a, b) == a.used = b.used /\ \A i \in 1 .. Len(Entries(a)) : Has(b, Entries(a)[i].key)
=============================================================================

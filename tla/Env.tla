-------------------------------- MODULE Env --------------------------------
(***************************************************************************)
(* Environments.  A store st holds                                         *)
(*                                                                         *)
(*   st.env     the frames made so far; frame 1 is the global environment  *)
(*   st.gen     alcove_global_gen, which dates the global-lookup caches    *)
(*   st.out     what the program has printed                               *)
(*   st.conts   g_cont_id, the call/cc frames opened so far                *)
(*   st.gc      the global-lookup caches of the bytecodes: a key to the    *)
(*              value cached and the generation it was cached at           *)
(*   st.tier    "ast" (--interpret), "debug" (the stepping debugger, which *)
(*              keeps real frames) or "vm" (the default)                   *)
(*                                                                         *)
(* A frame has up to InlineSlots inline bindings (slots, a sequence of     *)
(* name/value pairs), a dictionary d for the others, and the frame above   *)
(* it (up, 0 for none).  Builtins live outside, in reserved_symbol, and    *)
(* are found before any frame is looked at.                                *)
(***************************************************************************)
EXTENDS Values, SequencesExt, FiniteSetsExt

CONSTANT Reserved    \* the names of the builtins (reserved_symbol)
ReservedValue(s) == CASE s = "t" -> T [] s = "nil" -> Nil [] OTHER -> Op(s)

Root == 1
NoBinding == <<"unbound">>
EmptyFrame(up) == [slots |-> << >>, d |-> << >>, up |-> up]

NewStore(tier) == [env |-> <<EmptyFrame(0)>>, gen |-> 0, out |-> << >>,
                   conts |-> 0, gc |-> << >>, tier |-> tier]

\* make_env(up): the new frame is the last of the store.
MakeEnv(st, up) == [st EXCEPT !.env = Append(@, EmptyFrame(up))]
LastEnv(st) == Len(st.env)

\* The frames from i up to the root.
Chain(st, i) == LET f[k \in 0 .. Len(st.env)] == IF k = 0 THEN << >> ELSE <<k>> \o f[st.env[k].up] IN f[i]

SlotsNamed(fr, s) == {k \in DOMAIN fr.slots : fr.slots[k][1] = s}
Binds(fr, s) == SlotsNamed(fr, s) # {} \/ s \in DOMAIN fr.d

\* The nearest frame that binds s, 0 if none does.
FirstOf(ks) == IF ks = << >> THEN 0 ELSE ks[1]
FrameOf(st, i, s) == FirstOf(SelectSeq(Chain(st, i), LAMBDA k : Binds(st.env[k], s)))

\* What frame k binds s to: its last or its first slot of that name, or the
\* entry of the dictionary.
InFrame(fr, s, ks, last) == IF ks # {} THEN fr.slots[IF last THEN Max(ks) ELSE Min(ks)][2] ELSE fr.d[s]
Found(st, k, s, last) == IF k = 0 THEN NoBinding ELSE InFrame(st.env[k], s, SlotsNamed(st.env[k], s), last)

\* lookup: within a frame the innermost binding, which is the last slot.
Lookup(st, i, s) == IF s \in Reserved THEN ReservedValue(s) ELSE Found(st, FrameOf(st, i, s), s, TRUE)

\* lookup_scoped scans the slots from the first, and says whether the answer
\* may be cached: only a builtin or a binding of the root is the same for
\* every frame.
Scoped(st, k, s) == [v |-> Found(st, k, s, FALSE), global |-> k = Root]
LookupScoped(st, i, s) ==
  IF s \in Reserved THEN [v |-> ReservedValue(s), global |-> TRUE] ELSE Scoped(st, FrameOf(st, i, s), s)

SetDict(st, k, s, v) ==
  [st EXCEPT !.env[k].d = [x \in DOMAIN @ \cup {s} |-> IF x = s THEN v ELSE @[x]]]

\* var2env_bind: inline while there is room, then in the dictionary.
Bind(st, k, s, v) ==
  IF Len(st.env[k].slots) < InlineSlots
  THEN [st EXCEPT !.env[k].slots = Append(@, <<s, v>>)]
  ELSE SetDict(st, k, s, v)

\* Overwrite the nearest binding of s: its first slot, or its dictionary
\* entry, which also dates the caches; with none, create it in frame new.
StoreInMut(st, k, s, v, new) ==
  CASE k = 0 -> [SetDict(st, new, s, v) EXCEPT !.gen = @ + 1]
    [] k # 0 /\ SlotsNamed(st.env[k], s) # {} -> [st EXCEPT !.env[k].slots[Min(SlotsNamed(st.env[k], s))][2] = v]
    [] OTHER -> SetDict(st, k, s, v)
StoreIn(st, k, s, v, new) ==
  CASE k # 0 /\ SlotsNamed(st.env[k], s) # {} -> [st EXCEPT !.env[k].slots[Min(SlotsNamed(st.env[k], s))][2] = v]
    [] OTHER -> [SetDict(st, IF k = 0 THEN new ELSE k, s, v) EXCEPT !.gen = @ + 1]
StoreNearest(st, i, s, v, new) == StoreIn(st, FrameOf(st, i, s), s, v, new)

\* setq_store_symbol creates at the root, assign_store_symbol (a compiled =)
\* and updatebang (an evaluated one) in the current frame; updatebang also
\* refuses a reserved name and names an anonymous lambda.
SetqStoreSymbol(st, i, s, v) == StoreNearest(st, i, s, v, Root)
AssignStoreSymbol(st, i, s, v) == StoreNearest(st, i, s, v, i)
Named(v, s) == IF Tag(v) = "fn" /\ v[2].name = "" THEN <<"fn", [v[2] EXCEPT !.name = s]>>
               ELSE v
UpdateBang(st, i, s, v) == AssignStoreSymbol(st, i, s, Named(v, s))

\* defcmd, defncmd, defmacrocmd: the definition goes into the dictionary of
\* the frame it is evaluated in, whatever the frames above bind.
Define(st, i, s, v) == [SetDict(st, i, s, v) EXCEPT !.gen = @ + 1]

\* The parameters of a call in a fresh frame, and the frame emptied for a
\* call that reuses it.
ClearFrame(st, k) == [st EXCEPT !.env[k].slots = << >>, !.env[k].d = << >>]
BindAll(st, k, names, vals) ==
  FoldLeftDomain(LAMBDA acc, j : Bind(acc, k, names[j], vals[j]), st, names)
=============================================================================

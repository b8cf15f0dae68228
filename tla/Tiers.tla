------------------------------- MODULE Tiers -------------------------------
(***************************************************************************)
(* One program run by the bytecode machine, an instruction at a time, next *)
(* to what the tree walker makes of it.  A program is a sequence of        *)
(* top-level forms and a last one, a call (main arg ...) with literals for *)
(* arguments.                                                              *)
(*                                                                         *)
(* A function called from main runs inside the step of the call, as the    *)
(* call of vm_run by vm_invoke_values does.                                *)
(***************************************************************************)
EXTENDS Jit

CONSTANT Programs

VARIABLES
  program,    \* [defs |-> the forms, main |-> the name, args |-> the values]
  m,          \* the activation of main
  promised    \* what the tree walker, and the stepping debugger, answer
tvars == <<program, m, promised>>

\* alcove's load loop: top-level forms one after the other in the root frame.
Loaded(p, tier) ==
  FoldLeft(LAMBDA s, e : Evaluate(e, Root, FALSE, s).st, NewStore(tier), p.defs)

\* What can be told apart of a value: a function is its name and parameters,
\* since two tiers give it different frames.
RECURSIVE Shape(_)
Shape(v) == CASE Tag(v) = "fn" -> <<"fn", v[2].name, v[2].params>>
              [] Tag(v) = "multi" -> <<"multi", v[2]>>
              [] Tag(v) = "list" -> <<"list", [k \in DOMAIN v[2] |-> Shape(v[2][k])], Shape(v[3])>>
              [] OTHER -> v
Outcome(r) ==
  [value |-> Shape(r.v), out |-> [k \in DOMAIN r.st.out |-> Shape(r.st.out[k])],
   globals |-> [s \in DOMAIN r.st.env[Root].d |-> Shape(r.st.env[Root].d[s])]]
Walked(p, tier) ==
  Outcome(Evaluate(Form(Sym(p.main), p.args), Root, FALSE, Loaded(p, tier)))

\* The call of main: its parameters are bound, and its code starts.
Entered(f, k, b) == [Activation(f, k, b.st) EXCEPT !.done = IsErr(b.v), !.ret = b.v]
EnterMain(f, vs, st) == Entered(f, LastEnv(st), Var2Env(f[2].params, vs, LastEnv(st), st))
StartMain(f, vs, st) == EnterMain(f, vs, MakeEnv(st, f[2].env))
StartIn(p, st) == StartMain(Resolve(Lookup(st, Root, p.main), Len(p.args)), p.args, st)
Start(p) == StartIn(p, Loaded(p, "vm"))

TiersInit == /\ program \in Programs
             /\ m = Start(program)
             /\ promised = [tier \in {"ast", "debug"} |-> Walked(program, tier)]

Running == ~ m.done /\ ~ m.leaving /\ Compiled(m.fn)
At(ops) == Running /\ Ins(m)[1] \in ops
Becomes(n) == m' = n /\ UNCHANGED <<program, promised>>

DoLoadFix == At({"LOAD_FIX"}) /\ Becomes(LoadFix(m))
DoLoadConst == At({"LOAD_CONST"}) /\ Becomes(LoadConst(m))
DoLoadSlot == At({"LOAD_SLOT"}) /\ Becomes(LoadSlot(m))
DoLoadGlobal == At({"LOAD_GLOBAL"}) /\ Becomes(LoadGlobal(m))
DoStoreSlot == At({"STORE_SLOT"}) /\ Becomes(StoreSlot(m))
DoStoreFree == At({"STORE_FREE"}) /\ Becomes(StoreFree(m))
DoSetqDyn == At({"SETQ_DYN"}) /\ Becomes(SetqDyn(m))
DoBindSlot == At({"BIND_SLOT"}) /\ Becomes(BindSlot(m, ""))
DoBindSlotNamed == At({"BIND_SLOT_NAMED"}) /\ Becomes(BindSlot(m, Ins(m)[3]))
DoUnbindSlot == At({"UNBIND_SLOT"}) /\ Becomes(UnbindSlot(m))
DoBinary == At(BinaryOps) /\ Becomes(Binary(m))
DoUnary == At(UnaryOps) /\ Becomes(Unary(m))
DoSlotFix == At(SlotFixOps) /\ Becomes(SlotFix(m))
DoSlotLeSlot == At({"SLOT_LE_SLOT"}) /\ Becomes(SlotLeSlot(m))
DoList == At({"LIST"}) /\ Becomes(MakeList(m))
DoJump == At({"JUMP"}) /\ Becomes(Jump(m))
DoBranch == At({"BR_IF_FALSE", "BR_IF_TRUE"}) /\ Becomes(BranchIf(m, Ins(m)[1] = "BR_IF_TRUE"))
DoDup == At({"DUP"}) /\ Becomes(Dup(m))
DoPop == At({"POP"}) /\ Becomes(Pop(m))
DoCall == At({"CALL"}) /\ Becomes(Call(m))
DoCallGlobal == At({"CALL_GLOBAL"}) /\ Becomes(CallGlobal(m))
DoTailSelf == At({"TAIL_SELF"}) /\ Becomes(TailSelf(m))
DoTailCall == At({"TAIL_CALL"}) /\ Becomes(TailCall(m))
DoEvalAst == At({"EVAL_AST"}) /\ Becomes(EvalAst(m))
DoPushHandler == At({"PUSH_HANDLER"}) /\ Becomes(PushHandler(m))
DoRet == At({"RET"}) /\ Becomes(Ret(m))
\* The end of the call: the handlers it pushed run.
DoReturn == ~ m.done /\ m.leaving /\ Becomes(VmReturn(m))
\* A main that did not compile is walked.
WalkMain == ~ m.done /\ ~ Compiled(m.fn) /\ Becomes(Returned(m, RunBody(m.fn, m.k, m.st)))

TiersNext ==
  \/ DoLoadFix \/ DoLoadConst \/ DoLoadSlot \/ DoLoadGlobal
  \/ DoStoreSlot \/ DoStoreFree \/ DoSetqDyn
  \/ DoBindSlot \/ DoBindSlotNamed \/ DoUnbindSlot
  \/ DoBinary \/ DoUnary \/ DoSlotFix \/ DoSlotLeSlot \/ DoList
  \/ DoJump \/ DoBranch \/ DoDup \/ DoPop
  \/ DoCall \/ DoCallGlobal \/ DoTailSelf \/ DoTailCall \/ DoEvalAst \/ DoPushHandler \/ DoRet
  \/ DoReturn \/ WalkMain
TiersSpec == TiersInit /\ [][TiersNext]_tvars

-----------------------------------------------------------------------------
(* Properties.                                                             *)

\* The compiled tier gives each program the value, the output and the global
\* bindings that the tree walker gives it (compiler_impl.h: "identical to
\* the AST msg", "VM == AST byte-for-byte"), and so does the tree walker with
\* real frames instead of its trampoline, under the debugger (make_tail_marker
\* and the marker loop of invoke_body).
TiersAgree == /\ promised.debug = promised.ast
              /\ m.done => Outcome(R(m.ret, m.st)) = promised.ast

\* The native code of main answers what its bytecode answers, where it gives
\* up too (jit_common.h: "any unsupported construct returns 0 (no JIT -> the VM
\* runs it), never miscompiles"; every matcher and its NULL).
JitAnswers(s) == ~ s.done /\ Compiled(s.fn) => Outcome(Jitted(s)) = Outcome(R(m.ret, m.st))
JitAgrees == m.done => JitAnswers(Start(program))

\* What an instruction takes from the operand stack and what it leaves.
Effect(ins) ==
  LET op == ins[1] IN
  CASE op \in {"LOAD_FIX", "LOAD_CONST", "LOAD_SLOT", "LOAD_GLOBAL", "EVAL_AST", "SLOT_LE_SLOT"}
              \cup SlotFixOps -> <<0, 1>>
    [] op \in {"STORE_SLOT", "STORE_FREE", "SETQ_DYN"} \cup UnaryOps -> <<1, 1>>
    [] op \in {"BIND_SLOT", "BIND_SLOT_NAMED", "POP", "BR_IF_FALSE", "BR_IF_TRUE", "RET"} -> <<1, 0>>
    [] op \in {"UNBIND_SLOT", "JUMP", "PUSH_HANDLER"} -> <<0, 0>>
    [] op \in BinaryOps -> <<2, 1>>
    [] op = "DUP" -> <<1, 2>>
    [] op = "LIST" -> <<ins[2], 1>>
    [] op = "CALL" -> <<ins[2] + 1, 1>>
    [] op = "CALL_GLOBAL" -> <<ins[3], 1>>
    [] op = "TAIL_SELF" -> <<ins[2], 0>>
    [] op = "TAIL_CALL" -> <<ins[2] + 1, 0>>
Reads(ins) == CASE ins[1] \in {"LOAD_SLOT", "STORE_SLOT", "UNBIND_SLOT"} \cup SlotFixOps -> {ins[2]}
                [] ins[1] = "SLOT_LE_SLOT" -> {ins[2], ins[3]}
                [] OTHER -> {}
Live(ins, ks) == CASE ins[1] \in {"BIND_SLOT", "BIND_SLOT_NAMED"} -> ks \cup {ins[2]}
                   [] ins[1] = "UNBIND_SLOT" -> ks \ {ins[2]}
                   [] OTHER -> ks
Succs(code, pc) ==
  LET op == code[pc][1] IN
  CASE op \in {"RET", "TAIL_SELF", "TAIL_CALL"} -> {}
    [] op = "JUMP" -> {pc + 1 + code[pc][2]}
    [] op \in {"BR_IF_FALSE", "BR_IF_TRUE"} -> {pc + 1, pc + 1 + code[pc][2]}
    [] OTHER -> {pc + 1}

\* The pairs (operands, bound slots) with which control may reach each
\* instruction, found in one pass over the forward edges.
Reached(code, n) ==
  LET f[pc \in 1 .. Len(code)] ==
        (IF pc = 1 THEN {<<0, 1 .. n>>} ELSE {})
        \cup UNION {{<<a[1] - Effect(code[q])[1] + Effect(code[q])[2], Live(code[q], a[2])>> : a \in f[q]}
                    : q \in {q \in 1 .. pc - 1 : pc \in Succs(code, q)}}
  IN f

\* Every path through the code of a function reaches an instruction with the
\* same operands and the same slots bound, enough of both for it, and leaves
\* exactly the result at RET; a loop comes back as it began (compile_for,
\* compile_case, patch_i16).
WellStacked ==
  m.pc = 1 /\ Running =>
    LET code == m.fn[2].code.code
        at == Reached(code, Len(m.fn[2].code.keys))
        After(pc, a) == <<a[1] - Effect(code[pc])[1] + Effect(code[pc])[2], Live(code[pc], a[2])>>
    IN \A pc \in DOMAIN code : \A a \in at[pc] :
         /\ at[pc] = {a}
         /\ Effect(code[pc])[1] <= a[1] /\ Reads(code[pc]) \subseteq a[2]
         /\ code[pc][1] = "RET" => a[1] = 1
         /\ \A q \in Succs(code, pc) : q \in DOMAIN code /\ at[q] = {After(pc, a)}

\* A cached global that is still dated now is what lookup would find
\* (LOAD_GLOBAL, CALL_GLOBAL, every writer of a global).
CacheFresh == \A key \in DOMAIN m.st.gc :
                m.st.gc[key].gen = m.st.gen => m.st.gc[key].v = Lookup(m.st, Root, key[4])
=============================================================================

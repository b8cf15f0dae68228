----------------------------- MODULE MCSnapshot -----------------------------
(* The workloads of Snapshot for the model checker.                        *)
EXTENDS Snapshot

Load(commands, spaced, kills) == [commands |-> commands, spaced |-> spaced, kills |-> kills]
All(commands) == [r \in Reactors |-> commands]
One(commands) == LET first == CHOOSE r \in Reactors : TRUE
                 IN  [r \in Reactors |-> IF r = first THEN commands ELSE {}]

\* What the dump stays intact under: background saves of any reactor, each after
\* the polls of the last, or foreground saves of one reactor in a server that is
\* killed at any step of them.
OneKindOfSave == {Load(All({"bgsave"}), TRUE, FALSE), Load(One({"save"}), FALSE, TRUE)}

OnlyBackground == {Load(All({"bgsave"}), FALSE, FALSE)}
BothKinds == {Load(All({"save", "bgsave"}), FALSE, FALSE)}
=============================================================================

------------------------------ MODULE Snapshot ------------------------------
(* SAVE, BGSAVE and the poll that every reactor makes once per turn         *)
(* (resp.c).  Both write <path>.tmp and rename it over <path>: SAVE in the   *)
(* reactor, BGSAVE in a forked child that some reactor reaps.  Files are     *)
(* inodes that a name may point to, and that a writer keeps open whatever    *)
(* happens to the name.                                                      *)
EXTENDS Naturals, FiniteSets

CONSTANTS Reactors,
          Pids,      \* the process ids that fork can return
          Inodes,
          Workloads, \* what the outside does: the commands each reactor gets,
                     \* whether a BGSAVE comes only when no poll is under way,
                     \* and whether the server may be killed (with no child)
          NULL

IDLE == "idle"
FORKING == "forking"

ASSUME SnapshotAssumption ==
    /\ Reactors \cap Pids = {}
    /\ FORKING \notin Pids \cup {NULL}
    /\ NULL \notin Reactors \cup Pids \cup Inodes
    /\ Workloads \subseteq [commands : [Reactors -> SUBSET {"save", "bgsave"}],
                         spaced : BOOLEAN, kills : BOOLEAN]

VARIABLES bgsave_pid,  \* resp_bgsave_pid: 0, -1 while forking, or the child
          stash,       \* resp_bgsave_tmp and _dst: the child they were set for
          tmp, dst,    \* the inodes the two names point to
          file,        \* per inode: the writer of each of its two parts
          fd,          \* per writer: the inode it has open
          proc,        \* per pid: what the child is doing
          pc,          \* per reactor: its next step
          seen,        \* per reactor: the pid its poll read, the status it got
          workload     \* what happens in this behaviour

names == <<tmp, dst>>
disk == <<names, file, fd>>
shared == <<bgsave_pid, stash>>
snapVars == <<shared, disk, proc, pc, seen, workload>>

Writers == Reactors \cup Pids
Parts == {1, 2}
Empty == [n \in Parts |-> NULL]
Nothing == [pid |-> NULL, ok |-> FALSE]

SnapInit == /\ bgsave_pid = NULL
            /\ stash = NULL
            /\ tmp = NULL
            /\ dst = NULL
            /\ file = [i \in Inodes |-> Empty]
            /\ fd = [w \in Writers |-> NULL]
            /\ proc = [p \in Pids |-> "none"]
            /\ pc = [r \in Reactors |-> IDLE]
            /\ seen = [r \in Reactors |-> Nothing]
            /\ workload \in Workloads

At(r, from, to) == pc[r] = from /\ pc' = [pc EXCEPT ![r] = to]
Child(p, from, to) == proc[p] = from /\ proc' = [proc EXCEPT ![p] = to]

-----------------------------------------------------------------------------
(* resp_dump_to_tmp, by a reactor or a child *)

Linked(i) == i \in {tmp, dst} \/ \E w \in Writers : fd[w] = i

\* fopen(tmp, "w"): truncate the file of that name, or make one.
Open(w) ==
    \E i \in Inodes :
        /\ IF tmp = NULL THEN ~ Linked(i) ELSE i = tmp
        /\ tmp' = i
        /\ file' = [file EXCEPT ![i] = Empty]
        /\ fd' = [fd EXCEPT ![w] = i]
        /\ UNCHANGED dst

\* Writers of one file write at their own offsets.
Write(w, n) ==
    /\ file' = [file EXCEPT ![fd[w]][n] = w]
    /\ UNCHANGED <<names, fd>>

Close(w) == fd' = [fd EXCEPT ![w] = NULL]

CompleteMut(w) == UNCHANGED disk
\* The dump is complete, flushed and closed,
Complete(w) == Close(w) /\ UNCHANGED <<names, file>>
\* or a write has failed and the name is removed.
Abandon(w) == Close(w) /\ tmp' = NULL /\ UNCHANGED <<dst, file>>
\* The kernel closes the file of a process that is killed.
Killed(w) == Close(w) /\ UNCHANGED <<names, file>>

\* rename(tmp, dst), when there is such a file.
Rename == tmp # NULL /\ dst' = tmp /\ tmp' = NULL
UnlinkMut == UNCHANGED names
Unlink == tmp' = NULL /\ UNCHANGED dst

-----------------------------------------------------------------------------
(* SAVE *)

SaveOpen(r) ==
    /\ "save" \in workload.commands[r]
    /\ \/ At(r, IDLE, "save1") /\ Open(r)
       \/ At(r, IDLE, IDLE) /\ UNCHANGED disk
    /\ UNCHANGED <<shared, proc, seen, workload>>

SaveWrite(r) ==
    /\ \/ At(r, "save1", "save2") /\ Write(r, 1)
       \/ At(r, "save2", "save_close") /\ Write(r, 2)
       \/ At(r, "save_close", "save_rename") /\ Complete(r)
       \/ \E step \in {"save1", "save2"} : At(r, step, IDLE) /\ Abandon(r)
    /\ UNCHANGED <<shared, proc, seen, workload>>

SaveRename(r) ==
    /\ At(r, "save_rename", IDLE)
    /\ Rename \/ UNCHANGED names
    /\ UNCHANGED <<shared, file, fd, proc, seen, workload>>

-----------------------------------------------------------------------------
(* BGSAVE *)

GuardMut == TRUE
\* No save is in progress.
Guard == bgsave_pid = NULL

BgsaveBegin(r) ==
    /\ "bgsave" \in workload.commands[r]
    /\ workload.spaced => \A q \in Reactors : pc[q] = IDLE
    /\ Guard
    /\ At(r, IDLE, "fork")
    /\ bgsave_pid' = FORKING
    /\ UNCHANGED <<stash, disk, proc, seen, workload>>

\* fork, or no memory for the paths or for the process.
Fork(r) ==
    /\ \/ \E p \in Pids : /\ At(r, "fork", "stash")
                          /\ Child(p, "none", "open")
                          /\ seen' = [seen EXCEPT ![r].pid = p]
                          /\ UNCHANGED bgsave_pid
       \/ /\ At(r, "fork", IDLE)
          /\ bgsave_pid' = NULL
          /\ UNCHANGED <<proc, seen>>
    /\ UNCHANGED <<stash, disk, workload>>

\* The parent keeps the paths, then publishes the pid for the polls.
Stash(r) ==
    /\ At(r, "stash", "publish")
    /\ stash' = seen[r].pid
    /\ UNCHANGED <<bgsave_pid, disk, proc, seen, workload>>

PublishPid(r) ==
    /\ At(r, "publish", IDLE)
    /\ bgsave_pid' = seen[r].pid
    /\ seen' = [seen EXCEPT ![r] = Nothing]
    /\ UNCHANGED <<stash, disk, proc, workload>>

Dumping == {"write1", "write2", "close"}

ChildStep(p) ==
    /\ \/ Child(p, "open", "write1") /\ Open(p)
       \/ Child(p, "open", "failed") /\ UNCHANGED disk
       \/ Child(p, "write1", "write2") /\ Write(p, 1)
       \/ Child(p, "write2", "close") /\ Write(p, 2)
       \/ Child(p, "close", "done") /\ Complete(p)
       \/ \E step \in {"write1", "write2"} : Child(p, step, "failed") /\ Abandon(p)
       \/ \E step \in Dumping : Child(p, step, "failed") /\ Killed(p)
    /\ UNCHANGED <<shared, pc, seen, workload>>

-----------------------------------------------------------------------------
(* resp_bgsave_poll *)

PollLoad(r) ==
    /\ bgsave_pid \in Pids
    /\ At(r, IDLE, "wait")
    /\ seen' = [seen EXCEPT ![r] = [pid |-> bgsave_pid, ok |-> FALSE]]
    /\ UNCHANGED <<shared, disk, proc, workload>>

ExitedMut(p) == proc[p] = "done"
\* The child is a zombie.
Exited(p) == proc[p] \in {"done", "failed"}

\* waitpid(pid, WNOHANG): still running, reaped by this reactor, or reaped by
\* another (ECHILD).
PollWait(r) ==
    LET p == seen[r].pid IN
    /\ pc[r] = "wait"
    /\ \/ /\ Exited(p)
          /\ At(r, "wait", "commit")
          /\ seen' = [seen EXCEPT ![r].ok = proc[p] = "done"]
          /\ proc' = [proc EXCEPT ![p] = "none"]
       \/ /\ proc[p] = "none"
          /\ At(r, "wait", "clear")
          /\ UNCHANGED <<proc, seen>>
       \/ /\ proc[p] # "none" /\ ~ Exited(p)
          /\ At(r, "wait", IDLE)
          /\ seen' = [seen EXCEPT ![r] = Nothing]
          /\ UNCHANGED proc
    /\ UNCHANGED <<shared, disk, workload>>

\* The compare-and-swap of a reactor that found the child reaped.
PollClear(r) ==
    /\ At(r, "clear", IDLE)
    /\ bgsave_pid' = IF bgsave_pid = seen[r].pid THEN NULL ELSE bgsave_pid
    /\ seen' = [seen EXCEPT ![r] = Nothing]
    /\ UNCHANGED <<stash, disk, proc, workload>>

CommittableMut(r) == stash # NULL
\* The child exited with 0 and its paths are there.
Committable(r) == seen[r].ok /\ stash # NULL

PollCommit(r) ==
    /\ At(r, "commit", "free")
    /\ IF Committable(r)
       THEN Rename \/ Unlink
       ELSE IF stash # NULL THEN Unlink ELSE UNCHANGED names
    /\ UNCHANGED <<shared, file, fd, proc, seen, workload>>

PollFree(r) ==
    /\ At(r, "free", "release")
    /\ stash' = NULL
    /\ UNCHANGED <<bgsave_pid, disk, proc, seen, workload>>

PollRelease(r) ==
    /\ At(r, "release", IDLE)
    /\ bgsave_pid' = NULL
    /\ seen' = [seen EXCEPT ![r] = Nothing]
    /\ UNCHANGED <<stash, disk, proc, workload>>

-----------------------------------------------------------------------------
Save(r) == SaveWrite(r) \/ SaveRename(r)
Bgsave(r) == Fork(r) \/ Stash(r) \/ PublishPid(r)
Poll(r) == \/ PollLoad(r) \/ PollWait(r) \/ PollClear(r)
           \/ PollCommit(r) \/ PollFree(r) \/ PollRelease(r)

\* The server is killed and started again: the names and the files stay.
Crash ==
    /\ workload.kills
    /\ \A p \in Pids : proc[p] = "none"
    /\ bgsave_pid' = NULL
    /\ stash' = NULL
    /\ fd' = [w \in Writers |-> NULL]
    /\ pc' = [r \in Reactors |-> IDLE]
    /\ seen' = [r \in Reactors |-> Nothing]
    /\ UNCHANGED <<names, file, proc, workload>>

SnapNext ==
    \/ \E r \in Reactors : SaveOpen(r) \/ BgsaveBegin(r) \/ Save(r) \/ Bgsave(r) \/ Poll(r)
    \/ \E p \in Pids : ChildStep(p)
    \/ Crash

SnapSpec == SnapInit /\ [][SnapNext]_snapVars

\* Reactors keep taking turns, each with its poll, and children run.
FairSnapSpec ==
    /\ SnapSpec
    /\ \A r \in Reactors : WF_snapVars(Save(r) \/ Bgsave(r)) /\ WF_snapVars(Poll(r))
    /\ \A p \in Pids : WF_snapVars(ChildStep(p))

-----------------------------------------------------------------------------
\* The type of the state; a writer has a file open exactly while it dumps.
SnapTypeOK ==
    /\ bgsave_pid \in Pids \cup {NULL, FORKING}
    /\ stash \in Pids \cup {NULL}
    /\ {tmp, dst} \subseteq Inodes \cup {NULL}
    /\ file \in [Inodes -> [Parts -> Writers \cup {NULL}]]
    /\ fd \in [Writers -> Inodes \cup {NULL}]
    /\ proc \in [Pids -> {"none", "open", "write1", "write2", "close", "done", "failed"}]
    /\ workload \in Workloads
    /\ pc \in [Reactors -> {IDLE, "save1", "save2", "save_close", "save_rename", "fork",
                            "stash", "publish", "wait", "clear", "commit", "free", "release"}]
    /\ seen \in [Reactors -> [pid : Pids \cup {NULL}, ok : BOOLEAN]]
    /\ \A r \in Reactors : fd[r] # NULL <=> pc[r] \in {"save1", "save2", "save_close"}
    /\ \A p \in Pids : fd[p] # NULL <=> proc[p] \in Dumping

\* The file under the real name is one complete dump of one writer, and nobody
\* can still write into it: a crash at any moment leaves a dump to load.
DumpIntact ==
    dst # NULL => /\ \E w \in Writers : \A n \in Parts : file[dst][n] = w
                  /\ \A w \in Writers : fd[w] # dst

\* Between background saves there is no temporary file left behind, whatever
\* became of the child.  (A failed rename, or a kill, leaves that of a SAVE.)
NoLeftover ==
    /\ \A r \in Reactors : "save" \notin workload.commands[r]
    /\ bgsave_pid = NULL
    /\ \A r \in Reactors : pc[r] = IDLE
    => tmp = NULL

\* What the saves, their children and their polls leave on the disk.
FilesRight == DumpIntact /\ NoLeftover

\* A background save comes to an end, and another can be started.
SaveEnds == bgsave_pid # NULL ~> bgsave_pid = NULL
=============================================================================

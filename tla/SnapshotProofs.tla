--------------------------- MODULE SnapshotProofs ---------------------------
(* Saves of one kind by one reactor leave one complete dump under the real   *)
(* name, whatever becomes of their children, for every number of process ids *)
(* and inodes.  With several reactors that needs saves that wait for each    *)
(* other's polls, which no code sees to.                                     *)
EXTENDS Snapshot, TLAPS

OneReactor == \A r, q \in Reactors : r = q

\* Background saves in a server that is not killed.
Background(load) == ~ load.kills /\ \A r \in Reactors : "save" \notin load.commands[r]

\* Foreground saves of reactor s, in a server that may be killed at any step.
Foreground(load, s) == \A r \in Reactors : /\ "bgsave" \notin load.commands[r]
                                           /\ r # s => "save" \notin load.commands[r]

\* The clients ask for saves of one kind.
OneKind == \A load \in Workloads : \/ Background(load)
                                   \/ \E s \in Reactors : Foreground(load, s)

\* The polls of a save are over when the next one begins: a reactor that is the
\* only one does one thing after the other.
Spaced(load) == load.spaced \/ OneReactor
SpacedSaves == \A load \in Workloads : Background(load) => Spaced(load)

-----------------------------------------------------------------------------
(* The inductive invariant                                                 *)

Saving == {"save1", "save2", "save_close", "save_rename"}
Starting == {"fork", "stash", "publish"}
Winning == {"commit", "free", "release"}
Polling == {"wait", "clear"} \cup Winning

\* w has the temporary file open and has written its first n parts.
Draft(w, n) == /\ tmp # NULL
               /\ fd[w] = tmp
               /\ \A m \in Parts : m <= n => file[tmp][m] = w

\* The temporary file is a complete dump of w.
FullDump(w) == tmp # NULL /\ \A m \in Parts : file[tmp][m] = w

\* The file in place is whole, and neither name nor descriptor leads to it
\* for a writer.
InPlace == DumpIntact /\ (dst # NULL => dst # tmp)

\* No child is running or waiting to be reaped.
NoChild == \A p \in Pids : proc[p] = "none"

\* One background save at a time: while it is begun all others are idle, then the
\* pid is that of the one child until a reactor has reaped it, and that reactor
\* commits alone.
OneSave ==
    /\ \A r \in Reactors : pc[r] \in Starting =>
          bgsave_pid = FORKING /\ \A q \in Reactors \ {r} : pc[q] = IDLE
    /\ bgsave_pid = FORKING => \E r \in Reactors : pc[r] \in Starting
    /\ \A r \in Reactors : pc[r] \in Polling =>
          seen[r].pid \in Pids /\ bgsave_pid \in {seen[r].pid, NULL}
    /\ \A r \in Reactors : pc[r] \in Winning \cup {"clear", "fork"} => NoChild
    /\ \A r, q \in Reactors : pc[r] \in Winning /\ pc[q] \in Winning => r = q
    /\ \A r \in Reactors : pc[r] \in {"stash", "publish"} =>
          /\ seen[r].pid \in Pids
          /\ \A p \in Pids : proc[p] # "none" <=> p = seen[r].pid
    /\ \A p \in Pids : proc[p] # "none" =>
          bgsave_pid = p \/ \E r \in Reactors : pc[r] \in {"stash", "publish"}
    /\ \A p, q \in Pids : proc[p] # "none" /\ proc[q] # "none" => p = q

\* The paths are kept from before the pid is published until the commit.
PathsKept ==
    /\ \A r \in Reactors : pc[r] \in {"publish", "commit"} => stash # NULL
    /\ \A p \in Pids : proc[p] # "none" /\ bgsave_pid = p => stash # NULL

\* What is in the temporary file, and who answers for it.
ChildFiles ==
    /\ \A r \in Reactors : pc[r] \notin Saving
    /\ \A p \in Pids : /\ proc[p] = "write1" => Draft(p, 0)
                       /\ proc[p] = "write2" => Draft(p, 1)
                       /\ proc[p] = "close" => Draft(p, 2)
                       /\ proc[p] = "done" => FullDump(p)
    /\ \A r \in Reactors : pc[r] = "commit" /\ seen[r].ok => FullDump(seen[r].pid)
    /\ tmp # NULL => \/ \E p \in Pids : proc[p] \notin {"none", "open"}
                     \/ \E r \in Reactors : pc[r] = "commit"

BackInv == OneSave /\ PathsKept /\ ChildFiles

\* Only s writes; what it abandons stays under the temporary name until it opens
\* it again.
ForeInv(s) ==
    /\ bgsave_pid = NULL
    /\ stash = NULL
    /\ NoChild
    /\ \A r \in Reactors : pc[r] \in Saving => r = s
    /\ \A r \in Reactors : pc[r] \in Saving \cup {IDLE}
    /\ pc[s] = "save1" => Draft(s, 0)
    /\ pc[s] = "save2" => Draft(s, 1)
    /\ pc[s] = "save_close" => Draft(s, 2)
    /\ pc[s] = "save_rename" => FullDump(s)
    /\ "save" \notin workload.commands[s] => tmp = NULL /\ pc[s] = IDLE

SnapIInv ==
    /\ SnapTypeOK
    /\ InPlace
    /\ \/ Background(workload) /\ Spaced(workload) /\ BackInv
       \/ \E s \in Reactors : Foreground(workload, s) /\ ForeInv(s)
-----------------------------------------------------------------------------
(* What an access to the disk does to the dump in place and to the draft     *)

USE SnapshotAssumption DEF Writers, Parts, Empty, IDLE, FORKING

DiskTypeOK == /\ {tmp, dst} \subseteq Inodes \cup {NULL}
              /\ file \in [Inodes -> [Parts -> Writers \cup {NULL}]]
              /\ fd \in [Writers -> Inodes \cup {NULL}]

\* A dump that begins takes the file of the temporary name, or one that nobody
\* has: never the file in place.
LEMMA OpenRight ==
    ASSUME NEW w \in Writers, DiskTypeOK, InPlace, Open(w)
    PROVE  DiskTypeOK' /\ InPlace' /\ Draft(w, 0)'
<1>1. PICK i \in Inodes :
          /\ IF tmp = NULL THEN ~ Linked(i) ELSE i = tmp
          /\ tmp' = i
          /\ file' = [file EXCEPT ![i] = Empty]
          /\ fd' = [fd EXCEPT ![w] = i]
          /\ dst' = dst
  BY DEF Open
<1>2. DiskTypeOK'
  <2>1. Empty \in [Parts -> Writers \cup {NULL}]
    OBVIOUS
  <2> QED BY <1>1, <2>1 DEF DiskTypeOK
<1>3. dst # NULL => i # dst
  BY <1>1 DEF InPlace, Linked
<1>4. InPlace'
  BY <1>1, <1>3 DEF InPlace, DumpIntact, DiskTypeOK
<1>5. Draft(w, 0)'
  BY <1>1 DEF Draft, DiskTypeOK
<1> QED BY <1>2, <1>4, <1>5

\* The parts are written in order, into the file that the writer opened.
LEMMA WriteRight ==
    ASSUME NEW w \in Writers, NEW n \in Parts,
           DiskTypeOK, InPlace, Draft(w, n - 1), Write(w, n)
    PROVE  DiskTypeOK' /\ InPlace' /\ Draft(w, n)'
<1>1. /\ fd[w] = tmp /\ tmp \in Inodes
      /\ file' = [file EXCEPT ![tmp][n] = w]
      /\ tmp' = tmp /\ dst' = dst /\ fd' = fd
  BY DEF Write, Draft, DiskTypeOK, names
<1>2. DiskTypeOK'
  BY <1>1 DEF DiskTypeOK
<1>3. InPlace'
  BY <1>1 DEF InPlace, DumpIntact, DiskTypeOK
<1>4. Draft(w, n)'
  BY <1>1 DEF Draft, DiskTypeOK
<1> QED BY <1>2, <1>3, <1>4

\* A writer that closes its file changes no file, and a name that goes hides none.
LEMMA CloseRight ==
    ASSUME NEW w \in Writers, DiskTypeOK, InPlace, Close(w),
           tmp' \in {tmp, NULL}, dst' = dst, file' = file
    PROVE  /\ DiskTypeOK'
           /\ InPlace'
           /\ Draft(w, 2) /\ tmp' = tmp => FullDump(w)'
BY DEF DiskTypeOK, InPlace, DumpIntact, Close, Draft, FullDump

\* What is renamed into place is a complete dump that nobody has open.
LEMMA RenameRight ==
    ASSUME NEW w \in Writers, DiskTypeOK, InPlace, FullDump(w),
           \A v \in Writers : fd[v] # tmp,
           Rename, file' = file, fd' = fd
    PROVE  DiskTypeOK' /\ InPlace'
BY DEF DiskTypeOK, InPlace, DumpIntact, FullDump, Rename

LEMMA UnlinkRight ==
    ASSUME DiskTypeOK, InPlace, tmp' \in {tmp, NULL}, dst' = dst, file' = file, fd' = fd
    PROVE  DiskTypeOK' /\ InPlace'
BY DEF DiskTypeOK, InPlace, DumpIntact
-----------------------------------------------------------------------------
(* Background saves                                                        *)

Back == SnapTypeOK /\ InPlace /\ Background(workload) /\ Spaced(workload) /\ BackInv

LEMMA BackBegin == ASSUME Back, NEW r \in Reactors, BgsaveBegin(r) PROVE Back'
<1>1. /\ pc[r] = IDLE /\ Spaced(workload)
      /\ bgsave_pid = NULL /\ bgsave_pid' = FORKING
      /\ pc' = [pc EXCEPT ![r] = "fork"]
      /\ UNCHANGED <<stash, tmp, dst, file, fd, proc, seen, workload>>
  BY DEF Back, BgsaveBegin, Guard, At, disk, names
<1>0. \A q \in Reactors : pc[q] = IDLE
  BY <1>1 DEF Spaced, OneReactor, BgsaveBegin
<1>2. NoChild
  BY <1>0, <1>1 DEF Back, BackInv, OneSave, NoChild
<1>3. SnapTypeOK' /\ InPlace'
  BY <1>1 DEF Back, SnapTypeOK, InPlace, DumpIntact
<1>4. OneSave'
  BY <1>0, <1>1, <1>2 DEF Back, SnapTypeOK, OneSave, NoChild, Starting, Winning, Polling
<1>5. PathsKept' /\ ChildFiles'
  BY <1>0, <1>1, <1>2 DEF Back, BackInv, SnapTypeOK, PathsKept, ChildFiles, NoChild, Saving
<1> QED BY <1>1, <1>3, <1>4, <1>5 DEF Back, BackInv, Background, Spaced

LEMMA BackFork == ASSUME Back, NEW r \in Reactors, Fork(r) PROVE Back'
<1>1. pc[r] = "fork" /\ UNCHANGED <<stash, tmp, dst, file, fd, workload>>
  BY DEF Fork, At, disk, names
<1>2. /\ NoChild /\ bgsave_pid = FORKING /\ \A q \in Reactors \ {r} : pc[q] = IDLE
      /\ tmp = NULL
  BY <1>1 DEF Back, BackInv, OneSave, ChildFiles, NoChild, Starting, Winning
<1>3. CASE /\ pc' = [pc EXCEPT ![r] = IDLE] /\ bgsave_pid' = NULL
           /\ UNCHANGED <<proc, seen>>
  <2>1. SnapTypeOK' /\ InPlace'
    BY <1>1, <1>3 DEF Back, SnapTypeOK, InPlace, DumpIntact
  <2>2. OneSave'
    BY <1>1, <1>2, <1>3 DEF Back, SnapTypeOK, OneSave, NoChild, Starting, Winning, Polling
  <2>3. PathsKept' /\ ChildFiles'
    BY <1>1, <1>2, <1>3
    DEF Back, BackInv, SnapTypeOK, PathsKept, ChildFiles, NoChild, Saving
  <2> QED BY <1>1, <2>1, <2>2, <2>3 DEF Back, BackInv, Background, Spaced
<1>4. ASSUME NEW p \in Pids,
             pc' = [pc EXCEPT ![r] = "stash"], proc' = [proc EXCEPT ![p] = "open"],
             seen' = [seen EXCEPT ![r].pid = p], bgsave_pid' = bgsave_pid
      PROVE  Back'
  <2>1. SnapTypeOK' /\ InPlace'
    BY <1>1, <1>2, <1>4 DEF Back, SnapTypeOK, InPlace, DumpIntact, NoChild, Dumping
  <2>2. OneSave'
    BY <1>1, <1>2, <1>4 DEF Back, SnapTypeOK, OneSave, NoChild, Starting, Winning, Polling
  <2>3. PathsKept' /\ ChildFiles'
    BY <1>1, <1>2, <1>4
    DEF Back, BackInv, SnapTypeOK, PathsKept, ChildFiles, NoChild, Saving
  <2> QED BY <1>1, <2>1, <2>2, <2>3 DEF Back, BackInv, Background, Spaced
<1> QED BY <1>3, <1>4 DEF Fork, At, Child

LEMMA BackStash == ASSUME Back, NEW r \in Reactors, Stash(r) PROVE Back'
<1>1. /\ pc[r] = "stash" /\ pc' = [pc EXCEPT ![r] = "publish"]
      /\ stash' = seen[r].pid
      /\ UNCHANGED <<bgsave_pid, tmp, dst, file, fd, proc, seen, workload>>
  BY DEF Stash, At, disk, names
<1>2. SnapTypeOK' /\ InPlace'
  BY <1>1 DEF Back, SnapTypeOK, InPlace, DumpIntact
<1>3. bgsave_pid = FORKING /\ \A q \in Reactors \ {r} : pc[q] = IDLE
  BY <1>1 DEF Back, BackInv, OneSave, Starting
<1>4. OneSave'
  BY <1>1, <1>3 DEF Back, BackInv, SnapTypeOK, OneSave, NoChild, Starting, Winning, Polling
<1>5. PathsKept'
  <2>1. seen[r].pid \in Pids
    BY <1>1 DEF Back, BackInv, OneSave
  <2> QED BY <1>1, <1>3, <2>1 DEF Back, BackInv, SnapTypeOK, PathsKept, OneSave
<1>6. ChildFiles'
  BY <1>1, <1>3 DEF Back, BackInv, SnapTypeOK, ChildFiles, Saving, Draft, FullDump
<1> QED BY <1>1, <1>2, <1>4, <1>5, <1>6 DEF Back, BackInv, Background, Spaced

LEMMA BackPublish == ASSUME Back, NEW r \in Reactors, PublishPid(r) PROVE Back'
<1>1. /\ pc[r] = "publish" /\ pc' = [pc EXCEPT ![r] = IDLE]
      /\ bgsave_pid' = seen[r].pid
      /\ seen' = [seen EXCEPT ![r] = Nothing]
      /\ UNCHANGED <<stash, tmp, dst, file, fd, proc, workload>>
  BY DEF PublishPid, At, disk, names
<1>2. SnapTypeOK' /\ InPlace'
  BY <1>1 DEF Back, SnapTypeOK, InPlace, DumpIntact, Nothing
<1>3. bgsave_pid = FORKING /\ \A q \in Reactors \ {r} : pc[q] = IDLE
  BY <1>1 DEF Back, BackInv, OneSave, Starting
<1>4. OneSave'
  BY <1>1, <1>3 DEF Back, BackInv, SnapTypeOK, OneSave, NoChild, Starting, Winning, Polling
<1>5. PathsKept'
  BY <1>1, <1>3 DEF Back, BackInv, SnapTypeOK, PathsKept
<1>6. ChildFiles'
  BY <1>1, <1>3 DEF Back, BackInv, SnapTypeOK, ChildFiles, Saving, Draft, FullDump
<1> QED BY <1>1, <1>2, <1>4, <1>5, <1>6 DEF Back, BackInv, Background, Spaced
\* Only one process is a child, and no reactor commits while there is one.
LEMMA OnlyChild ==
    ASSUME Back, NEW p \in Pids, proc[p] # "none"
    PROVE  /\ \A q \in Pids : q # p => proc[q] = "none" /\ fd[q] = NULL
           /\ \A r \in Reactors : /\ pc[r] \notin Winning \cup {"clear", "fork"}
                                  /\ fd[r] = NULL
BY DEF Back, BackInv, OneSave, ChildFiles, NoChild, SnapTypeOK, Saving, Dumping

\* A step of the child that leaves it a child, with its files in order.
LEMMA ChildGoesOn ==
    ASSUME Back, NEW p \in Pids, proc[p] # "none",
           NEW step \in {"write1", "write2", "close", "done", "failed"},
           proc' = [proc EXCEPT ![p] = step],
           UNCHANGED <<bgsave_pid, stash, pc, seen, workload>>,
           DiskTypeOK', InPlace', \A w \in Writers \ {p} : fd'[w] = fd[w],
           fd'[p] # NULL <=> step \in Dumping,
           step = "write1" => Draft(p, 0)', step = "write2" => Draft(p, 1)',
           step = "close" => Draft(p, 2)', step = "done" => FullDump(p)'
    PROVE  Back'
<1>1. SnapTypeOK'
  <2>1. \A r \in Reactors : fd'[r] = fd[r]
    OBVIOUS
  <2>2. \A q \in Pids : fd'[q] # NULL <=> proc'[q] \in Dumping
    BY DEF Back, SnapTypeOK
  <2> QED BY <2>1, <2>2 DEF Back, SnapTypeOK, DiskTypeOK
<1>2. OneSave'
  BY DEF Back, BackInv, SnapTypeOK, OneSave, NoChild
<1>3. PathsKept'
  BY DEF Back, BackInv, SnapTypeOK, PathsKept
<1>4. ChildFiles'
  BY OnlyChild DEF Back, BackInv, SnapTypeOK, ChildFiles, Winning
<1> QED BY <1>1, <1>2, <1>3, <1>4 DEF Back, BackInv, Background, Spaced

LEMMA BackChild == ASSUME Back, NEW p \in Pids, ChildStep(p) PROVE Back'
<1> USE DEF shared, Child
<1>1. proc[p] # "none" /\ UNCHANGED <<bgsave_pid, stash, pc, seen, workload>>
  BY DEF ChildStep, Dumping
<1>2. DiskTypeOK /\ InPlace /\ p \in Writers
  BY DEF Back, SnapTypeOK, DiskTypeOK
<1>3. /\ proc[p] = "write1" => Draft(p, 0)
      /\ proc[p] = "write2" => Draft(p, 1)
      /\ proc[p] = "close" => Draft(p, 2)
  BY DEF Back, BackInv, ChildFiles
<1>4. CASE Child(p, "open", "write1") /\ Open(p)
  <2>1. DiskTypeOK' /\ InPlace' /\ Draft(p, 0)'
    BY <1>2, <1>4, OpenRight
  <2>2. (\A w \in Writers \ {p} : fd'[w] = fd[w]) /\ fd'[p] # NULL
    BY <1>2, <1>4, <2>1 DEF Open, DiskTypeOK
  <2> QED BY <1>1, <1>4, <2>1, <2>2, ChildGoesOn DEF Dumping
<1>5. CASE Child(p, "open", "failed") /\ UNCHANGED disk
  <2>1. DiskTypeOK' /\ InPlace' /\ fd' = fd
    BY <1>2, <1>5 DEF disk, names, DiskTypeOK, InPlace, DumpIntact
  <2>2. fd[p] = NULL
    BY <1>5 DEF Back, SnapTypeOK, Dumping
  <2> QED BY <1>1, <1>5, <2>1, <2>2, ChildGoesOn DEF Dumping
<1>6. CASE Child(p, "write1", "write2") /\ Write(p, 1)
  <2>1. DiskTypeOK' /\ InPlace' /\ Draft(p, 1)'
    BY <1>2, <1>3, <1>6, WriteRight
  <2>2. fd' = fd /\ fd[p] # NULL
    BY <1>6 DEF Write, Back, SnapTypeOK, Dumping
  <2> QED BY <1>1, <1>6, <2>1, <2>2, ChildGoesOn DEF Dumping
<1>7. CASE Child(p, "write2", "close") /\ Write(p, 2)
  <2>1. DiskTypeOK' /\ InPlace' /\ Draft(p, 2)'
    BY <1>2, <1>3, <1>7, WriteRight
  <2>2. fd' = fd /\ fd[p] # NULL
    BY <1>7 DEF Write, Back, SnapTypeOK, Dumping
  <2> QED BY <1>1, <1>7, <2>1, <2>2, ChildGoesOn DEF Dumping
<1>8. CASE Child(p, "close", "done") /\ Complete(p)
  <2>1. Close(p) /\ tmp' = tmp /\ dst' = dst /\ file' = file
    BY <1>8 DEF Complete, names
  <2>2. DiskTypeOK' /\ InPlace' /\ FullDump(p)'
    BY <1>2, <1>3, <1>8, <2>1, CloseRight
  <2>3. (\A w \in Writers \ {p} : fd'[w] = fd[w]) /\ fd'[p] = NULL
    BY <1>2, <2>1 DEF Close, DiskTypeOK
  <2> QED BY <1>1, <1>8, <2>2, <2>3, ChildGoesOn DEF Dumping
<1>9. CASE \/ \E step \in {"write1", "write2"} : Child(p, step, "failed") /\ Abandon(p)
           \/ \E step \in Dumping : Child(p, step, "failed") /\ Killed(p)
  <2>1. /\ Close(p) /\ tmp' \in {tmp, NULL} /\ dst' = dst /\ file' = file
        /\ proc' = [proc EXCEPT ![p] = "failed"]
    BY <1>9 DEF Abandon, Killed, names
  <2>2. DiskTypeOK' /\ InPlace'
    BY <1>2, <2>1, CloseRight
  <2>3. (\A w \in Writers \ {p} : fd'[w] = fd[w]) /\ fd'[p] = NULL
    BY <1>2, <2>1 DEF Close, DiskTypeOK
  <2> QED BY <1>1, <2>1, <2>2, <2>3, ChildGoesOn DEF Dumping
<1> QED BY <1>4, <1>5, <1>6, <1>7, <1>8, <1>9 DEF ChildStep
LEMMA BackPollLoad == ASSUME Back, NEW r \in Reactors, PollLoad(r) PROVE Back'
<1>1. /\ bgsave_pid \in Pids /\ pc[r] = IDLE /\ pc' = [pc EXCEPT ![r] = "wait"]
      /\ seen' = [seen EXCEPT ![r] = [pid |-> bgsave_pid, ok |-> FALSE]]
      /\ UNCHANGED <<bgsave_pid, stash, tmp, dst, file, fd, proc, workload>>
  BY DEF PollLoad, At, shared, disk, names
<1>2. SnapTypeOK' /\ InPlace'
  BY <1>1 DEF Back, SnapTypeOK, InPlace, DumpIntact
<1>3. OneSave'
  BY <1>1 DEF Back, BackInv, SnapTypeOK, OneSave, NoChild, Starting, Winning, Polling
<1>4. PathsKept'
  BY <1>1 DEF Back, BackInv, SnapTypeOK, PathsKept
<1>5. ChildFiles'
  BY <1>1 DEF Back, BackInv, SnapTypeOK, ChildFiles, Saving, Draft, FullDump
<1> QED BY <1>1, <1>2, <1>3, <1>4, <1>5 DEF Back, BackInv, Background, Spaced

\* The reactor that reaps the child is the only one to commit; a reactor that
\* finds it reaped may take the pid for free.
LEMMA BackPollWait == ASSUME Back, NEW r \in Reactors, PollWait(r) PROVE Back'
<1> DEFINE p == seen[r].pid
<1>1. pc[r] = "wait" /\ UNCHANGED <<bgsave_pid, stash, tmp, dst, file, fd, workload>>
  BY DEF PollWait, shared, disk, names
<1>2. /\ p \in Pids /\ bgsave_pid \in {p, NULL} /\ bgsave_pid # FORKING
      /\ \A q \in Reactors : pc[q] \notin Starting
  BY <1>1 DEF Back, BackInv, OneSave, Polling, Starting
<1>3. \A q \in Pids : proc[q] # "none" => q = p /\ bgsave_pid = p
  BY <1>2 DEF Back, BackInv, OneSave, Starting
<1>4. CASE /\ Exited(p) /\ pc' = [pc EXCEPT ![r] = "commit"]
           /\ seen' = [seen EXCEPT ![r].ok = proc[p] = "done"]
           /\ proc' = [proc EXCEPT ![p] = "none"]
  <2>1. proc[p] \in {"done", "failed"} /\ fd[p] = NULL
    BY <1>2, <1>4 DEF Exited, Back, SnapTypeOK, Dumping
  <2>2. SnapTypeOK' /\ InPlace'
    <3>1. seen' \in [Reactors -> [pid : Pids \cup {NULL}, ok : BOOLEAN]]
      <4> DEFINE good == proc[p] = "done"
      <4>1. good \in BOOLEAN /\ seen' = [seen EXCEPT ![r].ok = good]
        BY <1>4
      <4> HIDE DEF good
      <4> QED BY <4>1 DEF Back, SnapTypeOK
    <3> QED BY <1>1, <1>2, <1>4, <2>1, <3>1
            DEF Back, SnapTypeOK, InPlace, DumpIntact, Dumping
  <2>3. NoChild'
    BY <1>2, <1>3, <1>4 DEF NoChild, Back, SnapTypeOK
  <2>4. \A q \in Reactors : pc[q] \notin Winning
    BY <1>2, <2>1, OnlyChild
  <2>5. /\ \A q \in Reactors : seen'[q].pid = seen[q].pid
        /\ \A q \in Reactors \ {r} : pc'[q] = pc[q] /\ seen'[q] = seen[q]
        /\ pc'[r] = "commit" /\ (seen'[r].ok <=> proc[p] = "done")
    <3> DEFINE good == proc[p] = "done"
    <3>1. good \in BOOLEAN /\ seen' = [seen EXCEPT ![r].ok = good]
      BY <1>4
    <3>2. good <=> proc[p] = "done"
      OBVIOUS
    <3> HIDE DEF good
    <3>3. \A q \in Reactors : seen'[q].pid = seen[q].pid
      BY <3>1 DEF Back, SnapTypeOK
    <3>4. \A q \in Reactors \ {r} : pc'[q] = pc[q] /\ seen'[q] = seen[q]
      BY <1>4, <3>1 DEF Back, SnapTypeOK
    <3>5. pc'[r] = "commit" /\ seen'[r].ok = good
      BY <1>4, <3>1 DEF Back, SnapTypeOK
    <3> QED BY <3>2, <3>3, <3>4, <3>5
  <2>6. OneSave'
    BY <1>1, <1>2, <2>3, <2>4, <2>5
    DEF Back, BackInv, SnapTypeOK, OneSave, NoChild, Starting, Winning, Polling
  <2>7. PathsKept'
    BY <1>1, <1>2, <1>3, <2>1, <2>3, <2>5 DEF Back, BackInv, SnapTypeOK, PathsKept, NoChild
  <2>8. ChildFiles'
    <3>1. seen'[r].ok => FullDump(p)
      BY <1>2, <2>5 DEF Back, BackInv, ChildFiles
    <3>2. \A q \in Reactors : pc'[q] = "commit" => q = r
      BY <2>4, <2>5 DEF Winning
    <3>3. \A q \in Reactors : pc'[q] \notin Saving
      BY <2>5 DEF Back, BackInv, ChildFiles, Saving
    <3> QED BY <1>1, <2>3, <2>5, <3>1, <3>2, <3>3 DEF ChildFiles, NoChild, FullDump
  <2> QED BY <1>1, <2>2, <2>6, <2>7, <2>8 DEF Back, BackInv, Background, Spaced
<1>5. CASE /\ proc[p] = "none" /\ pc' = [pc EXCEPT ![r] = "clear"]
           /\ UNCHANGED <<proc, seen>>
  <2>1. NoChild
    BY <1>3, <1>5 DEF NoChild
  <2>2. SnapTypeOK' /\ InPlace'
    BY <1>1, <1>5 DEF Back, SnapTypeOK, InPlace, DumpIntact
  <2>3. OneSave'
    BY <1>1, <1>2, <1>5, <2>1
    DEF Back, BackInv, SnapTypeOK, OneSave, NoChild, Starting, Winning, Polling
  <2>4. PathsKept' /\ ChildFiles'
    BY <1>1, <1>5
    DEF Back, BackInv, SnapTypeOK, PathsKept, ChildFiles, Saving, Draft, FullDump
  <2> QED BY <1>1, <2>2, <2>3, <2>4 DEF Back, BackInv, Background, Spaced
<1>6. CASE /\ proc[p] # "none" /\ pc' = [pc EXCEPT ![r] = IDLE]
           /\ seen' = [seen EXCEPT ![r] = Nothing] /\ proc' = proc
  <2>1. SnapTypeOK' /\ InPlace'
    BY <1>1, <1>6 DEF Back, SnapTypeOK, InPlace, DumpIntact, Nothing
  <2>2. OneSave'
    BY <1>1, <1>2, <1>6
    DEF Back, BackInv, SnapTypeOK, OneSave, NoChild, Starting, Winning, Polling
  <2>3. PathsKept' /\ ChildFiles'
    BY <1>1, <1>6
    DEF Back, BackInv, SnapTypeOK, PathsKept, ChildFiles, Saving, Draft, FullDump
  <2> QED BY <1>1, <2>1, <2>2, <2>3 DEF Back, BackInv, Background, Spaced
<1> QED BY <1>4, <1>5, <1>6 DEF PollWait, At
LEMMA BackPollClear == ASSUME Back, NEW r \in Reactors, PollClear(r) PROVE Back'
<1>1. /\ pc[r] = "clear" /\ pc' = [pc EXCEPT ![r] = IDLE]
      /\ seen' = [seen EXCEPT ![r] = Nothing]
      /\ UNCHANGED <<stash, tmp, dst, file, fd, proc, workload>>
  BY DEF PollClear, At, disk, names
<1>2. NoChild /\ bgsave_pid \in {seen[r].pid, NULL} /\ seen[r].pid \in Pids
  BY <1>1 DEF Back, BackInv, OneSave, Polling
<1>3. bgsave_pid' = NULL
  BY <1>2 DEF PollClear
<1>4. \A q \in Reactors : pc[q] \notin Starting
  BY <1>2 DEF Back, BackInv, OneSave
<1>5. SnapTypeOK' /\ InPlace'
  BY <1>1, <1>3 DEF Back, SnapTypeOK, InPlace, DumpIntact, Nothing
<1>6. OneSave'
  BY <1>1, <1>2, <1>3, <1>4
  DEF Back, BackInv, SnapTypeOK, OneSave, NoChild, Starting, Winning, Polling
<1>7. PathsKept' /\ ChildFiles'
  BY <1>1, <1>2
  DEF Back, BackInv, SnapTypeOK, PathsKept, NoChild, ChildFiles, Saving, Draft, FullDump
<1> QED BY <1>1, <1>5, <1>6, <1>7 DEF Back, BackInv, Background, Spaced

LEMMA BackPollCommit == ASSUME Back, NEW r \in Reactors, PollCommit(r) PROVE Back'
<1>1. /\ pc[r] = "commit" /\ pc' = [pc EXCEPT ![r] = "free"]
      /\ UNCHANGED <<bgsave_pid, stash, file, fd, proc, seen, workload>>
  BY DEF PollCommit, At, shared
<1>2. NoChild /\ stash # NULL /\ \A q \in Reactors : pc[q] \in Winning => q = r
  BY <1>1 DEF Back, BackInv, OneSave, PathsKept, Winning
<1>3. \A w \in Writers : fd[w] = NULL
  BY <1>2 DEF Back, BackInv, SnapTypeOK, ChildFiles, NoChild, Saving, Dumping
<1>4. DiskTypeOK /\ InPlace
  BY DEF Back, SnapTypeOK, DiskTypeOK
<1>5. DiskTypeOK' /\ InPlace' /\ tmp' = NULL
  <2>1. CASE Committable(r) /\ Rename
    <3>1. seen[r].pid \in Writers /\ FullDump(seen[r].pid)
      BY <1>1, <2>1 DEF Committable, Back, BackInv, ChildFiles, OneSave, Polling, Winning
    <3>2. \A v \in Writers : fd[v] # tmp
      BY <1>3, <2>1 DEF Rename
    <3> QED BY <1>1, <1>4, <2>1, <3>1, <3>2, RenameRight DEF Rename
  <2>2. CASE Unlink
    BY <1>1, <1>4, <2>2, UnlinkRight DEF Unlink
  <2> QED BY <1>2, <2>1, <2>2 DEF PollCommit
<1>6. SnapTypeOK'
  BY <1>1, <1>5 DEF Back, SnapTypeOK, DiskTypeOK
<1>7. OneSave'
  BY <1>1, <1>2 DEF Back, BackInv, SnapTypeOK, OneSave, NoChild, Starting, Winning, Polling
<1>8. PathsKept' /\ ChildFiles'
  BY <1>1, <1>2, <1>5
  DEF Back, BackInv, SnapTypeOK, PathsKept, NoChild, ChildFiles, Saving, Winning
<1> QED BY <1>1, <1>5, <1>6, <1>7, <1>8 DEF Back, BackInv, Background, Spaced

LEMMA BackPollEnd ==
    ASSUME Back, NEW r \in Reactors, PollFree(r) \/ PollRelease(r)
    PROVE  Back'
<1>1. /\ pc[r] \in Winning /\ pc[r] # "commit"
      /\ UNCHANGED <<tmp, dst, file, fd, proc, workload>>
  BY DEF PollFree, PollRelease, At, disk, names, Winning
<1>2. /\ NoChild /\ \A q \in Reactors : pc[q] \in Winning => q = r
      /\ \A q \in Reactors : pc[q] \notin Starting
  <2>1. bgsave_pid # FORKING
    BY <1>1 DEF Back, BackInv, OneSave, Polling
  <2> QED BY <1>1, <2>1 DEF Back, BackInv, OneSave
<1>3. CASE PollFree(r)
  <2>1. /\ pc' = [pc EXCEPT ![r] = "release"] /\ stash' = NULL
        /\ UNCHANGED <<bgsave_pid, seen>>
    BY <1>3 DEF PollFree, At
  <2>2. SnapTypeOK' /\ InPlace'
    BY <1>1, <2>1 DEF Back, SnapTypeOK, InPlace, DumpIntact, Winning
  <2>3. OneSave'
    BY <1>1, <1>2, <2>1
    DEF Back, BackInv, SnapTypeOK, OneSave, NoChild, Starting, Winning, Polling
  <2>4. PathsKept' /\ ChildFiles'
    BY <1>1, <1>2, <2>1
    DEF Back, BackInv, SnapTypeOK, PathsKept, NoChild, ChildFiles, Saving, Winning, Starting
  <2> QED BY <1>1, <2>2, <2>3, <2>4 DEF Back, BackInv, Background, Spaced
<1>4. CASE PollRelease(r)
  <2>1. /\ pc' = [pc EXCEPT ![r] = IDLE] /\ bgsave_pid' = NULL
        /\ seen' = [seen EXCEPT ![r] = Nothing] /\ stash' = stash
    BY <1>4 DEF PollRelease, At
  <2>2. SnapTypeOK' /\ InPlace'
    BY <1>1, <2>1 DEF Back, SnapTypeOK, InPlace, DumpIntact, Winning, Nothing
  <2>3. OneSave'
    BY <1>1, <1>2, <2>1
    DEF Back, BackInv, SnapTypeOK, OneSave, NoChild, Starting, Winning, Polling
  <2>4. PathsKept' /\ ChildFiles'
    BY <1>1, <1>2, <2>1
    DEF Back, BackInv, SnapTypeOK, PathsKept, NoChild, ChildFiles, Saving, Winning, Starting
  <2> QED BY <1>1, <2>2, <2>3, <2>4 DEF Back, BackInv, Background, Spaced
<1> QED BY <1>3, <1>4

LEMMA BackNext == ASSUME Back, SnapNext PROVE Back'
<1>1. ASSUME NEW r \in Reactors, SaveOpen(r) \/ Save(r) PROVE FALSE
  BY <1>1 DEF Back, Background, BackInv, ChildFiles, SaveOpen, Save, SaveWrite, SaveRename,
              At, Saving
<1>2. ~ Crash
  BY DEF Back, Background, Crash
<1> QED BY <1>1, <1>2, BackBegin, BackFork, BackStash, BackPublish, BackChild, BackPollLoad,
           BackPollWait, BackPollClear, BackPollCommit, BackPollEnd
        DEF SnapNext, Bgsave, Poll
-----------------------------------------------------------------------------
(* Foreground saves                                                        *)

Fore(s) == SnapTypeOK /\ InPlace /\ Foreground(workload, s) /\ ForeInv(s)

\* A step of the save of s that leaves its files in order.
LEMMA SaveGoesOn ==
    ASSUME NEW s \in Reactors, Fore(s), NEW step \in Saving \cup {IDLE},
           pc' = [pc EXCEPT ![s] = step],
           UNCHANGED <<bgsave_pid, stash, proc, seen, workload>>,
           DiskTypeOK', InPlace', \A w \in Writers \ {s} : fd'[w] = fd[w],
           fd'[s] # NULL <=> step \in {"save1", "save2", "save_close"},
           step = "save1" => Draft(s, 0)', step = "save2" => Draft(s, 1)',
           step = "save_close" => Draft(s, 2)', step = "save_rename" => FullDump(s)',
           "save" \in workload.commands[s]
    PROVE  Fore(s)'
<1>1. SnapTypeOK'
  <2>1. \A r \in Reactors : fd'[r] # NULL <=> pc'[r] \in {"save1", "save2", "save_close"}
    BY DEF Fore, SnapTypeOK
  <2>2. \A p \in Pids : fd'[p] # NULL <=> proc'[p] \in Dumping
    BY DEF Fore, SnapTypeOK
  <2>3. pc' \in [Reactors -> {IDLE, "save1", "save2", "save_close", "save_rename", "fork",
                              "stash", "publish", "wait", "clear", "commit", "free", "release"}]
    BY DEF Fore, SnapTypeOK, Saving
  <2> QED BY <2>1, <2>2, <2>3 DEF Fore, SnapTypeOK, DiskTypeOK
<1>2. ForeInv(s)'
  BY DEF Fore, SnapTypeOK, ForeInv, NoChild, Saving
<1> QED BY <1>1, <1>2 DEF Fore, Foreground

LEMMA ForeSave ==
    ASSUME NEW s \in Reactors, Fore(s), SaveOpen(s) \/ Save(s)
    PROVE  Fore(s)'
<1> USE DEF shared
<1>1. /\ UNCHANGED <<bgsave_pid, stash, proc, seen, workload>>
      /\ "save" \in workload.commands[s]
  BY DEF SaveOpen, Save, SaveWrite, SaveRename, At, Fore, ForeInv
<1>2. DiskTypeOK /\ InPlace /\ s \in Writers
  BY DEF Fore, SnapTypeOK, DiskTypeOK
<1>3. /\ pc[s] = "save1" => Draft(s, 0)
      /\ pc[s] = "save2" => Draft(s, 1)
      /\ pc[s] = "save_close" => Draft(s, 2)
      /\ pc[s] = "save_rename" => FullDump(s)
  BY DEF Fore, ForeInv
<1>4. CASE At(s, IDLE, "save1") /\ Open(s)
  <2>1. DiskTypeOK' /\ InPlace' /\ Draft(s, 0)'
    BY <1>2, <1>4, OpenRight
  <2>2. (\A w \in Writers \ {s} : fd'[w] = fd[w]) /\ fd'[s] # NULL
    BY <1>2, <1>4 DEF Open, DiskTypeOK
  <2> QED BY <1>1, <1>4, <2>1, <2>2, SaveGoesOn DEF At, Saving
<1>5. CASE At(s, IDLE, IDLE) /\ UNCHANGED disk
  <2>1. DiskTypeOK' /\ InPlace' /\ fd' = fd
    BY <1>2, <1>5 DEF disk, names, DiskTypeOK, InPlace, DumpIntact
  <2>2. fd[s] = NULL
    BY <1>5 DEF Fore, SnapTypeOK, At
  <2> QED BY <1>1, <1>5, <2>1, <2>2, SaveGoesOn DEF At
<1>6. CASE At(s, "save1", "save2") /\ Write(s, 1)
  <2>1. DiskTypeOK' /\ InPlace' /\ Draft(s, 1)'
    BY <1>2, <1>3, <1>6, WriteRight DEF At
  <2>2. fd' = fd /\ fd[s] # NULL
    BY <1>6 DEF Write, Fore, SnapTypeOK, At
  <2> QED BY <1>1, <1>6, <2>1, <2>2, SaveGoesOn DEF At, Saving
<1>7. CASE At(s, "save2", "save_close") /\ Write(s, 2)
  <2>1. DiskTypeOK' /\ InPlace' /\ Draft(s, 2)'
    BY <1>2, <1>3, <1>7, WriteRight DEF At
  <2>2. fd' = fd /\ fd[s] # NULL
    BY <1>7 DEF Write, Fore, SnapTypeOK, At
  <2> QED BY <1>1, <1>7, <2>1, <2>2, SaveGoesOn DEF At, Saving
<1>8. CASE At(s, "save_close", "save_rename") /\ Complete(s)
  <2>1. Close(s) /\ tmp' = tmp /\ dst' = dst /\ file' = file
    BY <1>8 DEF Complete, names
  <2>2. DiskTypeOK' /\ InPlace' /\ FullDump(s)'
    BY <1>2, <1>3, <1>8, <2>1, CloseRight DEF At
  <2>3. (\A w \in Writers \ {s} : fd'[w] = fd[w]) /\ fd'[s] = NULL
    BY <1>2, <2>1 DEF Close, DiskTypeOK
  <2> QED BY <1>1, <1>8, <2>2, <2>3, SaveGoesOn DEF At, Saving
<1>9. CASE \E step \in {"save1", "save2"} : At(s, step, IDLE) /\ Abandon(s)
  <2>1. /\ Close(s) /\ tmp' = NULL /\ dst' = dst /\ file' = file
        /\ pc' = [pc EXCEPT ![s] = IDLE]
    BY <1>9 DEF Abandon, At
  <2>2. DiskTypeOK' /\ InPlace'
    BY <1>2, <2>1, CloseRight
  <2>3. (\A w \in Writers \ {s} : fd'[w] = fd[w]) /\ fd'[s] = NULL
    BY <1>2, <2>1 DEF Close, DiskTypeOK
  <2> QED BY <1>1, <2>1, <2>2, <2>3, SaveGoesOn
<1>10. CASE SaveRename(s)
  <2>1. /\ pc[s] = "save_rename" /\ pc' = [pc EXCEPT ![s] = IDLE]
        /\ file' = file /\ fd' = fd
    BY <1>10 DEF SaveRename, At
  <2>2. \A w \in Writers : fd[w] = NULL
    BY <2>1 DEF Fore, ForeInv, SnapTypeOK, NoChild, Dumping, Saving
  <2>3. DiskTypeOK' /\ InPlace'
    <3>1. CASE Rename
      <4>1. \A v \in Writers : fd[v] # tmp
        BY <2>2, <3>1 DEF Rename
      <4> QED BY <1>2, <1>3, <2>1, <3>1, <4>1, RenameRight
    <3>2. CASE UNCHANGED names
      BY <1>2, <2>1, <3>2, UnlinkRight DEF names
    <3> QED BY <1>10, <3>1, <3>2 DEF SaveRename
  <2> QED BY <1>1, <2>1, <2>2, <2>3, SaveGoesOn
<1> QED BY <1>4, <1>5, <1>6, <1>7, <1>8, <1>9, <1>10 DEF SaveOpen, Save, SaveWrite

\* What a kill leaves is what an abandoned save may leave as well.
LEMMA ForeCrash == ASSUME NEW s \in Reactors, Fore(s), Crash PROVE Fore(s)'
<1>1. /\ fd' = [w \in Writers |-> NULL] /\ pc' = [r \in Reactors |-> IDLE]
      /\ seen' = [r \in Reactors |-> Nothing]
      /\ bgsave_pid' = NULL /\ stash' = NULL
      /\ UNCHANGED <<tmp, dst, file, proc, workload>>
  BY DEF Crash, names
<1>2. SnapTypeOK'
  <2>1. NoChild
    BY DEF Fore, ForeInv
  <2> QED BY <1>1, <2>1 DEF Fore, SnapTypeOK, Nothing, Dumping, NoChild
<1>3. InPlace'
  BY <1>1 DEF Fore, InPlace, DumpIntact, SnapTypeOK
<1>4. ForeInv(s)'
  BY <1>1 DEF Fore, ForeInv, NoChild, Saving
<1> QED BY <1>1, <1>2, <1>3, <1>4 DEF Fore, Foreground

LEMMA ForeNext == ASSUME NEW s \in Reactors, Fore(s), SnapNext PROVE Fore(s)'
<1>1. ASSUME NEW r \in Reactors, r # s, SaveOpen(r) \/ Save(r) PROVE FALSE
  BY <1>1 DEF Fore, Foreground, ForeInv, SaveOpen, Save, SaveWrite, SaveRename, At, Saving
<1>2. ASSUME NEW r \in Reactors, BgsaveBegin(r) \/ Bgsave(r) \/ Poll(r) PROVE FALSE
  BY <1>2 DEF Fore, Foreground, ForeInv, BgsaveBegin, Bgsave, Fork, Stash, PublishPid, Poll,
              PollLoad, PollWait, PollClear, PollCommit, PollFree, PollRelease, At, Saving
<1>3. ASSUME NEW p \in Pids, ChildStep(p) PROVE FALSE
  BY <1>3 DEF Fore, ForeInv, NoChild, ChildStep, Child, Dumping
<1> QED BY <1>1, <1>2, <1>3, ForeSave, ForeCrash DEF SnapNext

-----------------------------------------------------------------------------
(* The theorem                                                             *)

LEMMA InitSnapIInv == ASSUME OneKind, SpacedSaves, SnapInit PROVE SnapIInv
<1>1. SnapTypeOK
  BY DEF SnapInit, SnapTypeOK, Nothing, Dumping
<1>2. InPlace
  BY DEF SnapInit, InPlace, DumpIntact
<1>3. BackInv
  BY DEF SnapInit, BackInv, OneSave, PathsKept, ChildFiles, NoChild, Starting, Winning,
         Polling, Saving
<1>4. \A s \in Reactors : ForeInv(s)
  BY DEF SnapInit, ForeInv, NoChild, Saving
<1> QED BY <1>1, <1>2, <1>3, <1>4 DEF SnapIInv, OneKind, SpacedSaves, SnapInit

LEMMA NextSnapIInv == ASSUME SnapIInv, [SnapNext]_snapVars PROVE SnapIInv'
<1>1. CASE SnapNext
  BY <1>1, BackNext, ForeNext DEF SnapIInv, Back, Fore
<1>2. CASE UNCHANGED snapVars
  <2>1. SnapTypeOK'
    BY <1>2 DEF snapVars, shared, disk, names, SnapIInv, SnapTypeOK
  <2>2. InPlace'
    BY <1>2 DEF snapVars, shared, disk, names, SnapIInv, InPlace, DumpIntact
  <2>3. BackInv => BackInv'
    BY <1>2 DEF snapVars, shared, disk, names, BackInv, OneSave, PathsKept, ChildFiles, NoChild,
                Draft, FullDump
  <2>4. ASSUME NEW s \in Reactors, ForeInv(s) PROVE ForeInv(s)'
    BY <1>2, <2>4 DEF snapVars, shared, disk, names, ForeInv, NoChild, Draft, FullDump
  <2>5. workload' = workload
    BY <1>2 DEF snapVars
  <2> QED BY <2>1, <2>2, <2>3, <2>4, <2>5 DEF SnapIInv
<1> QED BY <1>1, <1>2

LEMMA SnapIInvFilesRight == ASSUME SnapIInv PROVE FilesRight
<1>1. DumpIntact
  BY DEF SnapIInv, InPlace
<1>2. NoLeftover
  <2>1. SUFFICES ASSUME \A r \in Reactors : "save" \notin workload.commands[r],
                        bgsave_pid = NULL, \A r \in Reactors : pc[r] = IDLE
                 PROVE  tmp = NULL
    BY DEF NoLeftover
  <2>2. CASE BackInv
    BY <2>1, <2>2 DEF BackInv, OneSave, ChildFiles, Starting
  <2>3. CASE \E s \in Reactors : Foreground(workload, s) /\ ForeInv(s)
    BY <2>1, <2>3 DEF ForeInv
  <2> QED BY <2>2, <2>3 DEF SnapIInv
<1> QED BY <1>1, <1>2 DEF FilesRight

\* Where the saves of one kind are spaced as well, for any number of reactors,
LEMMA SpacedDumps == ASSUME OneKind, SpacedSaves PROVE SnapSpec => []FilesRight
<1>1. SnapInit => SnapIInv
  BY InitSnapIInv
<1>2. SnapIInv /\ [SnapNext]_snapVars => SnapIInv'
  BY NextSnapIInv
<1>3. SnapIInv => FilesRight
  BY SnapIInvFilesRight
<1> QED BY <1>1, <1>2, <1>3, PTL DEF SnapSpec

\* In a server of one reactor whose clients ask for saves of one kind, at any
\* time: the file in place is at every moment one complete dump that nobody can
\* write into any more, whatever fails, whichever child is killed, or the server
\* under a foreground save, and background saves leave no temporary file behind
\* (resp_bgsave_poll, cmd_save, cmd_bgsave).
THEOREM DumpsStayWhole == ASSUME OneReactor, OneKind PROVE SnapSpec => []FilesRight
<1>1. SpacedSaves
  BY DEF SpacedSaves, Spaced
<1> QED BY <1>1, SpacedDumps
=============================================================================

----------------------------- MODULE FileCommit -----------------------------
(***************************************************************************)
(* What the file tools do to the disk: write_file, edit_file and           *)
(* apply_patch, with the patch's plan, its commit and its rollback         *)
(* (fileops/fileops.go, fileops/patch.go), the lease of the memory         *)
(* repository that the guarded executor holds for a whole call             *)
(* (fileops/executor.go, memory/mutation_guard.go), and the memory store   *)
(* that seeds and reads the core files under that lease. The text of a    *)
(* file is the set of calls whose change it carries.                       *)
(***************************************************************************)
EXTENDS Integers, Sequences, SequencesExt, FiniteSets

CONSTANTS MemoryPaths, OtherPaths,  \* files under the memory root, and in the other roots
          CorePaths,                \* the core files with a seed, among the memory paths
          KeyOrder,                 \* all paths, in the order of their keys
          FileCalls,                \* the tool calls: the interactive turn's and its sub-agents'
          Plans,                    \* what a call may ask for: sequences of [kind, path, to]
          MaxFileFaults, MaxCrashes \* bounds
AllPaths == MemoryPaths \cup OtherPaths
FileOps == [kind : {"add", "write", "delete", "update"}, path : AllPaths, to : AllPaths \cup {""}]
Free == "nobody"
ASSUME CommitAssumption ==
    /\ CorePaths \subseteq MemoryPaths /\ Range(KeyOrder) = AllPaths /\ "" \notin AllPaths
    /\ Plans \subseteq Seq(FileOps) /\ Free \notin FileCalls

Missing == [there |-> FALSE, has |-> {}]
VARIABLES tree,     \* path -> is it there, and the changes it carries
          fcall,    \* the calls
          lease,    \* who holds the memory repository
          loaded,   \* the core memory of the last prompt
          torn,     \* calls left half done: by a crash, a failed rollback, a root that would not open
          faults    \* writes and openings of a root that failed, crashes
fcVars == <<tree, fcall, lease, loaded, torn, faults>>

NoFileCall == [pc |-> "idle", ops |-> <<>>, todo |-> <<>>, desired |-> <<>>, snapshot |-> <<>>, keys |-> {}, applied |-> <<>>]
CommitInit ==
    /\ tree = [p \in AllPaths |-> IF p \in CorePaths THEN [there |-> TRUE, has |-> {}] ELSE Missing]
    /\ fcall = [c \in FileCalls |-> NoFileCall] /\ lease = Free
    /\ loaded = [p \in CorePaths |-> tree[p]] /\ torn = {} /\ faults = [write |-> 0, crash |-> 0]

-----------------------------------------------------------------------------
(* One call *)

Touched(ops) == {ops[k].path : k \in DOMAIN ops} \cup ({ops[k].to : k \in DOMAIN ops} \ {""})
\* fault: the lease is given back when the paths have been checked.
AcquireAndRelease(c, ops) == lease = Free /\ UNCHANGED lease
\* AcquireFileMutation: the lease is kept for a call that touches the memory root, and not for the others.
AcquireFileMutation(c, ops) ==
    lease = Free /\ lease' = IF Touched(ops) \cap MemoryPaths # {} THEN c ELSE Free
Begin(c, ops) ==
    /\ fcall[c].pc = "idle" /\ AcquireFileMutation(c, ops)
    /\ fcall' = [fcall EXCEPT ![c] = [NoFileCall EXCEPT !.pc = "plan", !.ops = ops, !.todo = ops]]
    /\ UNCHANGED <<tree, loaded, torn, faults>>

\* The call ends, and the lease with it.
Ends(c, pc) ==
    /\ fcall' = [fcall EXCEPT ![c].pc = pc]
    /\ lease' = IF lease = c THEN Free ELSE lease

\* The root a path resolves to; a move stays within one.
RootOf(p) == IF p \in MemoryPaths THEN "memory" ELSE "other"
\* Two operations of a patch may not name the same file.
Reserved(c) == LET f == fcall[c] IN
    {p \in AllPaths : \E k \in 1 .. Len(f.ops) - Len(f.todo) : p \in Touched(<<f.ops[k]>>)}
Refuses(c, op) ==
    \/ Touched(<<op>>) \cap Reserved(c) # {}
    \/ op.kind = "add" /\ tree[op.path].there
    \/ op.kind \in {"delete", "update"} /\ ~tree[op.path].there
    \/ op.to # "" /\ (tree[op.to].there \/ RootOf(op.to) # RootOf(op.path))
\* write_file's text is all new; edit_file and the hunks of a patch change what they read.
WrittenText(c) == [there |-> TRUE, has |-> {c}]
EditedText(c, p) == [there |-> TRUE, has |-> tree[p].has \cup {c}]
\* The files an operation wants, from what it reads now.
Wanted(c, op) ==
    [p \in IF op.kind = "update" THEN Touched(<<op>>) ELSE {op.path} |->
        CASE op.kind \in {"add", "write"} -> WrittenText(c)
          [] op.kind = "delete" \/ (op.kind = "update" /\ op.to \notin {"", p}) -> Missing
          [] OTHER -> EditedText(c, op.path)]
Overlay(new, old) == [p \in DOMAIN new \cup DOMAIN old |-> IF p \in DOMAIN new THEN new[p] ELSE old[p]]
\* buildPatchPlan, one operation; edit_file and write_file are plans of one.
PlanOp(c) ==
    LET f == fcall[c]
        op == Head(f.todo)
    IN /\ f.pc = "plan" /\ f.todo # <<>>
       /\ IF Refuses(c, op) THEN Ends(c, "failed")
          ELSE /\ fcall' = [fcall EXCEPT ![c].todo = Tail(@), ![c].desired = Overlay(Wanted(c, op), @),
                                         ![c].snapshot = Overlay([p \in Touched(<<op>>) |-> tree[p]], @)]
               /\ UNCHANGED lease
       /\ UNCHANGED <<tree, loaded, torn, faults>>
PlanEnds(c) ==
    /\ fcall[c].pc = "plan" /\ fcall[c].todo = <<>>
    /\ fcall' = [fcall EXCEPT ![c].pc = "commit", ![c].keys = DOMAIN fcall[c].desired]
    /\ UNCHANGED <<tree, lease, loaded, torn, faults>>

\* writeAtomic or removeRegularFile: a temporary file renamed over the old one. It may fail before the rename.
writeAtomic(p, content, ok) == tree' = IF ok THEN [tree EXCEPT ![p] = content] ELSE tree
Fault(ok) == (~ok => faults.write < MaxFileFaults) /\ faults' = [faults EXCEPT !.write = @ + (IF ok THEN 0 ELSE 1)]
\* The files are written in the order of their keys.
IsFirst(p, keys) ==
    p \in keys /\ \E k \in DOMAIN KeyOrder : KeyOrder[k] = p /\ \A j \in 1..(k - 1) : KeyOrder[j] \notin keys
\* A call that ends without a rollback leaves the files it has written.
LeftTorn(c) == IF fcall[c].applied = <<>> THEN torn ELSE torn \cup {c}
\* A write that fails is rolled back; a root that does not open (os.OpenRoot) ends the call as it stands.
commitDesiredStates(c) ==
    LET f == fcall[c]
    IN /\ f.pc = "commit"
       /\ \/ f.keys = {} /\ Ends(c, "done") /\ UNCHANGED <<tree, torn, faults>>
          \/ f.keys # {} /\ Fault(FALSE) /\ Ends(c, "failed") /\ torn' = LeftTorn(c) /\ UNCHANGED tree
          \/ \E p \in f.keys, ok \in BOOLEAN :
                 /\ IsFirst(p, f.keys) /\ Fault(ok) /\ writeAtomic(p, f.desired[p], ok) /\ UNCHANGED <<lease, torn>>
                 /\ fcall' = IF ok THEN [fcall EXCEPT ![c].keys = @ \ {p}, ![c].applied = Append(@, p)]
                             ELSE [fcall EXCEPT ![c].pc = "rollback"]
       /\ UNCHANGED loaded
\* fault: the files a patch created stay when it is rolled back.
UndoneOldOnly(c, p) == IF fcall[c].snapshot[p].there THEN fcall[c].snapshot[p] ELSE tree[p]
Undone(c, p) == fcall[c].snapshot[p]
\* The last written first; an error is ignored, that of a root that does not open too.
rollbackDesiredStates(c) ==
    LET f == fcall[c]
        p == Last(f.applied)
    IN /\ f.pc = "rollback"
       /\ IF f.applied = <<>> THEN Ends(c, "failed") /\ UNCHANGED <<tree, faults, torn>>
          ELSE \E ok \in BOOLEAN :
                 /\ Fault(ok) /\ writeAtomic(p, Undone(c, p), ok) /\ UNCHANGED lease
                 /\ torn' = IF ok THEN torn ELSE torn \cup {c}
                 /\ fcall' = [fcall EXCEPT ![c].applied = Front(@)]
       /\ UNCHANGED loaded

-----------------------------------------------------------------------------
(* The memory store *)

\* LoadCoreMemory for a prompt.
LoadCoreMemory ==
    /\ lease = Free /\ loaded' = [p \in CorePaths |-> tree[p]]
    /\ UNCHANGED <<tree, fcall, lease, torn, faults>>
\* fault: every start writes the seeds.
SeedAll(p) == IF p \in CorePaths THEN [there |-> TRUE, has |-> {}] ELSE tree[p]
\* ensureSeedFile: a core file that is missing gets its seed.
ensureSeedFile(p) == IF p \in CorePaths /\ ~tree[p].there THEN [there |-> TRUE, has |-> {}] ELSE tree[p]
\* The process ends anywhere; Store.Init runs before the next call.
CrashFiles ==
    /\ faults.crash < MaxCrashes /\ faults' = [faults EXCEPT !.crash = @ + 1]
    /\ torn' = torn \cup {c \in FileCalls : fcall[c].pc \in {"commit", "rollback"}}
    /\ fcall' = [c \in FileCalls |-> IF fcall[c].pc \in {"idle", "done", "failed"} THEN fcall[c] ELSE [fcall[c] EXCEPT !.pc = "lost"]]
    /\ lease' = Free /\ tree' = [p \in AllPaths |-> ensureSeedFile(p)] /\ UNCHANGED loaded

CommitNext ==
    \/ \E c \in FileCalls :
        \/ \E ops \in Plans : Begin(c, ops)
        \/ PlanOp(c) \/ PlanEnds(c) \/ commitDesiredStates(c) \/ rollbackDesiredStates(c)
    \/ LoadCoreMemory \/ CrashFiles
CommitSpec == CommitInit /\ [][CommitNext]_fcVars

-----------------------------------------------------------------------------
(* Properties *)

\* A prompt never shows half of a patch under way (LoadCoreMemory takes the lease the patch holds): the core files
\* are not read while some of it are written and others, or their rollback, are still to come.
CoreMemoryIsNotTorn ==
    loaded' # loaded => \A c \in FileCalls :
      fcall[c].pc \in {"commit", "rollback"} => Range(fcall[c].applied) \cap CorePaths = {}
\* A patch that failed left no trace in the memory files, unless its rollback failed too or a root did not open
\* after its first write: there commitDesiredStates returns without a rollback.
FailedPatchLeavesNothing ==
    \A c \in FileCalls \ torn : fcall[c].pc = "failed" => \A p \in MemoryPaths : c \notin tree[p].has
\* A change of a memory file that was reported done is never undone by another call that only edits the file
\* (acquireMutation: the read and the write of an edit are under one lease).
MemoryEditsAreKept ==
    \A p \in MemoryPaths : \A c \in tree[p].has :
      fcall[c].pc = "done" /\ c \notin tree'[p].has
      => \E d \in FileCalls : \E k \in DOMAIN fcall[d].ops :
           LET op == fcall[d].ops[k] IN
           p \in {op.path, op.to} /\ (op.kind \in {"write", "add", "delete"} \/ op.to # "")
\* A start never replaces what was authored: the seeds only fill what is missing (ensureSeedFile).
StartKeepsAuthored == faults'.crash # faults.crash => \A p \in AllPaths : tree[p].there => tree'[p] = tree[p]
=============================================================================

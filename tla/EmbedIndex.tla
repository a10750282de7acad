----------------------------- MODULE EmbedIndex -----------------------------
(***************************************************************************)
(* The embedding service (embed/service.go, jobs.go, state.go, registry.go,*)
(* scanner.go, qdrant.go and tools/embed): documents of a source are       *)
(* embedded into a vector collection by background jobs; a state file says *)
(* what each point was made from. One source, one collection, batches of   *)
(* one document. A document is a path with a content hash.                 *)
(***************************************************************************)
EXTENDS Integers, Sequences, FiniteSets, SequencesExt

CONSTANTS Docs,        \* the paths, in the order a scan finds them
          MaxEdits,    \* bound: new contents
          MaxMoves,    \* bound: renamed or removed documents and deletions of the collection
          MaxCopies,   \* bound: documents copied to another path and changes of the registry
          MaxSyncs,    \* bound: sync jobs
          MaxEmbedFaults

ASSUME EmbedAssumption == Docs \in Seq(ToSet(Docs)) /\ "none" \notin ToSet(Docs)

VARIABLES docs, reg,     \* path -> content, 0 when absent; "enabled", "disabled" or "absent"
          coll, points,  \* the collection exists; point id -> what it holds
          mem, disk,     \* state records by point id, in memory and in the file
          job,           \* the active job
          jobStatus,     \* status of the latest job
          dropping,      \* DeleteCollection dropped the vectors and has still to clear the state
          quiet, orphan, \* completed syncs since the last change or start of a full one; points that the records do not describe
          lost,          \* points that were taken away before, or without, their records
          paid,          \* contents whose vectors were recorded durably
          ecount         \* edits, moves, copies, syncs, faults
eiVars == <<docs, reg, coll, points, mem, disk, job, jobStatus, dropping, quiet, orphan, lost, paid, ecount>>

Paths == ToSet(Docs)
Nothing == [doc |-> "none", c |-> 0]
Empty == [p \in Paths |-> Nothing]
NoJob == [pc |-> "none", scan |-> Empty, todo |-> <<>>, batch |-> <<>>, full |-> FALSE, cancel |-> FALSE, stale |-> FALSE]
Count(what, max) == ecount[what] < max /\ ecount' = [ecount EXCEPT ![what] = @ + 1]

EmbedInit ==
    /\ docs = [p \in Paths |-> 0] /\ reg = "enabled" /\ coll = FALSE /\ points = Empty /\ mem = Empty /\ disk = Empty
    /\ job = NoJob /\ jobStatus = "none" /\ quiet = 0 /\ orphan = {} /\ paid = {}
    /\ dropping = FALSE /\ lost = {}
    /\ ecount = [edits |-> 0, moves |-> 0, copies |-> 0, syncs |-> 0, faults |-> 0]

-----------------------------------------------------------------------------
(* Documents and the registry *)

Changed == quiet' = 0 /\ job' = [job EXCEPT !.stale = (job.pc # "none")]

\* A document is written; its content is new.
Edit(p) ==
    /\ Count("edits", MaxEdits) /\ docs' = [docs EXCEPT ![p] = ecount.edits + 1] /\ Changed
    /\ UNCHANGED <<reg, coll, points, mem, disk, jobStatus, orphan, paid, dropping, lost>>
Delete(p) ==
    /\ docs[p] # 0 /\ Count("moves", MaxMoves) /\ docs' = [docs EXCEPT ![p] = 0] /\ Changed
    /\ UNCHANGED <<reg, coll, points, mem, disk, jobStatus, orphan, paid, dropping, lost>>
Move(p, q) ==
    /\ docs[p] # 0 /\ docs[q] = 0 /\ Count("moves", MaxMoves) /\ docs' = [docs EXCEPT ![p] = 0, ![q] = docs[p]] /\ Changed
    /\ UNCHANGED <<reg, coll, points, mem, disk, jobStatus, orphan, paid, dropping, lost>>
Copy(p, q) ==
    /\ docs[p] # 0 /\ docs[q] = 0 /\ Count("copies", MaxCopies) /\ docs' = [docs EXCEPT ![q] = docs[p]] /\ Changed
    /\ UNCHANGED <<reg, coll, points, mem, disk, jobStatus, orphan, paid, dropping, lost>>

\* Registry.Add, Remove and SetEnabled: one atomic write of the registry file.
SetSource(state) ==
    /\ reg # state /\ (reg = "absent" => state = "enabled") /\ Count("copies", MaxCopies) /\ reg' = state /\ Changed
    /\ UNCHANGED <<docs, coll, points, mem, disk, jobStatus, orphan, paid, dropping, lost>>

Recorded(records) == mem' = records /\ disk' = records

\* StateStore.deleteCollection: no record is left, whatever points the collection holds.
deleteCollection == Recorded(Empty) /\ lost' = {} /\ paid' = {} /\ orphan' = {p \in Paths : points[p] # Nothing}

\* DeleteCollection of embed_sources, also while a job runs: first the vectors.
DropVectors ==
    /\ ~dropping /\ Count("moves", MaxMoves) /\ coll' = FALSE /\ points' = Empty /\ orphan' = {} /\ paid' = {}
    /\ lost' = {p \in Paths : mem[p] # Nothing \/ disk[p] # Nothing} /\ dropping' = TRUE /\ Changed
    /\ UNCHANGED <<docs, reg, mem, disk, jobStatus>>

\* Then the state, with no lock held since: a job may have made the collection again.
DropState ==
    /\ dropping /\ dropping' = FALSE /\ deleteCollection /\ Changed /\ UNCHANGED <<docs, reg, coll, points, jobStatus, ecount>>

\* The caller's context ends between the two, or the state file cannot be written.
DropFails ==
    /\ dropping /\ dropping' = FALSE /\ Count("faults", MaxEmbedFaults)
    /\ UNCHANGED <<docs, reg, coll, points, mem, disk, job, jobStatus, quiet, orphan, lost, paid>>

-----------------------------------------------------------------------------
(* The job *)

\* SyncJobManager.Start: one job at a time.
StartSync(full) ==
    /\ job.pc = "none" /\ Count("syncs", MaxSyncs)
    /\ job' = [NoJob EXCEPT !.pc = "sources", !.full = full] /\ jobStatus' = "running" /\ quiet' = IF full THEN 0 ELSE quiet
    /\ UNCHANGED <<docs, reg, coll, points, mem, disk, orphan, paid, dropping, lost>>
Cancel ==
    /\ job.pc # "none" /\ ~job.cancel /\ Count("faults", MaxEmbedFaults) /\ job' = [job EXCEPT !.cancel = TRUE]
    /\ UNCHANGED <<docs, reg, coll, points, mem, disk, jobStatus, quiet, orphan, paid, dropping, lost>>

\* fault: a job that is cancelled stays the active one.
EndsUncancelled(err) ==
    job' = (IF job.cancel THEN job ELSE NoJob) /\ jobStatus' = IF ~err THEN "completed" ELSE IF job.cancel THEN "cancelled" ELSE "failed"

\* run: the terminal status of a sync that returned an error.
Ends(err) == job' = NoJob /\ jobStatus' = IF ~err THEN "completed" ELSE IF job.cancel THEN "cancelled" ELSE "failed"

\* Any call of the provider or the vector store fails, or the context is cancelled at the next check.
SyncFails ==
    /\ job.pc \notin {"none", "checkpoint"} /\ Ends(TRUE)
    /\ (IF job.cancel THEN UNCHANGED ecount ELSE Count("faults", MaxEmbedFaults))
    /\ UNCHANGED <<docs, reg, coll, points, mem, disk, quiet, orphan, paid, dropping, lost>>

At(pc) == job.pc = pc /\ (pc # "checkpoint" => ~job.cancel)

\* fault: only the points that are still in the source are deleted.
pruneUnchanged == [p \in Paths |-> IF mem[p].c = docs[p] THEN Nothing ELSE points[p]]

\* Sync lists the sources. The points of a removed one are deleted, then its records.
pruneRemovedSources == [p \in Paths |-> IF mem[p] # Nothing THEN Nothing ELSE points[p]]
Sources ==
    /\ At("sources")
    /\ IF reg = "absent"
       THEN /\ coll \/ mem = Empty
            /\ points' = pruneRemovedSources /\ lost' = lost \cup {p \in Paths : mem[p] # Nothing}
            /\ job' = [job EXCEPT !.pc = "forget"]
       ELSE /\ job' = [job EXCEPT !.pc = IF reg = "enabled" THEN "scan" ELSE "finish"]
            /\ UNCHANGED <<points, lost>>
    /\ UNCHANGED <<docs, reg, coll, mem, disk, jobStatus, dropping, quiet, orphan, paid, ecount>>
Forget ==
    /\ At("forget") /\ Recorded(Empty) /\ lost' = {} /\ paid' = {} /\ job' = [job EXCEPT !.pc = "finish"]
    /\ UNCHANGED <<docs, reg, coll, points, jobStatus, dropping, quiet, orphan, ecount>>

\* A section of a markdown file, with the hash of its text and its metadata.
documentsFromMarkdownFile(p) == [doc |-> p, c |-> docs[p]]

\* ScanSource: the documents of the source as they are now.
Scan ==
    /\ At("scan") /\ job' = [job EXCEPT !.pc = "ensure", !.scan = [p \in Paths |-> documentsFromMarkdownFile(p)]]
    /\ UNCHANGED <<docs, reg, coll, points, mem, disk, jobStatus, dropping, quiet, orphan, lost, paid, ecount>>

\* The documents a scan found, in its order.
Scanned(scan) == FlattenSeq([k \in DOMAIN Docs |-> IF scan[Docs[k]].c # 0 THEN <<Docs[k]>> ELSE <<>>])

\* EnsureCollection: one that is missing is made.
Ensure ==
    /\ At("ensure") /\ coll' = TRUE
    /\ job' = [job EXCEPT !.pc = IF coll THEN "classify" ELSE "clear", !.todo = Scanned(job.scan)]
    /\ UNCHANGED <<docs, reg, points, mem, disk, jobStatus, dropping, quiet, orphan, lost, paid, ecount>>

\* syncSource clears the records of the collection it made, in a call of its own, and embeds everything anew.
Clear ==
    /\ At("clear") /\ deleteCollection /\ job' = [job EXCEPT !.pc = "classify", !.full = TRUE]
    /\ UNCHANGED <<docs, reg, coll, points, jobStatus, dropping, quiet, ecount>>

findByIdentity(p) == {i \in Paths : mem[i].doc = p}
findByContentHash(c) == {i \in Paths : mem[i].c = c}

\* putPointLocked: one record for each identity and for each point.
putPoint(i, rec) == [j \in Paths |-> IF j = i THEN rec ELSE IF mem[j].doc = rec.doc THEN Nothing ELSE mem[j]]

\* syncSource sorts the documents: unchanged, moved, or to be embedded. A moved one keeps its point; the
\* new payload is written and the record stays in memory for now.
Classify ==
    /\ At("classify") /\ job.todo # <<>>
    /\ LET p == Head(job.todo)
           doc == job.scan[p]
           same == findByContentHash(doc.c)
           rest == [job EXCEPT !.todo = Tail(@)]
       IN \/ /\ ~job.full /\ \E i \in findByIdentity(p) : mem[i] = doc
             /\ job' = rest /\ UNCHANGED <<points, mem>>
          \/ /\ ~job.full /\ findByIdentity(p) = {} /\ same # {} /\ coll
             /\ \E i \in same : /\ points' = IF points[i] = Nothing THEN points ELSE [points EXCEPT ![i].doc = p]
                                /\ mem' = putPoint(i, doc)
             /\ job' = rest
          \/ /\ job.full \/ (findByIdentity(p) = {} /\ same = {}) \/ \E i \in findByIdentity(p) : mem[i].c # doc.c
             /\ job' = [rest EXCEPT !.batch = Append(@, doc)] /\ UNCHANGED <<points, mem>>
    /\ UNCHANGED <<docs, reg, coll, disk, jobStatus, dropping, quiet, orphan, lost, paid, ecount>>

\* The point of a document is named after its collection, source and identity.
deterministicPointID(doc) == doc.doc

\* EmbedDocuments and Upsert of the next batch.
Upsert ==
    /\ At("classify") /\ job.todo = <<>> /\ job.batch # <<>> /\ coll
    /\ LET doc == Head(job.batch)
       IN points' = [points EXCEPT ![deterministicPointID(doc)] = doc] /\ orphan' = orphan \cup {deterministicPointID(doc)}
    /\ job' = [job EXCEPT !.pc = "checkpoint"]
    /\ UNCHANGED <<docs, reg, coll, mem, disk, jobStatus, dropping, quiet, lost, paid, ecount>>

\* Points whose record is replaced although they stay in the collection.
Dropped(records) == {j \in Paths : mem[j] # Nothing /\ records[j] = Nothing}

\* fault: the batch is recorded in memory only.
CheckpointLater(records) == mem' = records /\ UNCHANGED disk

\* checkpointBatch: durable, and without a look at the cancellation.
Checkpointed(records) == Recorded(records)
Checkpoint ==
    /\ At("checkpoint")
    /\ LET doc == Head(job.batch)
       IN /\ Checkpointed(putPoint(doc.doc, doc))
          /\ paid' = {doc} \cup {r \in paid : \A j \in {doc.doc} \cup Dropped(putPoint(doc.doc, doc)) : r.c # mem[j].c}
          /\ orphan' = (orphan \cup Dropped(putPoint(doc.doc, doc))) \ {doc.doc}
          /\ lost' = IF points[doc.doc] = doc THEN lost \ {doc.doc} ELSE lost \cup {doc.doc}
    /\ job' = [job EXCEPT !.pc = "classify", !.batch = Tail(@)]
    /\ UNCHANGED <<docs, reg, coll, points, jobStatus, dropping, quiet, ecount>>

\* fault: documents that are gone keep their points.
UnseenNever == {}

\* pruneMissingDocuments: records whose document was not in the scan.
Unseen == {i \in Paths : mem[i] # Nothing /\ job.scan[mem[i].doc].c = 0}
PruneVectors ==
    /\ At("classify") /\ job.todo = <<>> /\ job.batch = <<>> /\ (coll \/ Unseen = {})
    /\ points' = [p \in Paths |-> IF p \in Unseen THEN Nothing ELSE points[p]] /\ job' = [job EXCEPT !.pc = "prune"]
    /\ lost' = lost \cup Unseen /\ UNCHANGED <<docs, reg, coll, mem, disk, jobStatus, dropping, quiet, orphan, paid, ecount>>
PruneState ==
    /\ At("prune") /\ mem' = [p \in Paths |-> IF p \in Unseen THEN Nothing ELSE mem[p]]
    /\ paid' = {r \in paid : \A p \in Unseen : r.c # mem[p].c} /\ job' = [job EXCEPT !.pc = "store"]
    /\ UNCHANGED <<docs, reg, coll, points, disk, jobStatus, dropping, quiet, orphan, lost, ecount>>

\* storeSyncResult persists what is in memory.
Store ==
    /\ At("store") /\ disk' = mem /\ job' = [job EXCEPT !.pc = "finish"]
    /\ orphan' = {i \in orphan : points[i] # Nothing \/ mem[i] # Nothing} /\ lost' = {i \in lost : mem[i] # Nothing}
    /\ UNCHANGED <<docs, reg, coll, points, mem, jobStatus, dropping, quiet, paid, ecount>>

\* A call of the vector store into a collection that was dropped is an error.
VectorsGone ==
    /\ ~coll /\ Ends(TRUE)
    /\ \/ At("sources") /\ reg = "absent" /\ mem # Empty
       \/ /\ At("classify") /\ job.todo # <<>> /\ ~job.full
          /\ findByIdentity(Head(job.todo)) = {} /\ findByContentHash(job.scan[Head(job.todo)].c) # {}
       \/ At("classify") /\ job.todo = <<>> /\ (job.batch # <<>> \/ Unseen # {})
    /\ UNCHANGED <<docs, reg, coll, points, mem, disk, dropping, quiet, orphan, lost, paid, ecount>>

Finish ==
    /\ job.pc = "finish" /\ Ends(FALSE)
    /\ quiet' = IF job.stale THEN quiet ELSE IF job.full \/ quiet = Len(Docs) THEN Len(Docs) ELSE quiet + 1
    /\ UNCHANGED <<docs, reg, coll, points, mem, disk, dropping, orphan, lost, paid, ecount>>

\* The process ends at any point; jobs are not remembered.
Crash ==
    /\ Count("faults", MaxEmbedFaults) /\ mem' = disk /\ job' = NoJob /\ jobStatus' = "none" /\ dropping' = FALSE
    /\ UNCHANGED <<docs, reg, coll, points, disk, quiet, orphan, lost, paid>>

SyncStep == Sources \/ Forget \/ Scan \/ Ensure \/ Clear \/ Classify \/ Upsert \/ Checkpoint \/ PruneVectors \/ PruneState
            \/ Store \/ VectorsGone \/ Finish \/ (job.cancel /\ SyncFails)
EmbedNext ==
    \/ \E p \in Paths : Edit(p) \/ Delete(p) \/ \E q \in Paths \ {p} : Move(p, q) \/ Copy(p, q)
    \/ \E s \in {"enabled", "disabled", "absent"} : SetSource(s)
    \/ DropVectors \/ DropState \/ DropFails \/ (\E full \in BOOLEAN : StartSync(full)) \/ Cancel \/ SyncFails \/ SyncStep \/ Crash

EmbedSpec == EmbedInit /\ [][EmbedNext]_eiVars
EmbedFairness == WF_eiVars(SyncStep)

-----------------------------------------------------------------------------
Present == {p \in Paths : docs[p] # 0}

\* As many syncs as there are documents, completed after the last change, or one full sync leave the collection as
\* the source is: every text has a point, and no record stands for anything else. (Fewer are not enough: a
\* document put where a moved one was takes over its point, and the next sync may do the same to another one; a
\* full sync that fails starts this anew. Documents with the same text share a point. Not noticed, until a full
\* sync, is a point that was overwritten, or a record whose point was taken, by a call whose second half never
\* came: a batch that was lost, a deletion, a prune or the making of a collection that ended between the two.)
SettledMeansIndexed ==
    quiet = Len(Docs) /\ reg = "enabled" =>
      /\ \A p \in Present : docs[p] \in {points[i].c : i \in Paths} \cup {mem[i].c : i \in orphan \cup lost}
      /\ \A i \in Paths \ (orphan \cup lost) : mem[i] # Nothing => mem[i].c = points[i].c /\ mem[i].c = docs[mem[i].doc]

\* A full sync, and one that made the collection, repairs all of that: as it completes each document that was not
\* changed meanwhile has its point and its record, whatever was interrupted before.
FullSyncRepairs ==
    job.pc = "finish" /\ job.full /\ ~job.stale /\ reg = "enabled"
      => \A p \in Present :
           points[p] = documentsFromMarkdownFile(p) /\ mem[p] = points[p] /\ disk[p] = points[p] /\ p \notin orphan \cup lost

\* Registry.Remove promises that the next sync prunes the points of a removed source. It cannot reach the
\* points that the records do not describe: those of a batch that was lost in a crash, those a full sync left at the
\* old place of a moved document, and those a job made before DeleteCollection cleared the state.
RemovedIsPruned == quiet >= 1 /\ reg = "absent" => \A i \in Paths : points[i] = Nothing \/ i \in orphan

\* An interrupted sync resumes: a text whose vector was recorded is not paid for again, wherever its document
\* is now, unless the sync is full. (A document that takes over the place of another text is embedded without
\* a look at the other records.)
NothingPaidTwice ==
    (job.pc = "classify" /\ job'.pc = "classify" /\ Len(job'.batch) > Len(job.batch) /\ ~job.full)
      => LET doc == Last(job'.batch)
         IN doc.c \in {r.c : r \in paid} => \E i \in findByIdentity(doc.doc) : mem[i].c # doc.c

\* What must end, so that the next one can start: a job that runs.
JobRuns == job.pc # "none"
=============================================================================

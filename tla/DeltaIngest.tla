---------------------------- MODULE DeltaIngest ----------------------------
(***************************************************************************)
(* Incremental indexing: the file watcher (apps/file-watcher), the webhook *)
(* that turns its POST into a run, and the codebase pipelines              *)
(*                                                                         *)
(*    filesystem_source -> delta_filter -> chunker -> embed -> vector store*)
(*                                      -> vector store delete             *)
(*                                                                         *)
(* A file is its revision: every save gives it a new one, and the revision *)
(* stands for both its mtime and its content (0: no such file).  The       *)
(* ingest_state bucket records the mtime delta_filter saw; the vector      *)
(* store keeps one point per document and chunk number.  A run is a job    *)
(* of the queue; its retry by the queue is a job of its own here.          *)
(***************************************************************************)
EXTENDS Naturals, FiniteSets

CONSTANTS
    Docs,            \* the files below the watched root
    IngestRuns,      \* run slots: at most this many runs are under way
    ChunksOf,        \* ChunksOf[c]: how many chunks content c is split into
    MaxSaves,        \* bound: saves and deletions of files
    MaxIngests,      \* bound: runs submitted
    MaxIngestFaults  \* bound: failing calls and crashes

ASSUME IngestAssumption ==
    /\ MaxSaves \in Nat /\ MaxIngests \in Nat /\ MaxIngestFaults \in Nat
    /\ ChunksOf \in [1..MaxSaves -> Nat \ {0}]

VARIABLES
    docFiles,     \* docFiles[d]: the revision on disk
    docSaves,     \* saves so far
    fsEvents,     \* fs.watch events not yet handed to the callback
    changed,      \* the watcher's set of changed paths
    timer,        \* the debounce timer is armed
    posts,        \* POSTs on their way to the webhook
    queued,       \* runs submitted and not started
    submitted,    \* runs submitted so far
    ingest,       \* ingest[r]: the slot's run
    bucket,       \* ingest_state: the recorded mtime of each document
    points,       \* the vector store: points[d][i], the content chunk i is from
    ingestFaults,
    unfollowed,   \* ghost: documents changed since the last submission that follows
    undelivered,  \* ghost: documents a run recorded and then did not deliver
    shrunk,       \* ghost: documents rewritten with fewer chunks
    overlapped    \* ghost: two runs have been under way at once

watchedDir == <<docFiles, docSaves>>
watcher == <<fsEvents, changed, timer, posts>>
work == <<queued, submitted>>
index == <<bucket, points>>
ingestGhosts == <<unfollowed, undelivered, shrunk, overlapped>>
ingestVars == <<watchedDir, watcher, work, ingest, index, ingestFaults, ingestGhosts>>

Revisions == 0 .. MaxSaves
Chunks == 1 .. MaxSaves
Seen == [mtime : Revisions, content : Revisions]
NoDocs == [d \in Docs |-> [mtime |-> 0, content |-> 0]]
NoRun == [pc |-> "free", entries |-> {}, at |-> {}, docs |-> NoDocs,
          write |-> {}, delete |-> {}]

IngestInit ==
    /\ docFiles = [d \in Docs |-> 0] /\ docSaves = 0
    /\ fsEvents = {} /\ changed = {} /\ timer = FALSE /\ posts = 0
    /\ queued = 0 /\ submitted = 0
    /\ ingest = [r \in IngestRuns |-> NoRun]
    /\ bucket = [d \in Docs |-> 0]
    /\ points = [d \in Docs |-> [i \in Chunks |-> 0]]
    /\ ingestFaults = 0
    /\ unfollowed = {} /\ undelivered = {} /\ shrunk = {} /\ overlapped = FALSE

IngestFault ==
    /\ ingestFaults < MaxIngestFaults
    /\ ingestFaults' = ingestFaults + 1

----------------------------------------------------------------------------
(* The tree and the watcher.                                               *)

\* Someone saves or removes a file; the kernel queues an event for it.
Save(d) ==
    /\ docSaves < MaxSaves
    /\ docSaves' = docSaves + 1
    /\ docFiles' \in {[docFiles EXCEPT ![d] = docSaves + 1],
                   [docFiles EXCEPT ![d] = 0]} \ {docFiles}
    /\ fsEvents' = fsEvents \cup {d}
    /\ unfollowed' = unfollowed \cup {d}
    /\ UNCHANGED <<changed, timer, posts, work, ingest, index, ingestFaults,
                   undelivered, shrunk, overlapped>>

\* The watch callback: remember the path and start the debounce over.
Notice(d) ==
    /\ d \in fsEvents
    /\ fsEvents' = fsEvents \ {d}
    /\ changed' = changed \cup {d}
    /\ timer' = TRUE
    /\ UNCHANGED <<watchedDir, posts, work, ingest, index, ingestFaults, ingestGhosts>>

\* fire(): the tree has been quiet for debounceMs; the paths are forgotten
\* before the POST leaves.
Fire ==
    /\ timer
    /\ timer' = FALSE
    /\ changed' = {}
    /\ posts' = IF changed # {} THEN posts + 1 ELSE posts
    /\ submitted + posts' <= MaxIngests
    /\ UNCHANGED <<watchedDir, fsEvents, work, ingest, index, ingestFaults, ingestGhosts>>

\* The webhook route accepts the POST and enqueues a run.  The ghost unfollowed
\* keeps the documents whose event the watcher has not posted yet.
Submit ==
    /\ posts > 0
    /\ posts' = posts - 1
    /\ queued' = queued + 1
    /\ submitted' = submitted + 1
    /\ unfollowed' = IF posts = 1 THEN unfollowed \cap (fsEvents \cup changed) ELSE unfollowed
    /\ UNCHANGED <<watchedDir, fsEvents, changed, timer, ingest, index, ingestFaults,
                   undelivered, shrunk, overlapped>>

\* postWebhook() fails: it is logged, and the batch of paths is gone.
PostFails ==
    /\ posts > 0
    /\ IngestFault
    /\ posts' = posts - 1
    /\ unfollowed' = IF posts = 1 THEN unfollowed \cap (fsEvents \cup changed) ELSE unfollowed
    /\ UNCHANGED <<watchedDir, fsEvents, changed, timer, work, ingest, index,
                   undelivered, shrunk, overlapped>>

----------------------------------------------------------------------------
(* filesystem_source: readdir, then stat and readFile for each entry.      *)

Active(r) == ingest[r].pc # "free"

\* A worker takes the job and lists the directory.
StartIngest(r) ==
    /\ ~Active(r)
    /\ queued > 0
    /\ queued' = queued - 1
    /\ ingest' = [ingest EXCEPT ![r] =
                 [NoRun EXCEPT !.pc = "walk",
                               !.entries = {d \in Docs : docFiles[d] # 0}]]
    /\ overlapped' = (overlapped \/ \E s \in IngestRuns : Active(s))
    /\ UNCHANGED <<watchedDir, watcher, submitted, index, ingestFaults, unfollowed,
                   undelivered, shrunk>>

\* readdir() throws: the directory is passed over, as if it were empty.
ReaddirFails(r) ==
    /\ ingest[r].pc = "walk" /\ ingest[r].at = {} /\ ingest[r].docs = NoDocs
    /\ ingest[r].entries # {}
    /\ IngestFault
    /\ ingest' = [ingest EXCEPT ![r].entries = {}]
    /\ UNCHANGED <<watchedDir, watcher, work, index, ingestGhosts>>

\* The run ends; the queue's job is done (a failure is recorded, not undone).
EndRun(r) == ingest' = [ingest EXCEPT ![r] = NoRun]

\* fs.stat of the next entry; when the file is gone by now it throws, and
\* the node and with it the run fails.
StatFile(r, d) ==
    /\ ingest[r].pc = "walk" /\ ingest[r].at = {} /\ d \in ingest[r].entries
    /\ IF docFiles[d] = 0
       THEN EndRun(r)
       ELSE ingest' = [ingest EXCEPT ![r].at = {d}, ![r].docs[d].mtime = docFiles[d]]
    /\ UNCHANGED <<watchedDir, watcher, work, index, ingestFaults, ingestGhosts>>

\* readFile of that entry; a file gone by now is left out.
ReadFile(r, d) ==
    /\ d \in ingest[r].at
    /\ ingest' = [ingest EXCEPT
                 ![r].at = {}, ![r].entries = @ \ {d},
                 ![r].docs[d] =
                    IF docFiles[d] = 0 THEN NoDocs[d]
                    ELSE [ingest[r].docs[d] EXCEPT !.content = docFiles[d]]]
    /\ UNCHANGED <<watchedDir, watcher, work, index, ingestFaults, ingestGhosts>>

----------------------------------------------------------------------------
(* delta_filter, comparing by mtime.                                       *)

NewDocs(docs, prior) == {d \in Docs : docs[d].mtime # 0 /\ prior[d] = 0}
Modified(docs, prior) ==
    {d \in Docs : docs[d].mtime # 0 /\ prior[d] \notin {0, docs[d].mtime}}
DeletedDocs(docs, prior) == {d \in Docs : docs[d].mtime = 0 /\ prior[d] # 0}

\* The chunker's input: both the new and the modified port are wired to its
\* documents port, in this order, and the last value that is there wins.
WiredDocs(fresh, modified) == IF modified # {} THEN modified ELSE fresh

\* list() of the bucket and the comparison.
Compare(r) ==
    LET docs == ingest[r].docs
    IN /\ ingest[r].pc = "walk" /\ ingest[r].entries = {}
       /\ ingest' = [ingest EXCEPT ![r].pc = "compared",
                             ![r].write = WiredDocs(NewDocs(docs, bucket),
                                                     Modified(docs, bucket)),
                             ![r].delete = DeletedDocs(docs, bucket)]
       /\ UNCHANGED <<watchedDir, watcher, work, index, ingestFaults, ingestGhosts>>

\* Ghost: the new documents the chunker's port does not carry.
Unwired(r) == NewDocs(ingest[r].docs, bucket) \ ingest[r].write

\* Mutant: the fingerprint is taken anew when it is recorded.
RecordStateNow(r) ==
    /\ ingest[r].pc = "compared"
    /\ bucket' = [d \in Docs |-> IF 0 \in {ingest[r].docs[d].mtime, docFiles[d]}
                                 THEN ingest[r].docs[d].mtime ELSE docFiles[d]]
    /\ ingest' = [ingest EXCEPT ![r].pc = "deliver"]
    /\ undelivered' = undelivered \cup Unwired(r)
    /\ UNCHANGED <<watchedDir, watcher, work, points, ingestFaults, unfollowed, shrunk,
                   overlapped>>

\* replaceAll(): the bucket becomes what this run has seen, in one
\* transaction and before anything downstream has run.
RecordState(r) ==
    /\ ingest[r].pc = "compared"
    /\ bucket' = [d \in Docs |-> ingest[r].docs[d].mtime]
    /\ ingest' = [ingest EXCEPT ![r].pc = "deliver"]
    /\ undelivered' = undelivered \cup Unwired(r)
    /\ UNCHANGED <<watchedDir, watcher, work, points, ingestFaults, unfollowed, shrunk,
                   overlapped>>

----------------------------------------------------------------------------
(* Downstream: chunk, embed and upsert on one branch, delete on the other. *)

\* Point ids are made from the document and the chunk number, so an upsert
\* replaces; the chunks of longer, earlier content are left alone.
Upserted(d, c) == [i \in Chunks |-> IF i <= ChunksOf[c] THEN c ELSE points[d][i]]

UpsertPoints(r) ==
    /\ ingest[r].pc = "deliver" /\ ingest[r].write # {}
    /\ points' = [d \in Docs |-> IF d \in ingest[r].write
                                 THEN Upserted(d, ingest[r].docs[d].content)
                                 ELSE points[d]]
    /\ ingest' = [ingest EXCEPT ![r].write = {}]
    /\ undelivered' = undelivered \ ingest[r].write
    /\ shrunk' = shrunk \cup
                 {d \in ingest[r].write : \E i \in Chunks :
                    /\ i > ChunksOf[ingest[r].docs[d].content]
                    /\ points[d][i] # 0}
    /\ UNCHANGED <<watchedDir, watcher, work, bucket, ingestFaults, unfollowed, overlapped>>

\* deleteByDocIds: every chunk of every deleted document.
DeletePoints(r) ==
    /\ ingest[r].pc = "deliver" /\ ingest[r].delete # {}
    /\ points' = [d \in Docs |-> IF d \in ingest[r].delete
                                 THEN [i \in Chunks |-> 0] ELSE points[d]]
    /\ ingest' = [ingest EXCEPT ![r].delete = {}]
    /\ undelivered' = undelivered \ ingest[r].delete
    /\ shrunk' = shrunk \ ingest[r].delete
    /\ UNCHANGED <<watchedDir, watcher, work, bucket, ingestFaults, unfollowed, overlapped>>

\* Both branches are through (an empty port skips its branch).
Finish(r) ==
    /\ ingest[r].pc = "deliver" /\ ingest[r].write = {} /\ ingest[r].delete = {}
    /\ EndRun(r)
    /\ UNCHANGED <<watchedDir, watcher, work, index, ingestFaults, ingestGhosts>>

\* A node fails or the worker dies: what the run has not delivered it never
\* will.  Before replaceAll that costs nothing, the next run sees it again.
IngestFails(r) ==
    /\ Active(r)
    /\ IngestFault
    /\ EndRun(r)
    /\ undelivered' = IF ingest[r].pc = "deliver"
                  THEN undelivered \cup ingest[r].write \cup ingest[r].delete ELSE undelivered
    /\ UNCHANGED <<watchedDir, watcher, work, index, unfollowed, shrunk, overlapped>>

IngestNext ==
    \/ \E d \in Docs : Save(d) \/ Notice(d)
    \/ Fire \/ Submit \/ PostFails
    \/ \E r \in IngestRuns :
        \/ StartIngest(r) \/ ReaddirFails(r) \/ Compare(r) \/ RecordState(r)
        \/ UpsertPoints(r) \/ DeletePoints(r) \/ Finish(r) \/ IngestFails(r)
        \/ \E d \in Docs : StatFile(r, d) \/ ReadFile(r, d)

IngestSpec == IngestInit /\ [][IngestNext]_ingestVars

----------------------------------------------------------------------------
(* Properties.                                                             *)

\* Type correctness of the watcher, the runs, the bucket and the store.
IngestTypeOK ==
    /\ docFiles \in [Docs -> Revisions] /\ docSaves \in Revisions
    /\ fsEvents \subseteq Docs /\ changed \subseteq Docs
    /\ timer \in BOOLEAN
    /\ posts \in 0..MaxIngests /\ queued \in 0..MaxIngests
    /\ submitted \in 0..MaxIngests
    /\ ingest \in [IngestRuns ->
         [pc : {"free", "walk", "compared", "deliver"}, entries : SUBSET Docs,
          at : SUBSET Docs, docs : [Docs -> Seen], write : SUBSET Docs,
          delete : SUBSET Docs]]
    /\ bucket \in [Docs -> Revisions]
    /\ points \in [Docs -> [Chunks -> Revisions]]
    /\ ingestFaults \in 0..MaxIngestFaults

\* The debounce loses nothing: a change no submitted run follows is still
\* in the watcher's hands, with a timer armed or a POST under way, unless a
\* POST failed.  fire() may forget its paths before the POST because a
\* change during the POST starts a new timer (file-watcher main.ts).
ChangesFollowed ==
    unfollowed # {} =>
      \/ posts > 0
      \/ \A d \in unfollowed : d \in fsEvents \/ (d \in changed /\ timer)

\* Until a run overlaps another: a document recorded at the revision that
\* is on disk, which every later run calls unchanged, is in the store with
\* all its chunks and no other, unless a run recorded it and then dropped it
\* (its chunks may be missing) or it was rewritten with fewer chunks (the
\* old ones stay).  Taking the mtime before the content is what makes this
\* hold under concurrent saves (filesystem_source, delta_filter).
RecordedIsIndexed ==
    ~overlapped =>
      \A d \in Docs \ undelivered :
        (/\ docFiles[d] # 0 /\ bucket[d] = docFiles[d]
         /\ \A r \in IngestRuns : d \notin ingest[r].write)
        => \A i \in Chunks :
             \/ i <= ChunksOf[docFiles[d]] /\ points[d][i] = docFiles[d]
             \/ i > ChunksOf[docFiles[d]] /\ (points[d][i] = 0 \/ d \in shrunk)

\* Until a run overlaps another: a document that is not recorded, which no
\* later run will delete, has no point left in the store, unless a run
\* dropped its deletion (delta_filter's deleted port, deleteByDocIds).
UnrecordedIsGone ==
    ~overlapped =>
      \A d \in Docs \ undelivered :
        (bucket[d] = 0 /\ \A r \in IngestRuns : d \notin ingest[r].delete)
        => \A i \in Chunks : points[d][i] = 0

\* A change on disk is followed by a run, and what the recorded state says is
\* what the index holds, but for the cases named in the parts (watcher, delta
\* filter, vector store nodes).
IngestSafe ==
    /\ IngestTypeOK /\ ChangesFollowed /\ RecordedIsIndexed
    /\ UnrecordedIsGone
============================================================================

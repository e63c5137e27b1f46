------------------------------- MODULE VdbIndex -------------------------------
(***************************************************************************)
(* The vector-database module of the RAG application: the HTTP operations  *)
(* of VDBModule/main.py on Chroma collections, through ChromaHelper.py.    *)
(* Flask serves each request in a thread of its own, and every helper call *)
(* looks the collection up by name again, so an upload is a sequence of    *)
(* steps between which indexes may be deleted, created and searched.       *)
(*                                                                         *)
(* A document is one chunk of an uploaded file; what it says is abstracted *)
(* to where it comes from.  The image ships Chroma's files with collections *)
(* that are already filled, and the container has no volume: a new         *)
(* container starts with the shipped collections and no others.            *)
(***************************************************************************)
EXTENDS Naturals, FiniteSets

CONSTANTS
    Indexes,    \* names of indexes
    Uploads,    \* calls of /upload_file
    BatchSize,  \* 50 records per batch
    Sizes,      \* how many chunks a file may have
    MaxChunks,  \* bound: the largest of them
    Shipped,    \* indexes the image's chromedb/db holds
    NoUpload    \* where a shipped document comes from

ASSUME VdbAssumption ==
    /\ BatchSize \in Nat \ {0}
    /\ MaxChunks \in Nat
    /\ Sizes \subseteq 0..MaxChunks
    /\ Shipped \subseteq Indexes
    /\ NoUpload \notin Uploads

VARIABLES
    created,    \* names of the collections that exist
    store,      \* store[ix]: documents of collection ix
    upload,     \* upload[u]: progress of the thread that serves upload u
    disturbed   \* history: uploads whose index was deleted or replaced since they began

vdbVars == <<created, store, upload, disturbed>>

-----------------------------------------------------------------------------
(* df_array = np.array_split(df, len(df) // 50 + 1): the number of batches,  *)
(* and the k-th batch as the interval First(n, k) + 1 .. First(n, k + 1).    *)
(* The first n % Batches(n) batches get one record more than the others.     *)

\* len(df) // 50 batches: the last records overflow theirs.
FloorBatches(n) == IF n < BatchSize THEN 1 ELSE n \div BatchSize

Batches(n) == (n \div BatchSize) + 1

Least(a, b) == IF a < b THEN a ELSE b

First(n, k) ==
    (k - 1) * (n \div Batches(n)) + Least(k - 1, n % Batches(n))

Batch(n, k) == (First(n, k) + 1)..First(n, k + 1)

-----------------------------------------------------------------------------

\* One record stands for all that a shipped collection holds.
ShippedRecord(ix) == [up |-> NoUpload, chunk |-> 0, index |-> ix]
ShippedRecords == {ShippedRecord(ix) : ix \in Shipped}

Document == [up : Uploads, chunk : 1..MaxChunks, index : Indexes]
              \cup ShippedRecords

Phases == {"free", "running", "done", "failed"}

Upload == [phase : Phases, index : Indexes, size : Sizes,
           next : 1..(MaxChunks + 2)]

VdbTypeOK ==
    /\ created \subseteq Indexes
    /\ store \in [Indexes -> SUBSET Document]
    /\ upload \in [Uploads -> Upload]
    /\ disturbed \subseteq Uploads

\* COPY . . and PersistentClient("./chromedb/db"): what a new container has.
ImageStore ==
    [ix \in Indexes |-> IF ix \in Shipped THEN {ShippedRecord(ix)} ELSE {}]

VdbInit ==
    /\ created = Shipped
    /\ store = ImageStore
    /\ upload \in [Uploads -> {[phase |-> "free", index |-> ix, size |-> n,
                                next |-> 1] :
                               ix \in Indexes, n \in Sizes}]
    /\ disturbed = {}

\* The documents the batches of u up to, not including, the k-th are made of.
Chunks(u, k) ==
    {[up |-> u, chunk |-> c, index |-> upload[u].index] :
        c \in 1..First(upload[u].size, k)}

Running(u) == upload[u].phase = "running"

RunningOn(ixs) == {u \in Uploads : Running(u) /\ upload[u].index \in ixs}

-----------------------------------------------------------------------------
(* Operations *)

\* get_or_create_collection() replaced by a fresh collection.
CreateAnew(ix) ==
    /\ created' = created \cup {ix}
    /\ store' = [store EXCEPT ![ix] = {}]
    /\ UNCHANGED <<upload, disturbed>>

\* get_or_create_collection(): creating an index again leaves it as it is.
CreateIndex(ix) ==
    /\ created' = created \cup {ix}
    /\ UNCHANGED <<store, upload, disturbed>>

\* delete_collection() raises if there is no such index: error 500, no change.
DeleteIndex(ix) ==
    /\ ix \in created
    /\ created' = created \ {ix}
    /\ store' = [store EXCEPT ![ix] = {}]
    /\ disturbed' = disturbed \cup RunningOn({ix})
    /\ UNCHANGED upload

\* The name was chosen from a list fetched earlier: it may be gone by now.
BeginUpload(u) ==
    /\ upload[u].phase = "free"
    /\ upload' = [upload EXCEPT ![u].phase = "running"]
    /\ UNCHANGED <<created, store, disturbed>>

\* The exception leaves the loop; the batches added so far stay.
FailUpload(u) ==
    /\ Running(u)
    /\ upload' = [upload EXCEPT ![u].phase = "failed"]
    /\ UNCHANGED <<created, store, disturbed>>

\* The collection is looked up once, before the loop.
AddBatchUnchecked(u) ==
    LET n == upload[u].size
        k == upload[u].next
        ix == upload[u].index
    IN  /\ Running(u)
        /\ k <= Batches(n)
        /\ store' = [store EXCEPT ![ix] = @ \cup
                        {[up |-> u, chunk |-> c, index |-> ix] :
                            c \in Batch(n, k)}]
        /\ upload' = [upload EXCEPT ![u].next = k + 1]
        /\ UNCHANGED <<created, disturbed>>

\* One turn of the loop in upload_file(): get_collection() by name, then add().
AddBatch(u) ==
    LET n == upload[u].size
        k == upload[u].next
        ix == upload[u].index
    IN  /\ Running(u)
        /\ k <= Batches(n)
        /\ ix \in created
        /\ Batch(n, k) # {}
        /\ store' = [store EXCEPT ![ix] = @ \cup
                        {[up |-> u, chunk |-> c, index |-> ix] :
                            c \in Batch(n, k)}]
        /\ upload' = [upload EXCEPT ![u].next = k + 1]
        /\ UNCHANGED <<created, disturbed>>

\* get_collection() raises when the index is gone, add() when there is nothing
\* to add (a file without text), and either when Chroma fails.
BatchFails(u) ==
    /\ upload[u].next <= Batches(upload[u].size)
    /\ FailUpload(u)

\* The success message is sent with the last batch still to be added.
ReportEarly(u) ==
    /\ Running(u)
    /\ upload[u].next >= Batches(upload[u].size)
    /\ upload' = [upload EXCEPT ![u].phase = "done"]
    /\ UNCHANGED <<created, store, disturbed>>

\* "N records uploaded successfully"
ReportUpload(u) ==
    /\ Running(u)
    /\ upload[u].next > Batches(upload[u].size)
    /\ upload' = [upload EXCEPT ![u].phase = "done"]
    /\ UNCHANGED <<created, store, disturbed>>

\* The process ends, and the threads in it.  If the container is started
\* again its files are as they were; if it is replaced they are the image's.
VdbRestart ==
    /\ upload' = [u \in Uploads |->
                    IF Running(u) THEN [upload[u] EXCEPT !.phase = "failed"]
                    ELSE upload[u]]
    /\ \/ UNCHANGED <<created, store, disturbed>>
       \/ /\ created' = Shipped
          /\ store' = ImageStore
          /\ disturbed' = disturbed \cup RunningOn(Indexes)

\* What an operator does on the index pages.
IndexStep ==
    \/ \E ix \in Indexes : CreateIndex(ix) \/ DeleteIndex(ix)
    \/ \E u \in Uploads :
        BeginUpload(u) \/ AddBatch(u) \/ BatchFails(u) \/ ReportUpload(u)

VdbNext == IndexStep \/ VdbRestart

VdbSpec == VdbInit /\ [][VdbNext]_vdbVars

-----------------------------------------------------------------------------
(* Properties *)

\* np.array_split() cuts a file into batches of at most BatchSize records that
\* cover it (upload_file(), "split df to 50 records per batch"): whatever the
\* size, no batch is too large and none is empty unless the file is.
BatchesFit ==
    \A u \in Uploads :
        LET n == upload[u].size
        IN  /\ First(n, 1) = 0 /\ First(n, Batches(n) + 1) = n
            /\ \A k \in 1..Batches(n) :
                /\ Cardinality(Batch(n, k)) <= BatchSize
                /\ n > 0 /\ BatchSize > 1 => Batch(n, k) # {}

\* While nobody deletes the index of an upload, the index holds of it exactly
\* the batches the loop has been through, each record once, whatever else is
\* created, deleted, uploaded and searched meanwhile.
UploadIsPrefix ==
    \A u \in Uploads :
        Running(u) /\ u \notin disturbed =>
            {d \in store[upload[u].index] : d.up = u}
                = Chunks(u, upload[u].next)

\* A collection never outlives its name and never holds another's documents:
\* a search in ix can only find what was uploaded to ix or shipped in it.
StoreMatchesIndex ==
    \A ix \in Indexes :
        /\ ix \notin created => store[ix] = {}
        /\ \A d \in store[ix] : d.index = ix

\* "N records uploaded successfully" is only said of an undisturbed upload when
\* all N records are in the index.
SuccessIsComplete ==
    [][\A u \in Uploads :
        ReportUpload(u) /\ u \notin disturbed =>
            Chunks(u, Batches(upload[u].size) + 1)
                \subseteq store[upload[u].index]]_vdbVars
=============================================================================

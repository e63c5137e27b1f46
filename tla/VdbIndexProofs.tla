---------------------------- MODULE VdbIndexProofs ----------------------------
(***************************************************************************)
(* The vector database for any indexes, uploads, file sizes and batch      *)
(* size: how np.array_split() cuts a file into batches, and what an index  *)
(* holds of an upload.                                                     *)
(***************************************************************************)
EXTENDS VdbIndex, FiniteSetTheorems, TLAPS

-----------------------------------------------------------------------------
(* Arithmetic of the batches *)

\* Division with remainder, for a divisor that is not a literal.
LEMMA DivMod ==
    ASSUME NEW n \in Nat, NEW d \in Nat \ {0}
    PROVE  /\ n \div d \in Nat /\ n % d \in 0..(d - 1)
           /\ n = d * (n \div d) + (n % d)
OBVIOUS

LEMMA SizesTyped ==
    ASSUME NEW n \in Sizes
    PROVE  n \in Nat /\ n <= MaxChunks
<1>1. Sizes \subseteq 0..MaxChunks /\ MaxChunks \in Nat
  BY VdbAssumption
<1>2. n \in 0..MaxChunks
  BY <1>1
<1>3. QED
  BY <1>1, <1>2

LEMMA MultMonotone ==
    ASSUME NEW a \in Nat, NEW b \in Nat, NEW c \in Nat, a <= b
    PROVE  a * c <= b * c
OBVIOUS

LEMMA BatchesTyped ==
    ASSUME NEW n \in Nat
    PROVE  /\ Batches(n) \in Nat \ {0}
           /\ Batches(n) <= n + 1
           /\ n \div Batches(n) \in Nat
           /\ n % Batches(n) \in 0..(Batches(n) - 1)
           /\ n = Batches(n) * (n \div Batches(n)) + (n % Batches(n))
<1>1. n \div BatchSize \in Nat /\ n = BatchSize * (n \div BatchSize) + (n % BatchSize)
      /\ n % BatchSize \in Nat
  BY DivMod, VdbAssumption
<1>2. 1 * (n \div BatchSize) <= BatchSize * (n \div BatchSize)
  BY <1>1, MultMonotone, VdbAssumption
<1>3. Batches(n) \in Nat \ {0} /\ Batches(n) <= n + 1
  BY <1>1, <1>2, VdbAssumption DEF Batches
<1>4. QED
  BY <1>3, DivMod

\* The first k batches hold First(n, k + 1) records: the interval grows with k
\* and ends at n.
LEMMA FirstTyped ==
    ASSUME NEW n \in Nat, NEW k \in 1..(Batches(n) + 1)
    PROVE  First(n, k) \in 0..n
<1> DEFINE b == Batches(n)
           q == n \div b
           r == n % b
<1>1. /\ b \in Nat \ {0} /\ q \in Nat /\ r \in 0..(b - 1)
      /\ n = b * q + r
  BY BatchesTyped
<1> HIDE DEF b, q, r
<1>2. k \in 1..(b + 1)
  BY DEF b
<1>3. k - 1 \in Nat /\ k - 1 <= b
  BY <1>1, <1>2
<1>4. (k - 1) * q <= b * q /\ (k - 1) * q \in Nat /\ b * q \in Nat
  BY <1>1, <1>3, MultMonotone
<1>5. Least(k - 1, r) \in 0..r
  BY <1>1, <1>3 DEF Least
<1>6. First(n, k) = (k - 1) * q + Least(k - 1, r)
  BY DEF First, b, q, r
<1>7. QED
  BY <1>1, <1>4, <1>5, <1>6

LEMMA FirstSteps ==
    ASSUME NEW n \in Nat, NEW k \in 1..Batches(n)
    PROVE  /\ First(n, 1) = 0
           /\ First(n, Batches(n) + 1) = n
           /\ First(n, k + 1) - First(n, k)
                = (n \div Batches(n)) + (IF k - 1 < n % Batches(n) THEN 1 ELSE 0)
<1> DEFINE b == Batches(n)
           q == n \div b
           r == n % b
<1>1. /\ b \in Nat \ {0} /\ q \in Nat /\ r \in 0..(b - 1)
      /\ n = b * q + r /\ k \in 1..b
  BY BatchesTyped
<1>2. \A j \in 1..(b + 1) : First(n, j) = (j - 1) * q + Least(j - 1, r)
  BY DEF First
<1> HIDE DEF b, q, r
<1>3. First(n, 1) = 0
  BY <1>1, <1>2 DEF Least
<1>4. First(n, b + 1) = n
  BY <1>1, <1>2 DEF Least
<1>5. First(n, k + 1) - First(n, k) = q + (IF k - 1 < r THEN 1 ELSE 0)
  <2>1. k * q = (k - 1) * q + q /\ k * q \in Nat /\ (k - 1) * q \in Nat
    BY <1>1
  <2>2. First(n, k + 1) = k * q + Least(k, r)
    <3>1. k + 1 \in 1..(b + 1) /\ (k + 1) - 1 = k
      BY <1>1
    <3>2. QED
      BY <1>2, <3>1
  <2>3. First(n, k) = (k - 1) * q + Least(k - 1, r)
    BY <1>1, <1>2
  <2>4. Least(k, r) - Least(k - 1, r) = IF k - 1 < r THEN 1 ELSE 0
    BY <1>1 DEF Least
  <2>5. Least(k, r) \in Nat /\ Least(k - 1, r) \in Nat
    BY <1>1 DEF Least
  <2>6. QED
    BY <1>1, <2>1, <2>2, <2>3, <2>4, <2>5
<1>6. QED
  BY <1>3, <1>4, <1>5 DEF b, q, r

\* len(df) // 50 + 1 batches are enough for batches of at most 50.
LEMMA BatchNotTooLarge ==
    ASSUME NEW n \in Nat
    PROVE  (n \div Batches(n)) + 1 <= BatchSize
<1> DEFINE b == Batches(n)
           q == n \div b
           d == n \div BatchSize
<1>1. /\ d \in Nat /\ n % BatchSize \in 0..(BatchSize - 1)
      /\ n = BatchSize * d + (n % BatchSize) /\ b = d + 1
  BY DivMod, VdbAssumption DEF Batches
<1>2. b \in Nat \ {0} /\ q \in Nat /\ n = b * q + (n % b) /\ n % b \in Nat
  BY BatchesTyped
<1> HIDE DEF b, q, d
<1>3. BatchSize * d \in Nat /\ BatchSize * b = BatchSize * d + BatchSize
  BY <1>1, <1>2, VdbAssumption
<1>4. n < BatchSize * b
  BY <1>1, <1>3, VdbAssumption
<1>5. b * q <= n /\ b * q = q * b /\ q * b \in Nat
  BY <1>2
<1>6. ~(BatchSize <= q)
  <2>1. ASSUME BatchSize <= q PROVE FALSE
    <3>1. BatchSize * b <= q * b
      BY <1>2, <2>1, MultMonotone, VdbAssumption
    <3>2. QED
      BY <1>3, <1>4, <1>5, <3>1, VdbAssumption
  <2>2. QED
    BY <2>1
<1>7. QED
  BY <1>2, <1>6, VdbAssumption DEF b, q

\* No batch is empty unless the file is.
LEMMA BatchNotEmpty ==
    ASSUME NEW n \in Nat \ {0}, BatchSize > 1
    PROVE  n \div Batches(n) >= 1
<1> DEFINE b == Batches(n)
           q == n \div b
           d == n \div BatchSize
<1>1. /\ d \in Nat /\ n % BatchSize \in 0..(BatchSize - 1)
      /\ n = BatchSize * d + (n % BatchSize) /\ b = d + 1
  BY DivMod, VdbAssumption DEF Batches
<1>2. b \in Nat \ {0} /\ q \in Nat /\ n = b * q + (n % b) /\ n % b \in 0..(b - 1)
  BY BatchesTyped
<1> HIDE DEF b, q, d
<1>3. 2 * d <= BatchSize * d
  BY <1>1, MultMonotone, VdbAssumption
<1>4. BatchSize * d \in Nat
  BY <1>1, VdbAssumption
<1>5. b <= n
  BY <1>1, <1>3, <1>4, VdbAssumption
<1>6. q # 0
  BY <1>2, <1>5
<1>7. QED
  BY <1>2, <1>6 DEF b, q

-----------------------------------------------------------------------------
(* The inductive invariant *)

\* The loop counter stays within the loop, and an upload that has not begun
\* has nothing in any index: what Prefix needs to begin with.
NextInRange ==
    \A u \in Uploads : upload[u].next \in 1..(Batches(upload[u].size) + 1)

FreeUnstored ==
    \A u \in Uploads : upload[u].phase = "free" =>
        /\ upload[u].next = 1
        /\ \A ix \in Indexes : \A d \in store[ix] : d.up # u

VdbInv ==
    VdbTypeOK /\ NextInRange /\ FreeUnstored /\ UploadIsPrefix
        /\ StoreMatchesIndex

\* A document is of some index, and of an upload or of the image.
LEMMA DocumentFields ==
    \A d \in Document :
        /\ d.index \in Indexes
        /\ \/ d.up \in Uploads /\ d.up # NoUpload /\ d.chunk \in 1..MaxChunks
           \/ d.up = NoUpload /\ d \in ShippedRecords
  BY VdbAssumption DEF Document, ShippedRecords, ShippedRecord

\* What a new container has: nobody's uploads, each record in its own index.
LEMMA ImageFacts ==
    /\ ImageStore \in [Indexes -> SUBSET Document]
    /\ \A ix \in Indexes :
        /\ ix \notin Shipped => ImageStore[ix] = {}
        /\ \A d \in ImageStore[ix] : d.index = ix /\ d.up = NoUpload
<1>1. \A ix \in Indexes :
        ImageStore[ix] = IF ix \in Shipped THEN {ShippedRecord(ix)} ELSE {}
  BY DEF ImageStore
<1>2. \A ix \in Shipped :
        /\ ShippedRecord(ix) \in Document
        /\ ShippedRecord(ix).index = ix /\ ShippedRecord(ix).up = NoUpload
  BY DEF ShippedRecord, ShippedRecords, Document
<1>3. ImageStore \in [Indexes -> SUBSET Document]
  <2>1. ASSUME NEW ix \in Indexes PROVE ImageStore[ix] \in SUBSET Document
    <3>1. CASE ix \in Shipped
      <4>1. ImageStore[ix] = {ShippedRecord(ix)} /\ ShippedRecord(ix) \in Document
        BY <1>1, <1>2, <3>1
      <4>2. QED
        BY <4>1
    <3>2. CASE ix \notin Shipped
      BY <1>1, <3>2
    <3>3. QED
      BY <3>1, <3>2
  <2>2. ImageStore = [ix \in Indexes |-> ImageStore[ix]]
    BY DEF ImageStore
  <2>3. QED
    BY <2>1, <2>2
<1>4. QED
  BY <1>1, <1>2, <1>3

LEMMA InitInv == VdbInit => VdbInv
<1> SUFFICES ASSUME VdbInit PROVE VdbInv
  OBVIOUS
<1>1. \A u \in Uploads :
        /\ upload[u] \in Upload
        /\ upload[u].phase = "free" /\ upload[u].next = 1
        /\ upload[u].size \in Nat
  <2> SUFFICES ASSUME NEW u \in Uploads
               PROVE  /\ upload[u] \in Upload
                      /\ upload[u].phase = "free" /\ upload[u].next = 1
                      /\ upload[u].size \in Nat
    OBVIOUS
  <2>1. PICK ix \in Indexes, n \in Sizes :
            upload[u] = [phase |-> "free", index |-> ix, size |-> n,
                         next |-> 1]
    BY DEF VdbInit
  <2>2. n \in Nat
    BY VdbAssumption
  <2>3. 1 \in 1..(MaxChunks + 2)
    BY VdbAssumption
  <2>4. upload[u] \in Upload
    BY <2>1, <2>3 DEF Upload, Phases
  <2>5. QED
    BY <2>1, <2>2, <2>4
<1>2. VdbTypeOK
  BY <1>1, ImageFacts, VdbAssumption DEF VdbInit, VdbTypeOK
<1>3. NextInRange
  <2> SUFFICES ASSUME NEW u \in Uploads
               PROVE  upload[u].next \in 1..(Batches(upload[u].size) + 1)
    BY DEF NextInRange
  <2>1. upload[u].next = 1 /\ upload[u].size \in Nat
    BY <1>1
  <2>2. Batches(upload[u].size) \in Nat
    BY <2>1, BatchesTyped
  <2>3. QED
    BY <2>1, <2>2
<1>4. FreeUnstored /\ UploadIsPrefix /\ StoreMatchesIndex
  BY <1>1, ImageFacts, VdbAssumption
     DEF VdbInit, FreeUnstored, UploadIsPrefix, StoreMatchesIndex, Running
<1>5. QED
  BY <1>2, <1>3, <1>4 DEF VdbInv

\* One turn of the upload loop.
LEMMA AddBatchInv ==
    ASSUME VdbInv, NEW u \in Uploads, AddBatch(u)
    PROVE  VdbInv'
<1> DEFINE n == upload[u].size
           k == upload[u].next
           ix == upload[u].index
           new == {[up |-> u, chunk |-> c, index |-> ix] : c \in Batch(n, k)}
<1>1. /\ n \in Nat /\ n <= MaxChunks /\ ix \in Indexes
      /\ k \in 1..Batches(n) /\ Batches(n) \in Nat /\ Batches(n) <= MaxChunks + 1
      /\ u \in Uploads /\ Running(u)
  <2>1. upload[u] \in Upload /\ k \in 1..(Batches(n) + 1)
    BY DEF VdbInv, VdbTypeOK, NextInRange
  <2>2. n \in Nat /\ n <= MaxChunks /\ ix \in Indexes
    <3>1. n \in Sizes /\ ix \in Indexes
      BY <2>1 DEF Upload
    <3>2. QED
      BY <3>1, SizesTyped
  <2>3. Batches(n) \in Nat /\ Batches(n) <= n + 1
    BY <2>2, BatchesTyped
  <2>4. QED
    BY <2>1, <2>2, <2>3, VdbAssumption DEF AddBatch
<1>2. /\ store' = [store EXCEPT ![ix] = @ \cup new]
      /\ upload' = [upload EXCEPT ![u].next = k + 1]
      /\ created' = created /\ disturbed' = disturbed /\ ix \in created
  BY DEF AddBatch
<1>3. First(n, k) \in 0..n /\ First(n, k + 1) \in 0..n
      /\ First(n, k) <= First(n, k + 1)
  <2>1. k \in 1..(Batches(n) + 1) /\ k + 1 \in 1..(Batches(n) + 1)
    BY <1>1
  <2>2. First(n, k) \in 0..n /\ First(n, k + 1) \in 0..n
    BY <1>1, <2>1, FirstTyped
  <2>3. First(n, k + 1) - First(n, k)
            = (n \div Batches(n)) + (IF k - 1 < n % Batches(n) THEN 1 ELSE 0)
    BY <1>1, FirstSteps
  <2>4. n \div Batches(n) \in Nat
    BY <1>1, BatchesTyped
  <2>5. QED
    BY <2>2, <2>3, <2>4
<1>4. Batch(n, k) \subseteq 1..MaxChunks
  BY <1>1, <1>3, VdbAssumption DEF Batch
<1>5. new \subseteq Document
  BY <1>1, <1>4 DEF Document
<1>6. \A v \in Uploads :
        /\ upload'[v].phase = upload[v].phase
        /\ upload'[v].index = upload[v].index
        /\ upload'[v].size = upload[v].size
        /\ v # u => upload'[v].next = upload[v].next
  BY <1>2 DEF VdbInv, VdbTypeOK, Upload
<1>7. upload'[u].next = k + 1
  BY <1>2 DEF VdbInv, VdbTypeOK, Upload
<1> HIDE DEF n, k, ix, new
<1>8. VdbTypeOK'
  <2>1. store' \in [Indexes -> SUBSET Document]
    BY <1>1, <1>2, <1>5 DEF VdbInv, VdbTypeOK
  <2>2. k + 1 \in 1..(MaxChunks + 2)
    BY <1>1, VdbAssumption
  <2>3. upload' \in [Uploads -> Upload]
    BY <1>2, <2>2 DEF VdbInv, VdbTypeOK, Upload
  <2>4. QED
    BY <1>2, <2>1, <2>3 DEF VdbInv, VdbTypeOK
<1>9. NextInRange'
  <2>1. \A v \in Uploads : Batches(upload'[v].size) = Batches(upload[v].size)
    BY <1>6
  <2>2. upload'[u].next \in 1..(Batches(upload[u].size) + 1)
    BY <1>1, <1>7 DEF n
  <2>3. \A v \in Uploads :
            upload'[v].next \in 1..(Batches(upload[v].size) + 1)
    BY <1>6, <2>2 DEF VdbInv, NextInRange
  <2>4. QED
    BY <2>1, <2>3 DEF NextInRange, Batches
<1>10. \A jx \in Indexes : \A d \in store'[jx] :
          d \in store[jx] \/ (jx = ix /\ d \in new)
  BY <1>1, <1>2 DEF VdbInv, VdbTypeOK
<1>11. \A d \in new : d.up = u /\ d.index = ix
  BY DEF new
<1>12. FreeUnstored'
  BY <1>1, <1>6, <1>10, <1>11 DEF VdbInv, FreeUnstored, Running
<1>13. StoreMatchesIndex'
  BY <1>1, <1>2, <1>10, <1>11 DEF VdbInv, StoreMatchesIndex
<1>14. UploadIsPrefix'
  <2> SUFFICES ASSUME NEW v \in Uploads, Running(v)', v \notin disturbed'
               PROVE  ({d \in store[upload[v].index] : d.up = v}
                        = Chunks(v, upload[v].next))'
    BY DEF UploadIsPrefix
  <2>1. /\ upload[v].index \in Indexes
        /\ {d \in store[upload[v].index] : d.up = v}
                = Chunks(v, upload[v].next)
    BY <1>2, <1>6 DEF VdbInv, UploadIsPrefix, Running, VdbTypeOK, Upload
  <2>2. CASE v # u
    <3>1. {d \in store'[upload[v].index] : d.up = v}
            = {d \in store[upload[v].index] : d.up = v}
      BY <1>1, <1>2, <1>11, <2>1, <2>2 DEF VdbInv, VdbTypeOK
    <3>2. QED
      BY <1>6, <2>1, <2>2, <3>1 DEF Chunks, First, Batches
  <2>3. CASE v = u
    <3>1. {d \in store'[ix] : d.up = u} = {d \in store[ix] : d.up = u} \cup new
      BY <1>1, <1>2, <1>11 DEF VdbInv, VdbTypeOK
    <3>2. {d \in store[ix] : d.up = u}
            = {[up |-> u, chunk |-> c, index |-> ix] : c \in 1..First(n, k)}
      BY <2>1, <2>3 DEF Chunks, n, k, ix
    <3>3. 1..First(n, k + 1) = (1..First(n, k)) \cup Batch(n, k)
      BY <1>3 DEF Batch
    <3>4. {d \in store'[ix] : d.up = u}
            = {[up |-> u, chunk |-> c, index |-> ix] : c \in 1..First(n, k + 1)}
      BY <3>1, <3>2, <3>3 DEF new
    <3>5. upload'[u].size = n /\ upload'[u].index = ix
      BY <1>6 DEF n, ix
    <3>6. QED
      BY <1>7, <2>3, <3>4, <3>5 DEF Chunks, First, Batches
  <2>4. QED
    BY <2>2, <2>3
<1>15. QED
  BY <1>8, <1>9, <1>12, <1>13, <1>14 DEF VdbInv

LEMMA CreateInv ==
    ASSUME VdbInv, NEW ix \in Indexes, CreateIndex(ix)
    PROVE  VdbInv'
<1>1. /\ store' = store /\ upload' = upload /\ disturbed' = disturbed
      /\ created' = created \cup {ix}
  BY DEF CreateIndex
<1>2. VdbTypeOK' /\ NextInRange' /\ FreeUnstored'
  BY <1>1 DEF VdbInv, VdbTypeOK, NextInRange, FreeUnstored, Batches
<1>3. UploadIsPrefix'
  BY <1>1 DEF VdbInv, UploadIsPrefix, Running, Chunks, First, Batches
<1>4. StoreMatchesIndex'
  BY <1>1 DEF VdbInv, StoreMatchesIndex
<1>5. QED
  BY <1>2, <1>3, <1>4 DEF VdbInv

\* Deleting an index disturbs exactly the uploads that are running on it.
LEMMA DeleteInv ==
    ASSUME VdbInv, NEW ix \in Indexes, DeleteIndex(ix)
    PROVE  VdbInv'
<1>1. /\ store' = [store EXCEPT ![ix] = {}] /\ upload' = upload
      /\ created' = created \ {ix}
      /\ disturbed' = disturbed \cup RunningOn({ix})
  BY DEF DeleteIndex
<1>2. \A jx \in Indexes : store'[jx] = IF jx = ix THEN {} ELSE store[jx]
  BY <1>1 DEF VdbInv, VdbTypeOK
<1>3. VdbTypeOK' /\ NextInRange'
  BY <1>1 DEF VdbInv, VdbTypeOK, NextInRange, Batches, RunningOn
<1>4. FreeUnstored' /\ StoreMatchesIndex'
  BY <1>1, <1>2 DEF VdbInv, FreeUnstored, StoreMatchesIndex
<1>5. UploadIsPrefix'
  <2> SUFFICES ASSUME NEW u \in Uploads, Running(u)', u \notin disturbed'
               PROVE  ({d \in store[upload[u].index] : d.up = u}
                        = Chunks(u, upload[u].next))'
    BY DEF UploadIsPrefix
  <2>1. Running(u) /\ u \notin disturbed /\ upload[u].index # ix
    BY <1>1 DEF Running, RunningOn
  <2>2. upload[u].index \in Indexes
    BY DEF VdbInv, VdbTypeOK, Upload
  <2>3. QED
    BY <1>1, <1>2, <2>1, <2>2
       DEF VdbInv, UploadIsPrefix, Chunks, First, Batches
<1>6. QED
  BY <1>3, <1>4, <1>5 DEF VdbInv

\* Steps that change nothing of an upload but its phase.
LEMMA PhaseInv ==
    ASSUME VdbInv, NEW u \in Uploads, NEW phase \in Phases \ {"free"},
           phase = "running" => upload[u].phase = "free",
           upload' = [upload EXCEPT ![u].phase = phase],
           UNCHANGED <<created, store, disturbed>>
    PROVE  VdbInv'
<1>1. \A v \in Uploads :
        /\ upload[v] \in Upload /\ upload'[v] \in Upload
        /\ upload'[v].index = upload[v].index
        /\ upload'[v].size = upload[v].size
        /\ upload'[v].next = upload[v].next
        /\ upload'[v].phase = IF v = u THEN phase ELSE upload[v].phase
  BY DEF VdbInv, VdbTypeOK, Upload
<1>2. VdbTypeOK'
  BY <1>1 DEF VdbInv, VdbTypeOK
<1>3. NextInRange' /\ FreeUnstored' /\ StoreMatchesIndex'
  BY <1>1 DEF VdbInv, NextInRange, FreeUnstored, StoreMatchesIndex, Batches
<1>4. UploadIsPrefix'
  <2> SUFFICES ASSUME NEW v \in Uploads, Running(v)', v \notin disturbed'
               PROVE  ({d \in store[upload[v].index] : d.up = v}
                        = Chunks(v, upload[v].next))'
    BY DEF UploadIsPrefix
  <2>1. Chunks(v, upload[v].next)' = Chunks(v, upload[v].next)
    BY <1>1 DEF Chunks, First, Batches
  <2>2. CASE Running(v)
    BY <1>1, <2>1, <2>2 DEF VdbInv, UploadIsPrefix
  <2>3. CASE ~Running(v)
    <3>1. v = u /\ upload[u].phase = "free"
      BY <1>1, <2>3 DEF Running
    <3>2. upload[u].next = 1 /\ \A d \in store[upload[u].index] : d.up # u
      BY <1>1, <3>1 DEF VdbInv, FreeUnstored, Upload
    <3>3. First(upload[u].size, 1) = 0
      <4>1. upload[u].size \in Sizes
        BY <1>1 DEF Upload
      <4>2. upload[u].size \in Nat
        BY <4>1, SizesTyped
      <4>3. 1 \in 1..Batches(upload[u].size)
        BY <4>2, BatchesTyped
      <4>4. QED
        BY <4>2, <4>3, FirstSteps
    <3>4. Chunks(u, upload[u].next) = {}
      BY <3>2, <3>3 DEF Chunks
    <3>5. {d \in store[upload[u].index] : d.up = u} = {}
      BY <3>2
    <3>6. QED
      BY <1>1, <2>1, <3>1, <3>4, <3>5
  <2>4. QED
    BY <2>2, <2>3
<1>5. QED
  BY <1>2, <1>3, <1>4 DEF VdbInv

LEMMA RestartInv ==
    ASSUME VdbInv, VdbRestart
    PROVE  VdbInv'
<1>1. \/ created' = created /\ store' = store /\ disturbed' = disturbed
      \/ /\ created' = Shipped /\ store' = ImageStore
         /\ disturbed' = disturbed \cup RunningOn(Indexes)
  BY DEF VdbRestart
<1>2. \A v \in Uploads :
        /\ upload'[v] \in Upload
        /\ upload'[v].size = upload[v].size
        /\ upload'[v].next = upload[v].next
        /\ upload'[v].phase # "running"
        /\ upload'[v].phase = "free" => upload[v].phase = "free"
  BY DEF VdbRestart, VdbInv, VdbTypeOK, Upload, Running, Phases
<1>3. VdbTypeOK'
  <2>1. upload' = [u \in Uploads |-> upload'[u]]
    BY DEF VdbRestart
  <2>2. QED
    BY <1>1, <1>2, <2>1, ImageFacts, VdbAssumption
       DEF VdbInv, VdbTypeOK, RunningOn
<1>4. NextInRange' /\ UploadIsPrefix'
  BY <1>1, <1>2 DEF VdbInv, NextInRange, UploadIsPrefix, Running, Batches
<1>5. FreeUnstored' /\ StoreMatchesIndex'
  BY <1>1, <1>2, ImageFacts, VdbAssumption
     DEF VdbInv, FreeUnstored, StoreMatchesIndex
<1>6. QED
  BY <1>3, <1>4, <1>5 DEF VdbInv

LEMMA NextInv ==
    ASSUME VdbInv, [VdbNext]_vdbVars
    PROVE  VdbInv'
<1>1. CASE UNCHANGED vdbVars
  BY <1>1 DEF vdbVars, VdbInv, VdbTypeOK, NextInRange, FreeUnstored,
              StoreMatchesIndex, UploadIsPrefix, Running, Chunks, First, Batches
<1>2. CASE VdbRestart
  BY <1>2, RestartInv
<1>3. ASSUME NEW ix \in Indexes, CreateIndex(ix) \/ DeleteIndex(ix)
      PROVE  VdbInv'
  BY <1>3, CreateInv, DeleteInv
<1>4. ASSUME NEW u \in Uploads, BeginUpload(u) PROVE VdbInv'
  <2>1. "running" \in Phases \ {"free"}
    BY DEF Phases
  <2>2. QED
    BY <1>4, <2>1, PhaseInv DEF BeginUpload
<1>5. ASSUME NEW u \in Uploads, BatchFails(u) PROVE VdbInv'
  <2>1. "failed" \in Phases \ {"free"} /\ "failed" # "running"
    BY DEF Phases
  <2>2. QED
    BY <1>5, <2>1, PhaseInv DEF BatchFails, FailUpload
<1>6. ASSUME NEW u \in Uploads, ReportUpload(u) PROVE VdbInv'
  <2>1. "done" \in Phases \ {"free"} /\ "done" # "running"
    BY DEF Phases
  <2>2. QED
    BY <1>6, <2>1, PhaseInv DEF ReportUpload
<1>7. ASSUME NEW u \in Uploads, AddBatch(u) PROVE VdbInv'
  BY <1>7, AddBatchInv
<1>8. QED
  BY <1>1, <1>2, <1>3, <1>4, <1>5, <1>6, <1>7 DEF VdbNext, IndexStep

-----------------------------------------------------------------------------
(* Theorems *)

THEOREM VdbInvariant == VdbSpec => []VdbInv
<1>1. QED
  BY InitInv, NextInv, PTL DEF VdbSpec

\* An undisturbed upload's records are in its index batch by batch, once each.
THEOREM UploadsArePrefixes == VdbSpec => []UploadIsPrefix
<1>1. VdbInv => UploadIsPrefix
  BY DEF VdbInv
<1>2. QED
  BY VdbInvariant, <1>1, PTL

\* A search in an index finds only what was uploaded to it or shipped in it.
THEOREM StoresMatchIndexes == VdbSpec => []StoreMatchesIndex
<1>1. VdbInv => StoreMatchesIndex
  BY DEF VdbInv
<1>2. QED
  BY VdbInvariant, <1>1, PTL

\* len(df) // 50 + 1 batches cover the file, none of them larger than 50.
THEOREM FilesAreCut == VdbSpec => []BatchesFit
<1>1. ASSUME NEW n \in Nat
      PROVE  /\ First(n, 1) = 0 /\ First(n, Batches(n) + 1) = n
             /\ \A k \in 1..Batches(n) :
                 /\ Cardinality(Batch(n, k)) <= BatchSize
                 /\ n > 0 /\ BatchSize > 1 => Batch(n, k) # {}
  <2>1. First(n, 1) = 0 /\ First(n, Batches(n) + 1) = n
    <3>1. 1 \in 1..Batches(n)
      BY BatchesTyped
    <3>2. QED
      BY <3>1, FirstSteps
  <2>2. ASSUME NEW k \in 1..Batches(n)
        PROVE  /\ Cardinality(Batch(n, k)) <= BatchSize
               /\ n > 0 /\ BatchSize > 1 => Batch(n, k) # {}
    <3> DEFINE lo == First(n, k)
               hi == First(n, k + 1)
               q == n \div Batches(n)
    <3>1. Batches(n) \in Nat /\ q \in Nat
      BY BatchesTyped
    <3>2. lo \in 0..n /\ hi \in 0..n
      <4>1. k \in 1..(Batches(n) + 1) /\ k + 1 \in 1..(Batches(n) + 1)
        BY <3>1
      <4>2. QED
        BY <4>1, FirstTyped
    <3>3. hi - lo = q + (IF k - 1 < n % Batches(n) THEN 1 ELSE 0)
      BY FirstSteps
    <3>4. q + 1 <= BatchSize
      BY BatchNotTooLarge
    <3>5. n > 0 /\ BatchSize > 1 => q >= 1
      BY BatchNotEmpty
    <3>6. Batch(n, k) = (lo + 1)..hi
      BY DEF Batch
    <3> HIDE DEF lo, hi, q
    <3>7. Cardinality((lo + 1)..hi) = IF lo + 1 > hi THEN 0 ELSE hi - (lo + 1) + 1
      BY <3>2, FS_Interval
    <3>8. Cardinality(Batch(n, k)) <= BatchSize
      BY <3>1, <3>2, <3>3, <3>4, <3>6, <3>7, VdbAssumption
    <3>9. ASSUME n > 0, BatchSize > 1 PROVE Batch(n, k) # {}
      <4>1. lo + 1 \in (lo + 1)..hi
        BY <3>1, <3>2, <3>3, <3>5, <3>9
      <4>2. QED
        BY <3>6, <4>1
    <3>10. QED
      BY <3>8, <3>9
  <2>3. QED
    BY <2>1, <2>2
<1>2. VdbInv => BatchesFit
  <2> SUFFICES ASSUME VdbInv, NEW u \in Uploads
               PROVE  upload[u].size \in Nat
    BY <1>1 DEF BatchesFit
  <2>1. upload[u].size \in Sizes
    BY DEF VdbInv, VdbTypeOK, Upload
  <2>2. QED
    BY <2>1, SizesTyped
<1>3. QED
  BY VdbInvariant, <1>2, PTL

\* "N records uploaded successfully" is true of every undisturbed upload.
THEOREM SuccessesAreComplete == VdbSpec => SuccessIsComplete
<1> DEFINE Complete == \A u \in Uploads :
        ReportUpload(u) /\ u \notin disturbed =>
            Chunks(u, Batches(upload[u].size) + 1)
                \subseteq store[upload[u].index]
<1>1. VdbInv /\ [VdbNext]_vdbVars => [Complete]_vdbVars
  <2> SUFFICES ASSUME VdbInv, NEW u \in Uploads, ReportUpload(u),
                      u \notin disturbed
               PROVE  Chunks(u, Batches(upload[u].size) + 1)
                        \subseteq store[upload[u].index]
    OBVIOUS
  <2>1. upload[u].size \in Nat
    <3>1. upload[u].size \in Sizes
      BY DEF VdbInv, VdbTypeOK, Upload
    <3>2. QED
      BY <3>1, SizesTyped
  <2>2. upload[u].next = Batches(upload[u].size) + 1
    <3>1. Batches(upload[u].size) \in Nat
      BY <2>1, BatchesTyped
    <3>2. upload[u].next \in 1..(Batches(upload[u].size) + 1)
      BY DEF VdbInv, NextInRange
    <3>3. QED
      BY <3>1, <3>2 DEF ReportUpload
  <2>3. {d \in store[upload[u].index] : d.up = u} = Chunks(u, upload[u].next)
    BY DEF ReportUpload, VdbInv, UploadIsPrefix
  <2>4. QED
    BY <2>2, <2>3
<1>2. QED
  BY VdbInvariant, <1>1, PTL DEF VdbSpec, SuccessIsComplete
=============================================================================

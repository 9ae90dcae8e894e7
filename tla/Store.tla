------------------------------- MODULE Store -------------------------------
(***************************************************************************)
(* The databases under the Reward Calculator: a backend that keeps the     *)
(* keys of all buckets (goLevelDB and badgerDB in one key space, behind    *)
(* the id of the bucket; boltDB and mapDB bucket by bucket), a layerDB     *)
(* that holds writes back in memory until it is flushed, and a proxyDB     *)
(* whose buckets fail until they are given a database.                     *)
(*                                                                         *)
(* Clients work while the layer is flushed: an operation holds the lock of *)
(* its bucket, Flush holds the lock of the layer and one bucket's lock     *)
(* after the other, and a write of Flush may fail.                         *)
(***************************************************************************)
EXTENDS Naturals, Sequences

CONSTANTS
    BucketID, Key,  \* byte strings: sequences
    Byte,
    Value,
    Backends,       \* the types of database that are opened
    Absent,         \* nil
    Through         \* not in the data map of the layer

ASSUME StoreAssumption ==
    /\ BucketID \subseteq Seq(Byte) /\ Key \subseteq Seq(Byte)
    /\ \A i, j \in BucketID : Len(i) = Len(j)
    /\ Backends \subseteq {"goleveldb", "badgerdb", "boltdb", "mapdb"}
    /\ Absent \notin Value /\ Through \notin Value \cup {Absent}

VARIABLES
    backend,        \* the type the database was opened with
    real,           \* the backend: what it keeps at each of its keys
    bucket,         \* the layer's buckets: "none", "layer", or "flushed" (data = nil)
    data,           \* their data maps
    flushed,        \* of the layer
    flush,          \* Flush that runs, {} or {it}
    waiting,        \* the proxy's buckets that have no real one
    proxied,        \* the proxy was given the layer
    reply           \* the answer to the last Set, Delete or Flush

sVars == <<backend, real, bucket, data, flushed, flush, waiting, proxied, reply>>

Values == Value \cup {Absent}

internalKey(i, k) == i \o k

\* the backends with one key space; the others have one for each bucket
FlatBackends == {"goleveldb", "badgerdb"}

\* where the backend keeps key k of bucket i
RealKey(i, k) == IF backend \in FlatBackends THEN internalKey(i, k) ELSE <<i, k>>

RealKeys == {RealKey(i, k) : i \in BucketID, k \in Key}

\* mapBucket refuses the empty key
Refused(k) == backend = "mapdb" /\ k = <<>>

NoData == [k \in Key |-> Through]

Init ==
    /\ backend \in Backends
    /\ real = [x \in RealKeys |-> Absent]
    /\ bucket = [i \in BucketID |-> "none"]
    /\ data = [i \in BucketID |-> NoData]
    /\ flushed = FALSE
    /\ flush = {}
    /\ waiting = {}
    /\ proxied = FALSE
    /\ reply = "ok"

-----------------------------------------------------------------------------
(* GetBucket of the layer and of the proxy. *)

\* Mutant: a bucket opened after Flush is layered as well
LayerAlways(i) == IF bucket[i] = "none" THEN "layer" ELSE bucket[i]

\* the layer's bucket i once GetBucket returned; "none": it returned the real one
Opened(i) == IF bucket[i] = "none" /\ ~flushed THEN "layer" ELSE bucket[i]

LayerGetBucket(i) ==
    /\ flush = {}
    /\ bucket' = [bucket EXCEPT ![i] = Opened(i)]
    /\ UNCHANGED <<backend, real, data, flushed, flush, waiting, proxied, reply>>

\* with a database, and no bucket of its own, the proxy returns the bucket of that
ProxyGetBucket(i) ==
    /\ ~proxied
    /\ waiting' = waiting \cup {i}
    /\ UNCHANGED <<backend, real, bucket, data, flushed, flush, proxied, reply>>

\* SetReal: the database first, then bucket after bucket
SetReal ==
    /\ ~proxied
    /\ proxied' = TRUE
    /\ UNCHANGED <<backend, real, bucket, data, flushed, flush, waiting, reply>>

SetRealBucket(i) ==
    /\ proxied /\ i \in waiting /\ flush = {}
    /\ waiting' = waiting \ {i}
    /\ bucket' = [bucket EXCEPT ![i] = Opened(i)]
    /\ UNCHANGED <<backend, real, data, flushed, flush, proxied, reply>>

-----------------------------------------------------------------------------
(* Operations on a bucket: on the layer's, on the real one that the layer  *)
(* returned after Flush, or on one of these through the proxy.             *)

Locked(i) == \E f \in flush : f.id = {i}
Usable(i) == (bucket[i] # "none" /\ ~Locked(i)) \/ (bucket[i] = "none" /\ flushed)

\* Set, and Delete for v = Absent, of a bucket with a data map
SetLayer(i, k, v) ==
    /\ bucket[i] = "layer" /\ ~Locked(i)
    /\ data' = [data EXCEPT ![i][k] = v]
    /\ reply' = "ok"
    /\ UNCHANGED <<backend, real, bucket, flushed, flush, waiting, proxied>>

\* the same without one
SetBelow(i, k, v) ==
    /\ Usable(i) /\ bucket[i] # "layer"
    /\ v # Absent => ~Refused(k)
    /\ real' = [real EXCEPT ![RealKey(i, k)] = v]
    /\ reply' = "ok"
    /\ UNCHANGED <<backend, bucket, data, flushed, flush, waiting, proxied>>

\* what Get of a bucket returns; Has tells if there is something
Found(i, k) == IF data[i][k] # Through THEN data[i][k] ELSE real[RealKey(i, k)]

\* Set of nil is refused by a bucket of the layer, an operation of the backend may
\* fail, and a bucket of the proxy that waits refuses everything
Refuse(i) ==
    /\ i \in waiting \/ bucket[i] # "none" \/ flushed
    /\ reply' = "error"
    /\ UNCHANGED <<backend, real, bucket, data, flushed, flush, waiting, proxied>>

-----------------------------------------------------------------------------
(* Flush(write) of the layer. *)

StartFlush(write) ==
    /\ flush = {}
    /\ flush' = {[write |-> write, todo |-> {i \in BucketID : bucket[i] # "none"},
                  id |-> {}, keys |-> {}]}
    /\ UNCHANGED <<backend, real, bucket, data, flushed, waiting, proxied, reply>>

\* the next bucket, in the order of the map, and the keys to write
FlushBucket(f, i) ==
    /\ f.id = {} /\ i \in f.todo
    /\ flush' = {[f EXCEPT !.id = {i}, !.todo = @ \ {i},
                           !.keys = IF f.write THEN {k \in Key : data[i][k] # Through} ELSE {}]}
    /\ UNCHANGED <<backend, real, bucket, data, flushed, waiting, proxied, reply>>

\* Mutant: keys that were deleted in the layer are skipped
SkipDeleted(i, k) ==
    IF data[i][k] = Absent THEN real ELSE [real EXCEPT ![RealKey(i, k)] = data[i][k]]

\* Set, or Delete, of the real bucket
FlushedTo(i, k) == [real EXCEPT ![RealKey(i, k)] = data[i][k]]

FlushKey(f, i, k) ==
    /\ f.id = {i} /\ k \in f.keys
    /\ data[i][k] # Absent => ~Refused(k)
    /\ real' = FlushedTo(i, k)
    /\ flush' = {[f EXCEPT !.keys = @ \ {k}]}
    /\ UNCHANGED <<backend, bucket, data, flushed, waiting, proxied, reply>>

\* a write fails: Flush returns, what it has written stays written
FlushError(f) ==
    /\ f.keys # {}
    /\ flush' = {}
    /\ reply' = "error"
    /\ UNCHANGED <<backend, real, bucket, data, flushed, waiting, proxied>>

FlushBucketDone(f, i) ==
    /\ f.id = {i} /\ f.keys = {}
    /\ bucket' = [bucket EXCEPT ![i] = "flushed"]
    /\ data' = [data EXCEPT ![i] = NoData]
    /\ flush' = {[f EXCEPT !.id = {}]}
    /\ UNCHANGED <<backend, real, flushed, waiting, proxied, reply>>

EndFlush(f) ==
    /\ f.id = {} /\ f.todo = {}
    /\ flushed' = TRUE
    /\ flush' = {}
    /\ reply' = "ok"
    /\ UNCHANGED <<backend, real, bucket, data, waiting, proxied>>

\* the process ends and opens the database again
Restart ==
    /\ real' = IF backend = "mapdb" THEN [x \in RealKeys |-> Absent] ELSE real
    /\ bucket' = [i \in BucketID |-> "none"]
    /\ data' = [i \in BucketID |-> NoData]
    /\ flushed' = FALSE
    /\ flush' = {}
    /\ waiting' = {}
    /\ proxied' = FALSE
    /\ reply' = "ok"
    /\ UNCHANGED backend

-----------------------------------------------------------------------------
Next ==
    \/ \E i \in BucketID : LayerGetBucket(i) \/ ProxyGetBucket(i) \/ SetRealBucket(i) \/ Refuse(i)
    \/ SetReal
    \/ \E i \in BucketID, k \in Key :
          \E v \in Values : SetLayer(i, k, v) \/ SetBelow(i, k, v)
    \/ \E write \in BOOLEAN : StartFlush(write)
    \/ \E f \in flush :
          \/ \E i \in BucketID : FlushBucket(f, i) \/ FlushBucketDone(f, i)
          \/ \E i \in BucketID, k \in Key : FlushKey(f, i, k)
          \/ FlushError(f) \/ EndFlush(f)
    \/ Restart

Spec == Init /\ [][Next]_sVars

-----------------------------------------------------------------------------
(* Properties. *)

FlushState ==
    [write : BOOLEAN, todo : SUBSET BucketID, id : SUBSET BucketID, keys : SUBSET Key]

\* every variable has its type
StoreTypeOK ==
    /\ backend \in Backends
    /\ real \in [RealKeys -> Values]
    /\ bucket \in [BucketID -> {"none", "layer", "flushed"}]
    /\ data \in [BucketID -> [Key -> Values \cup {Through}]]
    /\ flushed \in BOOLEAN
    /\ flush \in SUBSET FlushState
    /\ waiting \in SUBSET BucketID
    /\ proxied \in BOOLEAN
    /\ reply \in {"ok", "error"}

\* Flush f has not passed the buckets that still hold writes back, and the keys it
\* passed in the bucket it is at are stored
FlushOK(f) ==
    /\ \A i \in BucketID : bucket[i] = "layer" => i \in f.todo \cup f.id
    /\ \A i \in f.todo \cup f.id : bucket[i] # "none"
    /\ \A i \in f.id : f.id = {i}
    /\ f.keys # {} => f.write
    /\ \A i \in f.id, k \in f.keys : data[i][k] # Through
    /\ \A i \in f.id, k \in Key : f.write /\ data[i][k] # Through /\ k \notin f.keys
                                    => real[RealKey(i, k)] = data[i][k]

\* A layer that was flushed holds nothing back, although buckets are opened, written
\* and flushed by clients meanwhile and a Flush that failed leaves some of its buckets
\* done (layerDB.Flush, layerBucket.Flush, layerDB.GetBucket); with the types, and with
\* what Flush relies on, it is inductive.
FlushedHoldsNothing ==
    /\ StoreTypeOK
    /\ \A i \in BucketID : bucket[i] # "layer" => data[i] = NoData
    /\ flushed => \A i \in BucketID : bucket[i] # "layer"
    /\ flush = {} \/ \E f \in flush : flush = {f}
    /\ \A f \in flush : FlushOK(f)

\* what clients read, and what is stored
View == [i \in BucketID |-> [k \in Key |-> Found(i, k)]]
Base == [i \in BucketID |-> [k \in Key |-> real[RealKey(i, k)]]]

KV == INSTANCE KeyValue
    WITH view <- View, base <- Base, givingUp <- \E f \in flush : ~f.write,
         committed <- flushed, durable <- backend # "mapdb"

\* Whatever of it a Flush has written, and wherever it failed, the layered database
\* answers as one key-value store; a Flush that succeeds has stored every write, also
\* those made meanwhile, and every later write is stored at once (layerDB, layerBucket,
\* proxyDB over every backend).
ImplementsKeyValue == KV!Spec
=============================================================================

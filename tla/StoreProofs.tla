---------------------------- MODULE StoreProofs ----------------------------
(***************************************************************************)
(* Proofs about Store, for any buckets, keys and values: a layer that was  *)
(* flushed holds nothing back, and the layered database implements a       *)
(* key-value store.                                                        *)
(***************************************************************************)
EXTENDS Store, SequenceTheorems, TLAPS

\* internalKey keeps the buckets of one key space apart: their ids have one length.
LEMMA InternalKeyInjective ==
    ASSUME NEW i \in BucketID, NEW j \in BucketID, NEW k \in Key, NEW l \in Key,
           internalKey(i, k) = internalKey(j, l)
    PROVE  i = j /\ k = l
<1>1. /\ i \in Seq(Byte) /\ j \in Seq(Byte) /\ k \in Seq(Byte) /\ l \in Seq(Byte)
      /\ Len(i) = Len(j) /\ i \o k = j \o l
  BY StoreAssumption DEF internalKey
<1>2. i = j
  <2>1. \A n \in 1 .. Len(i) : i[n] = (i \o k)[n] /\ j[n] = (j \o l)[n]
    BY <1>1
  <2>2. QED
    BY <1>1, <2>1, SeqEqual
<1>3. k = l
  BY <1>1, <1>2, ConcatSimplifications
<1>4. QED
  BY <1>2, <1>3

\* No backend keeps two keys at one place.
LEMMA RealKeyInjective ==
    ASSUME NEW i \in BucketID, NEW j \in BucketID, NEW k \in Key, NEW l \in Key,
           RealKey(i, k) = RealKey(j, l)
    PROVE  i = j /\ k = l
BY InternalKeyInjective DEF RealKey

\* Every key of a bucket has a place in the backend.
LEMMA RealKeyType ==
    ASSUME NEW i \in BucketID, NEW k \in Key
    PROVE  RealKey(i, k) \in RealKeys
BY DEF RealKeys

-----------------------------------------------------------------------------
\* Initially nothing is held back.
LEMMA InitInv == Init => FlushedHoldsNothing
<1> SUFFICES ASSUME Init PROVE FlushedHoldsNothing
  OBVIOUS
<1>1. NoData \in [Key -> Values \cup {Through}] /\ Absent \in Values
  BY DEF NoData, Values
<1>2. StoreTypeOK
  BY <1>1 DEF Init, StoreTypeOK
<1>3. QED
  BY <1>2 DEF Init, FlushedHoldsNothing

\* The backend never changes, nor where it keeps a key.
LEMMA BackendFixed ==
    ASSUME [Next]_sVars
    PROVE  /\ backend' = backend /\ RealKeys' = RealKeys
           /\ \A i \in BucketID, k \in Key : RealKey(i, k)' = RealKey(i, k)
<1>1. backend' = backend
  BY DEF Next, sVars, LayerGetBucket, ProxyGetBucket, SetRealBucket, Refuse, SetReal, SetLayer,
         SetBelow, StartFlush, FlushBucket, FlushBucketDone, FlushKey, FlushError, EndFlush, Restart
<1>2. QED
  BY <1>1 DEF RealKeys, RealKey

\* A bucket that GetBucket opens has an empty data map, and Flush does not run.
LEMMA OpenKeepsInv ==
    ASSUME FlushedHoldsNothing, NEW i \in BucketID,
           flush = {}, bucket' = [bucket EXCEPT ![i] = Opened(i)],
           waiting' \in SUBSET BucketID, RealKeys' = RealKeys,
           UNCHANGED <<backend, real, data, flushed, flush, proxied, reply>>
    PROVE  FlushedHoldsNothing'
<1>1. StoreTypeOK'
  BY DEF FlushedHoldsNothing, StoreTypeOK, Opened
<1>2. QED
  BY <1>1 DEF FlushedHoldsNothing, StoreTypeOK, Opened

\* What Flush relies on does not depend on the rest of the state.
LEMMA FlushKept ==
    ASSUME NEW f \in flush, FlushedHoldsNothing, UNCHANGED <<real, bucket, data>>,
           \A i \in BucketID, k \in Key : RealKey(i, k)' = RealKey(i, k)
    PROVE  FlushOK(f)'
<1>1. f.id \subseteq BucketID /\ FlushOK(f)
  BY DEF FlushedHoldsNothing, StoreTypeOK, FlushState
<1>2. QED
  BY <1>1 DEF FlushOK

\* One step keeps the invariant.
LEMMA NextInv == FlushedHoldsNothing /\ [Next]_sVars => FlushedHoldsNothing'
<1> SUFFICES ASSUME FlushedHoldsNothing, [Next]_sVars
             PROVE  FlushedHoldsNothing'
  OBVIOUS
<1>0. /\ backend' = backend /\ RealKeys' = RealKeys
      /\ \A i \in BucketID, k \in Key : RealKey(i, k)' = RealKey(i, k)
  BY BackendFixed
<1>t. StoreTypeOK
  BY DEF FlushedHoldsNothing
<1>1. CASE UNCHANGED sVars
  <2>1. StoreTypeOK'
    BY <1>0, <1>1, <1>t DEF sVars, StoreTypeOK
  <2>2. \A f \in flush' : FlushOK(f)'
    BY <1>0, <1>1, FlushKept DEF sVars
  <2>3. QED
    BY <1>1, <2>1, <2>2 DEF sVars, FlushedHoldsNothing
<1>2. ASSUME NEW i \in BucketID, LayerGetBucket(i)
      PROVE  FlushedHoldsNothing'
  BY <1>0, <1>2, <1>t, OpenKeepsInv DEF LayerGetBucket, StoreTypeOK
<1>3. ASSUME NEW i \in BucketID, ProxyGetBucket(i)
      PROVE  FlushedHoldsNothing'
  <2>1. StoreTypeOK'
    BY <1>0, <1>3, <1>t DEF ProxyGetBucket, StoreTypeOK
  <2>2. \A f \in flush' : FlushOK(f)'
    BY <1>0, <1>3, FlushKept DEF ProxyGetBucket
  <2>3. QED
    BY <1>3, <2>1, <2>2 DEF ProxyGetBucket, FlushedHoldsNothing
<1>4. ASSUME NEW i \in BucketID, SetRealBucket(i)
      PROVE  FlushedHoldsNothing'
  BY <1>0, <1>4, <1>t, OpenKeepsInv DEF SetRealBucket, StoreTypeOK
<1>5. ASSUME NEW i \in BucketID, Refuse(i)
      PROVE  FlushedHoldsNothing'
  <2>1. StoreTypeOK'
    BY <1>0, <1>5, <1>t DEF Refuse, StoreTypeOK
  <2>2. \A f \in flush' : FlushOK(f)'
    BY <1>0, <1>5, FlushKept DEF Refuse
  <2>3. QED
    BY <1>5, <2>1, <2>2 DEF Refuse, FlushedHoldsNothing
<1>6. CASE SetReal
  <2>1. StoreTypeOK'
    BY <1>0, <1>6, <1>t DEF SetReal, StoreTypeOK
  <2>2. \A f \in flush' : FlushOK(f)'
    BY <1>0, <1>6, FlushKept DEF SetReal
  <2>3. QED
    BY <1>6, <2>1, <2>2 DEF SetReal, FlushedHoldsNothing
<1>7. ASSUME NEW i \in BucketID, NEW k \in Key, NEW v \in Values, SetLayer(i, k, v)
      PROVE  FlushedHoldsNothing'
  <2>1. StoreTypeOK'
    BY <1>0, <1>7, <1>t DEF SetLayer, StoreTypeOK
  <2>2. \A f \in flush : FlushOK(f)'
    <3> SUFFICES ASSUME NEW f \in flush
                 PROVE  FlushOK(f)'
      OBVIOUS
    <3>1. \A j \in f.id : j # i /\ j \in BucketID
      BY <1>7, <1>t DEF SetLayer, Locked, FlushedHoldsNothing, FlushOK, StoreTypeOK, FlushState
    <3>2. \A j \in f.id : data'[j] = data[j]
      BY <1>7, <1>t, <3>1 DEF SetLayer, StoreTypeOK
    <3>3. QED
      BY <1>0, <1>7, <3>1, <3>2 DEF SetLayer, FlushedHoldsNothing, FlushOK
  <2>3. QED
    BY <1>7, <1>t, <2>1, <2>2 DEF SetLayer, FlushedHoldsNothing, StoreTypeOK
<1>8. ASSUME NEW i \in BucketID, NEW k \in Key, NEW v \in Values, SetBelow(i, k, v)
      PROVE  FlushedHoldsNothing'
  <2>1. StoreTypeOK'
    BY <1>0, <1>8, <1>t, RealKeyType DEF SetBelow, StoreTypeOK
  <2>2. data[i] = NoData
    BY <1>8 DEF SetBelow, FlushedHoldsNothing
  <2>3. \A f \in flush : FlushOK(f)'
    <3> SUFFICES ASSUME NEW f \in flush
                 PROVE  FlushOK(f)'
      OBVIOUS
    <3>1. \A j \in f.id, l \in Key : data[j][l] # Through => RealKey(j, l) # RealKey(i, k)
      BY <1>t, <2>2, RealKeyInjective DEF StoreTypeOK, FlushState, NoData
    <3>2. \A j \in f.id, l \in Key : data[j][l] # Through
              => real'[RealKey(j, l)] = real[RealKey(j, l)]
      BY <1>8, <1>t, <3>1, RealKeyType DEF SetBelow, StoreTypeOK, FlushState
    <3>3. f.id \subseteq BucketID
      BY <1>t DEF StoreTypeOK, FlushState
    <3>4. QED
      BY <1>0, <1>8, <3>2, <3>3 DEF SetBelow, FlushedHoldsNothing, FlushOK
  <2>4. QED
    BY <1>8, <2>1, <2>3 DEF SetBelow, FlushedHoldsNothing
<1>9. ASSUME NEW write \in BOOLEAN, StartFlush(write)
      PROVE  FlushedHoldsNothing'
  BY <1>0, <1>9 DEF StartFlush, FlushedHoldsNothing, StoreTypeOK, FlushOK, FlushState
<1>10. ASSUME NEW f \in flush, NEW i \in BucketID, FlushBucket(f, i)
       PROVE  FlushedHoldsNothing'
  <2>1. f \in FlushState /\ FlushOK(f)
    BY <1>t DEF FlushedHoldsNothing, StoreTypeOK
  <2> DEFINE g == [f EXCEPT !.id = {i}, !.todo = @ \ {i},
                            !.keys = IF f.write THEN {k \in Key : data[i][k] # Through} ELSE {}]
  <2>2. /\ g \in FlushState
        /\ flush' = {g} /\ g.id = {i} /\ g.todo = f.todo \ {i} /\ g.write = f.write
        /\ \A k \in Key : k \in g.keys <=> (f.write /\ data[i][k] # Through)
        /\ g.keys \subseteq Key
    BY <1>10, <2>1 DEF FlushBucket, FlushState
  <2> HIDE DEF g
  <2>3. StoreTypeOK'
    BY <1>0, <1>10, <1>t, <2>2 DEF FlushBucket, StoreTypeOK
  <2>4. ASSUME NEW h \in flush'
        PROVE  FlushOK(h)'
    <3>1. /\ h.id = {i} /\ h.todo = f.todo \ {i} /\ h.write = f.write /\ h.keys \subseteq Key
          /\ \A k \in Key : k \in h.keys <=> (f.write /\ data[i][k] # Through)
      BY <2>2
    <3>2. QED
      BY <1>0, <1>10, <2>1, <3>1 DEF FlushBucket, FlushOK
  <2>5. QED
    BY <1>10, <2>2, <2>3, <2>4 DEF FlushBucket, FlushedHoldsNothing
<1>11. ASSUME NEW f \in flush, NEW i \in BucketID, FlushBucketDone(f, i)
       PROVE  FlushedHoldsNothing'
  <2>1. f \in FlushState /\ FlushOK(f)
    BY <1>t DEF FlushedHoldsNothing, StoreTypeOK
  <2> DEFINE g == [f EXCEPT !.id = {}]
  <2>2. /\ g \in FlushState
        /\ flush' = {g} /\ g.id = {} /\ g.keys = {} /\ g.todo = f.todo /\ g.write = f.write
    BY <1>11, <2>1 DEF FlushBucketDone, FlushState
  <2> HIDE DEF g
  <2>3. NoData \in [Key -> Values \cup {Through}]
    BY DEF NoData
  <2>4. StoreTypeOK'
    BY <1>0, <1>11, <1>t, <2>2, <2>3 DEF FlushBucketDone, StoreTypeOK
  <2>5. FlushOK(g)'
    BY <1>0, <1>11, <1>t, <2>1, <2>2 DEF FlushBucketDone, FlushOK, StoreTypeOK
  <2>6. QED
    BY <1>11, <1>t, <2>2, <2>4, <2>5 DEF FlushBucketDone, FlushedHoldsNothing, StoreTypeOK
<1>12. ASSUME NEW f \in flush, NEW i \in BucketID, NEW k \in Key, FlushKey(f, i, k)
       PROVE  FlushedHoldsNothing'
  <2>1. f \in FlushState /\ FlushOK(f)
    BY <1>t DEF FlushedHoldsNothing, StoreTypeOK
  <2> DEFINE g == [f EXCEPT !.keys = @ \ {k}]
  <2>2. /\ g \in FlushState
        /\ flush' = {g} /\ g.id = {i} /\ g.todo = f.todo /\ g.write = f.write
        /\ g.keys = f.keys \ {k}
    BY <1>12, <2>1 DEF FlushKey, FlushState
  <2> HIDE DEF g
  <2>3. data[i][k] \in Values
    BY <1>12, <1>t, <2>1 DEF FlushKey, FlushOK, StoreTypeOK
  <2>4. StoreTypeOK'
    BY <1>0, <1>12, <1>t, <2>2, <2>3, RealKeyType DEF FlushKey, FlushedTo, StoreTypeOK
  <2>5. \A l \in Key : real'[RealKey(i, l)] = IF l = k THEN data[i][k] ELSE real[RealKey(i, l)]
    BY <1>12, <1>t, RealKeyType, RealKeyInjective DEF FlushKey, FlushedTo, StoreTypeOK
  <2>6. FlushOK(g)'
    BY <1>0, <1>12, <2>1, <2>2, <2>5 DEF FlushKey, FlushOK, FlushState
  <2>7. QED
    BY <1>12, <2>2, <2>4, <2>6 DEF FlushKey, FlushedHoldsNothing
<1>13. ASSUME NEW f \in flush, FlushError(f)
       PROVE  FlushedHoldsNothing'
  BY <1>0, <1>13 DEF FlushError, FlushedHoldsNothing, StoreTypeOK
<1>14. ASSUME NEW f \in flush, EndFlush(f)
       PROVE  FlushedHoldsNothing'
  BY <1>0, <1>14 DEF EndFlush, FlushedHoldsNothing, StoreTypeOK, FlushOK
<1>15. CASE Restart
  BY <1>0, <1>15 DEF Restart, FlushedHoldsNothing, StoreTypeOK, NoData, Values
<1>16. QED
  BY <1>1, <1>2, <1>3, <1>4, <1>5, <1>6, <1>7, <1>8, <1>9, <1>10, <1>11, <1>12, <1>13, <1>14,
     <1>15 DEF Next

\* A layer that was flushed holds nothing back (layerDB.Flush, layerDB.GetBucket), for
\* any buckets, keys and values: no write stays in memory once Flush has succeeded.
THEOREM FlushedHoldsNothingHolds == Spec => []FlushedHoldsNothing
<1>1. Init => FlushedHoldsNothing
  BY InitInv
<1>2. FlushedHoldsNothing /\ [Next]_sVars => FlushedHoldsNothing'
  BY NextInv
<1>3. QED
  BY <1>1, <1>2, PTL DEF Spec

-----------------------------------------------------------------------------
(* The refinement. *)

\* Initially nothing is stored or held back.
LEMMA InitRefines == Init => KV!Init
<1> SUFFICES ASSUME Init PROVE KV!Init
  OBVIOUS
<1>1. \A i \in BucketID, k \in Key : data[i][k] = Through /\ real[RealKey(i, k)] = Absent
  BY RealKeyType DEF Init, NoData
<1>2. View = KV!Empty /\ Base = KV!Empty
  BY <1>1 DEF View, Base, Found, KV!Empty
<1>3. QED
  BY <1>2 DEF Init, KV!Init

\* What clients read and what is stored are stores.
LEMMA StoresType ==
    ASSUME StoreTypeOK
    PROVE  View \in [BucketID -> [Key -> Values]] /\ Base \in [BucketID -> [Key -> Values]]
<1>1. \A i \in BucketID, k \in Key : real[RealKey(i, k)] \in Values /\ Found(i, k) \in Values
  BY RealKeyType DEF StoreTypeOK, Found
<1>2. QED
  BY <1>1 DEF View, Base

\* A store that differs in one key only is the other one with that key updated.
LEMMA Updated ==
    ASSUME NEW F \in [BucketID -> [Key -> Values]], NEW G \in [BucketID -> [Key -> Values]],
           NEW i \in BucketID, NEW k \in Key, NEW v \in Values,
           \A j \in BucketID, l \in Key : G[j][l] = IF j = i /\ l = k THEN v ELSE F[j][l]
    PROVE  G = [F EXCEPT ![i][k] = v]
<1> DEFINE H == [F EXCEPT ![i][k] = v]
<1>1. H \in [BucketID -> [Key -> Values]]
  OBVIOUS
<1>2. \A j \in BucketID, l \in Key : G[j][l] = H[j][l]
  OBVIOUS
<1> HIDE DEF H
<1>3. ASSUME NEW j \in BucketID
      PROVE  G[j] = H[j]
  <2>1. G[j] \in [Key -> Values] /\ H[j] \in [Key -> Values]
    BY <1>1
  <2>2. \A l \in Key : G[j][l] = H[j][l]
    BY <1>2
  <2>3. QED
    BY <2>1, <2>2
<1>4. G = H
  BY <1>1, <1>3
<1>5. QED
  BY <1>4 DEF H

\* Where neither the backend nor a data map changes, clients read and RC stores the same.
LEMMA SameStores ==
    ASSUME [Next]_sVars, UNCHANGED <<real, data>>
    PROVE  View' = View /\ Base' = Base
BY BackendFixed DEF View, Base, Found

\* A step of the layered database is a step of the key-value store, or none.
LEMMA StepRefines ==
    FlushedHoldsNothing /\ FlushedHoldsNothing' /\ [Next]_sVars => [KV!Next]_(KV!kvVars)
<1> SUFFICES ASSUME FlushedHoldsNothing, FlushedHoldsNothing', [Next]_sVars
             PROVE  [KV!Next]_(KV!kvVars)
  OBVIOUS
<1>0. /\ backend' = backend /\ RealKeys' = RealKeys
      /\ \A i \in BucketID, k \in Key : RealKey(i, k)' = RealKey(i, k)
  BY BackendFixed
<1>t. StoreTypeOK
  BY DEF FlushedHoldsNothing
<1>s. /\ View \in [BucketID -> [Key -> Values]] /\ Base \in [BucketID -> [Key -> Values]]
      /\ View' \in [BucketID -> [Key -> Values]] /\ Base' \in [BucketID -> [Key -> Values]]
  <2>1. StoreTypeOK /\ StoreTypeOK'
    BY DEF FlushedHoldsNothing
  <2>2. StoreTypeOK => View \in [BucketID -> [Key -> Values]] /\ Base \in [BucketID -> [Key -> Values]]
    BY StoresType
  <2>3. (StoreTypeOK => View \in [BucketID -> [Key -> Values]] /\ Base \in [BucketID -> [Key -> Values]])'
    BY StoresType, <2>2, PTL
  <2>4. QED
    BY <2>1, <2>2, <2>3
<1>1. CASE UNCHANGED sVars
  BY <1>1, SameStores DEF sVars, KV!kvVars
<1>2. ASSUME NEW i \in BucketID, LayerGetBucket(i)
      PROVE  UNCHANGED KV!kvVars
  BY <1>2, SameStores DEF LayerGetBucket, KV!kvVars
<1>3. ASSUME NEW i \in BucketID, ProxyGetBucket(i)
      PROVE  UNCHANGED KV!kvVars
  BY <1>3, SameStores DEF ProxyGetBucket, KV!kvVars
<1>4. ASSUME NEW i \in BucketID, SetRealBucket(i)
      PROVE  UNCHANGED KV!kvVars
  BY <1>4, SameStores DEF SetRealBucket, KV!kvVars
<1>5. ASSUME NEW i \in BucketID, Refuse(i)
      PROVE  KV!Refuse
  BY <1>5, SameStores DEF Refuse, KV!Refuse
<1>6. ASSUME SetReal
      PROVE  UNCHANGED KV!kvVars
  BY <1>6, SameStores DEF SetReal, KV!kvVars
<1>7. ASSUME NEW i \in BucketID, NEW k \in Key, NEW v \in Values, SetLayer(i, k, v)
      PROVE  KV!Write(i, k, v)
  <2>1. Base' = Base
    BY <1>0, <1>7 DEF SetLayer, Base
  <2>2. v # Through
    BY StoreAssumption DEF Values
  <2>3. View' = [View EXCEPT ![i][k] = v]
    BY <1>0, <1>7, <1>t, <2>2 DEF SetLayer, View, Found, StoreTypeOK
  <2>4. ~flushed
    BY <1>7 DEF SetLayer, FlushedHoldsNothing
  <2>5. QED
    BY <1>7, <2>1, <2>3, <2>4 DEF SetLayer, KV!Write
<1>8. ASSUME NEW i \in BucketID, NEW k \in Key, NEW v \in Values, SetBelow(i, k, v)
      PROVE  KV!Write(i, k, v)
  <2>1. \A j \in BucketID, l \in Key :
            real'[RealKey(j, l)] = IF j = i /\ l = k THEN v ELSE real[RealKey(j, l)]
    BY <1>8, <1>t, RealKeyType, RealKeyInjective DEF SetBelow, StoreTypeOK
  <2>2. data[i][k] = Through
    BY <1>8 DEF SetBelow, FlushedHoldsNothing, NoData
  <2>3. Base' = [Base EXCEPT ![i][k] = v]
    <3>1. \A j \in BucketID, l \in Key : Base'[j][l] = IF j = i /\ l = k THEN v ELSE Base[j][l]
      BY <1>0, <2>1 DEF Base
    <3>2. QED
      BY <1>s, <3>1, Updated
  <2>4. View' = [View EXCEPT ![i][k] = v]
    <3>1. \A j \in BucketID, l \in Key : View'[j][l] = IF j = i /\ l = k THEN v ELSE View[j][l]
      BY <1>0, <1>8, <2>1, <2>2 DEF SetBelow, View, Found
    <3>2. QED
      BY <1>s, <3>1, Updated
  <2>5. flushed => View = Base
    BY DEF FlushedHoldsNothing, NoData, View, Base, Found
  <2>6. QED
    BY <1>8, <2>3, <2>4, <2>5 DEF SetBelow, KV!Write
<1>9. ASSUME NEW write \in BOOLEAN, StartFlush(write)
      PROVE  (~write /\ KV!GiveUp) \/ UNCHANGED KV!kvVars
  BY <1>9, SameStores DEF StartFlush, KV!GiveUp, KV!kvVars
<1>10. ASSUME NEW f \in flush, NEW i \in BucketID, FlushBucket(f, i)
       PROVE  UNCHANGED KV!kvVars
  <2>1. flush = {f} /\ f \in FlushState
    BY <1>t DEF FlushedHoldsNothing, StoreTypeOK
  <2>2. (\E g \in flush : ~g.write)' <=> (\E g \in flush : ~g.write)
    BY <1>10, <2>1 DEF FlushBucket, FlushState
  <2>3. QED
    BY <1>10, <2>2, SameStores DEF FlushBucket, KV!kvVars
<1>11. ASSUME NEW f \in flush, NEW i \in BucketID, FlushBucketDone(f, i)
       PROVE  KV!Discard(i) \/ UNCHANGED KV!kvVars
  <2>1. flush = {f} /\ f \in FlushState /\ FlushOK(f)
    BY <1>t DEF FlushedHoldsNothing, StoreTypeOK
  <2>2. (\E g \in flush : ~g.write)' <=> (\E g \in flush : ~g.write)
    BY <1>11, <2>1 DEF FlushBucketDone, FlushState
  <2>3. Base' = Base
    BY <1>0, <1>11 DEF FlushBucketDone, Base
  <2>4. \A k \in Key : data'[i][k] = Through
    BY <1>11, <1>t DEF FlushBucketDone, StoreTypeOK, NoData
  <2>5. \A j \in BucketID : j # i => data'[j] = data[j]
    BY <1>11, <1>t DEF FlushBucketDone, StoreTypeOK
  <2>6. View' = [View EXCEPT ![i] = Base[i]]
    <3>1. \A j \in BucketID, k \in Key :
              View'[j][k] = IF j = i THEN Base[j][k] ELSE View[j][k]
      BY <1>0, <1>11, <2>4, <2>5 DEF FlushBucketDone, View, Base, Found
    <3>2. \A j \in BucketID : View'[j] = IF j = i THEN Base[j] ELSE View[j]
      BY <1>s, <3>1
    <3>3. QED
      BY <1>s, <3>2
  <2>7. CASE f.write
    <3>1. \A k \in Key : Found(i, k) = real[RealKey(i, k)]
      BY <1>11, <2>1, <2>7 DEF FlushBucketDone, FlushOK, Found
    <3>2. View[i] = Base[i]
      BY <3>1 DEF View, Base
    <3>3. View' = View
      BY <1>s, <2>6, <3>2
    <3>4. QED
      BY <1>11, <2>2, <2>3, <3>3 DEF FlushBucketDone, KV!kvVars
  <2>8. CASE ~f.write
    BY <1>11, <2>2, <2>3, <2>6, <2>8 DEF FlushBucketDone, KV!Discard
  <2>9. QED
    BY <2>7, <2>8
<1>12. ASSUME NEW f \in flush, NEW i \in BucketID, NEW k \in Key, FlushKey(f, i, k)
       PROVE  KV!Persist(i, k)
  <2>1. flush = {f} /\ f \in FlushState /\ FlushOK(f)
    BY <1>t DEF FlushedHoldsNothing, StoreTypeOK
  <2>2. (\E g \in flush : ~g.write)' <=> (\E g \in flush : ~g.write)
    BY <1>12, <2>1 DEF FlushKey, FlushState
  <2>3. Found(i, k) = data[i][k] /\ data[i][k] # Through
    BY <1>12, <2>1 DEF FlushKey, FlushOK, Found
  <2>4. \A j \in BucketID, l \in Key :
            real'[RealKey(j, l)] = IF j = i /\ l = k THEN data[i][k] ELSE real[RealKey(j, l)]
    BY <1>12, <1>t, RealKeyType, RealKeyInjective DEF FlushKey, FlushedTo, StoreTypeOK
  <2>5. Base' = [Base EXCEPT ![i][k] = View[i][k]]
    <3>1. \A j \in BucketID, l \in Key :
              Base'[j][l] = IF j = i /\ l = k THEN View[i][k] ELSE Base[j][l]
      BY <1>0, <2>3, <2>4 DEF Base, View
    <3>2. View[i][k] \in Values
      BY <1>s
    <3>3. QED
      BY <1>s, <3>1, <3>2, Updated
  <2>6. View' = View
    BY <1>0, <1>12, <2>3, <2>4 DEF FlushKey, View, Found
  <2>7. QED
    BY <1>12, <2>2, <2>5, <2>6 DEF FlushKey, KV!Persist
<1>13. ASSUME NEW f \in flush, FlushError(f)
       PROVE  KV!Refuse
  <2>1. flush = {f} /\ f.write
    BY <1>13 DEF FlushError, FlushedHoldsNothing, FlushOK
  <2>2. QED
    BY <1>13, <2>1, SameStores DEF FlushError, KV!Refuse
<1>14. ASSUME NEW f \in flush, EndFlush(f)
       PROVE  KV!Commit
  <2>1. \A i \in BucketID, k \in Key : data[i][k] = Through
    BY <1>14 DEF EndFlush, FlushedHoldsNothing, FlushOK, NoData
  <2>2. View = Base
    BY <2>1 DEF View, Base, Found
  <2>3. QED
    BY <1>14, <2>2, SameStores DEF EndFlush, KV!Commit
<1>15. ASSUME Restart
       PROVE  KV!Restart
  <2>1. \A i \in BucketID, k \in Key : data'[i][k] = Through
    BY <1>15 DEF Restart, NoData
  <2>2. View' = Base'
    BY <1>0, <2>1 DEF View, Base, Found
  <2>3. Base' = IF backend # "mapdb" THEN Base ELSE KV!Empty
    BY <1>0, <1>15, RealKeyType DEF Restart, Base, KV!Empty
  <2>4. QED
    BY <1>0, <1>15, <2>2, <2>3 DEF Restart, KV!Restart
<1>16. QED
  BY <1>1, <1>2, <1>3, <1>4, <1>5, <1>6, <1>7, <1>8, <1>9, <1>10, <1>11, <1>12, <1>13, <1>14,
     <1>15 DEF Next, KV!Next, Values

\* The layered database implements the key-value store, over every backend and for any
\* buckets, keys and values: writes are never lost between the layer and the backend,
\* whatever clients do while it is flushed and wherever a Flush fails.
THEOREM StoreImplementsKeyValue == Spec => ImplementsKeyValue
<1>1. Init => KV!Init
  BY InitRefines
<1>2. FlushedHoldsNothing /\ FlushedHoldsNothing' /\ [Next]_sVars => [KV!Next]_(KV!kvVars)
  BY StepRefines
<1>3. QED
  BY <1>1, <1>2, FlushedHoldsNothingHolds, PTL DEF Spec, ImplementsKeyValue, KV!Spec
=============================================================================

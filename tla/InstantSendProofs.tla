--------------------------- MODULE InstantSendProofs ---------------------------
(***************************************************************************)
(* For every set of transactions, locks and blocks, and with any number of *)
(* notifications and restarts: a lock in the store is found through every  *)
(* index and cache, and no mempool transaction conflicts with a stored     *)
(* lock that the worker is not about to clear the mempool for; nothing of  *)
(* an announced ChainLock's chain is tracked again once it was cleaned up. *)
(*                                                                         *)
(* The argument: (Indexed) the keys and the caches of a stored lock name   *)
(* it or, for a cache, nothing; a write of another lock could break that   *)
(* only for a lock of the same transaction, and (OneOfItsTx) the worker    *)
(* has seen to it that there is none when it stores.  A transaction enters *)
(* the mempool past GetConflictingLock, which by Indexed misses no stored  *)
(* lock; (NoRival) it may only meet the lock the worker stores meanwhile,  *)
(* and RemoveMempoolConflictsForLock comes after that.  (Unconfirmed) A    *)
(* notification that comes after the ChainLock's own finds the ChainLock;  *)
(* one that read before it is done, on the one scheduler thread, by the    *)
(* time HandleFullyConfirmedBlock looks for what to remove.                *)
(***************************************************************************)
EXTENDS InstantSend, SequenceTheorems, TLAPS

Indexed(d) ==
    /\ \A l \in d.islocks :
           /\ d.islockCache[l] # "absent"
           /\ d.byTxid[TxOf[l]] = l
           /\ d.txidCache[TxOf[l]] \in {None, l}
           /\ \A o \in InputsOf(l) : d.byOutpoint[o] = l /\ d.outpointCache[o] \in {None, l}
    /\ \A t \in Tx :
           /\ d.byTxid[t] # None => TxOf[d.byTxid[t]] = t
           /\ d.txidCache[t] # None => TxOf[d.txidCache[t]] = t

Good(d) == d \in Db /\ Indexed(d)

-----------------------------------------------------------------------------
(* What a read of the store returns *)

LEMMA LockTypes ==
    ASSUME NEW l \in Lock
    PROVE  /\ TxOf[l] \in Tx
           /\ InputsOf(l) \subseteq Outpoint
           /\ l # None
  BY Zenon, DbAssumption DEF InputsOf

LEMMA FoundByHash ==
    ASSUME NEW d, Good(d), NEW l \in d.islocks
    PROVE  GetInstantSendLockByHash(d, l) = l
<1>1. l \in Lock
  BY Zenon DEF Good, Db
<1>2. d.islockCache[l] \in {"unknown", "present"}
  BY Zenon, <1>1 DEF Good, Db, Indexed
<1> QED
  BY Zenon, <1>1, <1>2, LockTypes DEF GetInstantSendLockByHash

LEMMA FoundByTxid ==
    ASSUME NEW d, Good(d), NEW l \in d.islocks
    PROVE  GetInstantSendLockByTxid(d, TxOf[l]) = l
<1>1. l \in Lock
  BY Zenon DEF Good, Db
<1>2. GetInstantSendLockHashByTxid(d, TxOf[l]) = l
  BY Zenon, <1>1 DEF Good, Indexed, GetInstantSendLockHashByTxid
<1> QED
  BY Zenon, <1>2, FoundByHash DEF GetInstantSendLockByTxid

LEMMA FoundByInput ==
    ASSUME NEW d, Good(d), NEW l \in d.islocks, NEW o \in InputsOf(l)
    PROVE  GetInstantSendLockByInput(d, o) = l
<1>1. (IF d.outpointCache[o] # None THEN d.outpointCache[o] ELSE d.byOutpoint[o]) = l
  BY Zenon DEF Good, Indexed
<1> QED
  BY Zenon, <1>1, FoundByHash DEF GetInstantSendLockByInput

LEMMA ConflictingLockIsSeen ==
    ASSUME NEW d, Good(d), NEW l \in d.islocks, NEW t \in Tx, Conflict(t, TxOf[l])
    PROVE  GetConflictingLock(d, t) # {}
<1>1. l \in Lock
  BY Zenon DEF Good, Db
<1>2. PICK o \in Inputs[t] : o \in InputsOf(l)
  BY Zenon DEF Conflict, InputsOf
<1>3. GetInstantSendLockByInput(d, o) = l
  BY Zenon, <1>2, FoundByInput
<1> QED
  BY Zenon, <1>1, <1>2, <1>3 DEF GetConflictingLock, Conflict

\* What the index or the cache of a transaction names is a lock of it.
LEMMA ByTxidIsOfTx ==
    ASSUME NEW d, Good(d), NEW t \in Tx, GetInstantSendLockByTxid(d, t) # None
    PROVE  /\ GetInstantSendLockByTxid(d, t) \in Lock
           /\ TxOf[GetInstantSendLockByTxid(d, t)] = t
<1> DEFINE k == GetInstantSendLockHashByTxid(d, t)
<1>1. GetInstantSendLockByTxid(d, t) = k /\ k # None
  BY Zenon DEF GetInstantSendLockByTxid, GetInstantSendLockByHash
<1>2. k \in Lock \cup {None}
  BY Zenon DEF Good, Db, GetInstantSendLockHashByTxid
<1>3. TxOf[k] = t
  BY Zenon, <1>1 DEF Good, Indexed, GetInstantSendLockHashByTxid
<1> QED
  BY Zenon, <1>1, <1>2, <1>3

LEMMA SameLock ==
    ASSUME NEW d, Good(d), NEW k \in d.islocks, NEW l \in d.islocks, TxOf[k] = TxOf[l]
    PROVE  k = l
  BY Zenon DEF Good, Indexed
-----------------------------------------------------------------------------
(* What the writes of the store preserve *)

\* Taking the keys of R away leaves the other locks' keys alone when no other
\* stored lock shares a transaction with one of R.
LEMMA EraseKeysGood ==
    ASSUME NEW d, Good(d), NEW R \in SUBSET Lock,
           \A k \in d.islocks : \A r \in R : TxOf[k] = TxOf[r] => k \in R
    PROVE  /\ Good(EraseKeys(d, R))
           /\ EraseKeys(d, R).islocks = d.islocks \ R
<1> DEFINE e == EraseKeys(d, R)
<1>1. e \in Db
  BY DbAssumption, Zenon DEF Good, Db, EraseKeys
<1>2. /\ e.islocks = d.islocks \ R
      /\ e.islockCache = d.islockCache
      /\ e.txidCache = d.txidCache
      /\ e.outpointCache = d.outpointCache
      /\ e.byTxid = [t \in Tx |-> IF \E l \in R : TxOf[l] = t THEN None ELSE d.byTxid[t]]
      /\ e.byOutpoint = [o \in Outpoint |-> IF \E l \in R : o \in InputsOf(l) THEN None ELSE d.byOutpoint[o]]
  BY Zenon DEF Good, Db, EraseKeys
<1>3. ASSUME NEW l \in d.islocks \ R
      PROVE  /\ ~ \E r \in R : TxOf[r] = TxOf[l]
             /\ \A o \in InputsOf(l) : ~ \E r \in R : o \in InputsOf(r)
  <2>1. l \in Lock /\ ~ \E r \in R : TxOf[r] = TxOf[l]
    BY Zenon DEF Good, Db
  <2> QED
    BY Zenon, <2>1, OneLockPerCoin
<1>4. Indexed(e)
  <2> HIDE DEF e
  <2>1. ASSUME NEW l \in e.islocks
        PROVE  /\ e.islockCache[l] # "absent"
               /\ e.byTxid[TxOf[l]] = l
               /\ e.txidCache[TxOf[l]] \in {None, l}
               /\ \A o \in InputsOf(l) : e.byOutpoint[o] = l /\ e.outpointCache[o] \in {None, l}
    <3>1. l \in Lock /\ l \in d.islocks \ R /\ TxOf[l] \in Tx /\ InputsOf(l) \subseteq Outpoint
      BY Zenon, <1>2, LockTypes DEF Good, Db
    <3> QED
      BY <1>2, <1>3, <3>1 DEF Good, Indexed
  <2>2. ASSUME NEW t \in Tx
        PROVE  /\ e.byTxid[t] # None => TxOf[e.byTxid[t]] = t
               /\ e.txidCache[t] # None => TxOf[e.txidCache[t]] = t
    BY <1>2 DEF Good, Indexed
  <2> QED
    BY Zenon, <2>1, <2>2 DEF Indexed
<1> QED
  BY Zenon, <1>1, <1>2, <1>4 DEF Good

LEMMA EraseCachesGood ==
    ASSUME NEW d, Good(d), NEW R \in SUBSET Lock
    PROVE  /\ Good(EraseCaches(d, R))
           /\ EraseCaches(d, R).islocks = d.islocks
<1> DEFINE e == EraseCaches(d, R)
<1>1. e \in Db
  BY DbAssumption, Zenon DEF Good, Db, EraseCaches
<1>2. /\ e.islocks = d.islocks
      /\ e.byTxid = d.byTxid
      /\ e.byOutpoint = d.byOutpoint
      /\ e.islockCache = [l \in Lock |-> IF l \in R THEN "unknown" ELSE d.islockCache[l]]
      /\ e.txidCache = [t \in Tx |-> IF \E l \in R : TxOf[l] = t THEN None ELSE d.txidCache[t]]
      /\ e.outpointCache = [o \in Outpoint |-> IF \E l \in R : o \in InputsOf(l) THEN None ELSE d.outpointCache[o]]
  BY Zenon DEF Good, Db, EraseCaches
<1>3. Indexed(e)
  <2> HIDE DEF e
  <2>1. ASSUME NEW l \in e.islocks
        PROVE  /\ e.islockCache[l] # "absent"
               /\ e.byTxid[TxOf[l]] = l
               /\ e.txidCache[TxOf[l]] \in {None, l}
               /\ \A o \in InputsOf(l) : e.byOutpoint[o] = l /\ e.outpointCache[o] \in {None, l}
    <3>1. l \in Lock /\ l \in d.islocks /\ TxOf[l] \in Tx /\ InputsOf(l) \subseteq Outpoint
      BY Zenon, <1>2, LockTypes DEF Good, Db
    <3> QED
      BY <1>2, <3>1 DEF Good, Indexed
  <2>2. ASSUME NEW t \in Tx
        PROVE  /\ e.byTxid[t] # None => TxOf[e.byTxid[t]] = t
               /\ e.txidCache[t] # None => TxOf[e.txidCache[t]] = t
    BY <1>2 DEF Good, Indexed
  <2> QED
    BY Zenon, <2>1, <2>2 DEF Indexed
<1> QED
  BY Zenon, <1>1, <1>2, <1>3 DEF Good

LEMMA ArchiveGood ==
    ASSUME NEW d, Good(d), NEW R \in SUBSET Lock, NEW h \in 0 .. MaxHeight
    PROVE  /\ Good(Archive(d, R, h))
           /\ Archive(d, R, h).islocks = d.islocks
<1>1. Archive(d, R, h) \in Db
  BY Zenon DEF Good, Db, Archive
<1>2. /\ Archive(d, R, h).islocks = d.islocks
      /\ Archive(d, R, h).byTxid = d.byTxid
      /\ Archive(d, R, h).byOutpoint = d.byOutpoint
      /\ Archive(d, R, h).islockCache = d.islockCache
      /\ Archive(d, R, h).txidCache = d.txidCache
      /\ Archive(d, R, h).outpointCache = d.outpointCache
  BY Zenon DEF Good, Db, Archive
<1> QED
  BY <1>1, <1>2 DEF Good, Indexed

\* A change of the cached answers about locks that are not stored.
LEMMA IslockCacheGood ==
    ASSUME NEW d, Good(d), NEW f \in [Lock -> {"unknown", "absent", "present"}],
           \A l \in d.islocks : f[l] # "absent"
    PROVE  Good([d EXCEPT !.islockCache = f])
<1> DEFINE e == [d EXCEPT !.islockCache = f]
<1>1. e \in Db
  BY Zenon DEF Good, Db
<1>2. /\ e.islocks = d.islocks
      /\ e.byTxid = d.byTxid
      /\ e.byOutpoint = d.byOutpoint
      /\ e.islockCache = f
      /\ e.txidCache = d.txidCache
      /\ e.outpointCache = d.outpointCache
  BY Zenon DEF Good, Db
<1> QED
  BY <1>1, <1>2 DEF Good, Indexed

LEMMA RemoveAndArchiveGood ==
    ASSUME NEW d, Good(d), NEW l \in Lock, NEW h \in 0 .. MaxHeight,
           \A k \in d.islocks : TxOf[k] = TxOf[l] => k = l
    PROVE  /\ Good(RemoveAndArchiveInstantSendLock(d, l, h))
           /\ RemoveAndArchiveInstantSendLock(d, l, h).islocks = d.islocks \ {l}
<1>1. Good(EraseKeys(d, {l})) /\ EraseKeys(d, {l}).islocks = d.islocks \ {l}
  BY Zenon, EraseKeysGood
<1>2. /\ Good(EraseCaches(EraseKeys(d, {l}), {l}))
      /\ EraseCaches(EraseKeys(d, {l}), {l}).islocks = d.islocks \ {l}
  BY <1>1, EraseCachesGood, Zenon
<1> QED
  BY <1>2, ArchiveGood, Zenon DEF RemoveAndArchiveInstantSendLock

LEMMA RemoveChainedGood ==
    ASSUME NEW d, Good(d), NEW L \in SUBSET Lock, NEW h \in 0 .. MaxHeight
    PROVE  /\ Good(RemoveChainedInstantSendLocks(d, L, h))
           /\ RemoveChainedInstantSendLocks(d, L, h).islocks \subseteq d.islocks
<1> DEFINE chained == Chained(d, {TxOf[l] : l \in L})
           R == chained \cup (L \cap d.islocks)
           k == EraseKeys(d, R)
           c == EraseCaches(k, R)
           a == Archive(c, chained \cup L, h)
           f == [l \in Lock |-> IF l \in L \ d.islocks THEN "absent" ELSE a.islockCache[l]]
<1>1. chained \subseteq d.islocks /\ d.islocks \subseteq Lock
  BY Zenon DEF Chained, Good, Db
<1>2. R \subseteq d.islocks /\ R \subseteq Lock /\ chained \cup L \subseteq Lock
  BY Zenon, <1>1
<1>3. Good(k) /\ k.islocks = d.islocks \ R
  BY <1>2, EraseKeysGood, SameLock, ZenonT(40)
<1>4. Good(c) /\ c.islocks = d.islocks \ R
  BY <1>2, <1>3, EraseCachesGood, Zenon
<1>5. Good(a) /\ a.islocks = d.islocks \ R
  BY <1>2, <1>4, ArchiveGood, Zenon
<1>6. RemoveChainedInstantSendLocks(d, L, h) = [a EXCEPT !.islockCache = f]
  BY Zenon, <1>5 DEF RemoveChainedInstantSendLocks, Good, Db
<1> HIDE DEF a
<1>7. f \in [Lock -> {"unknown", "absent", "present"}]
  BY Zenon, <1>5 DEF Good, Db
<1>8. \A l \in a.islocks : f[l] # "absent"
  BY Zenon, <1>5 DEF Good, Db, Indexed
<1>9. Good([a EXCEPT !.islockCache = f])
  <2> HIDE DEF f
  <2> QED BY <1>5, <1>7, <1>8, IslockCacheGood, Zenon
<1>10. [a EXCEPT !.islockCache = f].islocks = a.islocks
  BY Zenon, <1>5 DEF Good, Db
<1> QED
  BY <1>5, <1>6, <1>9, <1>10, Zenon
\* The keys of mined and archived locks play no part.
LEMMA SameKeysGood ==
    ASSUME NEW d, Good(d), NEW e \in Db,
           e.islocks = d.islocks, e.byTxid = d.byTxid, e.byOutpoint = d.byOutpoint,
           e.islockCache = d.islockCache, e.txidCache = d.txidCache,
           e.outpointCache = d.outpointCache
    PROVE  Good(e)
  BY DEF Good, Indexed

LEMMA WriteMinedGood ==
    ASSUME NEW d, Good(d), NEW l \in Lock, NEW h \in 0 .. MaxHeight
    PROVE  /\ Good(WriteInstantSendLockMined(d, l, h))
           /\ WriteInstantSendLockMined(d, l, h).islocks = d.islocks
<1> DEFINE e == WriteInstantSendLockMined(d, l, h)
<1>1. e \in Db
  BY DEF Good, Db, WriteInstantSendLockMined
<1>2. /\ e.islocks = d.islocks /\ e.byTxid = d.byTxid /\ e.byOutpoint = d.byOutpoint
      /\ e.islockCache = d.islockCache /\ e.txidCache = d.txidCache
      /\ e.outpointCache = d.outpointCache
  BY Zenon DEF Good, Db, WriteInstantSendLockMined
<1> QED
  BY Zenon, <1>1, <1>2, SameKeysGood

LEMMA MinedKeysType ==
    ASSUME NEW d, Good(d), NEW T \in SUBSET Tx, NEW h \in 0 .. MaxHeight
    PROVE  MinedKeys(d, T, h) \subseteq (0 .. MaxHeight) \X Lock
<1>1. \A t \in T : GetInstantSendLockHashByTxid(d, t) \in Lock \cup {None}
  BY Zenon DEF Good, Db, GetInstantSendLockHashByTxid
<1> QED
  BY <1>1 DEF MinedKeys

LEMMA WriteBlockGood ==
    ASSUME NEW d, Good(d), NEW T \in SUBSET Tx, NEW h \in 0 .. MaxHeight
    PROVE  /\ Good(WriteBlockInstantSendLocks(d, T, h))
           /\ WriteBlockInstantSendLocks(d, T, h).islocks = d.islocks
<1> DEFINE e == WriteBlockInstantSendLocks(d, T, h)
<1>1. e \in Db
  BY Zenon, MinedKeysType DEF Good, Db, WriteBlockInstantSendLocks
<1>2. /\ e.islocks = d.islocks /\ e.byTxid = d.byTxid /\ e.byOutpoint = d.byOutpoint
      /\ e.islockCache = d.islockCache /\ e.txidCache = d.txidCache
      /\ e.outpointCache = d.outpointCache
  BY Zenon DEF Good, Db, WriteBlockInstantSendLocks
<1> QED
  BY Zenon, <1>1, <1>2, SameKeysGood

LEMMA RemoveBlockGood ==
    ASSUME NEW d, Good(d), NEW T, NEW h
    PROVE  /\ Good(RemoveBlockInstantSendLocks(d, T, h))
           /\ RemoveBlockInstantSendLocks(d, T, h).islocks = d.islocks
<1> DEFINE e == RemoveBlockInstantSendLocks(d, T, h)
<1>1. e \in Db
  BY Zenon DEF Good, Db, RemoveBlockInstantSendLocks
<1>2. /\ e.islocks = d.islocks /\ e.byTxid = d.byTxid /\ e.byOutpoint = d.byOutpoint
      /\ e.islockCache = d.islockCache /\ e.txidCache = d.txidCache
      /\ e.outpointCache = d.outpointCache
  BY Zenon DEF Good, Db, RemoveBlockInstantSendLocks
<1> QED
  BY Zenon, <1>1, <1>2, SameKeysGood

LEMMA RemoveArchivedGood ==
    ASSUME NEW d, Good(d), NEW h, NEW keep
    PROVE  /\ Good(RemoveArchivedInstantSendLocks(d, h, keep))
           /\ RemoveArchivedInstantSendLocks(d, h, keep).islocks = d.islocks
<1> DEFINE e == RemoveArchivedInstantSendLocks(d, h, keep)
<1>1. e \in Db
  BY Zenon DEF Good, Db, RemoveArchivedInstantSendLocks
<1>2. /\ e.islocks = d.islocks /\ e.byTxid = d.byTxid /\ e.byOutpoint = d.byOutpoint
      /\ e.islockCache = d.islockCache /\ e.txidCache = d.txidCache
      /\ e.outpointCache = d.outpointCache
  BY Zenon DEF Good, Db, RemoveArchivedInstantSendLocks
<1> QED
  BY Zenon, <1>1, <1>2, SameKeysGood

LEMMA WriteNewGood ==
    ASSUME NEW d, Good(d), NEW l \in Lock,
           \A k \in d.islocks : TxOf[k] = TxOf[l] => k = l
    PROVE  /\ Good(WriteNewInstantSendLock(d, l))
           /\ WriteNewInstantSendLock(d, l).islocks = d.islocks \cup {l}
<1> DEFINE e == WriteNewInstantSendLock(d, l)
<1>1. e \in Db
  BY LockTypes, Zenon DEF Good, Db, WriteNewInstantSendLock
<1>2. /\ e.islocks = d.islocks \cup {l}
      /\ e.islockCache = [d.islockCache EXCEPT ![l] = "present"]
      /\ e.byTxid = [d.byTxid EXCEPT ![TxOf[l]] = l]
      /\ e.txidCache = [d.txidCache EXCEPT ![TxOf[l]] = l]
      /\ e.byOutpoint = [o \in Outpoint |-> IF o \in InputsOf(l) THEN l ELSE d.byOutpoint[o]]
      /\ e.outpointCache = [o \in Outpoint |-> IF o \in InputsOf(l) THEN l ELSE d.outpointCache[o]]
  BY Zenon DEF Good, Db, WriteNewInstantSendLock
<1>3. /\ d.islockCache \in [Lock -> {"unknown", "absent", "present"}]
      /\ d.byTxid \in [Tx -> Lock \cup {None}]
      /\ d.txidCache \in [Tx -> Lock \cup {None}]
      /\ d.islocks \subseteq Lock
  BY Zenon DEF Good, Db
<1>4. Indexed(e)
  <2> HIDE DEF e
  <2>1. ASSUME NEW k \in e.islocks
        PROVE  /\ e.islockCache[k] # "absent"
               /\ e.byTxid[TxOf[k]] = k
               /\ e.txidCache[TxOf[k]] \in {None, k}
               /\ \A o \in InputsOf(k) : e.byOutpoint[o] = k /\ e.outpointCache[o] \in {None, k}
    <3>1. k \in Lock /\ TxOf[k] \in Tx /\ InputsOf(k) \subseteq Outpoint
      BY Zenon, <1>2, <1>3, LockTypes
    <3>2. CASE k = l
      BY Zenon, <1>2, <1>3, <3>1, <3>2
    <3>3. CASE k # l
      <4>1. k \in d.islocks /\ TxOf[k] # TxOf[l]
        BY Zenon, <1>2, <3>3
      <4>2. InputsOf(k) \cap InputsOf(l) = {}
        BY Zenon, <3>1, <4>1, OneLockPerCoin
      <4> QED
        BY <1>2, <1>3, <3>1, <3>3, <4>1, <4>2 DEF Good, Indexed
    <3> QED
      BY Zenon, <3>2, <3>3
  <2>2. ASSUME NEW t \in Tx
        PROVE  /\ e.byTxid[t] # None => TxOf[e.byTxid[t]] = t
               /\ e.txidCache[t] # None => TxOf[e.txidCache[t]] = t
    BY <1>2, <1>3 DEF Good, Indexed
  <2> QED
    BY Zenon, <2>1, <2>2 DEF Indexed
<1> QED
  BY Zenon, <1>1, <1>2, <1>4 DEF Good

LEMMA RemoveConfirmedGood ==
    ASSUME NEW d, Good(d), NEW h \in 0 .. MaxHeight
    PROVE  /\ Good(RemoveConfirmedInstantSendLocks(d, h))
           /\ RemoveConfirmedInstantSendLocks(d, h).islocks \subseteq d.islocks
<1>1. CASE h <= d.confirmed
  BY Zenon, <1>1 DEF RemoveConfirmedInstantSendLocks
<1>2. CASE ~(h <= d.confirmed)
  <2> DEFINE keys == ConfirmedKeys(d, h)
             R == {k[2] : k \in keys}
             e == EraseKeys(d, R \cap d.islocks)
             f == [l \in Lock |-> IF l \notin R THEN e.islockCache[l]
                                  ELSE IF l \in d.islocks THEN "present" ELSE "absent"]
             g == [e EXCEPT !.islockCache = f]
             r == RemoveConfirmedInstantSendLocks(d, h)
  <2>1. keys \subseteq (0 .. MaxHeight) \X Lock /\ R \subseteq Lock /\ d.islocks \subseteq Lock
    BY DEF ConfirmedKeys, Good, Db
  <2>2. Good(e) /\ e.islocks = d.islocks \ R
    <3>1. Good(e) /\ e.islocks = d.islocks \ (R \cap d.islocks)
      BY <2>1, EraseKeysGood, SameLock
    <3> QED
      BY Zenon, <3>1
  <2>3. r = [e EXCEPT !.confirmed = h, !.mined = @ \ keys, !.archived = @ \cup R,
                      !.archivedAt = @ \cup keys, !.islockCache = f]
    BY Zenon, <1>2, <2>2 DEF RemoveConfirmedInstantSendLocks, Good, Db
  <2> HIDE DEF e, r, keys, R
  <2>4. f \in [Lock -> {"unknown", "absent", "present"}]
    BY Zenon, <2>2 DEF Good, Db
  <2>5. \A l \in e.islocks : f[l] # "absent"
    BY Zenon, <2>2 DEF Good, Db, Indexed
  <2> HIDE DEF f
  <2>6. Good(g)
    BY Zenon, <2>2, <2>4, <2>5, IslockCacheGood
  <2>7. r \in Db
    BY <2>1, <2>2, <2>3, <2>4, Zenon DEF Good, Db
  <2>8. /\ r.islocks = g.islocks /\ r.byTxid = g.byTxid /\ r.byOutpoint = g.byOutpoint
        /\ r.islockCache = g.islockCache /\ r.txidCache = g.txidCache
        /\ r.outpointCache = g.outpointCache /\ g.islocks = e.islocks
    BY Zenon, <2>2, <2>3 DEF Good, Db
  <2>9. Good(r)
    BY <2>6, <2>7, <2>8, SameKeysGood, Zenon
  <2> QED
    BY Zenon, <2>2, <2>8, <2>9 DEF r
<1> QED
  BY Zenon, <1>1, <1>2
\* A cache of hashes may hold nothing or what the database has.
LEMMA TxidCacheGood ==
    ASSUME NEW d, Good(d), NEW t \in Tx, NEW x \in {None, d.byTxid[t]}
    PROVE  /\ Good([d EXCEPT !.txidCache[t] = x])
           /\ [d EXCEPT !.txidCache[t] = x].islocks = d.islocks
<1> DEFINE e == [d EXCEPT !.txidCache[t] = x]
<1>1. x \in Lock \cup {None}
  BY Zenon DEF Good, Db
<1>2. e = [d EXCEPT !.txidCache = [d.txidCache EXCEPT ![t] = x]]
  BY Zenon DEF Good, Db
<1>3. e \in Db
  BY Zenon, <1>1, <1>2 DEF Good, Db
<1>4. /\ e.islocks = d.islocks /\ e.byTxid = d.byTxid /\ e.byOutpoint = d.byOutpoint
      /\ e.islockCache = d.islockCache /\ e.outpointCache = d.outpointCache
      /\ e.txidCache = [d.txidCache EXCEPT ![t] = x]
      /\ d.txidCache \in [Tx -> Lock \cup {None}]
  BY Zenon, <1>2 DEF Good, Db
<1>5. Indexed(e)
  <2> HIDE DEF e
  <2> QED
    BY <1>4, LockTypes DEF Good, Db, Indexed
<1> QED
  BY Zenon, <1>3, <1>4, <1>5 DEF Good

LEMMA OutpointCacheGood ==
    ASSUME NEW d, Good(d), NEW o \in Outpoint, NEW x \in {None, d.byOutpoint[o]}
    PROVE  /\ Good([d EXCEPT !.outpointCache[o] = x])
           /\ [d EXCEPT !.outpointCache[o] = x].islocks = d.islocks
<1> DEFINE e == [d EXCEPT !.outpointCache[o] = x]
<1>1. x \in Lock \cup {None}
  BY Zenon DEF Good, Db
<1>2. e = [d EXCEPT !.outpointCache = [d.outpointCache EXCEPT ![o] = x]]
  BY Zenon DEF Good, Db
<1>3. e \in Db
  BY Zenon, <1>1, <1>2 DEF Good, Db
<1>4. /\ e.islocks = d.islocks /\ e.byTxid = d.byTxid /\ e.byOutpoint = d.byOutpoint
      /\ e.islockCache = d.islockCache /\ e.txidCache = d.txidCache
      /\ e.outpointCache = [d.outpointCache EXCEPT ![o] = x]
      /\ d.outpointCache \in [Outpoint -> Lock \cup {None}]
  BY Zenon, <1>2 DEF Good, Db
<1>5. Indexed(e)
  <2> HIDE DEF e
  <2> QED
    BY <1>4, LockTypes DEF Good, Db, Indexed
<1> QED
  BY Zenon, <1>3, <1>4, <1>5 DEF Good

LEMMA OneIslockCacheGood ==
    ASSUME NEW d, Good(d), NEW l \in Lock, NEW x \in {"unknown", "absent", "present"},
           l \in d.islocks => x # "absent"
    PROVE  /\ Good([d EXCEPT !.islockCache[l] = x])
           /\ [d EXCEPT !.islockCache[l] = x].islocks = d.islocks
<1> DEFINE f == [d.islockCache EXCEPT ![l] = x]
<1>1. f \in [Lock -> {"unknown", "absent", "present"}]
  BY Zenon DEF Good, Db
<1>2. \A k \in d.islocks : f[k] # "absent"
  BY DEF Good, Db, Indexed
<1>3. [d EXCEPT !.islockCache[l] = x] = [d EXCEPT !.islockCache = f]
  BY Zenon DEF Good, Db
<1>4. Good([d EXCEPT !.islockCache = f])
  <2> HIDE DEF f
  <2> QED BY Zenon, <1>1, <1>2, IslockCacheGood
<1>5. [d EXCEPT !.islockCache[l] = x].islocks = d.islocks
  BY Zenon DEF Good, Db
<1> QED
  BY Zenon, <1>3, <1>4, <1>5

LEMMA NoCachesGood ==
    ASSUME NEW d, Good(d)
    PROVE  Good(NoCaches(d)) /\ NoCaches(d).islocks = d.islocks
<1> DEFINE e == NoCaches(d)
<1>0. /\ 0 \in 0 .. MaxHeight
      /\ [l \in Lock |-> "unknown"] \in [Lock -> {"unknown", "absent", "present"}]
      /\ [t \in Tx |-> None] \in [Tx -> Lock \cup {None}]
      /\ [o \in Outpoint |-> None] \in [Outpoint -> Lock \cup {None}]
  BY DbAssumption
<1>1. e \in Db
  BY <1>0, Zenon DEF Good, Db, NoCaches
<1>2. /\ e.islocks = d.islocks /\ e.byTxid = d.byTxid /\ e.byOutpoint = d.byOutpoint
      /\ e.islockCache = [l \in Lock |-> "unknown"]
      /\ e.txidCache = [t \in Tx |-> None]
      /\ e.outpointCache = [o \in Outpoint |-> None]
  BY Zenon DEF Good, Db, NoCaches
<1>3. Indexed(e)
  <2> HIDE DEF e
  <2> QED
    BY SMTT(30), <1>2, LockTypes DEF Good, Db, Indexed
<1> QED
  BY Zenon, <1>1, <1>2, <1>3 DEF Good

LEMMA EmptyDbGood == Good(EmptyDb)
<1> DEFINE e == EmptyDb
<1>0. /\ 0 \in 0 .. MaxHeight
      /\ [l \in Lock |-> "unknown"] \in [Lock -> {"unknown", "absent", "present"}]
      /\ [t \in Tx |-> None] \in [Tx -> Lock \cup {None}]
      /\ [o \in Outpoint |-> None] \in [Outpoint -> Lock \cup {None}]
  BY DbAssumption
<1>1. e \in Db
  BY <1>0, Zenon DEF Db, EmptyDb
<1>2. /\ e.islocks = {} /\ e.byTxid = [t \in Tx |-> None]
      /\ e.txidCache = [t \in Tx |-> None]
  BY Zenon DEF EmptyDb
<1>3. Indexed(e)
  <2> HIDE DEF e
  <2> QED
    BY Zenon, <1>2 DEF Indexed
<1> QED
  BY Zenon, <1>1, <1>3 DEF Good

-----------------------------------------------------------------------------
(* The inductive invariant *)

PcSet == {"idle", "lookup", "same", "store", "mine", "untrack", "resolve", "judge",
          "invalidate", "sweep"}

Callback == [step : {"start", "track", "sweep", "txs", "locked", "unlocked", "cleanup"},
             tx : Tx \cup {None}, block : Block \cup {None}, lock : Lock \cup {None}, txs : Seq(Tx)]

Worker == [pc : PcSet, lock : Lock \cup {None}, tx : Tx \cup {None}, mined : Block \cup {None}]

Types ==
    /\ tip \in Block
    /\ mempool \subseteq Tx
    /\ atmp \in Tx \cup {None}
    /\ txindex \in [Tx -> Block \cup {None}]
    /\ pending \subseteq Lock
    /\ noTx \subseteq Lock
    /\ worker \in Worker
    /\ worker.pc # "idle" => worker.lock \in Lock
    /\ worker.pc = "mine" => worker.mined \in Block
    /\ cb \in Callback
    /\ cb.step \in {"txs", "locked", "unlocked", "cleanup"} => cb.block \in Block
    /\ cb.step \in {"locked", "unlocked"} => cb.txs # <<>>

\* The lock the worker is going to store is the only stored one of its
\* transaction.
OneOfItsTx ==
    worker.pc = "store" => \A k \in db.islocks : TxOf[k] = TxOf[worker.lock] => k = worker.lock

NoRival ==
    \A l \in db.islocks : \A t \in Tx :
        (t \in mempool \/ t = atmp) /\ Conflict(t, TxOf[l]) => SweepAhead(l)

IInv == Types /\ Good(db) /\ OneOfItsTx /\ NoRival

LEMMA Initially == Init => IInv
<1> SUFFICES ASSUME Init PROVE IInv
  BY Zenon
<1>1. Types
  BY ChainAssumption, DbAssumption DEF Init, Types, Worker, PcSet, Callback, Asleep, CbIdle
<1>2. Good(db)
  BY Zenon, EmptyDbGood DEF Init
<1>3. OneOfItsTx /\ NoRival
  BY Zenon, DbAssumption DEF Init, OneOfItsTx, NoRival, Asleep, EmptyDb
<1> QED
  BY Zenon, <1>1, <1>2, <1>3 DEF IInv

LEMMA InvGivesFound == IInv => StoredLockIsFound
  BY Zenon, FoundByHash, FoundByTxid, FoundByInput DEF IInv, StoredLockIsFound

LEMMA InvGivesNoRival == IInv => MempoolHasNoRival
  BY Zenon DEF IInv, Types, NoRival, MempoolHasNoRival
-----------------------------------------------------------------------------
(* Every step preserves it *)

\* The store may lose locks, the mempool may gain only what GetConflictingLock
\* lets through, and the worker goes on with the lock it stored.
LEMMA Keeps ==
    ASSUME IInv, Types', Good(db'), OneOfItsTx', db'.islocks \subseteq db.islocks,
           \A t \in Tx : (t \in mempool' \/ t = atmp')
                            => t \in mempool \/ t = atmp \/ GetConflictingLock(db', t) = {},
           \A l \in Lock : SweepAhead(l) => SweepAhead(l)'
    PROVE  IInv'
<1>1. ASSUME NEW l \in db'.islocks, NEW t \in Tx,
             t \in mempool' \/ t = atmp', Conflict(t, TxOf[l])
      PROVE  SweepAhead(l)'
  <2>1. GetConflictingLock(db', t) # {}
    BY Zenon, <1>1, ConflictingLockIsSeen
  <2>2. SweepAhead(l)
    BY Zenon, <1>1, <2>1 DEF IInv, NoRival
  <2>3. l \in Lock
    BY Zenon DEF Good, Db
  <2> QED
    BY Zenon, <2>2, <2>3
<1>2. NoRival'
  BY Zenon, <1>1 DEF NoRival
<1> QED
  BY Zenon, <1>2 DEF IInv

\* The steps of the other threads that leave the worker and the pool's
\* admission alone.
LEMMA Others ==
    ASSUME IInv, Types', Good(db'), db'.islocks \subseteq db.islocks, worker' = worker,
           mempool' \subseteq mempool, atmp' \in {atmp, None}
    PROVE  IInv'
<1>1. OneOfItsTx'
  BY Zenon DEF IInv, OneOfItsTx
<1>2. \A l \in Lock : SweepAhead(l) => SweepAhead(l)'
  BY Zenon DEF SweepAhead
<1>3. \A t \in Tx : (t \in mempool' \/ t = atmp') => t \in mempool \/ t = atmp
  BY Zenon, DbAssumption
<1> QED
  BY Zenon, <1>1, <1>2, <1>3, Keeps

LEMMA ChainTypes ==
    ASSUME NEW b \in Block
    PROVE  Height[b] \in 0 .. MaxHeight /\ Txs(b) \subseteq Tx /\ Parent[b] \in Block
<1>1. Content[b] \in Seq(Tx)
  BY Zenon, ChainAssumption
<1>2. Txs(b) \subseteq Tx
  BY <1>1 DEF Txs
<1> QED
  BY Zenon, <1>2, ChainAssumption

LEMMA PoolAfterKeeps ==
    ASSUME Types, NEW b, NEW d
    PROVE  \A t \in PoolAfter(b, d) : t \in Tx /\ (t \in mempool \/ GetConflictingLock(d, t) = {})
  BY Zenon DEF Types, PoolAfter, Closed, ChainTxs

LEMMA RemovalGood ==
    ASSUME IInv, NEW L \in SUBSET Lock
    PROVE  /\ Good(RemoveConflictingLock(db, L))
           /\ RemoveConflictingLock(db, L).islocks \subseteq db.islocks
  BY RemoveChainedGood, ChainTypes, Zenon DEF IInv, Types, RemoveConflictingLock

LEMMA AcceptStep ==
    ASSUME IInv, NEW t \in Tx, AcceptToMemoryPool(t)
    PROVE  IInv'
<1>1. Types'
  BY Zenon, DbAssumption DEF IInv, Types, AcceptToMemoryPool, Admit, chainVars, isVars
<1>2. db' = db /\ worker' = worker
  BY Zenon DEF AcceptToMemoryPool, Admit
<1>3. OneOfItsTx' /\ \A l \in Lock : SweepAhead(l) => SweepAhead(l)'
  BY Zenon, <1>2 DEF IInv, OneOfItsTx, SweepAhead
<1>4. \A s \in Tx : (s \in mempool' \/ s = atmp')
                       => s \in mempool \/ s = atmp \/ GetConflictingLock(db', s) = {}
  BY Zenon, <1>2, DbAssumption DEF AcceptToMemoryPool, Admit
<1>5. Good(db')
  BY Zenon, <1>2 DEF IInv
<1> QED
  BY SMTT(30), <1>1, <1>2, <1>3, <1>4, <1>5, Keeps

LEMMA AddStep ==
    ASSUME IInv, AddToMempool
    PROVE  IInv'
<1>1. Types'
  BY Zenon DEF IInv, Types, AddToMempool, Free, chainVars, isVars
<1>2. db' = db /\ worker' = worker
  BY Zenon DEF AddToMempool
<1>3. OneOfItsTx' /\ \A l \in Lock : SweepAhead(l) => SweepAhead(l)'
  BY Zenon, <1>2 DEF IInv, OneOfItsTx, SweepAhead
<1>4. \A s \in Tx : (s \in mempool' \/ s = atmp') => s \in mempool \/ s = atmp
  BY Zenon, DbAssumption DEF AddToMempool
<1>5. Good(db')
  BY Zenon, <1>2 DEF IInv
<1> QED
  BY SMTT(30), <1>1, <1>2, <1>3, <1>4, <1>5, Keeps

LEMMA RefuseStep ==
    ASSUME IInv, NEW t \in Tx, RefuseTx(t)
    PROVE  IInv'
<1> DEFINE l == GetInstantSendLockByTxid(db, t)
<1>1. Types' /\ worker' = worker /\ mempool' = mempool /\ atmp' = atmp
  BY SMTT(30) DEF IInv, Types, RefuseTx, chainVars, poolVars, isVars
<1>2. l \in Lock
  BY Zenon, ByTxidIsOfTx DEF IInv, RefuseTx
<1>3. Good(db') /\ db'.islocks \subseteq db.islocks
  BY Zenon, <1>2, RemovalGood DEF RefuseTx
<1> QED
  BY SMTT(30), <1>1, <1>3, Others

LEMMA ActivateStep ==
    ASSUME IInv, NEW b \in Block, ActivateBestChain(b)
    PROVE  IInv'
<1>1. worker' = worker /\ atmp' = atmp /\ UNCHANGED <<txindex, pending, noTx, cb>>
  BY Zenon DEF ActivateBestChain, isVars
<1>3. CASE Rejected(b) # {}
  <2>1. UNCHANGED <<tip, mempool, db>>
    BY Zenon, <1>3 DEF ActivateBestChain
  <2>2. Types'
    BY SMTT(30), <1>1, <2>1 DEF IInv, Types
  <2> QED
    BY SMTT(30), <1>1, <2>1, <2>2, Others DEF IInv
<1>4. CASE Rejected(b) = {}
  <2>1. /\ db' = IF Pruned(b) = {} THEN db ELSE RemoveConflictingLock(db, Pruned(b))
        /\ MoveTip(b, db')
    BY Zenon, <1>4 DEF ActivateBestChain
  <2>2. Pruned(b) \subseteq Lock
    BY Zenon DEF Pruned, GetConflictingLock
  <2>3. Good(db') /\ db'.islocks \subseteq db.islocks
    BY Zenon, <2>1, <2>2, RemovalGood DEF IInv
  <2>4. tip' = b /\ mempool' = PoolAfter(b, db')
    BY Zenon, <2>1 DEF MoveTip
  <2>5. \A t \in mempool' : t \in Tx /\ (t \in mempool \/ GetConflictingLock(db', t) = {})
    BY SMTT(30), <2>4, PoolAfterKeeps DEF IInv
  <2>6. Types'
    BY Zenon, <1>1, <2>4, <2>5 DEF IInv, Types
  <2>7. OneOfItsTx' /\ \A l \in Lock : SweepAhead(l) => SweepAhead(l)'
    BY SMTT(30), <1>1, <2>3 DEF IInv, OneOfItsTx, SweepAhead
  <2> QED
    BY SMTT(30), <1>1, <2>3, <2>5, <2>6, <2>7, Keeps
<1> QED
  BY Zenon, <1>3, <1>4
LEMMA ChainLockSteps ==
    ASSUME IInv, (\E b \in Block : NewChainLock(b)) \/ EnforceBestChainLock
    PROVE  IInv'
<1>1. /\ UNCHANGED <<tip, mempool, atmp, txindex, pending, noTx, worker, cb, db>>
  BY Zenon DEF NewChainLock, EnforceBestChainLock, poolVars, isVars
<1>2. Types'
  BY SMTT(30), <1>1 DEF IInv, Types
<1> QED
  BY Zenon, <1>1, <1>2, Others DEF IInv

LEMMA IncomingStep ==
    ASSUME IInv, NEW l \in Lock, ProcessMessageInstantSendLock(l)
    PROVE  IInv'
<1>1. /\ UNCHANGED <<tip, mempool, atmp, txindex, noTx, worker, cb, db>>
      /\ pending' = pending \cup {l}
  BY Zenon DEF ProcessMessageInstantSendLock, chainVars, poolVars
<1>2. Types'
  BY SMTT(30), <1>1 DEF IInv, Types
<1> QED
  BY Zenon, <1>1, <1>2, Others DEF IInv

LEMMA AddedSteps ==
    ASSUME IInv, (\E t \in Tx : TransactionAddedToMempool(t)) \/ AddedTrack \/ AddedSweep
    PROVE  IInv'
<1>1. UNCHANGED <<tip, atmp, txindex, worker, db>> /\ mempool' \subseteq mempool
  BY Zenon DEF TransactionAddedToMempool, AddedTrack, AddedSweep, SweepMempool, chainVars, poolVars
<1>2. pending' \subseteq Lock /\ noTx' \subseteq Lock
  BY Zenon DEF IInv, Types, TransactionAddedToMempool, AddedTrack, AddedSweep, AddNonLockedTx,
         Waiting, MoveToPending
<1>3. CbIdle \in Callback
  BY DEF CbIdle, Callback
<1>4. /\ cb' \in Callback
      /\ cb'.step \notin {"txs", "locked", "unlocked", "cleanup"}
  <2>1. CASE AddedTrack \/ AddedSweep
    BY <1>3, <2>1 DEF AddedTrack, AddedSweep, CbIdle
  <2>2. CASE \E t \in Tx : TransactionAddedToMempool(t)
    BY <2>2, Zenon DEF IInv, Types, Callback, TransactionAddedToMempool, Waiting
  <2> QED
    BY Zenon, <2>1, <2>2
<1>5. Types'
  BY Zenon, <1>1, <1>2, <1>4 DEF IInv, Types
<1> QED
  BY Zenon, <1>1, <1>5, Others DEF IInv

LEMMA RemovedStep ==
    ASSUME IInv, NEW t \in Tx, TransactionRemovedFromMempool(t)
    PROVE  IInv'
<1> DEFINE l == GetInstantSendLockByTxid(db, t)
<1>1. Types' /\ worker' = worker /\ mempool' = mempool /\ atmp' = atmp
  BY Zenon DEF IInv, Types, TransactionRemovedFromMempool, chainVars, poolVars, isVars
<1>2. db' = IF l = None THEN db ELSE RemoveConflictingLock(db, {l})
  BY Zenon DEF TransactionRemovedFromMempool
<1>3. l # None => l \in Lock
  BY Zenon, ByTxidIsOfTx DEF IInv
<1>4. Good(db') /\ db'.islocks \subseteq db.islocks
  <2> HIDE DEF l
  <2> QED BY SMTT(30), <1>2, <1>3, RemovalGood DEF IInv
<1> QED
  BY Zenon, <1>1, <1>4, Others

LEMMA ConnectedSteps ==
    ASSUME IInv, (\E b \in Block : BlockConnected(b)) \/ ConnectedTx \/ ConnectedTrack
    PROVE  IInv'
<1>1. UNCHANGED <<tip, atmp, mempool, txindex, worker, db>>
  BY Zenon DEF BlockConnected, ConnectedTx, ConnectedTrack, chainVars, poolVars
<1>2. pending' \subseteq Lock /\ noTx' \subseteq Lock
  BY Zenon DEF IInv, Types, BlockConnected, ConnectedTx, ConnectedTrack, AddNonLockedTx,
         Waiting, MoveToPending, isVars
<1>3. /\ cb' \in Callback
      /\ cb'.step \in {"txs", "locked", "unlocked", "cleanup"} => cb'.block \in Block
      /\ cb'.step \in {"locked", "unlocked"} => cb'.txs # <<>>
  <2>1. CASE \E b \in Block : BlockConnected(b)
    BY <2>1, ChainAssumption, Zenon DEF IInv, Types, Callback, BlockConnected
  <2>2. CASE ConnectedTx
    BY Zenon, <2>2 DEF IInv, Types, Callback, ConnectedTx
  <2>3. CASE ConnectedTrack
    <3>1. cb.txs \in Seq(Tx) /\ cb.block \in Block /\ cb' = [cb EXCEPT !.step = "txs", !.txs = Tail(@)]
      BY Zenon, <2>3 DEF IInv, Types, Callback, ConnectedTrack
    <3>2. cb.txs # <<>>
      BY Zenon, <2>3 DEF IInv, Types, ConnectedTrack
    <3>3. Tail(cb.txs) \in Seq(Tx)
      BY <3>1, <3>2
    <3> QED
      BY <3>1, <3>3, Zenon DEF IInv, Types, Callback
  <2> QED
    BY Zenon, <2>1, <2>2, <2>3
<1>4. Types'
  BY Zenon, <1>1, <1>2, <1>3 DEF IInv, Types
<1> QED
  BY Zenon, <1>1, <1>4, Others DEF IInv
LEMMA ConnectedEndStep ==
    ASSUME IInv, ConnectedEnd
    PROVE  IInv'
<1>1. cb.block \in Block
  BY Zenon DEF IInv, Types, ConnectedEnd
<1>2. UNCHANGED <<tip, mempool, atmp, pending, noTx, worker>> /\ cb' = CbIdle
  BY SMTT(30) DEF ConnectedEnd, poolVars, isVars
<1>3. txindex' \in [Tx -> Block \cup {None}]
  BY SMTT(30), <1>1 DEF IInv, Types, ConnectedEnd
<1>4. Types'
  BY SMTT(30), <1>2, <1>3 DEF IInv, Types, CbIdle, Callback
<1>5. db' = WriteBlockInstantSendLocks(db, Txs(cb.block), Height[cb.block])
  BY SMTT(30) DEF ConnectedEnd
<1>6. Good(db') /\ db'.islocks = db.islocks
  BY Zenon, <1>1, <1>5, ChainTypes, WriteBlockGood DEF IInv
<1> QED
  BY SMTT(30), <1>2, <1>4, <1>6, Others

LEMMA DisconnectedStep ==
    ASSUME IInv, NEW b \in Block, BlockDisconnected(b)
    PROVE  IInv'
<1>1. UNCHANGED <<tip, mempool, atmp, txindex, pending, noTx, worker, cb>>
  BY Zenon DEF BlockDisconnected, chainVars, poolVars, isVars
<1>2. Types'
  BY Zenon, <1>1 DEF IInv, Types
<1>3. Good(db') /\ db'.islocks = db.islocks
  BY Zenon, RemoveBlockGood DEF IInv, BlockDisconnected
<1> QED
  BY Zenon, <1>1, <1>2, <1>3, Others

LEMMA ConfirmedStep ==
    ASSUME IInv, NEW b \in Block, HandleFullyConfirmedBlock(b)
    PROVE  IInv'
<1>1. /\ UNCHANGED <<tip, mempool, atmp, txindex, pending, noTx, worker>>
      /\ cb' = [cb EXCEPT !.step = "cleanup", !.block = b]
  BY Zenon DEF HandleFullyConfirmedBlock, chainVars, poolVars, isVars
<1>2. Types'
  BY <1>1, Zenon DEF IInv, Types, Callback
<1>3. Good(db') /\ db'.islocks \subseteq db.islocks
  BY Zenon, ChainTypes, RemoveConfirmedGood DEF IInv, HandleFullyConfirmedBlock
<1> QED
  BY Zenon, <1>1, <1>2, <1>3, Others

LEMMA CleanupStep ==
    ASSUME IInv, ConfirmedCleanup
    PROVE  IInv'
<1>1. UNCHANGED <<tip, mempool, atmp, txindex, pending, noTx, worker>> /\ cb' = CbIdle
  BY SMTT(30) DEF ConfirmedCleanup, chainVars, poolVars, isVars
<1>2. Types'
  BY SMTT(30), <1>1 DEF IInv, Types, CbIdle, Callback
<1>3. Good(db') /\ db'.islocks = db.islocks
  BY Zenon, RemoveArchivedGood DEF IInv, ConfirmedCleanup
<1> QED
  BY Zenon, <1>1, <1>2, <1>3, Others

LEMMA CacheSteps ==
    ASSUME IInv, CacheRead \/ CacheEvict
    PROVE  IInv'
<1>1. UNCHANGED <<tip, mempool, atmp, txindex, pending, noTx, worker, cb>>
  BY Zenon DEF CacheRead, CacheEvict, chainVars, poolVars, isVars
<1>2. Types'
  BY Zenon, <1>1 DEF IInv, Types
<1>3. ASSUME NEW l \in Lock, db' = CacheIslock(db, l) \/ db' = [db EXCEPT !.islockCache[l] = "unknown"]
      PROVE  Good(db') /\ db'.islocks = db.islocks
  <2>1. PICK x \in {"unknown", "absent", "present"} :
           (l \in db.islocks => x # "absent") /\ db' = [db EXCEPT !.islockCache[l] = x]
    BY Zenon, <1>3 DEF CacheIslock
  <2> QED
    BY <2>1, OneIslockCacheGood, Zenon DEF IInv
<1>4. ASSUME NEW t \in Tx, db' = CacheTxid(db, t) \/ db' = [db EXCEPT !.txidCache[t] = None]
      PROVE  Good(db') /\ db'.islocks = db.islocks
  BY <1>4, TxidCacheGood, ZenonT(40) DEF IInv, CacheTxid
<1>5. ASSUME NEW o \in Outpoint, db' = CacheOutpoint(db, o) \/ db' = [db EXCEPT !.outpointCache[o] = None]
      PROVE  Good(db') /\ db'.islocks = db.islocks
  BY <1>5, OutpointCacheGood, ZenonT(40) DEF IInv, CacheOutpoint
<1>6. Good(db') /\ db'.islocks = db.islocks
  BY Zenon, <1>3, <1>4, <1>5 DEF CacheRead, CacheEvict
<1> QED
  BY Zenon, <1>1, <1>2, <1>6, Others

LEMMA CrashStep ==
    ASSUME IInv, Crash
    PROVE  IInv'
<1>1. /\ UNCHANGED <<tip, txindex>> /\ mempool' = {} /\ atmp' = None
      /\ pending' = {} /\ noTx' = {} /\ cb' = CbIdle /\ worker' = Asleep /\ db' = NoCaches(db)
  BY SMTT(30) DEF Crash
<1>2. Types'
  <2>1. Asleep \in Worker /\ Asleep.pc = "idle"
    BY Zenon DEF Worker, PcSet, Asleep
  <2>2. CbIdle \in Callback /\ CbIdle.step = "start"
    BY DEF Callback, CbIdle
  <2>3. tip' \in Block /\ txindex' \in [Tx -> Block \cup {None}]
    BY Zenon, <1>1 DEF IInv, Types
  <2> QED
    BY Zenon, <1>1, <2>1, <2>2, <2>3 DEF Types
<1>3. Good(db')
  BY SMTT(30), <1>1, NoCachesGood DEF IInv
<1>4. OneOfItsTx' /\ NoRival'
  BY SMTT(30), <1>1, DbAssumption DEF OneOfItsTx, NoRival, Asleep
<1> QED
  BY Zenon, <1>2, <1>3, <1>4 DEF IInv

-----------------------------------------------------------------------------
(* The worker *)

\* A step that takes the worker from one of its places to another with the
\* same lock and transaction, and at most takes locks from the store.
LEMMA WorkerSteps ==
    ASSUME IInv, Good(db'), db'.islocks \subseteq db.islocks,
           UNCHANGED <<tip, mempool, atmp, txindex, pending, cb>>, noTx' \subseteq Lock,
           worker' \in Worker,
           worker'.lock = worker.lock, worker'.tx = worker.tx,
           worker.pc \in PcSet \ {"idle", "lookup", "same"},
           worker'.pc \in {"mine", "untrack", "resolve", "judge", "invalidate", "sweep"},
           worker'.pc = "mine" => worker'.mined \in Block
    PROVE  IInv'
<1>1. Types'
  BY Zenon DEF IInv, Types
<1>2. OneOfItsTx'
  BY Zenon DEF OneOfItsTx
<1>3. \A l \in Lock : SweepAhead(l) => SweepAhead(l)'
  BY Zenon DEF SweepAhead
<1> QED
  BY SMTT(30), <1>1, <1>2, <1>3, Keeps

LEMMA TakeStep ==
    ASSUME IInv, NEW l \in Lock, ProcessPendingInstantSendLocks(l)
    PROVE  IInv'
<1>1. /\ UNCHANGED <<tip, mempool, atmp, txindex, noTx, cb, db>>
      /\ worker.pc = "idle" /\ pending' = pending \ {l}
      /\ worker' = [worker EXCEPT !.pc = "lookup", !.lock = l]
  BY Zenon DEF ProcessPendingInstantSendLocks, chainVars, poolVars
<1>2. Types' /\ worker'.pc = "lookup"
  BY <1>1, Zenon DEF IInv, Types, Worker, PcSet
<1>3. OneOfItsTx'
  BY Zenon, <1>2 DEF OneOfItsTx
<1>4. \A k \in Lock : ~SweepAhead(k)
  BY SMTT(30), <1>1 DEF SweepAhead
<1> QED
  BY Zenon, <1>1, <1>2, <1>3, <1>4, Keeps DEF IInv

LEMMA LookupStep ==
    ASSUME IInv, LookupTx
    PROVE  IInv'
<1> DEFINE t == TxOf[worker.lock]
           b == IF t \in mempool THEN None ELSE txindex[t]
<1>1. UNCHANGED <<tip, mempool, atmp, txindex, pending, noTx, cb, db>> /\ worker.pc = "lookup"
  BY SMTT(30) DEF LookupTx, chainVars, poolVars, isVars
<1>2. t \in Tx /\ b \in Block \cup {None}
  BY Zenon, <1>1, LockTypes DEF IInv, Types
<1>3. \/ worker' = Asleep
      \/ worker' = [worker EXCEPT !.pc = "same",
                                  !.tx = IF t \in mempool \/ b # None THEN t ELSE None,
                                  !.mined = b]
  BY Zenon DEF LookupTx
<1> HIDE DEF t, b
<1>4. Types' /\ worker'.pc # "store"
  <2>1. CASE worker' = Asleep
    BY SMTT(30), <1>1, <2>1 DEF IInv, Types, Worker, PcSet, Asleep
  <2>2. CASE worker' # Asleep
    <3>1. PICK x \in Tx \cup {None} :
             worker' = [worker EXCEPT !.pc = "same", !.tx = x, !.mined = b]
      BY <1>2, <1>3, <2>2, Zenon
    <3>2. worker' \in Worker /\ worker'.pc = "same" /\ worker'.lock = worker.lock
      BY <1>2, <3>1, Zenon DEF IInv, Types, Worker, PcSet
    <3>3. worker'.lock \in Lock
      BY Zenon, <1>1, <3>2 DEF IInv, Types
    <3> QED
      BY Zenon, <1>1, <3>2, <3>3 DEF IInv, Types
  <2> QED
    BY SMTT(30), <2>1, <2>2
<1>5. OneOfItsTx'
  BY Zenon, <1>4 DEF OneOfItsTx
<1>6. \A k \in Lock : ~SweepAhead(k)
  BY Zenon, <1>1 DEF SweepAhead
<1> QED
  BY Zenon, <1>1, <1>4, <1>5, <1>6, Keeps DEF IInv
LEMMA CheckSameStep ==
    ASSUME IInv, CheckSameTx
    PROVE  IInv'
<1> DEFINE l == worker.lock
           same == GetInstantSendLockByTxid(db, TxOf[l])
<1>1. /\ UNCHANGED <<tip, mempool, atmp, txindex, pending, noTx, cb>> /\ worker.pc = "same"
      /\ worker' = IF same \in Deterministic THEN Asleep ELSE [worker EXCEPT !.pc = "store"]
      /\ db' = IF same # None /\ same \notin Deterministic /\ l \in Deterministic
                 THEN RemoveAndArchiveInstantSendLock(db, same, Height[tip])
                 ELSE db
  BY Zenon DEF CheckSameTx, chainVars, poolVars, isVars
<1>2. l \in Lock /\ TxOf[l] \in Tx /\ db.islocks \subseteq Lock /\ Height[tip] \in 0 .. MaxHeight
  BY SMTT(30), <1>1, LockTypes, ChainTypes DEF IInv, Types, Good, Db
<1>3. same # None => same \in Lock /\ TxOf[same] = TxOf[l]
  BY Zenon, <1>2, ByTxidIsOfTx DEF IInv
<1>4. \A k \in db.islocks : TxOf[k] = TxOf[l] => k = same
  <2> TAKE k \in db.islocks
  <2> HAVE TxOf[k] = TxOf[l]
  <2>1. GetInstantSendLockByTxid(db, TxOf[k]) = k
    BY Zenon, FoundByTxid DEF IInv
  <2> QED
    BY Zenon, <2>1
<1> HIDE DEF same
<1>5. CASE same # None /\ same \notin Deterministic /\ l \in Deterministic
  <2>1. Good(db') /\ db'.islocks = db.islocks \ {same}
    BY <1>1, <1>2, <1>3, <1>4, <1>5, RemoveAndArchiveGood DEF IInv
  <2>2. worker' = [worker EXCEPT !.pc = "store"]
    BY Zenon, <1>1, <1>5
  <2>3. Types' /\ worker'.lock = l
    BY Zenon, <1>1, <1>2, <2>2 DEF IInv, Types, Worker, PcSet
  <2>4. OneOfItsTx'
    BY Zenon, <1>4, <2>1, <2>3 DEF OneOfItsTx
  <2>5. \A k \in Lock : ~SweepAhead(k)
    BY Zenon, <1>1 DEF SweepAhead
  <2> QED
    BY Zenon, <1>1, <2>1, <2>3, <2>4, <2>5, Keeps
<1>6. CASE ~(same # None /\ same \notin Deterministic /\ l \in Deterministic)
  <2>1. db' = db
    BY Zenon, <1>1, <1>6
  <2>2. Types' /\ (worker'.pc = "store" => same \notin Deterministic /\ worker'.lock = l)
    BY Zenon, <1>1, <1>2 DEF IInv, Types, Worker, PcSet, Asleep
  <2>3. OneOfItsTx'
    <3> SUFFICES ASSUME worker'.pc = "store", NEW k \in db.islocks, TxOf[k] = TxOf[l]
                 PROVE  k = l
      BY Zenon, <2>1, <2>2 DEF OneOfItsTx
    <3>1. k = same /\ k \in Lock /\ k \notin Deterministic /\ k # None
      BY Zenon, <1>2, <1>4, <2>2, LockTypes
    <3>2. l \notin Deterministic
      BY Zenon, <1>6, <3>1
    <3> QED
      BY Zenon, <1>2, <3>1, <3>2, DbAssumption
  <2>4. \A k \in Lock : ~SweepAhead(k)
    BY Zenon, <1>1 DEF SweepAhead
  <2> QED
    BY Zenon, <1>1, <2>1, <2>2, <2>3, <2>4, Keeps DEF IInv
<1> QED
  BY Zenon, <1>5, <1>6

LEMMA StoreStep ==
    ASSUME IInv, StoreLock
    PROVE  IInv'
<1> DEFINE l == worker.lock
<1>1. /\ UNCHANGED <<tip, mempool, atmp, txindex, pending, cb>> /\ worker.pc = "store"
      /\ worker' = [worker EXCEPT !.pc = IF worker.mined # None THEN "mine" ELSE "untrack"]
  BY Zenon DEF StoreLock, chainVars, poolVars
<1>2. l \in Lock
  BY Zenon, <1>1 DEF IInv, Types
<1>3. /\ worker' \in Worker /\ worker'.lock = l /\ worker'.tx = worker.tx
      /\ worker'.pc \in {"mine", "untrack"}
      /\ worker'.pc = "mine" => worker'.mined \in Block
  BY Zenon, <1>1 DEF IInv, Types, Worker, PcSet
<1>4. CASE worker.tx # None
  <2>1. db' = WriteNewInstantSendLock(db, l) /\ noTx' = noTx
    BY Zenon, <1>4 DEF StoreLock
  <2>2. Good(db') /\ db'.islocks = db.islocks \cup {l}
    BY Zenon, <1>1, <1>2, <2>1, WriteNewGood DEF IInv, OneOfItsTx
  <2>3. Types'
    BY Zenon, <1>1, <1>2, <1>3, <2>1 DEF IInv, Types
  <2>4. OneOfItsTx'
    BY Zenon, <1>3 DEF OneOfItsTx
  <2>5. SweepAhead(l)'
    BY Zenon, <1>3, <1>4 DEF SweepAhead
  <2>6. \A k \in Lock : ~SweepAhead(k)
    BY Zenon, <1>1 DEF SweepAhead
  <2>7. NoRival'
    BY <1>1, <2>2, <2>5, <2>6 DEF IInv, NoRival, Good, Db
  <2> QED
    BY Zenon, <2>2, <2>3, <2>4, <2>7 DEF IInv
<1>5. CASE worker.tx = None
  <2>1. db' = db /\ noTx' = noTx \cup {l}
    BY Zenon, <1>5 DEF StoreLock
  <2>2. noTx' \subseteq Lock
    BY Zenon, <1>2, <2>1 DEF IInv, Types
  <2> QED
    BY Zenon, <1>1, <1>3, <2>1, <2>2, WorkerSteps DEF IInv, Types, Worker, PcSet
<1> QED
  BY Zenon, <1>4, <1>5

LEMMA StoreMinedStep ==
    ASSUME IInv, StoreMined
    PROVE  IInv'
<1>1. /\ UNCHANGED <<tip, mempool, atmp, txindex, pending, noTx, cb>> /\ worker.pc = "mine"
      /\ worker' = [worker EXCEPT !.pc = "untrack", !.mined = None]
      /\ db' = WriteInstantSendLockMined(db, worker.lock, Height[worker.mined])
  BY Zenon DEF StoreMined, chainVars, poolVars, isVars
<1>2. worker.lock \in Lock /\ Height[worker.mined] \in 0 .. MaxHeight
  BY Zenon, <1>1, ChainTypes DEF IInv, Types
<1>3. Good(db') /\ db'.islocks = db.islocks
  BY Zenon, <1>1, <1>2, WriteMinedGood DEF IInv
<1>4. /\ worker' \in Worker /\ worker'.lock = worker.lock /\ worker'.tx = worker.tx
      /\ worker'.pc = "untrack"
  BY <1>1, Zenon DEF IInv, Types, Worker, PcSet
<1>5. noTx' \subseteq Lock
  BY Zenon, <1>1 DEF IInv, Types
<1> QED
  BY Zenon, <1>1, <1>3, <1>4, <1>5, WorkerSteps DEF PcSet

LEMMA ResolveSteps ==
    ASSUME IInv, UntrackLocked \/ CollectConflicts \/ JudgeConflicts
    PROVE  IInv'
<1>1. /\ UNCHANGED <<tip, mempool, atmp, txindex, pending, noTx, cb>>
      /\ worker.pc \in {"untrack", "resolve", "judge"}
      /\ \E pc \in {"resolve", "judge", "invalidate", "sweep"} : worker' = [worker EXCEPT !.pc = pc]
  BY Zenon DEF UntrackLocked, CollectConflicts, JudgeConflicts, chainVars, poolVars, isVars
<1>2. db' = db \/ db' = RemoveConflictingLock(db, {worker.lock})
  BY Zenon DEF UntrackLocked, CollectConflicts, JudgeConflicts
<1>3. worker.lock \in Lock
  BY Zenon, <1>1 DEF IInv, Types
<1>4. Good(db') /\ db'.islocks \subseteq db.islocks
  BY Zenon, <1>2, <1>3, RemovalGood DEF IInv
<1>5. /\ worker' \in Worker /\ worker'.lock = worker.lock /\ worker'.tx = worker.tx
      /\ worker'.pc \in {"resolve", "judge", "invalidate", "sweep"}
  BY Zenon, <1>1 DEF IInv, Types, Worker, PcSet
<1>6. noTx' \subseteq Lock
  BY Zenon, <1>1 DEF IInv, Types
<1> QED
  BY Zenon, <1>1, <1>4, <1>5, <1>6, WorkerSteps DEF PcSet
LEMMA InvalidateStep ==
    ASSUME IInv, NEW b \in Block, InvalidateBlock(b)
    PROVE  IInv'
<1>1. /\ UNCHANGED <<atmp, txindex, pending, noTx, cb, db>> /\ worker.pc = "invalidate"
      /\ \E pc \in {"invalidate", "sweep"} : worker' = [worker EXCEPT !.pc = pc]
  BY Zenon DEF InvalidateBlock, IInv, Types, Worker
<1>2. /\ worker' \in Worker /\ worker'.lock = worker.lock /\ worker'.tx = worker.tx
      /\ worker'.pc \in {"invalidate", "sweep"}
  BY Zenon, <1>1 DEF IInv, Types, Worker, PcSet
<1>3. \/ UNCHANGED <<tip, mempool>>
      \/ tip' = Parent[b] /\ mempool' = PoolAfter(Parent[b], db)
  BY Zenon DEF InvalidateBlock, MoveTip
<1>4. /\ tip' \in Block
      /\ \A t \in mempool' : t \in Tx /\ (t \in mempool \/ GetConflictingLock(db', t) = {})
  BY Zenon, <1>1, <1>3, ChainTypes, PoolAfterKeeps DEF IInv, Types
<1>5. Types'
  BY Zenon, <1>1, <1>2, <1>4 DEF IInv, Types
<1>6. OneOfItsTx'
  BY Zenon, <1>2 DEF OneOfItsTx
<1>7. \A l \in Lock : SweepAhead(l) => SweepAhead(l)'
  BY Zenon, <1>2 DEF SweepAhead
<1> QED
  BY Zenon, <1>1, <1>4, <1>5, <1>6, <1>7, Keeps DEF IInv

\* RemoveMempoolConflictsForLock leaves no conflict with the lock behind.
LEMMA SweptAll ==
    ASSUME NEW l, NEW t \in mempool, Conflict(t, TxOf[l])
    PROVE  t \in Swept(l)
  BY Zenon DEF Swept, WithDescendants, Closed

LEMMA SweepStep ==
    ASSUME IInv, WorkerSweep
    PROVE  IInv'
<1>1. /\ UNCHANGED <<tip, atmp, txindex, pending, noTx, cb, db>>
      /\ worker.pc = "sweep" /\ worker' = Asleep
  BY Zenon DEF WorkerSweep, chainVars
<1>2. \/ worker.tx # None /\ atmp = None /\ mempool' = mempool \ Swept(worker.lock)
      \/ worker.tx = None /\ mempool' = mempool
  BY SMTT(30) DEF WorkerSweep, SweepMempool, Free
<1>3. Types'
  BY SMTT(30), <1>1, <1>2 DEF IInv, Types, Worker, PcSet, Asleep
<1>4. OneOfItsTx'
  BY Zenon, <1>1 DEF OneOfItsTx, Asleep
<1>5. ASSUME NEW l \in db.islocks, NEW t \in Tx, t \in mempool' \/ t = atmp', Conflict(t, TxOf[l])
      PROVE  FALSE
  <2>1. t \in mempool \/ t = atmp
    BY Zenon, <1>1, <1>2, <1>5
  <2>2. worker.lock = l /\ worker.tx # None
    BY SMTT(30), <1>5, <2>1 DEF IInv, NoRival, SweepAhead
  <2>3. atmp = None /\ t \in mempool /\ t \notin Swept(l)
    BY SMTT(30), <1>1, <1>2, <1>5, <2>2, DbAssumption
  <2> QED
    BY Zenon, <1>5, <2>3, SweptAll
<1>6. NoRival'
  BY Zenon, <1>1, <1>5 DEF NoRival
<1> QED
  BY Zenon, <1>1, <1>3, <1>4, <1>6 DEF IInv

LEMMA Step == IInv /\ [Next]_vars => IInv'
<1> SUFFICES ASSUME IInv, [Next]_vars
             PROVE  IInv'
  BY SMTT(30)
<1>1. CASE UNCHANGED vars
  <2>1. UNCHANGED <<tip, mempool, atmp, txindex, pending, noTx, worker, cb, db>>
    BY Zenon, <1>1 DEF vars, chainVars, poolVars, isVars
  <2>2. Types'
    BY Zenon, <2>1 DEF IInv, Types
  <2> QED
    BY Zenon, <2>1, <2>2, Others DEF IInv
<1>2. CASE Validation
  BY <1>2, AcceptStep, RefuseStep, AddStep, ActivateStep, ChainLockSteps, Zenon DEF Validation
<1>3. CASE Scheduler
  BY Zenon, <1>3, AddedSteps, RemovedStep, ConnectedSteps, ConnectedEndStep, DisconnectedStep,
     ConfirmedStep, CleanupStep, Zenon DEF Scheduler
<1>4. CASE WorkThread
  BY Zenon, <1>4, TakeStep, LookupStep, CheckSameStep, StoreStep, StoreMinedStep, ResolveSteps,
     InvalidateStep, SweepStep, Zenon DEF WorkThread
<1> QED
  BY <1>1, <1>2, <1>3, <1>4, IncomingStep, CacheSteps, CrashStep, Zenon DEF Next

LEMMA Invariant == Spec => []IInv
  BY Initially, Step, PTL DEF Spec

\* Whatever is written, replaced, pruned, confirmed, cached or forgotten, and
\* across restarts: a lock of the CInstantSendDb is found by its hash, by its
\* transaction and by each of its inputs.
THEOREM LocksAreFound == Spec => []StoredLockIsFound
  BY Invariant, InvGivesFound, PTL

\* A transaction in the mempool conflicts with a stored lock only as long as
\* the worker that stored the lock has RemoveMempoolConflictsForLock ahead.
THEOREM NoRivalStays == Spec => []MempoolHasNoRival
  BY Invariant, InvGivesNoRival, PTL

-----------------------------------------------------------------------------
(* The other variables, and what HandleFullyConfirmedBlock leaves behind *)

Notice == [kind : {"added", "removed", "connected", "disconnected", "chainlock"},
           txs : SUBSET Tx, blocks : SUBSET Block]

Entry == [known : BOOLEAN, tx : BOOLEAN, mined : Block \cup {None}, children : SUBSET Tx]

Tracked == [txs : [Tx -> Entry], byOutpoint : [Outpoint -> Tx \cup {None}]]

Rest ==
    /\ failed \subseteq Block
    /\ chainLock \in Block \cup {None}
    /\ announced \in Block \cup {None}
    /\ queue \in Seq(Notice)
    /\ nonLocked \in Tracked
    /\ rivalBlocks \subseteq Block
    /\ cb.step = "track" => cb.tx \in Tx

\* The announced block is of the best ChainLock's chain, which grows until a
\* restart.
LockKnown == announced # None => chainLock # None /\ announced \in Chain[chainLock]

NoteAhead == \E i \in DOMAIN queue : queue[i].kind = "chainlock" /\ announced \in queue[i].blocks

CleanupAhead == NoteAhead \/ (cb.step = "cleanup" /\ cb.block = announced)

\* Once the cleanup of the announced block is behind, nothing is tracked as
\* mined in its chain, nor about to be.
Unconfirmed ==
    announced # None /\ ~CleanupAhead =>
        /\ \A t \in Tx : nonLocked.txs[t].mined \notin Chain[announced]
        /\ cb.step = "unlocked" => cb.block \notin Chain[announced]

ConfInv == Rest /\ LockKnown /\ Unconfirmed

LEMMA ChainFacts ==
    ASSUME NEW b \in Block
    PROVE  /\ Chain[b] \subseteq Block
           /\ b \in Chain[b]
           /\ \A c \in Chain[b] : Chain[c] \subseteq Chain[b]
           /\ None \notin Chain[b]
<1>1. \A a \in Block : Chain[a] = {c \in Block : \A S \in SUBSET Block :
                        a \in S /\ (\A x \in S \ {Genesis} : Parent[x] \in S) => c \in S}
  BY Zenon DEF Chain
<1> HIDE DEF Chain
<1>2. Chain[b] \subseteq Block /\ b \in Chain[b]
  BY Zenon, <1>1
<1>3. \A c \in Chain[b] : Chain[c] \subseteq Chain[b]
  BY Zenon, <1>1, <1>2
<1> QED
  BY Zenon, <1>2, <1>3, ChainAssumption

LEMMA NoteType ==
    ASSUME NEW k \in {"added", "removed", "connected", "disconnected", "chainlock"},
           NEW T \in SUBSET Tx, NEW S \in SUBSET Block
    PROVE  Note(k, T, S) \in Seq(Notice)
<1>1. [kind |-> k, txs |-> T, blocks |-> S] \in Notice
  BY Zenon DEF Notice
<1> DEFINE n == [kind |-> k, txs |-> T, blocks |-> S]
<1>2. Note(k, T, S) \in {<<>>, <<n>>}
  BY Zenon DEF Note
<1> HIDE DEF n
<1>3. n \in Notice
  BY Zenon, <1>1 DEF n
<1>4. <<>> \in Seq(Notice) /\ <<n>> \in Seq(Notice)
  BY <1>3
<1> QED
  BY Zenon, <1>2, <1>4

\* The notices of p are still there, in their places.
Grown(p, q) == q \in Seq(Notice) /\ \A i \in DOMAIN p : i \in DOMAIN q /\ q[i] = p[i]

LEMMA GrownBy ==
    ASSUME NEW p \in Seq(Notice), NEW s \in Seq(Notice)
    PROVE  Grown(p, p \o s)
  BY DEF Grown

LEMMA GrownOn ==
    ASSUME NEW p, NEW q, NEW s \in Seq(Notice), Grown(p, q)
    PROVE  Grown(p, q \o s)
<1>1. Grown(q, q \o s)
  BY Zenon, GrownBy DEF Grown
<1> QED
  BY Zenon, <1>1 DEF Grown

\* Taking from the first notice leaves the others, and what was not taken.
LEMMA HeadReplaced ==
    ASSUME NEW p \in Seq(Notice), p # <<>>, NEW s \in Seq(Notice)
    PROVE  /\ s \o Tail(p) \in Seq(Notice)
           /\ \A i \in DOMAIN p : i # 1 => \E j \in DOMAIN (s \o Tail(p)) : (s \o Tail(p))[j] = p[i]
           /\ \A i \in DOMAIN s : i \in DOMAIN (s \o Tail(p)) /\ (s \o Tail(p))[i] = s[i]
           /\ Head(p) = p[1] /\ Head(p) \in Notice
<1>1. s \o Tail(p) \in Seq(Notice) /\ Head(p) = p[1] /\ Head(p) \in Notice
  OBVIOUS
<1>2. \A i \in DOMAIN s : i \in DOMAIN (s \o Tail(p)) /\ (s \o Tail(p))[i] = s[i]
  OBVIOUS
<1>3. ASSUME NEW i \in DOMAIN p, i # 1
      PROVE  \E j \in DOMAIN (s \o Tail(p)) : (s \o Tail(p))[j] = p[i]
  <2>1. i - 1 \in 1 .. Len(Tail(p)) /\ Tail(p)[i - 1] = p[i]
    BY <1>3
  <2>2. Len(s) + (i - 1) \in DOMAIN (s \o Tail(p))
    BY <1>3, <2>1
  <2>3. (s \o Tail(p))[Len(s) + (i - 1)] = Tail(p)[i - 1]
    BY <1>3, <2>1
  <2> QED
    BY Zenon, <2>1, <2>2, <2>3
<1> QED
  BY Zenon, <1>1, <1>2, <1>3

-----------------------------------------------------------------------------
(* nonLockedTxs *)

\* Entries keep their block or lose it.
Stays(n, m) == \A t \in Tx : m.txs[t].mined \in {n.txs[t].mined, None}

LEMMA EntryFields ==
    ASSUME NEW e \in Entry
    PROVE  e.known \in BOOLEAN /\ e.tx \in BOOLEAN /\ e.mined \in Block \cup {None}
           /\ e.children \in SUBSET Tx
  BY Zenon DEF Entry

LEMMA NoEntryType == NoEntry \in Entry /\ NoEntry.mined = None
  BY Zenon DEF NoEntry, Entry

LEMMA ChildrenChanged ==
    ASSUME NEW e \in Entry, NEW C \in SUBSET Tx
    PROVE  /\ [e EXCEPT !.children = C] \in Entry
           /\ [e EXCEPT !.children = C].mined = e.mined
           /\ [e EXCEPT !.known = TRUE, !.children = C] \in Entry
           /\ [e EXCEPT !.known = TRUE, !.children = C].mined = e.mined
  BY Zenon DEF Entry

LEMMA TrackedRecord ==
    ASSUME NEW f \in [Tx -> Entry], NEW g \in [Outpoint -> Tx \cup {None}]
    PROVE  [txs |-> f, byOutpoint |-> g] \in Tracked /\ [txs |-> f, byOutpoint |-> g].txs = f
  BY Zenon DEF Tracked

LEMMA UntrackKeeps ==
    ASSUME NEW n \in Tracked, NEW T
    PROVE  /\ Untrack(T, n) \in Tracked
           /\ Stays(n, Untrack(T, n))
           /\ \A t \in Tx : t \in T => Untrack(T, n).txs[t].mined = None
<1> DEFINE spenders == {t \in T : n.txs[t].tx}
           gone(s)  == {t \in spenders : s \in Parents(t)}
           empty(s) == gone(s) # {} /\ ~n.txs[s].tx /\ n.txs[s].children \subseteq gone(s)
           entry(s) == IF s \in T \/ empty(s) THEN NoEntry
                       ELSE [n.txs[s] EXCEPT !.children = @ \ gone(s)]
           coin(o)  == IF \E t \in spenders : o \in Inputs[t] THEN None ELSE n.byOutpoint[o]
<1>1. Untrack(T, n) = [txs |-> [s \in Tx |-> entry(s)], byOutpoint |-> [o \in Outpoint |-> coin(o)]]
  BY Zenon DEF Untrack
<1>2. n.txs \in [Tx -> Entry] /\ n.byOutpoint \in [Outpoint -> Tx \cup {None}]
  BY Zenon DEF Tracked
<1>3. \A o \in Outpoint : coin(o) \in Tx \cup {None}
  BY Zenon, <1>2
<1>4. ASSUME NEW s \in Tx
      PROVE  /\ entry(s) \in Entry
             /\ entry(s).mined \in {n.txs[s].mined, None}
             /\ s \in T => entry(s).mined = None
  <2>1. n.txs[s] \in Entry
    BY Zenon, <1>2
  <2>2. n.txs[s].children \ gone(s) \in SUBSET Tx
    BY Zenon, <2>1, EntryFields
  <2>3. /\ [n.txs[s] EXCEPT !.children = @ \ gone(s)] \in Entry
        /\ [n.txs[s] EXCEPT !.children = @ \ gone(s)].mined = n.txs[s].mined
    BY Zenon, <2>1, <2>2, ChildrenChanged
  <2> QED
    BY Zenon, <2>3, NoEntryType
<1> HIDE DEF entry, coin
<1> DEFINE f == [s \in Tx |-> entry(s)]
           g == [o \in Outpoint |-> coin(o)]
<1>5. f \in [Tx -> Entry] /\ g \in [Outpoint -> Tx \cup {None}] /\ \A s \in Tx : f[s] = entry(s)
  BY Zenon, <1>3, <1>4
<1> HIDE DEF f, g
<1>6. Untrack(T, n) = [txs |-> f, byOutpoint |-> g]
  BY Zenon, <1>1 DEF f, g
<1>7. Untrack(T, n) \in Tracked /\ Untrack(T, n).txs = f
  BY Zenon, <1>5, <1>6, TrackedRecord
<1> QED
  BY Zenon, <1>4, <1>5, <1>7 DEF Stays

LEMMA TrackKeeps ==
    ASSUME NEW n \in Tracked, NEW t \in Tx, NEW b \in Block \cup {None}
    PROVE  /\ Track(n, t, b) \in Tracked
           /\ \A s \in Tx : Track(n, t, b).txs[s].mined \in {n.txs[s].mined, b}
<1>2. n.txs \in [Tx -> Entry] /\ n.byOutpoint \in [Outpoint -> Tx \cup {None}]
  BY Zenon DEF Tracked
<1>3. CASE n.txs[t].known
  <2>1. Track(n, t, b) = [n EXCEPT !.txs[t].mined = b]
    BY Zenon, <1>3 DEF Track
  <2>2. n.txs[t] \in Entry
    BY Zenon, <1>2
  <2>3. [n.txs[t] EXCEPT !.mined = b] \in Entry /\ [n.txs[t] EXCEPT !.mined = b].mined = b
    BY Zenon, <2>2 DEF Entry
  <2> DEFINE e == [n.txs[t] EXCEPT !.mined = b]
             f == [n.txs EXCEPT ![t] = e]
  <2>4. Track(n, t, b) = [n EXCEPT !.txs = f]
    BY Zenon, <2>1
  <2> HIDE DEF e
  <2>5. f \in [Tx -> Entry] /\ \A s \in Tx : f[s] = IF s = t THEN e ELSE n.txs[s]
    BY Zenon, <1>2, <2>3 DEF e
  <2> HIDE DEF f
  <2>6. Track(n, t, b) \in Tracked /\ Track(n, t, b).txs = f
    BY Zenon, <1>2, <2>4, <2>5 DEF Tracked
  <2> QED
    BY Zenon, <2>3, <2>5, <2>6 DEF e
<1>4. CASE ~n.txs[t].known
  <2> DEFINE new      == [known |-> TRUE, tx |-> TRUE, mined |-> b, children |-> {}]
             entry(s) == IF s = t THEN new
                         ELSE IF s \in Parents(t)
                           THEN [n.txs[s] EXCEPT !.known = TRUE, !.children = @ \cup {t}]
                           ELSE n.txs[s]
             coin(o)  == IF o \in Inputs[t] /\ n.byOutpoint[o] = None THEN t ELSE n.byOutpoint[o]
  <2>1. Track(n, t, b) = [txs |-> [s \in Tx |-> entry(s)], byOutpoint |-> [o \in Outpoint |-> coin(o)]]
    BY Zenon, <1>4 DEF Track
  <2>2. \A o \in Outpoint : coin(o) \in Tx \cup {None}
    BY Zenon, <1>2
  <2>3. ASSUME NEW s \in Tx
        PROVE  entry(s) \in Entry /\ entry(s).mined \in {n.txs[s].mined, b}
    <3>1. n.txs[s] \in Entry
      BY Zenon, <1>2
    <3>2. n.txs[s].children \cup {t} \in SUBSET Tx
      BY Zenon, <3>1, EntryFields
    <3>3. /\ [n.txs[s] EXCEPT !.known = TRUE, !.children = @ \cup {t}] \in Entry
          /\ [n.txs[s] EXCEPT !.known = TRUE, !.children = @ \cup {t}].mined = n.txs[s].mined
      BY Zenon, <3>1, <3>2, ChildrenChanged
    <3>4. new \in Entry /\ new.mined = b
      BY Zenon DEF Entry
    <3> QED
      BY Zenon, <3>1, <3>3, <3>4
  <2> HIDE DEF entry, coin
  <2> DEFINE f == [s \in Tx |-> entry(s)]
             g == [o \in Outpoint |-> coin(o)]
  <2>4. f \in [Tx -> Entry] /\ g \in [Outpoint -> Tx \cup {None}] /\ \A s \in Tx : f[s] = entry(s)
    BY Zenon, <2>2, <2>3
  <2> HIDE DEF f, g
  <2>5. Track(n, t, b) = [txs |-> f, byOutpoint |-> g]
    BY Zenon, <2>1 DEF f, g
  <2>6. Track(n, t, b) \in Tracked /\ Track(n, t, b).txs = f
    BY Zenon, <2>4, <2>5, TrackedRecord
  <2> QED
    BY Zenon, <2>3, <2>4, <2>6
<1> QED
  BY Zenon, <1>3, <1>4

LEMMA NothingTrackedType == NothingTracked \in Tracked
  BY Zenon, NoEntryType DEF NothingTracked, Tracked

-----------------------------------------------------------------------------
(* What the steps do to it *)

LEMMA Kept ==
    ASSUME ConfInv, Rest', announced' = announced, chainLock' = chainLock,
           CleanupAhead => CleanupAhead', Stays(nonLocked, nonLocked'),
           cb'.step = "unlocked" => cb.step = "unlocked" /\ cb'.block = cb.block
    PROVE  ConfInv'
<1>1. LockKnown'
  BY Zenon DEF ConfInv, LockKnown
<1>2. ASSUME announced # None, ~CleanupAhead'
      PROVE  /\ \A t \in Tx : nonLocked'.txs[t].mined \notin Chain[announced]
             /\ cb'.step = "unlocked" => cb'.block \notin Chain[announced]
  <2>1. /\ \A t \in Tx : nonLocked.txs[t].mined \notin Chain[announced]
        /\ cb.step = "unlocked" => cb.block \notin Chain[announced]
    BY Zenon, <1>2 DEF ConfInv, Unconfirmed
  <2>2. None \notin Chain[announced]
    BY Zenon, <1>2, ChainFacts DEF ConfInv, Rest
  <2> QED
    BY Zenon, <2>1, <2>2 DEF Stays
<1>3. Unconfirmed'
  BY Zenon, <1>2 DEF Unconfirmed
<1> QED
  BY Zenon, <1>1, <1>3 DEF ConfInv

LEMMA NothingMoves ==
    ASSUME ConfInv, UNCHANGED <<failed, chainLock, announced, queue, nonLocked, cb>>,
           rivalBlocks' \subseteq Block
    PROVE  ConfInv'
<1>1. Rest'
  BY Zenon DEF ConfInv, Rest
<1>2. CleanupAhead => CleanupAhead'
  BY Zenon DEF CleanupAhead, NoteAhead
<1> QED
  BY Zenon, <1>1, <1>2, Kept DEF Stays

LEMMA Appended ==
    ASSUME ConfInv, Grown(queue, queue'), UNCHANGED <<chainLock, announced, cb>>,
           failed' \subseteq Block, rivalBlocks' \subseteq Block,
           nonLocked' \in Tracked, Stays(nonLocked, nonLocked')
    PROVE  ConfInv'
<1>1. Rest'
  BY Zenon DEF ConfInv, Rest, Grown
<1>2. NoteAhead => NoteAhead'
  BY Zenon DEF NoteAhead, Grown
<1>3. CleanupAhead => CleanupAhead'
  BY Zenon, <1>2 DEF CleanupAhead
<1> QED
  BY Zenon, <1>1, <1>3, Kept

LEMMA TakeTxKeeps ==
    ASSUME Rest, NEW k \in {"added", "removed"}, Due(k), NEW t, TakeTx(t), announced' = announced
    PROVE  /\ queue' \in Seq(Notice)
           /\ NoteAhead => NoteAhead'
           /\ t \in Tx
<1> DEFINE n == Head(queue)
           s == Note(n.kind, n.txs \ {t}, {})
<1>1. queue \in Seq(Notice) /\ queue # <<>> /\ queue' = s \o Tail(queue) /\ n.kind = k /\ t \in n.txs
  BY Zenon DEF Rest, Due, TakeTx
<1>2. n \in Notice /\ n = queue[1]
  BY Zenon, <1>1, HeadReplaced, EmptySeq
<1>3. n.txs \in SUBSET Tx
  BY Zenon, <1>2 DEF Notice
<1>4. s \in Seq(Notice)
  BY Zenon, <1>1, <1>3, NoteType
<1> HIDE DEF s, n
<1>5. /\ s \o Tail(queue) \in Seq(Notice)
      /\ \A i \in DOMAIN queue : i # 1 =>
            \E j \in DOMAIN (s \o Tail(queue)) : (s \o Tail(queue))[j] = queue[i]
  BY Zenon, <1>1, <1>4, HeadReplaced
<1>6. ASSUME NoteAhead PROVE NoteAhead'
  <2>1. PICK i \in DOMAIN queue : queue[i].kind = "chainlock" /\ announced \in queue[i].blocks
    BY Zenon, <1>6 DEF NoteAhead
  <2>2. i # 1
    BY Zenon, <1>1, <1>2, <2>1
  <2>3. PICK j \in DOMAIN queue' : queue'[j] = queue[i]
    BY Zenon, <1>1, <1>5, <2>2
  <2> QED
    BY Zenon, <2>1, <2>3 DEF NoteAhead
<1> QED
  BY Zenon, <1>1, <1>3, <1>5, <1>6

LEMMA TakeBlockKeeps ==
    ASSUME Rest, NEW k \in {"connected", "disconnected", "chainlock"}, Due(k), NEW b, TakeBlock(b), announced' = announced
    PROVE  /\ queue' \in Seq(Notice)
           /\ NoteAhead => NoteAhead' \/ (k = "chainlock" /\ b = announced)
           /\ b \in Block
<1> DEFINE n    == Head(queue)
           left == n.blocks \ {b}
           s    == IF left = {} THEN <<>> ELSE Note(n.kind, n.txs, left)
<1>1. queue \in Seq(Notice) /\ queue # <<>> /\ queue' = s \o Tail(queue) /\ n.kind = k /\ b \in n.blocks
  BY Zenon DEF Rest, Due, TakeBlock
<1>2. n \in Notice /\ n = queue[1]
  BY Zenon, <1>1, HeadReplaced, EmptySeq
<1>3. /\ n.txs \in SUBSET Tx /\ n.blocks \in SUBSET Block
      /\ n.kind \in {"added", "removed", "connected", "disconnected", "chainlock"}
  BY Zenon, <1>2 DEF Notice
<1>4. Note(n.kind, n.txs, left) \in Seq(Notice)
  BY Zenon, <1>3, NoteType
<1>5. s \in Seq(Notice)
  BY Zenon, <1>4, EmptySeq
<1> DEFINE r == [kind |-> n.kind, txs |-> n.txs, blocks |-> left]
<1>6. ASSUME left # {} PROVE s = <<r>>
  <2>1. n.txs \cup left # {}
    BY Zenon, <1>6
  <2> QED
    BY Zenon, <1>6, <2>1 DEF Note
<1>7. \A x : 1 \in DOMAIN <<x>> /\ <<x>>[1] = x
  OBVIOUS
<1>8. r.kind = n.kind /\ r.blocks = left
  BY Zenon
<1> HIDE DEF r
<1>9. left # {} => 1 \in DOMAIN s /\ s[1] = r
  BY Zenon, <1>6, <1>7
<1> HIDE DEF s, n
<1>10. /\ s \o Tail(queue) \in Seq(Notice)
       /\ \A i \in DOMAIN queue : i # 1 =>
             \E j \in DOMAIN (s \o Tail(queue)) : (s \o Tail(queue))[j] = queue[i]
       /\ \A i \in DOMAIN s : i \in DOMAIN (s \o Tail(queue)) /\ (s \o Tail(queue))[i] = s[i]
  BY Zenon, <1>1, <1>5, HeadReplaced
<1>11. ASSUME NoteAhead, ~(k = "chainlock" /\ b = announced) PROVE NoteAhead'
  <2>1. PICK i \in DOMAIN queue : queue[i].kind = "chainlock" /\ announced \in queue[i].blocks
    BY Zenon, <1>11 DEF NoteAhead
  <2>2. CASE i = 1
    <3>1. n.kind = "chainlock" /\ announced \in left
      BY Zenon, <1>1, <1>2, <1>11, <2>1, <2>2
    <3>2. left # {}
      BY Zenon, <3>1
    <3>3. 1 \in DOMAIN s /\ s[1] = r
      BY Zenon, <1>9, <3>2
    <3>4. 1 \in DOMAIN queue' /\ queue'[1] = r
      BY Zenon, <1>1, <1>10, <3>3
    <3> QED
      BY Zenon, <1>8, <3>1, <3>4 DEF NoteAhead
  <2>3. CASE i # 1
    <3>1. PICK j \in DOMAIN queue' : queue'[j] = queue[i]
      BY Zenon, <1>1, <1>10, <2>3
    <3> QED
      BY Zenon, <2>1, <3>1 DEF NoteAhead
  <2> QED
    BY Zenon, <2>2, <2>3
<1> QED
  BY Zenon, <1>1, <1>3, <1>10, <1>11

LEMMA MoveTipGrows ==
    ASSUME Types, Rest, NEW b \in Block, NEW d, MoveTip(b, d)
    PROVE  Grown(queue, queue')
<1> DEFINE pool       == PoolAfter(b, d)
           removed    == mempool \ (pool \cup ChainTxs(b))
           conflicted == WithDescendants({t \in mempool : \E s \in ChainTxs(b) : Conflict(s, t)})
           n1 == Note("disconnected", {}, Chain[tip] \ Chain[b])
           n2 == Note("removed", removed, {})
           n3 == Note("added", pool \ mempool, {})
           n4 == IF b \in Chain[tip] THEN <<>>
                 ELSE Note("connected", conflicted, Chain[b] \ Chain[tip])
<1>1. queue' = queue \o n1 \o n2 \o n3 \o n4
  BY Zenon DEF MoveTip
<1>2. pool \in SUBSET Tx /\ removed \in SUBSET Tx /\ conflicted \in SUBSET Tx
  BY Zenon, PoolAfterKeeps DEF Types, WithDescendants
<1>3. Chain[tip] \in SUBSET Block /\ Chain[b] \in SUBSET Block
  BY Zenon, ChainFacts DEF Types
<1> HIDE DEF pool, removed, conflicted
<1>4. n1 \in Seq(Notice)
  BY Zenon, <1>3, NoteType
<1>5. n2 \in Seq(Notice) /\ n3 \in Seq(Notice)
  BY Zenon, <1>2, NoteType
<1>6. Note("connected", conflicted, Chain[b] \ Chain[tip]) \in Seq(Notice)
  BY Zenon, <1>2, <1>3, NoteType
<1>7. n4 \in Seq(Notice)
  BY Zenon, <1>6, EmptySeq
<1> HIDE DEF n1, n2, n3, n4
<1>8. Grown(queue, queue \o n1)
  BY Zenon, <1>4, GrownBy DEF Rest
<1>9. Grown(queue, queue \o n1 \o n2)
  BY Zenon, <1>5, <1>8, GrownOn
<1>10. Grown(queue, queue \o n1 \o n2 \o n3)
  BY Zenon, <1>5, <1>9, GrownOn
<1> QED
  BY Zenon, <1>1, <1>7, <1>10, GrownOn

LEMMA Sweeps ==
    ASSUME IInv, ConfInv, NEW l, SweepMempool(l)
    PROVE  /\ Grown(queue, queue')
           /\ nonLocked' \in Tracked
           /\ Stays(nonLocked, nonLocked')
<1>1. Swept(l) \in SUBSET Tx
  BY Zenon DEF IInv, Types, Swept, WithDescendants
<1>2. Note("removed", Swept(l), {}) \in Seq(Notice)
  BY Zenon, <1>1, NoteType
<1>3. Grown(queue, queue')
  BY Zenon, <1>2, GrownBy DEF ConfInv, Rest, SweepMempool, Enqueue
<1> QED
  BY Zenon, <1>3, UntrackKeeps DEF ConfInv, Rest, SweepMempool

LEMMA ConfirmedValidation ==
    ASSUME IInv, ConfInv, Validation
    PROVE  ConfInv'
<1>1. ASSUME NEW t \in Tx, AcceptToMemoryPool(t) PROVE ConfInv'
  <2> DEFINE out == WithDescendants({s \in mempool : Conflict(s, t)})
  <2>1. out \in SUBSET Tx
    BY Zenon DEF IInv, Types, WithDescendants
  <2>2. Note("removed", out, {}) \in Seq(Notice)
    BY Zenon, <2>1, NoteType
  <2>3. Grown(queue, queue')
    BY Zenon, <1>1, <2>2, GrownBy DEF ConfInv, Rest, AcceptToMemoryPool, Admit, Enqueue
  <2>4. UNCHANGED <<failed, chainLock, announced, nonLocked, cb, rivalBlocks>>
    BY Zenon, <1>1 DEF AcceptToMemoryPool, Admit, chainVars, isVars
  <2> QED
    BY Zenon, <2>3, <2>4, Appended DEF ConfInv, Rest, Stays
<1>2. ASSUME NEW t \in Tx, RefuseTx(t) PROVE ConfInv'
  <2>1. UNCHANGED <<failed, chainLock, announced, queue, nonLocked, cb, rivalBlocks>>
    BY Zenon, <1>2 DEF RefuseTx, chainVars, isVars
  <2> QED
    BY Zenon, <2>1, NothingMoves DEF ConfInv, Rest
<1>3. ASSUME AddToMempool PROVE ConfInv'
  <2>1. {atmp} \in SUBSET Tx
    BY Zenon, <1>3 DEF IInv, Types, AddToMempool, Free
  <2>2. Note("added", {atmp}, {}) \in Seq(Notice)
    BY Zenon, <2>1, NoteType
  <2>3. Grown(queue, queue')
    BY Zenon, <1>3, <2>2, GrownBy DEF ConfInv, Rest, AddToMempool, Enqueue
  <2>4. UNCHANGED <<failed, chainLock, announced, nonLocked, cb, rivalBlocks>>
    BY Zenon, <1>3 DEF AddToMempool, chainVars, isVars
  <2> QED
    BY Zenon, <2>3, <2>4, Appended DEF ConfInv, Rest, Stays
<1>4. ASSUME NEW b \in Block, ActivateBestChain(b) PROVE ConfInv'
  <2>1. UNCHANGED <<chainLock, announced, nonLocked, cb, rivalBlocks>>
    BY Zenon, <1>4 DEF ActivateBestChain, isVars
  <2>2. failed' \subseteq Block
    <3>1. failed' \in {failed, failed \cup UNION {Descendants(c) : c \in Rejected(b)}}
      BY Zenon, <1>4 DEF ActivateBestChain
    <3>2. UNION {Descendants(c) : c \in Rejected(b)} \subseteq Block
      BY Zenon DEF Descendants
    <3> QED
      BY Zenon, <3>1, <3>2 DEF ConfInv, Rest
  <2>3. queue' = queue \/ MoveTip(b, db')
    BY Zenon, <1>4 DEF ActivateBestChain
  <2>4. Grown(queue, queue)
    BY Zenon DEF Grown, ConfInv, Rest
  <2>5. Grown(queue, queue')
    BY Zenon, <2>3, <2>4, MoveTipGrows DEF IInv, ConfInv
  <2> QED
    BY Zenon, <2>1, <2>2, <2>5, Appended DEF ConfInv, Rest, Stays
<1>5. ASSUME NEW b \in Block, NewChainLock(b) PROVE ConfInv'
  <2>1. UNCHANGED <<failed, announced, queue, nonLocked, cb, rivalBlocks>> /\ chainLock' = b
    BY Zenon, <1>5 DEF NewChainLock, isVars
  <2>2. Rest'
    BY Zenon, <2>1 DEF ConfInv, Rest
  <2>3. Unconfirmed'
    BY Zenon, <2>1 DEF ConfInv, Unconfirmed, CleanupAhead, NoteAhead
  <2>4. ASSUME announced # None PROVE announced \in Chain[b]
    <3>1. chainLock # None /\ announced \in Chain[chainLock]
      BY Zenon, <2>4 DEF ConfInv, LockKnown
    <3>2. chainLock \in Chain[b]
      BY Zenon, <1>5, <3>1 DEF NewChainLock
    <3> QED
      BY Zenon, <3>1, <3>2, ChainFacts
  <2>5. LockKnown'
    BY Zenon, <2>1, <2>4, ChainAssumption DEF LockKnown
  <2> QED
    BY Zenon, <2>2, <2>3, <2>5 DEF ConfInv
<1>6. ASSUME EnforceBestChainLock PROVE ConfInv'
  <2>1. UNCHANGED <<chainLock, nonLocked, cb, rivalBlocks>> /\ chainLock \in Block
    BY Zenon, <1>6 DEF EnforceBestChainLock, isVars, ConfInv, Rest
  <2>2. failed' \subseteq Block
    BY Zenon, <1>6 DEF EnforceBestChainLock, ConfInv, Rest
  <2>3. CASE UNCHANGED <<announced, queue>>
    <3>1. Grown(queue, queue')
      BY Zenon, <2>3 DEF Grown, ConfInv, Rest
    <3> QED
      BY Zenon, <2>1, <2>2, <2>3, <3>1, Appended DEF ConfInv, Rest, Stays
  <2>4. CASE announced' = chainLock /\ Enqueue(Note("chainlock", {}, {chainLock}))
    <3> DEFINE r == [kind |-> "chainlock", txs |-> {}, blocks |-> {chainLock}]
    <3>1. Note("chainlock", {}, {chainLock}) = <<r>>
      BY Zenon DEF Note
    <3>2. <<r>> \in Seq(Notice)
      BY Zenon, <2>1, <3>1, NoteType
    <3>3. queue' = queue \o <<r>>
      BY Zenon, <2>4, <3>1 DEF Enqueue
    <3>4. r.kind = "chainlock" /\ chainLock \in r.blocks
      BY Zenon
    <3> HIDE DEF r
    <3>5. queue \in Seq(Notice)
      BY Zenon DEF ConfInv, Rest
    <3>6. /\ queue' \in Seq(Notice)
          /\ Len(queue) + 1 \in DOMAIN queue'
          /\ queue'[Len(queue) + 1] = r
      BY ONLY <3>2, <3>3, <3>5
    <3>7. NoteAhead'
      BY Zenon, <2>4, <3>4, <3>6 DEF NoteAhead
    <3>8. Rest'
      BY Zenon, <2>1, <2>2, <2>4, <3>6 DEF ConfInv, Rest
    <3>9. LockKnown'
      BY Zenon, <2>1, <2>4, ChainFacts, ChainAssumption DEF LockKnown
    <3>10. Unconfirmed'
      BY Zenon, <3>7 DEF Unconfirmed, CleanupAhead
    <3> QED
      BY Zenon, <3>8, <3>9, <3>10 DEF ConfInv
  <2> QED
    BY Zenon, <1>6, <2>3, <2>4 DEF EnforceBestChainLock
<1> QED
  BY Zenon, <1>1, <1>2, <1>3, <1>4, <1>5, <1>6 DEF Validation

LEMMA ConfirmedAdded ==
    ASSUME IInv, ConfInv,
           \/ \E t \in Tx : TransactionAddedToMempool(t) \/ TransactionRemovedFromMempool(t)
           \/ AddedTrack
           \/ AddedSweep
    PROVE  ConfInv'
<1>1. ASSUME NEW t \in Tx, TransactionAddedToMempool(t) \/ TransactionRemovedFromMempool(t)
      PROVE  ConfInv'
  <2>1. UNCHANGED <<failed, chainLock, announced, nonLocked, rivalBlocks>>
    BY Zenon, <1>1 DEF TransactionAddedToMempool, TransactionRemovedFromMempool, chainVars, isVars
  <2>2. PICK k \in {"added", "removed"} : Due(k)
    BY Zenon, <1>1 DEF TransactionAddedToMempool, TransactionRemovedFromMempool
  <2>3. TakeTx(t)
    BY Zenon, <1>1 DEF TransactionAddedToMempool, TransactionRemovedFromMempool
  <2>4. queue' \in Seq(Notice) /\ (NoteAhead => NoteAhead')
    BY Zenon, <2>1, <2>2, <2>3, TakeTxKeeps DEF ConfInv
  <2>5. cb' = cb \/ (cb'.step = "track" /\ cb'.tx = t) \/ cb'.step = "sweep"
    BY Zenon, <1>1 DEF TransactionAddedToMempool, TransactionRemovedFromMempool, IInv, Types, Callback
  <2>6. CleanupAhead => CleanupAhead'
    BY Zenon, <2>2, <2>4 DEF CleanupAhead, Due
  <2>7. Rest'
    BY Zenon, <2>1, <2>4, <2>5 DEF ConfInv, Rest
  <2> QED
    BY Zenon, <2>1, <2>5, <2>6, <2>7, Kept DEF Stays
<1>2. ASSUME AddedTrack PROVE ConfInv'
  <2>1. UNCHANGED <<failed, chainLock, announced, queue, rivalBlocks>> /\ cb' = CbIdle
    BY Zenon, <1>2 DEF AddedTrack, chainVars
  <2>2. nonLocked' = Track(nonLocked, cb.tx, None) /\ cb.tx \in Tx
    BY Zenon, <1>2 DEF AddedTrack, AddNonLockedTx, ConfInv, Rest
  <2>3. nonLocked' \in Tracked /\ Stays(nonLocked, nonLocked')
    BY Zenon, <2>2, TrackKeeps DEF Stays, ConfInv, Rest
  <2>4. Rest'
    BY Zenon, <2>1, <2>3 DEF ConfInv, Rest, CbIdle
  <2>5. CleanupAhead => CleanupAhead'
    BY Zenon, <1>2, <2>1 DEF CleanupAhead, NoteAhead, AddedTrack
  <2> QED
    BY Zenon, <2>1, <2>3, <2>4, <2>5, Kept DEF CbIdle
<1>3. ASSUME AddedSweep PROVE ConfInv'
  <2>1. UNCHANGED <<failed, chainLock, announced, rivalBlocks>> /\ cb' = CbIdle
    BY Zenon, <1>3 DEF AddedSweep, chainVars
  <2>2. /\ Grown(queue, queue')
        /\ nonLocked' \in Tracked
        /\ Stays(nonLocked, nonLocked')
    BY Zenon, <1>3, Sweeps DEF AddedSweep
  <2>3. Rest'
    BY Zenon, <2>1, <2>2 DEF ConfInv, Rest, Grown, CbIdle
  <2>4. NoteAhead => NoteAhead'
    BY Zenon, <2>1, <2>2 DEF NoteAhead, Grown
  <2>5. CleanupAhead => CleanupAhead'
    BY Zenon, <1>3, <2>4 DEF CleanupAhead, AddedSweep
  <2> QED
    BY Zenon, <2>1, <2>2, <2>3, <2>5, Kept DEF CbIdle
<1> QED
  BY Zenon, <1>1, <1>2, <1>3

\* A transaction is about to be tracked in a block only without a ChainLock
\* on it, and the announced block is of the ChainLock's chain.
LEMMA ConfirmedConnected ==
    ASSUME IInv, ConfInv,
           \/ \E b \in Block : BlockConnected(b) \/ BlockDisconnected(b)
           \/ ConnectedTx
           \/ ConnectedTrack
           \/ ConnectedEnd
    PROVE  ConfInv'
<1>1. ASSUME NEW b \in Block, BlockConnected(b) \/ BlockDisconnected(b) PROVE ConfInv'
  <2>1. UNCHANGED <<failed, chainLock, announced, rivalBlocks>> /\ TakeBlock(b)
    BY Zenon, <1>1 DEF BlockConnected, BlockDisconnected, chainVars
  <2>2. PICK k \in {"connected", "disconnected"} : Due(k)
    BY Zenon, <1>1 DEF BlockConnected, BlockDisconnected
  <2>3. queue' \in Seq(Notice) /\ (NoteAhead => NoteAhead')
    BY Zenon, <2>1, <2>2, TakeBlockKeeps DEF ConfInv
  <2>4. nonLocked' = nonLocked \/ nonLocked' = Untrack(Head(queue).txs, nonLocked)
    BY Zenon, <1>1 DEF BlockConnected, BlockDisconnected, isVars
  <2>5. nonLocked' \in Tracked /\ Stays(nonLocked, nonLocked')
    BY Zenon, <2>4, UntrackKeeps DEF ConfInv, Rest, Stays
  <2>6. cb' = cb \/ cb'.step = "txs"
    BY Zenon, <1>1 DEF BlockConnected, BlockDisconnected, IInv, Types, Callback
  <2>7. CleanupAhead => CleanupAhead'
    BY Zenon, <2>2, <2>3 DEF CleanupAhead, Due
  <2>8. Rest'
    BY Zenon, <2>1, <2>3, <2>5, <2>6 DEF ConfInv, Rest
  <2> QED
    BY Zenon, <2>1, <2>5, <2>6, <2>7, <2>8, Kept
<1>2. ASSUME ConnectedTx PROVE ConfInv'
  <2>1. UNCHANGED <<failed, chainLock, announced, queue, nonLocked, rivalBlocks>> /\ cb.step = "txs"
    BY Zenon, <1>2 DEF ConnectedTx, chainVars, isVars
  <2>2. /\ cb'.block = cb.block
        /\ cb'.step = "unlocked" => ~HasChainLock(cb.block)
        /\ cb'.step \notin {"cleanup", "track"}
    BY Zenon, <1>2 DEF ConnectedTx, IInv, Types, Callback
  <2>3. Rest'
    BY Zenon, <2>1, <2>2 DEF ConfInv, Rest
  <2>4. LockKnown'
    BY Zenon, <2>1 DEF ConfInv, LockKnown
  <2>5. NoteAhead' <=> NoteAhead
    BY Zenon, <2>1 DEF NoteAhead
  <2>6. ASSUME announced # None, cb'.step = "unlocked" PROVE cb.block \notin Chain[announced]
    <3>1. chainLock \in Block /\ announced \in Chain[chainLock]
      BY Zenon, <2>6 DEF ConfInv, Rest, LockKnown
    <3>2. Chain[announced] \subseteq Chain[chainLock]
      BY Zenon, <3>1, ChainFacts
    <3> QED
      BY Zenon, <2>2, <2>6, <3>1, <3>2, ChainAssumption DEF HasChainLock
  <2>7. ASSUME announced # None, ~CleanupAhead'
        PROVE  \A t \in Tx : nonLocked'.txs[t].mined \notin Chain[announced]
    BY Zenon, <2>1, <2>5, <2>7 DEF ConfInv, Unconfirmed, CleanupAhead
  <2>8. Unconfirmed'
    BY Zenon, <2>1, <2>2, <2>6, <2>7 DEF Unconfirmed
  <2> QED
    BY Zenon, <2>3, <2>4, <2>8 DEF ConfInv
<1>3. ASSUME ConnectedTrack PROVE ConfInv'
  <2>1. /\ UNCHANGED <<failed, chainLock, announced, queue, rivalBlocks>>
        /\ cb'.step = "txs"
        /\ cb.step # "cleanup"
    BY Zenon, <1>3 DEF ConnectedTrack, chainVars, IInv, Types, Callback
  <2>2. CleanupAhead => CleanupAhead'
    BY Zenon, <2>1 DEF CleanupAhead, NoteAhead
  <2>3. CASE cb.step = "locked"
    <3>1. nonLocked' = Untrack({Head(cb.txs)}, nonLocked)
      BY Zenon, <1>3, <2>3 DEF ConnectedTrack
    <3>2. nonLocked' \in Tracked /\ Stays(nonLocked, nonLocked')
      BY Zenon, <3>1, UntrackKeeps DEF ConfInv, Rest
    <3>3. Rest'
      BY Zenon, <2>1, <3>2 DEF ConfInv, Rest
    <3> QED
      BY Zenon, <2>1, <2>2, <3>2, <3>3, Kept
  <2>4. CASE cb.step = "unlocked"
    <3>1. nonLocked' = Track(nonLocked, Head(cb.txs), cb.block)
      BY Zenon, <1>3, <2>4 DEF ConnectedTrack, AddNonLockedTx
    <3>2. cb.txs \in Seq(Tx) /\ cb.txs # <<>> /\ cb.block \in Block
      BY Zenon, <2>4 DEF IInv, Types, Callback
    <3>3. Head(cb.txs) \in Tx
      BY <3>2
    <3>4. /\ nonLocked' \in Tracked
          /\ \A s \in Tx : nonLocked'.txs[s].mined \in {nonLocked.txs[s].mined, cb.block}
      BY Zenon, <3>1, <3>2, <3>3, TrackKeeps DEF ConfInv, Rest
    <3>5. Rest'
      BY Zenon, <2>1, <3>4 DEF ConfInv, Rest
    <3>6. LockKnown'
      BY Zenon, <2>1 DEF ConfInv, LockKnown
    <3>7. ASSUME announced # None, ~CleanupAhead'
          PROVE  \A t \in Tx : nonLocked'.txs[t].mined \notin Chain[announced]
      BY Zenon, <2>2, <2>4, <3>4, <3>7 DEF ConfInv, Unconfirmed
    <3>8. Unconfirmed'
      BY Zenon, <2>1, <3>7 DEF Unconfirmed
    <3> QED
      BY Zenon, <3>5, <3>6, <3>8 DEF ConfInv
  <2> QED
    BY Zenon, <1>3, <2>3, <2>4 DEF ConnectedTrack
<1>4. ASSUME ConnectedEnd PROVE ConfInv'
  <2>1. UNCHANGED <<failed, chainLock, announced, queue, nonLocked, rivalBlocks>>
    BY Zenon, <1>4 DEF ConnectedEnd, isVars
  <2>2. cb.step = "txs" /\ cb' = CbIdle
    BY Zenon, <1>4 DEF ConnectedEnd
  <2>3. Rest'
    BY Zenon, <2>1, <2>2 DEF ConfInv, Rest, CbIdle
  <2>4. CleanupAhead => CleanupAhead'
    BY Zenon, <2>1, <2>2 DEF CleanupAhead, NoteAhead
  <2> QED
    BY Zenon, <2>1, <2>2, <2>3, <2>4, Kept DEF CbIdle, Stays
<1> QED
  BY Zenon, <1>1, <1>2, <1>3, <1>4

LEMMA ConfirmedCleaned ==
    ASSUME IInv, ConfInv,
           (\E b \in Block : HandleFullyConfirmedBlock(b)) \/ ConfirmedCleanup
    PROVE  ConfInv'
<1>1. ASSUME NEW b \in Block, HandleFullyConfirmedBlock(b) PROVE ConfInv'
  <2>1. UNCHANGED <<failed, chainLock, announced, nonLocked, rivalBlocks>>
    BY Zenon, <1>1 DEF HandleFullyConfirmedBlock, chainVars, isVars
  <2>2. cb.step = "start" /\ cb'.step = "cleanup" /\ cb'.block = b
    BY Zenon, <1>1 DEF HandleFullyConfirmedBlock, Due, IInv, Types, Callback
  <2>3. queue' \in Seq(Notice) /\ (NoteAhead => NoteAhead' \/ b = announced)
    <3>1. Due("chainlock") /\ TakeBlock(b)
      BY Zenon, <1>1 DEF HandleFullyConfirmedBlock
    <3> QED
      BY Zenon, <2>1, <3>1, TakeBlockKeeps DEF ConfInv
  <2>4. Rest'
    BY Zenon, <2>1, <2>2, <2>3 DEF ConfInv, Rest
  <2>5. CleanupAhead => CleanupAhead'
    BY Zenon, <2>1, <2>2, <2>3 DEF CleanupAhead
  <2> QED
    BY Zenon, <2>1, <2>2, <2>4, <2>5, Kept DEF Stays
<1>2. ASSUME ConfirmedCleanup PROVE ConfInv'
  <2> DEFINE T == {t \in Tx : nonLocked.txs[t].mined \in Chain[cb.block]}
  <2>1. UNCHANGED <<failed, chainLock, announced, queue, rivalBlocks>> /\ cb' = CbIdle
    BY Zenon, <1>2 DEF ConfirmedCleanup, chainVars
  <2>2. nonLocked' = Untrack(T, nonLocked)
    BY Zenon, <1>2 DEF ConfirmedCleanup
  <2>3. /\ nonLocked' \in Tracked /\ Stays(nonLocked, nonLocked')
        /\ \A t \in Tx : t \in T => nonLocked'.txs[t].mined = None
    BY Zenon, <2>2, UntrackKeeps DEF ConfInv, Rest
  <2>4. Rest'
    BY Zenon, <2>1, <2>3 DEF ConfInv, Rest, CbIdle
  <2>5. LockKnown'
    BY Zenon, <2>1 DEF ConfInv, LockKnown
  <2>6. CASE NoteAhead \/ cb.block # announced
    <3>1. CleanupAhead => CleanupAhead'
      BY Zenon, <2>1, <2>6 DEF CleanupAhead, NoteAhead
    <3> QED
      BY Zenon, <2>1, <2>3, <2>4, <3>1, Kept DEF CbIdle
  <2>7. CASE cb.block = announced
    <3>1. ASSUME announced # None
          PROVE  \A t \in Tx : nonLocked'.txs[t].mined \notin Chain[announced]
      <4>1. None \notin Chain[announced]
        BY Zenon, <3>1, ChainFacts DEF ConfInv, Rest
      <4> QED
        BY Zenon, <2>3, <2>7, <4>1 DEF Stays
    <3>2. cb'.step # "unlocked"
      BY Zenon, <2>1 DEF CbIdle
    <3>3. Unconfirmed'
      BY Zenon, <2>1, <3>1, <3>2 DEF Unconfirmed
    <3> QED
      BY Zenon, <2>4, <2>5, <3>3 DEF ConfInv
  <2> QED
    BY Zenon, <2>6, <2>7
<1> QED
  BY Zenon, <1>1, <1>2

LEMMA ConfirmedWorker ==
    ASSUME IInv, ConfInv, WorkThread
    PROVE  ConfInv'
<1>1. ASSUME \/ \E l \in Lock : ProcessPendingInstantSendLocks(l)
             \/ LookupTx \/ CheckSameTx \/ StoreLock \/ StoreMined
      PROVE  ConfInv'
  <2>1. UNCHANGED <<failed, chainLock, announced, queue, nonLocked, cb, rivalBlocks>>
    BY Zenon, <1>1 DEF ProcessPendingInstantSendLocks, LookupTx, CheckSameTx, StoreLock, StoreMined,
       chainVars, isVars
  <2> QED
    BY Zenon, <2>1, NothingMoves DEF ConfInv, Rest
<1>2. ASSUME CollectConflicts PROVE ConfInv'
  <2>1. UNCHANGED <<failed, chainLock, announced, queue, nonLocked, cb>>
    BY Zenon, <1>2 DEF CollectConflicts, chainVars, isVars
  <2>2. rivalBlocks' = {nonLocked.txs[s].mined : s \in MinedRivals(worker.lock)}
    BY Zenon, <1>2 DEF CollectConflicts
  <2>3. ASSUME NEW s \in MinedRivals(worker.lock) PROVE nonLocked.txs[s].mined \in Block
    <3>1. s \in Tx /\ nonLocked.txs[s].mined # None
      BY Zenon, <2>3 DEF MinedRivals
    <3>2. nonLocked.txs[s] \in Entry
      BY Zenon, <3>1 DEF ConfInv, Rest, Tracked
    <3> QED
      BY Zenon, <3>1, <3>2, EntryFields
  <2>4. rivalBlocks' \subseteq Block
    BY Zenon, <2>2, <2>3
  <2> QED
    BY Zenon, <2>1, <2>4, NothingMoves
<1>3. ASSUME JudgeConflicts PROVE ConfInv'
  <2>1. UNCHANGED <<failed, chainLock, announced, queue, nonLocked, cb>>
    BY Zenon, <1>3 DEF JudgeConflicts, chainVars, isVars
  <2>2. rivalBlocks' \subseteq Block
    BY Zenon, <1>3 DEF JudgeConflicts, ConfInv, Rest
  <2> QED
    BY Zenon, <2>1, <2>2, NothingMoves
<1>4. ASSUME UntrackLocked PROVE ConfInv'
  <2>1. UNCHANGED <<failed, chainLock, announced, queue, cb, rivalBlocks>>
    BY Zenon, <1>4 DEF UntrackLocked, chainVars
  <2>2. nonLocked' = Untrack({TxOf[worker.lock]}, nonLocked)
    BY Zenon, <1>4 DEF UntrackLocked
  <2>3. nonLocked' \in Tracked /\ Stays(nonLocked, nonLocked')
    BY Zenon, <2>2, UntrackKeeps DEF ConfInv, Rest
  <2>4. Grown(queue, queue')
    BY Zenon, <2>1 DEF Grown, ConfInv, Rest
  <2> QED
    BY Zenon, <2>1, <2>3, <2>4, Appended DEF ConfInv, Rest
<1>5. ASSUME NEW b \in Block, InvalidateBlock(b) PROVE ConfInv'
  <2>1. UNCHANGED <<chainLock, announced, cb>> /\ rivalBlocks' = rivalBlocks \ {b}
    BY Zenon, <1>5 DEF InvalidateBlock
  <2>2. failed' \in {failed \cup Descendants(b), failed \ (Chain[b] \cup Descendants(b))}
    BY Zenon, <1>5 DEF InvalidateBlock
  <2>3. failed' \subseteq Block
    BY Zenon, <2>2 DEF Descendants, ConfInv, Rest
  <2>4. nonLocked' \in Tracked /\ Stays(nonLocked, nonLocked')
    BY Zenon, <1>5, UntrackKeeps DEF InvalidateBlock, ConfInv, Rest
  <2>5. queue' = queue \/ MoveTip(Parent[b], db)
    BY Zenon, <1>5 DEF InvalidateBlock
  <2>6. Grown(queue, queue)
    BY Zenon DEF Grown, ConfInv, Rest
  <2>7. Grown(queue, queue')
    BY Zenon, <2>5, <2>6, ChainTypes, MoveTipGrows DEF IInv, ConfInv
  <2> QED
    BY Zenon, <2>1, <2>3, <2>4, <2>7, Appended DEF ConfInv, Rest
<1>6. ASSUME WorkerSweep PROVE ConfInv'
  <2>1. UNCHANGED <<failed, chainLock, announced, cb, rivalBlocks>>
    BY Zenon, <1>6 DEF WorkerSweep, chainVars
  <2>2. Grown(queue, queue) /\ nonLocked \in Tracked /\ Stays(nonLocked, nonLocked)
    BY Zenon DEF Grown, Stays, ConfInv, Rest
  <2>3. SweepMempool(worker.lock) \/ UNCHANGED <<queue, nonLocked>>
    BY Zenon, <1>6 DEF WorkerSweep
  <2>4. Grown(queue, queue') /\ nonLocked' \in Tracked /\ Stays(nonLocked, nonLocked')
    BY Zenon, <2>2, <2>3, Sweeps
  <2> QED
    BY Zenon, <2>1, <2>4, Appended DEF ConfInv, Rest
<1> QED
  BY Zenon, <1>1, <1>2, <1>3, <1>4, <1>5, <1>6 DEF WorkThread

LEMMA ConfirmedKept ==
    ASSUME IInv, ConfInv, [Next]_vars
    PROVE  ConfInv'
<1>1. ASSUME (\E l \in Lock : ProcessMessageInstantSendLock(l)) \/ CacheRead \/ CacheEvict
      PROVE  ConfInv'
  <2>1. UNCHANGED <<failed, chainLock, announced, queue, nonLocked, cb, rivalBlocks>>
    BY Zenon, <1>1 DEF ProcessMessageInstantSendLock, CacheRead, CacheEvict, chainVars, isVars
  <2> QED
    BY Zenon, <2>1, NothingMoves DEF ConfInv, Rest
<1>2. ASSUME UNCHANGED vars PROVE ConfInv'
  <2>1. UNCHANGED <<failed, chainLock, announced, queue, nonLocked, cb, rivalBlocks>>
    BY Zenon, <1>2 DEF vars, chainVars, isVars
  <2> QED
    BY Zenon, <2>1, NothingMoves DEF ConfInv, Rest
<1>3. ASSUME Crash PROVE ConfInv'
  <2>1. Rest'
    BY Zenon, <1>3, NothingTrackedType, EmptySeq DEF Crash, ConfInv, Rest, CbIdle
  <2> QED
    BY Zenon, <1>3, <2>1 DEF Crash, ConfInv, LockKnown, Unconfirmed
<1>4. ASSUME Scheduler PROVE ConfInv'
  BY Zenon, <1>4, ConfirmedAdded, ConfirmedConnected, ConfirmedCleaned DEF Scheduler
<1> QED
  BY Zenon, <1>1, <1>2, <1>3, <1>4, ConfirmedValidation, ConfirmedWorker DEF Next

LEMMA ConfirmedInitially == Init => ConfInv
<1> SUFFICES ASSUME Init PROVE ConfInv
  BY Zenon
<1>1. Rest
  BY Zenon, NothingTrackedType, EmptySeq DEF Init, Rest, CbIdle
<1> QED
  BY Zenon, <1>1 DEF Init, ConfInv, LockKnown, Unconfirmed

LEMMA ConfirmedInvariant == Spec => [](IInv /\ ConfInv)
<1>1. Init => IInv /\ ConfInv
  BY Zenon, Initially, ConfirmedInitially
<1>2. IInv /\ ConfInv /\ [Next]_vars => (IInv /\ ConfInv)'
  BY Zenon, Step, ConfirmedKept
<1> QED
  BY <1>1, <1>2, PTL DEF Spec

LEMMA ConfInvGivesType == IInv /\ ConfInv => TypeOK
  BY Zenon DEF IInv, Types, Good, Worker, PcSet, Callback, ConfInv, Rest, Notice, Tracked, Entry, TypeOK

LEMMA ConfInvGivesConfirmed == ConfInv => ConfirmedIsNotTracked
  BY Zenon DEF ConfInv, Unconfirmed, CleanupAhead, NoteAhead, ConfirmedIsNotTracked

\* Every variable keeps its type, whatever the threads do: among them the
\* notifications that wait and the entries of nonLockedTxs.
THEOREM TypeCorrect == Spec => []TypeOK
  BY ConfirmedInvariant, ConfInvGivesType, PTL

\* Once HandleFullyConfirmedBlock has run for a ChainLock, nonLockedTxs has no
\* transaction as mined in a block of its chain, for good: the notifications
\* of blocks that come later ask for the block's ChainLock before AddNonLockedTx.
THEOREM ConfirmedStaysUntracked == Spec => []ConfirmedIsNotTracked
  BY ConfirmedInvariant, ConfInvGivesConfirmed, PTL

=============================================================================

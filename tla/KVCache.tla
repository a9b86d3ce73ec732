------------------------------ MODULE KVCache ------------------------------
(***************************************************************************)
(* The transactional key/value cache of cached decoding (kv_cache.py).     *)
(* Each layer has preallocated storage; one transaction at a time writes   *)
(* its tokens behind the committed position, layer by layer, and commits   *)
(* by advancing the position.  Storage is never cleared: what a            *)
(* transaction that was rolled back wrote is still there.                  *)
(***************************************************************************)
EXTENDS Integers, Sequences, FiniteSets

CONSTANTS CacheLayers,    \* the layers
          CacheCapacity,  \* positions
          CacheEntries,   \* keys and values, as far as clients tell them apart
          Junk            \* uninitialized memory

ASSUME CacheAssumption ==
  /\ CacheCapacity \in Nat \ {0}
  /\ CacheLayers # {}

VARIABLES store,        \* the storage of each layer
          kvPosition,   \* committed positions, the same for every layer
          transaction   \* the active transaction

kvVars == <<store, kvPosition, transaction>>

CachePositions == 1 .. CacheCapacity
NoTransaction == [active |-> FALSE, count |-> 0, written |-> {}]

Start == kvPosition
End   == kvPosition + transaction.count

\* KVCache.begin: one token at a time once there is a prefix.
BeginTransaction(count) ==
  /\ ~transaction.active
  /\ count > 0
  /\ kvPosition > 0 => count = 1
  /\ kvPosition + count <= CacheCapacity
  /\ transaction' = [active |-> TRUE, count |-> count, written |-> {}]
  /\ UNCHANGED <<store, kvPosition>>

\* Mutant: the write begins at the last committed position.
WriteLayerOverLast(l, entries) ==
  /\ transaction.active
  /\ l \in CacheLayers \ transaction.written
  /\ DOMAIN entries = 1 .. transaction.count
  /\ store' = [store EXCEPT ![l] =
       [p \in CachePositions |-> IF p \in Start .. End - 1 THEN entries[p - Start + 1] ELSE @[p]]]
  /\ transaction' = [transaction EXCEPT !.written = @ \cup {l}]
  /\ UNCHANGED kvPosition

\* KVCacheTransaction.write of a layer's entries, one per token.
WriteLayer(l, entries) ==
  /\ transaction.active
  /\ l \in CacheLayers \ transaction.written
  /\ DOMAIN entries = 1 .. transaction.count
  /\ store' = [store EXCEPT ![l] =
       [p \in CachePositions |-> IF p \in Start + 1 .. End THEN entries[p - Start] ELSE @[p]]]
  /\ transaction' = [transaction EXCEPT !.written = @ \cup {l}]
  /\ UNCHANGED kvPosition

\* rollback, also by a write of a layer that is out of range, has been
\* written or has another shape, and by a commit that misses a layer.
RollBack ==
  /\ transaction.active
  /\ transaction' = NoTransaction
  /\ UNCHANGED <<store, kvPosition>>

Commit ==
  /\ transaction.active
  /\ transaction.written = CacheLayers
  /\ kvPosition' = End
  /\ transaction' = NoTransaction
  /\ UNCHANGED store

ResetCache ==
  /\ ~transaction.active
  /\ kvPosition' = 0
  /\ UNCHANGED <<store, transaction>>

Uninitialized == [l \in CacheLayers |-> [p \in CachePositions |-> Junk]]

\* A client drops the cache, in whatever state, and creates another one.
NewCache ==
  /\ store' = Uninitialized
  /\ kvPosition' = 0
  /\ transaction' = NoTransaction

KVInit ==
  /\ store = Uninitialized
  /\ kvPosition = 0
  /\ transaction = NoTransaction

\* A client that may write any layers in any order, fail and retry.
KVNext ==
  \/ \E count \in CachePositions : BeginTransaction(count)
  \/ \E l \in CacheLayers : \E entries \in [1 .. transaction.count -> CacheEntries] :
       WriteLayer(l, entries)
  \/ RollBack \/ Commit \/ ResetCache \/ NewCache

KVSpec == KVInit /\ [][KVNext]_kvVars

(***************************************************************************)
(* Properties.                                                             *)
(***************************************************************************)
KVTypeOK ==
  /\ store \in [CacheLayers -> [CachePositions -> CacheEntries \cup {Junk}]]
  /\ kvPosition \in 0 .. CacheCapacity
  /\ transaction \in [active : BOOLEAN, count : 0 .. CacheCapacity, written : SUBSET CacheLayers]
  /\ End <= CacheCapacity
  /\ ~transaction.active => transaction = NoTransaction
  /\ transaction.active /\ kvPosition > 0 => transaction.count = 1

\* layer_keys and layer_values: the committed part of each layer.
Committed == [p \in 1 .. kvPosition |-> [l \in CacheLayers |-> store[l][p]]]
Pending   == [l \in transaction.written |->
                [p \in 1 .. transaction.count |-> store[l][Start + p]]]

\* The cache is a log of whole blocks: a block is committed for all layers
\* with what its own transaction wrote, and nothing a transaction does
\* before its commit, or leaves behind, is visible.
Log == INSTANCE CacheLog WITH log <- Committed, offered <- Pending
CacheIsLog == Log!LogSpec
=============================================================================

------------------------------ MODULE CacheLog ------------------------------
(***************************************************************************)
(* What a key/value cache promises its model (kv_cache.py): a log of       *)
(* blocks of tokens.  A block is offered layer by layer and is appended as *)
(* a whole, with exactly what was offered for it, or not at all.           *)
(***************************************************************************)
EXTENDS Integers, Sequences

CONSTANTS CacheLayers, CacheCapacity

VARIABLES log,     \* per position, the entry of each layer
          offered  \* per layer offered so far, the entries of the open block

Block(count) == [p \in 1 .. count |-> [l \in CacheLayers |-> offered[l][p]]]

LogInit == log = <<>> /\ offered = <<>>

\* Layer l offers its entries, whatever they are.
Offer(l) ==
  /\ l \notin DOMAIN offered
  /\ DOMAIN offered' = DOMAIN offered \cup {l}
  /\ \A k \in DOMAIN offered : offered'[k] = offered[k]
  /\ UNCHANGED log

AppendBlock(count) ==
  /\ DOMAIN offered = CacheLayers
  /\ \A l \in CacheLayers : DOMAIN offered[l] = 1 .. count
  /\ log = <<>> \/ count = 1
  /\ Len(log) + count <= CacheCapacity
  /\ log' = log \o Block(count)
  /\ offered' = <<>>

DropBlock == offered' = <<>> /\ UNCHANGED log
ClearLog  == log' = <<>> /\ offered' = <<>>

LogNext ==
  \/ \E l \in CacheLayers : Offer(l)
  \/ \E count \in 1 .. CacheCapacity : AppendBlock(count)
  \/ DropBlock \/ ClearLog

LogSpec == LogInit /\ [][LogNext]_<<log, offered>>
=============================================================================

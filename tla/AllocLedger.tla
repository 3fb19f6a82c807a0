----------------------------- MODULE AllocLedger -----------------------------
(***************************************************************************)
(* What the allocation tracker promises, with no table, hash or tombstone: *)
(* a ledger of the live blocks in which at most Capacity blocks have a     *)
(* record of their size and of the site that allocated them.  A block that *)
(* finds the ledger full is unrecorded, and counted as dropped, until it   *)
(* is reallocated while there is room.                                     *)
(***************************************************************************)
EXTENDS Integers, FiniteSets

CONSTANTS
  Block,       (* the addresses of blocks                                  *)
  Capacity,    (* the number of blocks that can have a record              *)
  Bytes,       (* recorded sizes                                           *)
  Where,       (* sites                                                    *)
  Nowhere,     (* the site of a block recorded by a reallocation           *)
  MaxDrops     (* the drop counter returns to 0 after this value           *)

VARIABLES
  ledger,      (* what is known of each address                            *)
  drops        (* the number of unrecorded allocations                     *)

ledgerVars == <<ledger, drops>>

Dead == [kind |-> "dead"]

Unrecorded == [kind |-> "unrecorded"]

(* A record of a block, from a site in W *)
Entries(W) == [kind : {"recorded"}, bytes : Bytes, where : W]

Recorded == {b \in Block : ledger[b].kind = "recorded"}

Room == Cardinality(Recorded) < Capacity

LedgerInit ==
  /\ ledger = [b \in Block |-> Dead]
  /\ drops = 0

Allocate(b) ==
  /\ ledger[b] = Dead
  /\ ledger' = [ledger EXCEPT ![b] = ledger'[b]]
  /\ \/ /\ Room
        /\ ledger'[b] \in Entries(Where)
        /\ UNCHANGED drops
     \/ /\ ~Room
        /\ ledger'[b] = Unrecorded
        /\ drops' = IF drops = MaxDrops THEN 0 ELSE drops + 1

Release(b) ==
  /\ ledger[b] # Dead
  /\ ledger' = [ledger EXCEPT ![b] = Dead]
  /\ UNCHANGED drops

(* Block b continues as block c, which may be b, with another size.  A      *)
(* recorded block stays recorded and keeps its site; an unrecorded one is   *)
(* recorded if there is room.                                               *)
Resize(b, c) ==
  /\ ledger[b] # Dead
  /\ c = b \/ ledger[c] = Dead
  /\ ledger' = [ledger EXCEPT ![b] = Dead, ![c] = ledger'[c]]
  /\ \/ b \in Recorded /\ ledger'[c] \in Entries({ledger[b].where})
     \/ b \notin Recorded /\ Room /\ ledger'[c] \in Entries({Nowhere})
     \/ b \notin Recorded /\ ~Room /\ ledger'[c] = Unrecorded
  /\ UNCHANGED drops

LedgerNext ==
  \E b \in Block : Allocate(b) \/ Release(b) \/ \E c \in Block : Resize(b, c)

LedgerSpec == LedgerInit /\ [][LedgerNext]_ledgerVars
=============================================================================

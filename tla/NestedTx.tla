------------------------------ MODULE NestedTx ------------------------------
(***************************************************************************)
(* What sub-message dispatch promises: nested transactions.  A call sees   *)
(* the writes made so far, and when it ends it either keeps all its writes *)
(* (with those of the calls it made and kept) or leaves no trace.          *)
(***************************************************************************)
EXTENDS Naturals, Sequences

VARIABLES
  store,  \* the writes that are visible
  open    \* for each open call, the writes that were visible when it began

txVars == <<store, open>>

Begin == store = {} /\ open = <<>>

(* A call starts; it may write at once. *)
Enter ==
  /\ open' = Append(open, store)
  /\ store \subseteq store'

Write ==
  /\ open # <<>>
  /\ store \subseteq store'
  /\ UNCHANGED open

Leave ==
  /\ open # <<>>
  /\ open' = SubSeq(open, 1, Len(open) - 1)

Commit == Leave /\ UNCHANGED store

Rollback == Leave /\ store' = open[Len(open)]

Change == Enter \/ Write \/ Commit \/ Rollback

TxSpec == Begin /\ [][Change]_txVars
=============================================================================

----------------------------- MODULE HashChain -----------------------------
(***************************************************************************)
(* What the audit log promises (docs/OPERATIONS.md, "audit_logs is an      *)
(* append-only hash chain"; backend/observability/retention.py, "the chain *)
(* head is never deleted"): one chain, extended one row at a time at its   *)
(* end, whose oldest rows may expire but never its newest.                 *)
(*                                                                         *)
(* Rows are numbered in the order of their ids.  links[i] is the row whose *)
(* hash row i stores as prev_hash, 0 for none.                             *)
(***************************************************************************)
EXTENDS Integers, Sequences

VARIABLES
  links,  \* every row ever appended
  kept    \* the rows still in the table

Init == links = <<>> /\ kept = {}

Extend ==
  /\ links' = Append(links, Len(links))
  /\ kept' = kept \cup {Len(links) + 1}

Expire ==
  /\ \E oldest \in 1..Len(links) : kept' = kept \cap (oldest..Len(links))
  /\ UNCHANGED links

Next == Extend \/ Expire

Spec == Init /\ [][Next]_<<links, kept>>
=============================================================================

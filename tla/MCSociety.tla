----------------------------- MODULE MCSociety -----------------------------
(* A small society for TLC. *)
EXTENDS Society

Most == <<3, 4>>
Callings == [a \in Agents |-> CASE a = 1 -> {} [] a = 2 -> {"Offer"} [] OTHER -> {"Accept", "Reject"}]
Durations == [x \in Trades |-> IF x = "Accept" THEN 2 ELSE 1]
=============================================================================

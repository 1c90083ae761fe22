------------------------------ MODULE MCRelease ------------------------------
(***************************************************************************)
(* Instance of Release for TLC: two cases, receipts with at most one flaw, *)
(* weight files with at most one flaw.                                     *)
(***************************************************************************)
EXTENDS Release

TwoCases == {1, 2}
TwoMetrics == {"structural", "human"}
MCRequired == <<{"structural"}, {"structural", "human"}>>
MCRequirement == [k \in Capability |-> CASE k = "4k" -> {1} [] k = "8k" -> {1, 2} [] OTHER -> {2}]

Good(c) == [case |-> c, state |-> "PASS", metrics |-> TwoMetrics,
            hashes |-> TRUE, audited |-> TRUE, reason |-> FALSE]
MCOffered == {Good(1), Good(2), [Good(2) EXCEPT !.metrics = {"structural"}],
              [Good(2) EXCEPT !.audited = FALSE],
              [Good(2) EXCEPT !.state = "FAIL", !.reason = TRUE]}

Named(n, s, e) == [name |-> n, start |-> s, end |-> e, size |-> e - s]
Tensor(s, e) == Named(0, s, e)
File(sha, tensors) == [sha |-> sha, data |-> 3, named |-> TRUE, safe |-> TRUE, tensors |-> tensors]
MCWeights == {File(1, {Tensor(0, 2), Tensor(2, 3)}), File(1, {Tensor(0, 2), Tensor(1, 3)}),
              File(1, {Tensor(0, 2)}), File(1, {Tensor(0, 2), Tensor(2, 4)}),
              File(1, {Tensor(0, 1), Tensor(2, 3)}), File(1, {Tensor(0, 0), Tensor(0, 3)}),
              File(1, {Tensor(0, 3), Named(1, 0, 3)}), File(2, {Tensor(0, 3)})}
MCEntry == [enabled |-> TRUE, sha |-> 1, data |-> 3, environments |-> {0}]
MCLicenses == [status : {"verified", "unknown"}, private : BOOLEAN, sha : {1, 2}]
MCPlanRequests == [disk : {1}, vram : {0, 7}, seconds : {2}]
MCLives == [disk : {1}, vram : {0, 8, 9}, seconds : {-1, 2}]

\* The first receipt is good or missing at first, and so is the first root.
MCInit == ReleaseInit /\ receipt[1] \in {Good(1), NoReceipt} /\ weight[1] = NoWeight
MCSpec == MCInit /\ [][ReleaseNext]_vars
=============================================================================

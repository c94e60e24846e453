----------------------------- MODULE MCPmiColl -----------------------------
(* Model-checking instance of the collectives: every program of at most    *)
(* MaxOps calls.  The second order is what a vendor's PMI_Allgather may    *)
(* choose (builds with HAVE_CRAY_PMI_COLL); the first is that of this file.*)
EXTENDS PmiColl

MCPrograms == UNION {[1 .. n -> Ops] : n \in 1 .. MaxOps}
MCOrders == {[i \in Ranks |-> i], [i \in Ranks |-> (i + 1) % NRanks]}
=============================================================================

----------------------------- MODULE MCLifecycle -----------------------------
(***************************************************************************)
(* A deployment of two workers for ProofLifecycle, a Full one and a        *)
(* dedicated one; the ids in their configurations may be wrong.            *)
(***************************************************************************)
EXTENDS ProofLifecycle, TLC

Symmetry == Permutations(Proofs) \cup Permutations(Calls) \cup Permutations(ProofTypes)
AnyId == [u \in Urls |-> 0..expected_num_workers]
FullAndEvm == [u \in Urls |-> IF u = "w0" THEN {"Full"} ELSE {"EvmDedicated"}]
=============================================================================

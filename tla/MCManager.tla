------------------------------ MODULE MCManager ------------------------------
(***************************************************************************)
(* Small deployments for Manager: the roles of the workers, by id.         *)
(***************************************************************************)
EXTENDS Manager

OneFull == [w \in 0..0 |-> "Full"]
TwoFull == [w \in 0..1 |-> "Full"]
TwoStarkOneEvm == [w \in 0..2 |-> IF w = 2 THEN "EvmDedicated" ELSE "StarkOnly"]
=============================================================================

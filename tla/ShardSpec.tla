------------------------------ MODULE ShardSpec ------------------------------
(***************************************************************************)
(* What the manager relies on from the shard of one worker: each segment   *)
(* of the shard is posted at most once, in any order; prover 0 alone posts *)
(* ExecuteE2; a shard that ends without an error has posted everything,    *)
(* and one that fails says so, before or after its last result.  The       *)
(* worker steps of Manager are steps of this specification; AppProver      *)
(* implements it.                                                          *)
(***************************************************************************)
CONSTANT Segments    \* the segments an execution may have

VARIABLES unsent,    \* segments not posted yet
          e2Unsent,  \* ExecuteE2 is still to be posted
          shard      \* "proving", "failed" (the error is posted) or "idle"
shardVars == <<unsent, e2Unsent, shard>>

Init ==
    /\ unsent \subseteq Segments   \* those that fall to this shard
    /\ e2Unsent \in BOOLEAN        \* TRUE for prover 0
    /\ shard = "proving"

PostApp(seg) ==
    /\ shard # "idle"
    /\ unsent' = unsent \ {seg}
    /\ UNCHANGED <<e2Unsent, shard>>

PostExecuteE2 ==
    /\ shard # "idle"
    /\ e2Unsent
    /\ e2Unsent' = FALSE
    /\ UNCHANGED <<unsent, shard>>

PostError ==
    /\ shard = "proving"
    /\ shard' = "failed"
    /\ UNCHANGED <<unsent, e2Unsent>>

\* The job is over: nothing more is posted, and nothing is missing unless the
\* shard failed.
End ==
    /\ shard # "idle"
    /\ shard = "proving" => unsent = {} /\ ~e2Unsent
    /\ shard' = "idle"
    /\ UNCHANGED <<unsent, e2Unsent>>

Next ==
    \/ \E seg \in unsent : PostApp(seg)
    \/ PostExecuteE2
    \/ PostError
    \/ End

Spec == Init /\ [][Next]_shardVars
=============================================================================

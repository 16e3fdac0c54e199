-------------------------------- MODULE Worker --------------------------------
(***************************************************************************)
(* A worker: its input files (WorkerInputs) and the recursion requests of  *)
(* handle_recursion_prove (crates/edge-worker/src/handlers.rs), from       *)
(* acceptance to the one message each posts to the manager.  The manager   *)
(* is here only as the order of its requests: a leaf once the app results  *)
(* are out, the final internal request after the leaf and the deferral     *)
(* push, EvmProve after the ready-for-evm message.                         *)
(***************************************************************************)
EXTENDS WorkerInputs

Steps == {"LeafProve", "InternalProve", "EvmProve"}

VARIABLES evm,       \* the proofs of type Evm; the others are of type Stark
          evm_prove, \* the worker is built with the feature evm-prove
          request,   \* [Proofs \X Steps -> where the request is]
          posted     \* what each request posted, in order: its artifacts

requestVars == <<request, posted>>
kinds == <<evm, evm_prove>>
vars == <<inputVars, kinds, requestVars>>

\* What a message carries: the merged proof or the plain one, the deferral
\* merkle proofs and where they are from, and the flag for the EVM step.
Artifact(kind, merged, merkle, ready) ==
    [kind |-> kind, merged |-> merged, merkle |-> merkle, ready_for_evm |-> ready]
Error == Artifact("Error", FALSE, "none", FALSE)

Init ==
    /\ NoInputs
    /\ evm \in SUBSET started
    /\ evm_prove \in IF evm = {} THEN {TRUE} ELSE BOOLEAN
    /\ request = [r \in Proofs \X Steps |-> "none"]
    /\ posted = [r \in Proofs \X Steps |-> <<>>]

Goto(r, l) == request' = [request EXCEPT ![r] = l]
\* submit_result or submit_error: one POST, whose failure is only logged.
Submit(r, artifact) ==
    /\ posted' = [posted EXCEPT ![r] = Append(@, artifact)]
    /\ Goto(r, "over")
Succeeded(r) == \E n \in DOMAIN posted[r] : posted[r][n].kind # "Error"

\* Depth-0 merkle proofs travel with a proof without deferral on a deferral
\* deployment.
Depth0(p) == IF Deferral # {} /\ p \notin Deferral THEN "depth0" ELSE "none"
-----------------------------------------------------------------------------
\* What the manager's own order lets it send.  The final internal proof may be
\* another worker's, after this one refused it.
Due(p, step) ==
    CASE step = "LeafProve" -> app[p] \in {"posted", "cleanup", "done"}
      [] step = "InternalProve" -> /\ Succeeded(<<p, "LeafProve">>)
                                   /\ p \in Deferral => tail[p] = "pushed"
      [] step = "EvmProve" -> /\ p \in evm
                              /\ \/ Succeeded(<<p, "InternalProve">>)
                                 \/ request[<<p, "InternalProve">>] = "refused"

\* handle_recursion_prove accepts and spawns the job.
Accept(p, step) ==
    /\ Due(p, step)
    /\ request[<<p, step>>] = "none"
    /\ Goto(<<p, step>>, "submit")
    /\ UNCHANGED <<posted, inputVars>>

\* 503 without a free prover, 400 for proofs that do not decode: nothing is
\* posted, the manager sends to another worker or gives up.
Refuse(p, step) ==
    /\ Due(p, step)
    /\ step # "EvmProve"
    /\ request[<<p, step>>] = "none"
    /\ Goto(<<p, step>>, "refused")
    /\ UNCHANGED <<posted, inputVars>>

\* The prover pool has the leaf proof, or its error.
LeafProved(p) ==
    LET r == <<p, "LeafProve">>
    IN  /\ request[r] = "submit"
        /\ \E a \in {Artifact("Leaf", FALSE, "none", FALSE), Error} : Submit(r, a)
        /\ UNCHANGED inputVars

\* Mutant: an Evm proof is dropped whatever the build.
InternalProvedDropsEvm(p) ==
    LET r == <<p, "InternalProve">>
    IN  /\ request[r] = "submit"
        /\ \/ p \in Deferral \ evm /\ Goto(r, "merge") /\ UNCHANGED posted
           \/ p \in evm /\ Goto(r, "silent") /\ UNCHANGED posted
           \/ p \notin Deferral /\ p \notin evm /\ Submit(r, Artifact("Internal", FALSE, "none", FALSE))
           \/ Submit(r, Error)
        /\ UNCHANGED inputVars

\* The final internal proof.  A deferral proof goes on to its merge, an Evm
\* proof to its preparation, any other is posted as it is.  Without the feature
\* evm-prove the branch of the Evm proofs is compiled empty: nothing is posted.
InternalProved(p) ==
    LET r == <<p, "InternalProve">>
    IN  /\ request[r] = "submit"
        /\ \/ p \in Deferral /\ (p \in evm => evm_prove) /\ Goto(r, "merge") /\ UNCHANGED posted
           \/ p \in evm \ Deferral /\ evm_prove /\ Goto(r, "prep") /\ UNCHANGED posted
           \/ p \in evm /\ ~evm_prove /\ Goto(r, "silent") /\ UNCHANGED posted
           \/ p \notin Deferral /\ p \notin evm /\ Submit(r, Artifact("Internal", FALSE, "none", FALSE))
           \/ Submit(r, Error)
        /\ UNCHANGED inputVars

\* run_deferral_tail_merge, first half: the inputs, or an error without them.
TailMergeReads(p) ==
    LET r == <<p, "InternalProve">>
    IN  /\ request[r] = "merge"
        /\ tail[p] # "read"
        /\ IF tail[p] = "pushed"
           THEN ReadDeferralInputs(p)
           ELSE UNCHANGED inputVars
        /\ IF tail'[p] = "read" THEN UNCHANGED requestVars ELSE Submit(r, Error)

\* Second half: prove_def, prove_mixed, wrap_proof, and the merkle proofs of
\* the merged proof; each may fail.
TailMergeProves(p, artifact) ==
    LET r == <<p, "InternalProve">>
    IN  /\ request[r] = "merge"
        /\ tail[p] = "read"
        /\ Submit(r, artifact)
        /\ tail' = [tail EXCEPT ![p] = "over"]
        /\ UNCHANGED <<disk, old, active, upload, app, cleaner, started, raced>>

\* Mutant: the merged proof goes out without its merkle proofs.
DriveStarkDeferralNoMerkle(p) ==
    /\ p \notin evm
    /\ \E a \in {Artifact("Internal", TRUE, "none", FALSE), Error} : TailMergeProves(p, a)

\* drive_stark_deferral_merge_and_post: the merged proof is the deliverable.
DriveStarkDeferralMergeAndPost(p) ==
    /\ p \notin evm
    /\ \E a \in {Artifact("Internal", TRUE, "tail", FALSE), Error} : TailMergeProves(p, a)

\* drive_evm_prep_and_post: the ready-for-evm message, after the merge if the
\* proof has deferral.
DriveEvmPrepAndPost(p) ==
    LET r == <<p, "InternalProve">>
    IN  /\ p \in evm
        /\ \/ \E a \in {Artifact("Internal", TRUE, "tail", TRUE), Error} : TailMergeProves(p, a)
           \/ /\ request[r] = "prep"
              /\ \E a \in {Artifact("Internal", FALSE, Depth0(p), TRUE), Error} : Submit(r, a)
              /\ UNCHANGED inputVars

\* Mutant: an error of the root prover is posted, and the EVM step goes on.
RootProvedGoesOn(p) ==
    LET r == <<p, "EvmProve">>
    IN  /\ request[r] = "submit"
        /\ Goto(r, "halo2")
        /\ \/ UNCHANGED posted
           \/ posted' = [posted EXCEPT ![r] = Append(@, Error)]
        /\ UNCHANGED inputVars

\* drive_evm_prove_from_request and run_evm_prove: the handed-off proof decodes,
\* the root prover runs on it, then halo2; the first failure is posted.  So is
\* the missing feature, by the handler itself.
RootProved(p) ==
    LET r == <<p, "EvmProve">>
    IN  /\ request[r] = "submit"
        /\ \/ evm_prove /\ Goto(r, "halo2") /\ UNCHANGED posted
           \/ Submit(r, Error)
        /\ UNCHANGED inputVars

Halo2Proved(p) ==
    LET r == <<p, "EvmProve">>
    IN  /\ request[r] = "halo2"
        /\ \E a \in {Artifact("Evm", FALSE, "none", FALSE), Error} : Submit(r, a)
        /\ UNCHANGED inputVars

RequestStep(p) ==
    \/ LeafProved(p) \/ InternalProved(p) \/ TailMergeReads(p)
    \/ DriveStarkDeferralMergeAndPost(p) \/ DriveEvmPrepAndPost(p)
    \/ RootProved(p) \/ Halo2Proved(p)

InputsStep ==
    /\ \/ \E p \in Proofs :
             \/ UploadStep(p) \/ AppStep(p) \/ InputsFault(p) \/ Age(p)
             \/ request[<<p, "InternalProve">>] \notin {"submit", "merge"} /\ TailAbandoned(p)
       \/ JanitorTick
       \/ \E c \in Cleaners : CleanerStep(c)
    /\ UNCHANGED requestVars

Next ==
    /\ \/ InputsStep
       \/ \E p \in Proofs, step \in Steps : Accept(p, step) \/ Refuse(p, step)
       \/ \E p \in Proofs : RequestStep(p)
    /\ UNCHANGED kinds

\* Tasks go on, start_proof of the manager too; provers return; the janitor's
\* interval and time pass.
others == <<kinds, requestVars>>
Spec ==
    /\ Init /\ [][Next]_vars
    /\ \A p \in Proofs :
         /\ WF_vars(UploadStep(p) /\ UNCHANGED others)
         /\ WF_vars(AppStep(p) /\ UNCHANGED others)
         /\ WF_vars(Age(p) /\ UNCHANGED others)
         /\ WF_vars(/\ TailAbandoned(p) /\ UNCHANGED others
                    /\ request[<<p, "InternalProve">>] \notin {"submit", "merge"})
         /\ WF_vars(RequestStep(p) /\ UNCHANGED kinds)
    /\ \A c \in Cleaners : WF_vars(CleanerStep(c) /\ UNCHANGED others)
    /\ WF_vars(JanitorTick /\ UNCHANGED others)
-----------------------------------------------------------------------------
\* Types, and the files never exceed /dev/shm.
TypeOK ==
    /\ disk \in [Proofs -> SUBSET {"input", "state", "deferral_input", Tmp}]
    /\ old \subseteq {p \in Proofs : disk[p] # {}}
    /\ active \subseteq Proofs
    /\ Cardinality(UNION {{p} \X (disk[p] \ {Tmp}) : p \in Proofs}) <= Capacity

\* An accepted job finds its inputs, however old they were at the kickoff: the
\* mark that handle_sharded_app_prove sets first keeps every scan off them that
\* has still to look at active_uploaded_proofs again.  One that had looked for
\* the last time, and was about to remove the directory, is the exception.
InputsHeld ==
    \A p \in Proofs \ raced : app[p] = "accepted" => required_files(p) \subseteq disk[p]

\* The deferral input pushed just in time is there when the tail merge reads
\* it: cleanup_uploaded_input_dir finds none of it, "a later phase".  The code
\* does not see to that: the run of this property finds its violation.
MergeFindsInput ==
    \A p \in Proofs : tail[p] = "pushed" => "deferral_input" \in disk[p]

\* No directory stays for ever, whatever became of its proof, but for one case:
\* a kickoff whose handler the server dropped leaves its mark behind.
Reclaimed == <>[](\A p \in Proofs : disk[p] = {} \/ app[p] = "dropped")

\* One message per accepted request, whatever fails on the way: the manager
\* frees a worker with each message it gets.
AnsweredOnce ==
    \A r \in Proofs \X Steps :
      /\ Len(posted[r]) <= 1
      /\ request[r] \in {"none", "submit", "merge", "prep", "halo2"} => posted[r] = <<>>

\* And every accepted request comes to its message, also when a scan took what
\* it was to read.  A worker built without evm-prove has one exception: of the
\* final internal proof of an Evm proof the manager never hears.
RequestAnswered ==
    <>[](\A p \in Proofs, step \in Steps :
           \/ request[<<p, step>>] \in {"none", "refused"}
           \/ Len(posted[<<p, step>>]) = 1
           \/ request[<<p, step>>] = "silent" /\ p \in evm /\ ~evm_prove)

\* The artifact that can complete a proof is complete: merged, with the merkle
\* proofs of the tail, if the proof has deferral, and with those of depth 0 on
\* the way to the EVM step of a deferral deployment.
FinalArtifactComplete ==
    \A p \in Proofs : \A n \in DOMAIN posted[<<p, "InternalProve">>] :
      LET a == posted[<<p, "InternalProve">>][n]
      IN  a.kind = "Internal" =>
            /\ a.ready_for_evm = (p \in evm)
            /\ p \in Deferral => a.merged /\ a.merkle = "tail"
            /\ p \in evm \ Deferral => a.merkle = Depth0(p)
=============================================================================

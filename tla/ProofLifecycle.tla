---------------------------- MODULE ProofLifecycle ----------------------------
(***************************************************************************)
(* A proof at the manager from upload to download                          *)
(* (crates/edge-manager/src/handlers.rs, proof_state/persistence.rs):      *)
(* staged inputs, admission, the uploads of start_proof, cancel, the       *)
(* timeout, finalization with or without files on disk, eviction, the      *)
(* sweep of orphaned inputs, and a crash of the manager.  Several calls    *)
(* and tasks run at once and meet in proof_states, the scheduler's entries *)
(* and staged_inputs.  What the workers prove, and how a failing proof     *)
(* drains, is abstract here; Manager has it in detail.                     *)
(***************************************************************************)
EXTENDS WorkerRegistry

CONSTANTS Proofs,   \* the uuids clients use; one may come again
          Calls,    \* calls of start_proof under way at most
          Starts,   \* and in all
          Contents, \* what clients upload (of ContentKinds)
          ProofTypes, \* of ProofType: Stark, Evm
          Crashes,  \* how often the manager may crash
          Rare      \* coincidences that this instance allows (of RareKinds)

RareKinds ==
    {"racyAdmission",   \* a cancel, a timeout, or a step of an earlier run under the
                        \* same uuid, between the two inserts of the admission
     "droppedFinalize", \* proof_result dropped while it persists: its client
                        \* gave up, nothing after the await runs
     "longTimeout"}     \* a timeout_secs beyond the ten hours of should_evict

\* The input; the input and the artifacts of all deferral circuits; a part of it.
ContentKinds == {"input", "deferral", "partial"}

ASSUME LifecycleAssumption ==
    /\ Contents \subseteq ContentKinds
    /\ Starts \in Nat /\ Crashes \in Nat
    /\ Rare \subseteq RareKinds
    /\ None \notin ProofTypes

VARIABLES state,       \* [Proofs -> status in proof_states, or None]
          entries,     \* proofs with an entry in the scheduler's state_store
          staged,      \* [Proofs -> its staged_inputs]
          calls,       \* [Calls -> a call of start_proof]
          finalizing,  \* [Proofs -> pc of finalize_proof]
          canceling,   \* proofs whose cancel_proof is between its two halves
          running,     \* proofs that workers have shards of
          old,         \* proofs whose last_updated is more than five minutes ago
          kind,        \* [Proofs -> proof_type of the proof until it is over, or None]
          persists,    \* whether the configuration has a persist_final_proofs_dir
          disk,        \* [Proofs -> types whose file is there: {uuid}.proof.bin, {uuid}.evm.bin]
          startsLeft, crashesLeft, \* of Starts and Crashes
          \* History, which no action reads:
          completed,   \* <<p, type>> that have been Completed: clients may know
          disturbed    \* proofs that a coincidence of RareKinds has met

status == <<state, old, kind, disturbed>>
files == <<persists, disk, completed>>
lifecycleVars == <<status, entries, staged, calls, finalizing, canceling, running, files>>
vars == <<registryVars, lifecycleVars, startsLeft, crashesLeft>>

\* The proof's lock is held.
Persisting(p) == finalizing[p] \in {"writing", "renaming", "publishing"}

\* "Ready" is InProgress with the final artifact in place.
Terminal == {"Completed", "Failed", "Canceled"}
Statuses == {None, "InProgress", "Ready", "Failing"} \cup Terminal


\* What is staged: an upload, or the retained deferral inputs ("kept").
Nothing == [what |-> None, at |-> None]
NoStart == [pc |-> "idle", proof |-> None, pre |-> FALSE, held |-> None,
            workers |-> [i \in Ids |-> NoWorker]]

Init ==
    /\ NoRegistrations
    /\ state = [p \in Proofs |-> None]
    /\ entries = {}
    /\ staged = [p \in Proofs |-> Nothing]
    /\ calls = [c \in Calls |-> NoStart]
    /\ finalizing = [p \in Proofs |-> "idle"]
    /\ canceling = {}
    /\ running = {}
    /\ old = {}
    /\ kind = [p \in Proofs |-> None]
    /\ persists \in BOOLEAN
    /\ disk = [p \in Proofs |-> {}]
    /\ completed = {}
    /\ disturbed = {}
    /\ startsLeft = Starts /\ crashesLeft = Crashes

\* Between the two inserts of the admission of p, a few instructions apart.
Admitting(p) == \E c \in Calls : calls[c].pc = "init" /\ calls[c].proof = p
Undisturbed(p) == "racyAdmission" \in Rare \/ ~Admitting(p)
Disturb(p) == disturbed' = disturbed \cup {p}

\* last_updated is set by results and by finalize_proof, not by other changes of
\* the status.
Change(p, s) ==
    /\ state' = [state EXCEPT ![p] = s]
    /\ IF Admitting(p) THEN Disturb(p) ELSE UNCHANGED disturbed
    /\ kind' = IF s \in Terminal THEN [kind EXCEPT ![p] = None] ELSE kind
Status(p, s) == Change(p, s) /\ UNCHANGED old
Touched(p, s) == Change(p, s) /\ old' = old \ {p}
Stage(p, what, at) == staged' = [staged EXCEPT ![p] = [what |-> what, at |-> at]]
Unstage(p) == staged' = [staged EXCEPT ![p] = Nothing]
Goto(c, pc) == calls' = [calls EXCEPT ![c].pc = pc]
Return(c) == calls' = [calls EXCEPT ![c] = NoStart]
frame == <<finalizing, canceling, files>>
-----------------------------------------------------------------------------
(* upload_input and start_proof *)

\* A later upload for the same uuid replaces what is there.
UploadInput(p, what) ==
    /\ Stage(p, what, "upload")
    /\ UNCHANGED <<status, entries, calls, running, frame>>

\* get_ready_workers, before the admission gate.
StartReady(c, p, pre) ==
    /\ calls[c] = NoStart
    /\ startsLeft > 0 /\ startsLeft' = startsLeft - 1
    /\ ready_workers(workers)
    /\ calls' = [calls EXCEPT ![c] = [pc |-> "gate", proof |-> p, pre |-> pre, held |-> None,
                                      workers |-> workers]]
    /\ UNCHANGED <<status, entries, staged, running, frame>>

\* The first insert: a new proof in proof_states, with the type of its request.
Enter(p, t) ==
    /\ state' = [state EXCEPT ![p] = "InProgress"]
    /\ old' = old \ {p}
    /\ kind' = [kind EXCEPT ![p] = t]
    /\ disturbed' = disturbed \ {p}

\* Mutant: nothing makes the check and the inserts one.
AdmitUngated(c) ==
    LET p == calls[c].proof
    IN  /\ calls[c].pc = "gate"
        /\ IF entries = {} /\ state[p] = None
           THEN (\E t \in ProofTypes : Enter(p, t)) /\ Goto(c, "init")
           ELSE Return(c) /\ UNCHANGED status
        /\ UNCHANGED <<entries, staged, running, frame>>

\* Under the gate: 409 if any proof is active or this uuid is known, else the
\* proof enters proof_states, and then the scheduler.
GateFree == \A c \in Calls : calls[c].pc # "init"
Admit(c) ==
    LET p == calls[c].proof
    IN  /\ calls[c].pc = "gate"
        /\ GateFree
        /\ IF entries = {} /\ state[p] = None
           THEN (\E t \in ProofTypes : Enter(p, t)) /\ Goto(c, "init")
           ELSE Return(c) /\ UNCHANGED status
        /\ UNCHANGED <<entries, staged, running, frame>>

InitProof(c) ==
    /\ calls[c].pc = "init"
    /\ entries' = entries \cup {calls[c].proof}
    /\ Goto(c, "take")
    /\ UNCHANGED <<status, staged, running, frame>>

\* The staged bytes are drained.  An incomplete deferral upload, a deferral with
\* input_already_uploaded (pre), or no input at all aborts the proof.
TakeStaged(c) ==
    LET p == calls[c].proof
        what == staged[p].what
    IN  /\ calls[c].pc = "take"
        /\ Unstage(p)
        /\ calls' = [calls EXCEPT ![c].held = what,
                       ![c].pc = IF what \in {"partial", "kept"} THEN "abort"
                                 ELSE IF calls[c].pre
                                 THEN IF what = "deferral" THEN "abort" ELSE "dispatch"
                                 ELSE IF what = None THEN "abort" ELSE "upload"]
        /\ UNCHANGED <<status, entries, running, frame>>

\* The input goes to all workers; one that refuses it five times fails the proof.
UploadToWorkers(c) ==
    /\ calls[c].pc = "upload"
    /\ \/ Goto(c, IF calls[c].held = "deferral" THEN "states" ELSE "dispatch")
       \/ Goto(c, "fail")
    /\ UNCHANGED <<status, entries, staged, running, frame>>

FanoutDeferralStates(c) ==
    /\ calls[c].pc = "states"
    /\ \/ Goto(c, "restage")
       \/ Goto(c, "abort")
    /\ UNCHANGED <<status, entries, staged, running, frame>>

\* Mutant: the retained inputs are stamped like an upload.
RestageStamped(c) ==
    /\ calls[c].pc = "restage"
    /\ Stage(calls[c].proof, "kept", "upload")
    /\ Goto(c, "dispatch")
    /\ UNCHANGED <<status, entries, running, frame>>

\* The deferral inputs are retained for the push to the last internal worker,
\* without staged_at, whatever became of the proof meanwhile.
Restage(c) ==
    /\ calls[c].pc = "restage"
    /\ Stage(calls[c].proof, "kept", None)
    /\ Goto(c, "dispatch")
    /\ UNCHANGED <<status, entries, running, frame>>

\* abort_proof_with_failure, and the same by hand after a failed upload, which
\* leaves staged_inputs alone: Failed, whatever the status was.
FailStart(c) ==
    LET p == calls[c].proof
    IN  /\ calls[c].pc \in {"abort", "fail"}
        /\ ~Persisting(p)
        /\ Undisturbed(p)
        /\ IF state[p] = None THEN UNCHANGED status ELSE Status(p, "Failed")
        /\ Goto(c, IF calls[c].pc = "abort" THEN "abortRemove" ELSE "failRemove")
        /\ UNCHANGED <<entries, staged, running, frame>>

FailStartRemove(c) ==
    LET p == calls[c].proof
    IN  /\ calls[c].pc \in {"abortRemove", "failRemove"}
        /\ entries' = entries \ {p}
        /\ IF calls[c].pc = "abortRemove" THEN Unstage(p) ELSE UNCHANGED staged
        /\ Return(c)
        /\ UNCHANGED <<status, running, frame>>

\* The kickoff of the shards, if there is a worker to have one.  A refusal
\* makes the proof Failing; the shards that were accepted run on.
Dispatch(c) ==
    LET p == calls[c].proof
    IN  /\ calls[c].pc = "dispatch"
        /\ Undisturbed(p)
        /\ \/ /\ running' = IF app_eligible_workers(calls[c].workers) # {}
                            THEN running \cup {p} ELSE running
              /\ UNCHANGED status
           \/ /\ app_eligible_workers(calls[c].workers) # {}
              /\ running' \in {running, running \cup {p}}
              /\ IF state[p] = "InProgress" THEN Status(p, "Failing") ELSE UNCHANGED status
        /\ Return(c)
        /\ UNCHANGED <<entries, staged, frame>>

\* The client of start_proof is gone: the server drops the call at an await.
CallDropped(c) ==
    /\ calls[c].pc \in {"gate", "upload", "states", "dispatch"}
    /\ Return(c)
    /\ UNCHANGED <<status, entries, staged, running, frame>>

StartStep(c) ==
    \/ Admit(c) \/ InitProof(c) \/ TakeStaged(c) \/ UploadToWorkers(c)
    \/ FanoutDeferralStates(c) \/ Restage(c) \/ FailStart(c) \/ FailStartRemove(c)
    \/ Dispatch(c)
-----------------------------------------------------------------------------
(* Results, timeout, cancel *)

\* The push of the retained inputs, or of what a client staged over them, and the
\* request behind it are delivered.
JitPushed(p) ==
    /\ p \in running
    /\ state[p] = "InProgress"
    /\ staged[p].what \in {"kept", "deferral"}
    /\ Unstage(p)
    /\ UNCHANGED <<status, entries, calls, running, frame>>

\* The last result of the tree, or an error, is handled.
LastResult(p) ==
    /\ p \in running
    /\ state[p] = "InProgress"
    /\ Undisturbed(p)
    /\ \/ Touched(p, "Ready") \/ Touched(p, "Failing")
    /\ UNCHANGED <<entries, staged, calls, running, frame>>

\* No more results of p will come: all are in, or its workers restarted.
ShardsOver(p) ==
    /\ p \in running
    /\ state[p] \notin {"InProgress", "Ready"}
    /\ running' = running \ {p}
    /\ UNCHANGED <<status, entries, staged, calls, frame>>

\* scan_and_timeout_proofs.
Timeout(p) ==
    /\ state[p] = "InProgress"
    /\ Undisturbed(p)
    /\ Status(p, "Failing")
    /\ UNCHANGED <<entries, staged, calls, running, frame>>

\* try_finalize_failing_proof, once the workers drained or after the TTL.
Drained(p) ==
    /\ state[p] = "Failing"
    /\ Status(p, "Failed")
    /\ finalizing' = [finalizing EXCEPT ![p] = "start"]
    /\ UNCHANGED <<entries, staged, calls, running, canceling, files>>

\* cancel_proof of a proof in progress, in two halves: the status under the proof's
\* lock, then the scheduler's entry and the staged bytes.
Cancel(p) ==
    /\ state[p] = "InProgress"
    /\ Undisturbed(p)
    /\ Status(p, "Canceled")
    /\ canceling' = canceling \cup {p}
    /\ UNCHANGED <<entries, staged, calls, finalizing, running, files>>

CancelRemove(p) ==
    /\ p \in canceling
    /\ entries' = entries \ {p}
    /\ Unstage(p)
    /\ canceling' = canceling \ {p}
    /\ UNCHANGED <<status, calls, finalizing, running, files>>

\* Of any other proof there is only the second half: a status that the first leaves
\* alone does not become InProgress before the second.  (Of an unknown uuid it would
\* drop no more than the sweep does.)
CancelNoStatus(p) ==
    /\ state[p] \notin {None, "InProgress"}
    /\ entries' = entries \ {p}
    /\ Unstage(p)
    /\ UNCHANGED <<status, calls, canceling, finalizing, running, files>>
-----------------------------------------------------------------------------
(* finalize_proof *)

FinalizeReady(p) ==
    /\ state[p] = "Ready"
    /\ finalizing[p] = "idle"
    /\ finalizing' = [finalizing EXCEPT ![p] = "start"]
    /\ UNCHANGED <<status, entries, staged, calls, canceling, running, files>>

\* Staged bytes go first; then, on a blocking thread and under the proof's lock,
\* a sealed proof is persisted, if there is a directory for it.
FinalizeStart(p) ==
    /\ finalizing[p] = "start"
    /\ Unstage(p)
    /\ finalizing' = [finalizing EXCEPT ![p] = IF state[p] # "Ready" THEN "remove"
                                              ELSE IF persists THEN "writing" ELSE "publishing"]
    /\ UNCHANGED <<status, entries, calls, canceling, running, files>>

PersistFails(p) ==
    /\ Touched(p, "Failed")
    /\ finalizing' = [finalizing EXCEPT ![p] = "remove"]
    /\ UNCHANGED disk

\* persist_final_proof_to_disk writes a temporary file, whose name nobody looks up
\* and which may fail,
PersistWrite(p) ==
    /\ finalizing[p] = "writing"
    /\ \/ /\ finalizing' = [finalizing EXCEPT ![p] = "renaming"]
          /\ UNCHANGED <<status, disk>>
       \/ PersistFails(p)
    /\ UNCHANGED <<entries, staged, calls, canceling, running, persists, completed>>

Rename(p) ==
    /\ disk' = [disk EXCEPT ![p] = @ \cup {kind[p]}]
    /\ finalizing' = [finalizing EXCEPT ![p] = "publishing"]
    /\ UNCHANGED status

\* Mutant: the error of the rename is not looked at.
PersistRenameUnchecked(p) ==
    /\ finalizing[p] = "renaming"
    /\ \/ Rename(p)
       \/ /\ finalizing' = [finalizing EXCEPT ![p] = "publishing"]
          /\ UNCHANGED <<status, disk>>
    /\ UNCHANGED <<entries, staged, calls, canceling, running, persists, completed>>

\* and renames it, which may fail too;
PersistRename(p) ==
    /\ finalizing[p] = "renaming"
    /\ Rename(p) \/ PersistFails(p)
    /\ UNCHANGED <<entries, staged, calls, canceling, running, persists, completed>>

\* only then the proof is Completed.
Publish(p) ==
    /\ finalizing[p] = "publishing"
    /\ Touched(p, "Completed")
    /\ completed' = completed \cup {<<p, kind[p]>>}
    /\ finalizing' = [finalizing EXCEPT ![p] = "remove"]
    /\ UNCHANGED <<entries, staged, calls, canceling, running, persists, disk>>

\* The completed event is posted and the scheduler's entry removed.
FinalizeRemove(p) ==
    /\ finalizing[p] = "remove"
    /\ \/ entries' = entries \ {p} /\ UNCHANGED disturbed
       \/ "droppedFinalize" \in Rare /\ Disturb(p) /\ UNCHANGED entries
    /\ finalizing' = [finalizing EXCEPT ![p] = "idle"]
    /\ UNCHANGED <<state, old, kind, staged, calls, canceling, running, files>>

FinalizeStep(p) ==
    \/ FinalizeStart(p) \/ PersistWrite(p) \/ PersistRename(p) \/ Publish(p)
    \/ FinalizeRemove(p)
-----------------------------------------------------------------------------
(* Time, eviction, crash *)

\* Mutant: a proof that is still failing may be evicted.
should_evict_failing(p) == p \in old /\ state[p] \in Terminal \cup {"Failing"}

\* Five minutes without an update once the status is terminal, ten hours before.
should_evict(p) ==
    /\ p \in old
    /\ state[p] \in Terminal \/ ("longTimeout" \in Rare /\ state[p] = "InProgress")

\* Five minutes pass: not within steps that only compute or write a file, but
\* at a call's uploads, and under results that do not come.
Age(p) ==
    /\ state[p] # None
    /\ p \notin old
    /\ finalizing[p] = "idle" /\ p \notin canceling
    /\ \A c \in Calls : calls[c].proof = p => calls[c].pc \in {"gate", "upload", "states", "dispatch"}
    /\ old' = old \cup {p}
    /\ UNCHANGED <<state, kind, disturbed, entries, staged, calls, running, frame>>

\* evict_stale_proofs, in the course of some proof_result.
Evict(p) ==
    /\ should_evict(p)
    /\ state' = [state EXCEPT ![p] = None]
    /\ kind' = [kind EXCEPT ![p] = None]
    /\ old' = old \ {p}
    /\ IF state[p] = "InProgress" THEN Disturb(p) ELSE UNCHANGED disturbed
    /\ UNCHANGED <<entries, staged, calls, running, frame>>

\* The watchdog reclaims an upload that no start_proof followed for five minutes.
OrphanSweep(p) ==
    /\ state[p] = None
    /\ staged[p].at = "upload"
    /\ Unstage(p)
    /\ UNCHANGED <<status, entries, calls, running, frame>>

\* All but the files is gone; workers run on, and register again.
Crash ==
    /\ crashesLeft > 0
    /\ crashesLeft' = crashesLeft - 1
    /\ workers' = [i \in Ids |-> NoWorker]
    /\ url_to_id' = [u \in Urls |-> NoId]
    /\ registering' = [u \in Urls |-> NoCall]
    /\ state' = [p \in Proofs |-> None]
    /\ entries' = {}
    /\ staged' = [p \in Proofs |-> Nothing]
    /\ calls' = [c \in Calls |-> NoStart]
    /\ finalizing' = [p \in Proofs |-> "idle"]
    /\ canceling' = {}
    /\ old' = {}
    /\ kind' = [p \in Proofs |-> None]
    /\ disturbed' = {}
    /\ UNCHANGED <<running, files, startsLeft>>
-----------------------------------------------------------------------------
\* The manager's own tasks.
Task(p) ==
    \/ Timeout(p) \/ Drained(p) \/ FinalizeReady(p) \/ FinalizeStep(p) \/ CancelRemove(p)
    \/ OrphanSweep(p)

Next ==
    \/ /\ \E u \in Urls : Register(u)
       /\ UNCHANGED <<lifecycleVars, startsLeft, crashesLeft>>
    \/ /\ \E c \in Calls, p \in Proofs, pre \in BOOLEAN : StartReady(c, p, pre)
       /\ UNCHANGED <<registryVars, crashesLeft>>
    \/ /\ \/ \E c \in Calls : StartStep(c) \/ CallDropped(c)
          \/ \E p \in Proofs :
                \/ \E what \in Contents : UploadInput(p, what)
                \/ Cancel(p) \/ CancelNoStatus(p) \/ Task(p)
                \/ JitPushed(p) \/ LastResult(p) \/ ShardsOver(p)
                \/ Age(p) \/ Evict(p)
       /\ UNCHANGED <<registryVars, startsLeft, crashesLeft>>
    \/ Crash

Spec == Init /\ [][Next]_vars
-----------------------------------------------------------------------------
Pcs == {"idle", "gate", "init", "take", "upload", "states", "restage", "abort", "fail",
        "abortRemove", "failRemove", "dispatch"}
Registered == [Ids -> [url : Urls \cup {None}, role : WorkerRoles \cup {None}]]
Started == [pc : Pcs, proof : Proofs \cup {None}, pre : BOOLEAN,
            held : ContentKinds \cup {None, "kept"}, workers : Registered]

\* Types.  Only uploads carry a time stamp: the sweep is for them alone.  While
\* finalize_proof has the proof's lock, nothing takes the sealed status away.
TypeOK ==
    /\ workers \in Registered
    /\ url_to_id \in [Urls -> Ids \cup {NoId}]
    /\ registering \in [Urls -> [id : Ids \cup {NoId}, role : WorkerRoles \cup {None}]]
    /\ state \in [Proofs -> Statuses]
    /\ entries \subseteq Proofs /\ canceling \subseteq Proofs /\ old \subseteq Proofs
    /\ running \subseteq Proofs /\ disturbed \subseteq Proofs
    /\ kind \in [Proofs -> ProofTypes \cup {None}]
    /\ \A p \in Proofs : kind[p] # None <=> state[p] \in {"InProgress", "Ready", "Failing"}
    /\ staged \in [Proofs -> [what : ContentKinds \cup {None, "kept"}, at : {None, "upload"}]]
    /\ \A p \in Proofs : staged[p].at = "upload" => staged[p].what \in ContentKinds
    /\ calls \in [Calls -> Started]
    /\ \A c \in Calls : calls[c].pc = "idle" \/ calls[c].proof \in Proofs
    /\ finalizing \in [Proofs -> {"idle", "start", "writing", "renaming", "publishing", "remove"}]
    /\ \A p \in Proofs : Persisting(p) => state[p] = "Ready"
    /\ persists \in BOOLEAN
    /\ disk \in [Proofs -> SUBSET ProofTypes]
    /\ completed \subseteq Proofs \X ProofTypes

\* The shards of an admitted proof are whole: whichever registrations raced,
\* its workers have different URLs, and the ids that get shards are the
\* residues 0..num_provers-1 of the segments.
ShardsCovered ==
    \A c \in Calls : calls[c] # NoStart =>
      LET ws == calls[c].workers
      IN  /\ \A i, j \in Ids : ws[i].url = ws[j].url => i = j
          /\ \A i \in app_eligible_workers(ws) : \A j \in 0..i : RunsStark(ws[j].role)

\* "One active proof at a time": calls of start_proof race, and a canceled or
\* failed one may still be uploading, yet one proof at most has the slot.
OneActiveProof == \A p, q \in entries : p = q

\* A call of start_proof that failed is about to give the slot of p back.
GivesBack(p) ==
    \E c \in Calls : calls[c].proof = p /\ calls[c].pc \in {"abortRemove", "failRemove"}

\* The slot is never lost: its proof is alive in proof_states, or some task is
\* about to give the slot back.  The exceptions are the proofs that a coincidence
\* of RareKinds has met since their admission: a status change between the two
\* inserts of the admission, a dropped finalize_proof, an eviction in progress.
SlotHasOwner ==
    \A p \in entries \ disturbed :
      \/ state[p] \in {"InProgress", "Ready", "Failing"}
      \/ finalizing[p] # "idle" \/ p \in canceling
      \/ GivesBack(p)

\* What download_proof answers: the one artifact of the uuid; no choice between two.
download_proof(p) ==
    LET found == IF persists THEN disk[p] ELSE {}
    IN  CASE found = {} -> "not found"
          [] \E t \in ProofTypes : found = {t} -> CHOOSE t \in found : TRUE
          [] OTHER -> "multiple"

\* Where proofs are persisted, the artifact of a proof that is or was Completed can
\* be downloaded, also after a crash at any point and new attempts under the same
\* uuid, unless an attempt of the other type has left its artifact beside it.
\* Without the directory there is nothing to download.
CompletedIsDownloadable ==
    \A p \in Proofs, t \in ProofTypes :
      <<p, t>> \in completed =>
         /\ persists => \/ download_proof(p) = t
                        \/ download_proof(p) = "multiple" /\ t \in disk[p]
         /\ ~persists => download_proof(p) = "not found"

\* Retained deferral inputs "always have a `proof_states` entry", so that the
\* sweep of orphaned inputs may skip them (scan_and_timeout_proofs).
KeptHasState == \A p \in Proofs : staged[p].what = "kept" => state[p] # None
=============================================================================

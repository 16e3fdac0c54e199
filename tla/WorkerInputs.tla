----------------------------- MODULE WorkerInputs -----------------------------
(***************************************************************************)
(* The input files of a worker under /dev/shm                              *)
(* (crates/edge-worker/src/handlers.rs): uploads, the sharded app kickoff  *)
(* that uses them, the janitor and the no-space cleanup that reclaim them, *)
(* and the deferral input that the manager pushes just in time for the     *)
(* tail merge.  One directory per proof; all of these run as tasks of      *)
(* their own, interleaved at their awaits.  Worker composes them with the  *)
(* recursion requests.                                                     *)
(***************************************************************************)
EXTENDS Integers, Sequences, FiniteSets

CONSTANTS Proofs,        \* proofs with inputs uploaded to this worker
          Started,       \* which of them the manager may start, each once: the
                         \* others were pre-uploaded and wait for its slot
          Deferral,      \* those with deferral states and inputs
          Capacity       \* files that fit into /dev/shm

ASSUME InputsAssumption ==
    /\ IsFiniteSet(Proofs) /\ Deferral \subseteq Proofs
    /\ Started \subseteq SUBSET Proofs
    /\ Capacity \in Nat \ {0}

VARIABLES disk,     \* [Proofs -> files in its directory]
          old,      \* directories not modified for STALE_UPLOADED_INPUT_TTL
          active,   \* active_uploaded_proofs
          upload,   \* [Proofs -> the file whose upload has no space, "none" mostly]
          app,      \* [Proofs -> where its app phase is on this worker]
          tail,     \* [Proofs -> where its tail merge is]
          cleaner,  \* [Cleaners -> a run of cleanup_stale_uploaded_inputs]
          started,  \* the proofs the manager starts
          raced     \* kept for checking: kickoffs that found a scan past its
                    \* last look at active_uploaded_proofs for the proof

inputVars == <<disk, old, active, upload, app, tail, cleaner, started, raced>>

Janitor == "janitor"
Cleaners == Proofs \cup {Janitor}
Idle == [pc |-> "scan", todo |-> {}, dir |-> Janitor]
Tmp == "tmp"    \* what a write without space leaves behind

NoInputs ==
    /\ disk = [p \in Proofs |-> {}]
    /\ old = {}
    /\ active = {}
    /\ upload = [p \in Proofs |-> "none"]
    /\ app = [p \in Proofs |-> "new"]
    /\ tail = [p \in Proofs |-> "none"]
    /\ cleaner = [c \in Cleaners |-> Idle]
    /\ started \in Started
    /\ raced = {}

NoSpace == Cardinality(UNION {{p} \X (disk[p] \ {Tmp}) : p \in Proofs}) >= Capacity
required_files(p) == IF p \in Deferral THEN {"input", "state"} ELSE {"input"}
App(p, l) == app' = [app EXCEPT ![p] = l]
Deletes(c, p) == cleaner[c].pc = "delete" /\ cleaner[c].dir = p
-----------------------------------------------------------------------------
(* Uploads *)

\* Mutant: the file is renamed into place although the write failed.
WriteFileAlways(p, f) ==
    /\ disk' = [disk EXCEPT ![p] = (@ \ {Tmp}) \cup {f}]
    /\ old' = old \ {p}

\* Temporary file and rename: the file is there as a whole or not at all.
WriteFile(p, f) ==
    /\ disk' = [disk EXCEPT ![p] = IF NoSpace THEN @ \cup {Tmp} ELSE (@ \ {Tmp}) \cup {f}]
    /\ old' = old \ {p}

\* The manager has the response to an upload.
Uploaded(p, f, ok) ==
    IF f = "deferral_input"
    THEN /\ tail' = [tail EXCEPT ![p] = IF ok THEN "pushed" ELSE "over"]
         /\ UNCHANGED app
    ELSE /\ App(p, IF ~ok THEN "over"
                   ELSE IF f = "input" /\ p \in Deferral THEN "input" ELSE "uploaded")
         /\ UNCHANGED tail

\* A first write; without space, stale inputs are cleaned before one retry.
Upload(p, f) ==
    /\ upload[p] = "none"
    /\ WriteFile(p, f)
    /\ IF NoSpace
       THEN /\ upload' = [upload EXCEPT ![p] = f]
            /\ cleaner' = [cleaner EXCEPT ![p] =
                 [Idle EXCEPT !.todo = {q \in Proofs : disk'[q] # {}}]]
            /\ UNCHANGED <<app, tail>>
       ELSE Uploaded(p, f, TRUE) /\ UNCHANGED <<upload, cleaner>>
    /\ UNCHANGED <<active, started, raced>>

UploadRetry(p) ==
    /\ upload[p] # "none"
    /\ cleaner[p] = Idle
    /\ WriteFile(p, upload[p])
    /\ Uploaded(p, upload[p], ~NoSpace)
    /\ upload' = [upload EXCEPT ![p] = "none"]
    /\ UNCHANGED <<active, cleaner, started, raced>>

\* start_proof uploads the input and, of a deferral proof, the states.
UploadInput(p) == app[p] = "new" /\ Upload(p, "input")
UploadDeferralState(p) == app[p] = "input" /\ Upload(p, "state")

\* push_deferral_inputs_jit, after leaf and internal layers were proved on top of
\* the results of the app phase.  Its job may still have to clean up: a slow
\* response to its last result lets the tree overtake it.
UploadDeferralInput(p) ==
    /\ p \in Deferral
    /\ tail[p] = "none"
    /\ app[p] \in {"posted", "cleanup", "done"}
    /\ Upload(p, "deferral_input")

\* Another worker refused its upload: this one hears no more of the proof.
ManagerGivesUp(p) ==
    /\ app[p] = "uploaded" /\ p \in started
    /\ App(p, "over")
    /\ UNCHANGED <<disk, old, active, upload, tail, cleaner, started, raced>>
-----------------------------------------------------------------------------
(* handle_sharded_app_prove *)

\* Mutant: the proof is not marked active.
KickoffUnmarked(p) ==
    /\ app[p] = "uploaded" /\ p \in started
    /\ App(p, "waiting")
    /\ UNCHANGED <<disk, old, active, upload, tail, cleaner, started, raced>>

\* The proof is marked active before the handler waits for its files.
Kickoff(p) ==
    /\ app[p] = "uploaded" /\ p \in started
    /\ active' = active \cup {p}
    /\ App(p, "waiting")
    /\ raced' = IF \E c \in Cleaners : Deletes(c, p) THEN raced \cup {p} ELSE raced
    /\ UNCHANGED <<disk, old, upload, tail, cleaner, started>>

\* All files are there and an app prover looks free: the job is spawned.
KickoffAccepted(p) ==
    /\ app[p] = "waiting"
    /\ required_files(p) \subseteq disk[p]
    /\ App(p, "accepted")
    /\ UNCHANGED <<disk, old, active, upload, tail, cleaner, started, raced>>

\* 408 for files that do not come within 30 seconds,
KickoffTimesOut(p) ==
    /\ app[p] = "waiting"
    /\ ~(required_files(p) \subseteq disk[p])
    /\ App(p, "refuse")
    /\ raced' = raced \ {p}
    /\ UNCHANGED <<disk, old, active, upload, tail, cleaner, started>>

\* 503 without a free app prover.
KickoffRefused(p) ==
    /\ app[p] = "waiting"
    /\ required_files(p) \subseteq disk[p]
    /\ App(p, "refuse")
    /\ raced' = raced \ {p}
    /\ UNCHANGED <<disk, old, active, upload, tail, cleaner, started>>

\* The connection is gone while the handler waits: the server drops it.
KickoffDropped(p) ==
    /\ app[p] = "waiting"
    /\ App(p, "dropped")
    /\ raced' = raced \ {p}
    /\ UNCHANGED <<disk, old, active, upload, tail, cleaner, started>>

\* The prover reads its inputs, if they are still there.
ReadInputs(p) ==
    /\ app[p] = "accepted"
    /\ App(p, IF required_files(p) \subseteq disk[p] THEN "proving" ELSE "refuse")
    /\ raced' = raced \ {p}
    /\ UNCHANGED <<disk, old, active, upload, tail, cleaner, started>>

\* All results of the job have been sent to the manager; the job may have failed.
LastResultPosted(p) ==
    /\ app[p] = "proving"
    /\ \/ App(p, "posted") \/ App(p, "refuse")
    /\ UNCHANGED <<disk, old, active, upload, tail, cleaner, started, raced>>

\* Mutant: the mark is kept.
CleanupMarkNever(p) ==
    /\ app[p] \in {"posted", "refuse"}
    /\ App(p, IF app[p] = "posted" THEN "cleanup" ELSE "discard")
    /\ UNCHANGED <<disk, old, active, upload, tail, cleaner, started, raced>>

\* cleanup_uploaded_input_dir: the mark goes first, then the directory.
CleanupMark(p) ==
    /\ app[p] \in {"posted", "refuse"}
    /\ active' = active \ {p}
    /\ App(p, IF app[p] = "posted" THEN "cleanup" ELSE "discard")
    /\ UNCHANGED <<disk, old, upload, tail, cleaner, started, raced>>

CleanupUploadedInputDir(p) ==
    /\ app[p] \in {"cleanup", "discard"}
    /\ disk' = [disk EXCEPT ![p] = {}]
    /\ old' = old \ {p}
    /\ App(p, IF app[p] = "cleanup" THEN "done" ELSE "over")
    /\ UNCHANGED <<active, upload, tail, cleaner, started, raced>>

AppStep(p) ==
    \/ Kickoff(p) \/ KickoffAccepted(p) \/ KickoffTimesOut(p) \/ ReadInputs(p)
    \/ LastResultPosted(p) \/ CleanupMark(p) \/ CleanupUploadedInputDir(p)
-----------------------------------------------------------------------------
(* The deferral input of run_deferral_tail_merge *)

\* The merge reads the pushed inputs into memory and removes the directory.
ReadDeferralInputs(p) ==
    /\ tail[p] = "pushed"
    /\ IF "deferral_input" \in disk[p]
       THEN /\ tail' = [tail EXCEPT ![p] = "read"]
            /\ disk' = [disk EXCEPT ![p] = {}]
            /\ old' = old \ {p}
       ELSE tail' = [tail EXCEPT ![p] = "over"] /\ UNCHANGED <<disk, old>>
    /\ UNCHANGED <<active, upload, app, cleaner, started, raced>>

\* The proof ends otherwise (canceled, timed out) after the push.
TailAbandoned(p) ==
    /\ tail[p] = "pushed"
    /\ tail' = [tail EXCEPT ![p] = "over"]
    /\ UNCHANGED <<disk, old, active, upload, app, cleaner, started, raced>>
-----------------------------------------------------------------------------
(* cleanup_stale_uploaded_inputs *)

JanitorTick ==
    /\ cleaner[Janitor] = Idle
    /\ \E p \in Proofs : disk[p] # {}
    /\ cleaner' = [cleaner EXCEPT ![Janitor] =
         [Idle EXCEPT !.todo = {q \in Proofs : disk[q] # {}}]]
    /\ UNCHANGED <<disk, old, active, upload, app, tail, started, raced>>

\* Not in use, and its age is past the TTL.
Stale(p) == p \notin active /\ p \in old

CleanerScan(c, p) ==
    /\ cleaner[c].pc = "scan"
    /\ p \in cleaner[c].todo
    /\ cleaner' = [cleaner EXCEPT ![c] =
         IF Stale(p) THEN [pc |-> "recheck", todo |-> @.todo \ {p}, dir |-> p]
                     ELSE [Idle EXCEPT !.todo = cleaner[c].todo \ {p}]]
    /\ UNCHANGED <<disk, old, active, upload, app, tail, started, raced>>

CleanerRecheck(c) ==
    /\ cleaner[c].pc = "recheck"
    /\ cleaner' = [cleaner EXCEPT ![c] = IF @.dir \in active THEN [Idle EXCEPT !.todo = cleaner[c].todo]
                                                            ELSE [@ EXCEPT !.pc = "delete"]]
    /\ UNCHANGED <<disk, old, active, upload, app, tail, started, raced>>

CleanerDelete(c) ==
    /\ cleaner[c].pc = "delete"
    /\ disk' = [disk EXCEPT ![cleaner[c].dir] = {}]
    /\ old' = old \ {cleaner[c].dir}
    /\ cleaner' = [cleaner EXCEPT ![c] = [Idle EXCEPT !.todo = cleaner[c].todo]]
    /\ UNCHANGED <<active, upload, app, tail, started, raced>>

CleanerStep(c) ==
    (\E p \in Proofs : CleanerScan(c, p)) \/ CleanerRecheck(c) \/ CleanerDelete(c)

\* Ten minutes without a write.  Nobody promises a kickoff sooner than that
\* after the upload (a caller may have pre-uploaded long ago, Flow 1), nor the
\* final internal request after the push.
Age(p) ==
    /\ disk[p] # {}
    /\ p \notin old
    /\ old' = old \cup {p}
    /\ UNCHANGED <<disk, active, upload, app, tail, cleaner, started, raced>>

UploadStep(p) ==
    \/ UploadInput(p) \/ UploadDeferralState(p) \/ UploadDeferralInput(p) \/ UploadRetry(p)

InputsFault(p) == ManagerGivesUp(p) \/ KickoffRefused(p) \/ KickoffDropped(p)
=============================================================================

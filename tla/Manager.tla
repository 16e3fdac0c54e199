------------------------------- MODULE Manager -------------------------------
(***************************************************************************)
(* The edge manager at work on one proof                                   *)
(* (crates/edge-manager/src/handlers.rs): the tasks of the HTTP handlers,  *)
(* of send_work_with_retry and of the timeout watchdog, interleaved at     *)
(* their awaits over ProofState and Scheduler, and the workers that post   *)
(* results to them (crates/edge-worker/src/handlers.rs).  Init is the      *)
(* state in which start_proof begins to dispatch the shards.               *)
(*                                                                         *)
(* A handler is one call of proof_result past the ProofState lock; pc      *)
(* names the await it is at.  At "drain" and "dequeue" it holds the        *)
(* scheduler mutex.                                                        *)
(***************************************************************************)
EXTENDS Scheduler

CONSTANTS NumSegments,  \* segments of this execution
          MaxRetries,   \* attempts of send_work_with_retry (3 in the code)
          Faults,       \* what may go wrong in this instance,
          FaultBudget   \* and how often in all

FaultKinds == {"send",     \* a request is not delivered, or refused
               "ack",      \* a request is delivered and its response lost
               "lost",     \* a result is never posted
               "error",    \* a job fails and posts an Error result
               "persist",  \* the final proof cannot be written
               "cancel",   \* the client cancels
               "timeout"}  \* the proof outlives timeout_secs

ASSUME ManagerAssumption ==
    /\ NumSegments \in Nat \ {0}
    /\ MaxRetries \in Nat \ {0}
    /\ Faults \subseteq FaultKinds
    /\ FaultBudget \in Nat

VARIABLES handlers,  \* proof_result calls under way
          running,   \* recursion jobs accepted by workers
          shard,     \* [StarkWorkers -> "idle", "proving" or "failed"]
          unsent,    \* [StarkWorkers -> segments not posted yet]
          e2Unsent,  \* worker 0 has not posted ExecuteE2 yet
          dispatch,  \* start_proof: outcome of each shard's dispatch
          starter, canceler, watchdog,  \* the pcs of these tasks
          faultsLeft, \* of FaultBudget
          quiet      \* last_updated is more than FAILING_DRAIN_TTL ago

workerVars == <<running, shard, unsent, e2Unsent>>
taskVars == <<dispatch, starter, canceler, watchdog>>
vars == <<proofVars, schedulerVars, handlers, workerVars, taskVars, faultsLeft, quiet>>

Owned(w) == {seg \in 0..(NumSegments - 1) : seg % Cardinality(StarkWorkers) = w}

Init ==
    /\ NewProofState
    /\ InitProof
    /\ handlers = {}
    /\ running = {}
    /\ shard = [w \in StarkWorkers |-> "idle"]
    /\ unsent = [w \in StarkWorkers |-> Owned(w)]
    /\ e2Unsent = TRUE
    /\ dispatch = [w \in StarkWorkers |-> "sending"]
    /\ starter = "dispatch"
    /\ canceler = "idle"
    /\ watchdog = "idle"
    /\ faultsLeft = FaultBudget
    /\ quiet = FALSE

Fault(kind) == kind \in Faults /\ faultsLeft > 0 /\ faultsLeft' = faultsLeft - 1
NoFault == UNCHANGED faultsLeft

\* The mutex of the scheduler entry.  remove_proof does not take it.
LockFree == \A h \in handlers : h.pc \notin {"drain", "dequeue"}
-----------------------------------------------------------------------------
\* The shard itself as a job, for the results that do not answer a request.
ShardJob == [step |-> "ShardedAppProve", layer |-> 0, start |-> 0, end |-> 0, final |-> FALSE]

\* The first part of proof_result: the result is handled under the ProofState
\* lock.  Late results go on only for a Failing proof, rejected ones never.
ProofResult(w, work, copy, r) ==
    LET call(pc, todo) == [worker |-> w, work |-> work, copy |-> copy, res |-> r,
                           sealed |-> IsSealedForResults', pc |-> pc, todo |-> todo]
    IN  /\ HandleProofResult(r)
        /\ \/ /\ IsSealedForResults
              /\ handlers' = handlers \cup (IF status = "Failing" THEN {call("late", {})} ELSE {})
              /\ UNCHANGED quiet
           \/ /\ ~IsSealedForResults /\ Rejected(r)
              /\ UNCHANGED <<handlers, quiet>>
           \/ /\ ~IsSealedForResults /\ ~Rejected(r)
              /\ quiet' = FALSE
              /\ handlers' = handlers \cup
                   {call(IF r.kind = "ExecuteE2" THEN "segments"
                         ELSE IF IsSealedForResults' THEN "sealed" ELSE "complete",
                         Requests(r))}
        /\ UNCHANGED <<schedulerVars, taskVars>>

\* The sender task of a shard posts one result at a time.
Streaming(w) == \E h \in handlers : h.worker = w /\ h.work = ShardJob /\ h.res.kind # "Error"

\* Results of a failed shard that were queued for the sender still go out.
PostApp(w, seg) ==
    /\ shard[w] # "idle"
    /\ seg \in unsent[w]
    /\ ~Streaming(w)
    /\ ProofResult(w, ShardJob, 0, AppResult(seg, TRUE))
    /\ unsent' = [unsent EXCEPT ![w] = @ \ {seg}]
    /\ NoFault /\ UNCHANGED <<running, shard, e2Unsent>>

\* Worker 0 alone reports the segment count.  The result fails the proof if the
\* execution turned out dearer than its limit.
PostExecuteE2(ok) ==
    /\ IF ok THEN NoFault ELSE Fault("error")
    /\ shard[0] # "idle"
    /\ e2Unsent
    /\ ~Streaming(0)
    /\ ProofResult(0, ShardJob, 0, E2Result(NumSegments, ok))
    /\ e2Unsent' = FALSE
    /\ UNCHANGED <<running, shard, unsent>>

PostTree(job) ==
    /\ ProofResult(job.worker, job.work, job.copy, TreeResult(job.work, TRUE))
    /\ running' = running \ {job}
    /\ NoFault /\ UNCHANGED <<shard, unsent, e2Unsent>>

PostTreeError(job) ==
    /\ Fault("error")
    /\ ProofResult(job.worker, job.work, job.copy, ErrorResult)
    /\ running' = running \ {job}
    /\ UNCHANGED <<shard, unsent, e2Unsent>>

ShardDone(w) == Owned(w) # {} /\ unsent[w] = {} /\ (w = 0 => ~e2Unsent)

\* A failed shard posts its error beside the results it had queued.  All of its
\* results may be out by then: a consumer that could not load its prover fails
\* the job after the others proved every segment (merge_parallel_app_results).
PostShardError(w, queued, e2Queued) ==
    /\ Fault("error")
    /\ shard[w] = "proving"
    /\ queued \subseteq unsent[w]
    /\ IF w = 0 THEN e2Queued => e2Unsent ELSE e2Queued = e2Unsent
    /\ ProofResult(w, ShardJob, 0, ErrorResult)
    /\ shard' = [shard EXCEPT ![w] = "failed"]
    /\ unsent' = [unsent EXCEPT ![w] = queued]
    /\ e2Unsent' = e2Queued
    /\ UNCHANGED running

\* A result is posted once and not again: it can be lost, and with a worker
\* that dies, all of its results are.
LoseResult ==
    /\ Fault("lost")
    /\ \/ \E job \in running : running' = running \ {job} /\ UNCHANGED <<unsent, e2Unsent>>
       \/ \E w \in StarkWorkers : \E seg \in unsent[w] :
             /\ shard[w] # "idle"
             /\ unsent' = [unsent EXCEPT ![w] = @ \ {seg}]
             /\ UNCHANGED <<running, e2Unsent>>
       \/ shard[0] # "idle" /\ e2Unsent /\ e2Unsent' = FALSE /\ UNCHANGED <<running, unsent>>
    /\ UNCHANGED <<proofVars, schedulerVars, handlers, shard, taskVars, quiet>>
-----------------------------------------------------------------------------
\* Mutant: there is no TTL.
DrainOverNoTtl == status = "Failing" /\ IsFullyDrained

\* try_finalize_failing_proof: whether it makes the proof Failed.
DrainOver == status = "Failing" /\ (quiet \/ IsFullyDrained)

Goto(h, pc) == handlers' = (handlers \ {h}) \cup {[h EXCEPT !.pc = pc]}
\* On to the follow-up requests in todo; with none left the call returns.
FollowUp(h, todo) ==
    handlers' = (handlers \ {h}) \cup
                  {[h EXCEPT !.pc = "follow", !.todo = rest] : rest \in {todo} \ {{}}}
AfterSegments(h) == IF h.sealed THEN "sealed" ELSE "complete"

\* Mutant: the queue is not looked at when set_num_segments frees slots.
HandlerSegmentsNoDrain(h) ==
    /\ h.pc = "segments" /\ LockFree
    /\ IF entry THEN SetNumSegments(h.res.count) ELSE UNCHANGED schedulerVars
    /\ Goto(h, AfterSegments(h))
    /\ NoFault /\ UNCHANGED <<proofVars, workerVars, taskVars, quiet>>

HandlerSegments(h) ==
    /\ h.pc = "segments" /\ LockFree
    /\ \/ /\ entry
          /\ SetNumSegments(h.res.count)
          /\ Goto(h, IF DoneWithShard(h.res.count) # {} THEN "drain" ELSE AfterSegments(h))
       \/ /\ ~entry
          /\ UNCHANGED schedulerVars
          /\ Goto(h, AfterSegments(h))
    /\ NoFault /\ UNCHANGED <<proofVars, workerVars, taskVars, quiet>>

\* drain_pending: dequeue until nothing more is assigned.
HandlerDrain(h) ==
    /\ h.pc = "drain"
    /\ TryDequeueWork
    /\ Goto(h, IF sends' # sends THEN "drain" ELSE AfterSegments(h))
    /\ NoFault /\ UNCHANGED <<proofVars, workerVars, taskVars, quiet>>

\* worker_completed, and worker_drained for a late result, which takes no work
\* from the queue.
HandlerComplete(h) ==
    /\ h.pc \in {"complete", "late"} /\ LockFree
    /\ \/ /\ entry
          /\ ApplyCompletion(h.worker, h.res)
          /\ Goto(h, IF h.pc = "complete" /\ FreesSlot(h.worker, h.res) THEN "dequeue" ELSE "try")
       \/ /\ ~entry
          /\ UNCHANGED schedulerVars
          /\ Goto(h, "try")
    /\ NoFault /\ UNCHANGED <<proofVars, workerVars, taskVars, quiet>>

HandlerDequeue(h) ==
    /\ h.pc = "dequeue"
    /\ TryDequeueWork
    /\ Goto(h, "try")
    /\ NoFault /\ UNCHANGED <<proofVars, workerVars, taskVars, quiet>>

\* A result that sealed the proof leads to finalize_proof unless it failed it.
HandlerSealed(h) ==
    /\ h.pc = "sealed"
    /\ Goto(h, IF status = "Failing" THEN "try" ELSE "finalize")
    /\ NoFault /\ UNCHANGED <<proofVars, schedulerVars, workerVars, taskVars, quiet>>

\* The locked section of finalize_proof.
HandlerFinalize(h) ==
    /\ h.pc = "finalize"
    /\ \/ /\ status = "InProgress" /\ IsReadyForFinalization
          /\ \/ status' = "Completed" /\ NoFault
             \/ status' = "Failed" /\ Fault("persist")
          /\ quiet' = FALSE
       \/ /\ ~(status = "InProgress" /\ IsReadyForFinalization)
          /\ NoFault /\ UNCHANGED <<status, quiet>>
    /\ Goto(h, "remove")
    /\ UNCHANGED <<treeVars, schedulerVars, workerVars, taskVars>>

HandlerTry(h) ==
    /\ h.pc = "try" /\ LockFree
    /\ \/ DrainOver /\ TransitionFailingToFailed /\ Goto(h, "removeFailed")
       \/ ~DrainOver /\ UNCHANGED proofVars /\ FollowUp(h, h.todo)
    /\ NoFault /\ UNCHANGED <<schedulerVars, workerVars, taskVars, quiet>>

HandlerRemove(h) ==
    /\ h.pc \in {"remove", "removeFailed"}
    /\ RemoveProof /\ UNCHANGED sends
    /\ IF h.pc = "remove" THEN Goto(h, "try") ELSE FollowUp(h, h.todo)
    /\ NoFault /\ UNCHANGED <<proofVars, workerVars, taskVars, quiet>>

\* The follow-up requests, in the order they were returned.
HandlerFollowUp(h) ==
    /\ h.pc = "follow" /\ LockFree
    /\ \E work \in h.todo :
          /\ \A other \in h.todo : Priority(work) <= Priority(other)
          /\ EnqueueOrAssign(work)
          /\ FollowUp(h, h.todo \ {work})
    /\ NoFault /\ UNCHANGED <<proofVars, workerVars, taskVars, quiet>>

HandlerStep(h) ==
    \/ HandlerSegments(h) \/ HandlerDrain(h) \/ HandlerComplete(h) \/ HandlerDequeue(h)
    \/ HandlerSealed(h) \/ HandlerFinalize(h) \/ HandlerTry(h) \/ HandlerRemove(h)
    \/ HandlerFollowUp(h)
-----------------------------------------------------------------------------
\* send_work_with_retry.  A delivered request starts a job; a copy of it, if an
\* earlier response was lost.
Job(s) == [worker |-> s.worker, work |-> s.work, copy |-> s.tries]
\* Mutant: one attempt too many.
ResendOnceMore(s) == [s EXCEPT !.tries = @ + 1,
                               !.pc = IF s.tries >= MaxRetries THEN "release" ELSE "send"]
Resend(s) == [s EXCEPT !.tries = @ + 1,
                       !.pc = IF s.tries + 1 >= MaxRetries THEN "release" ELSE "send"]
SendGoto(s, pc) == sends' = (sends \ {s}) \cup {[s EXCEPT !.pc = pc]}
sendFrame == <<entry, bookVars, completed_segments, pending, sched_segments,
               assigned_leaf_proofs>>

SendAttempt(s) ==
    /\ s.pc = "send"
    /\ \/ NoFault /\ running' = running \cup {Job(s)} /\ sends' = sends \ {s}
       \/ /\ Fault("ack")
          /\ running' = running \cup {Job(s)} /\ sends' = (sends \ {s}) \cup {Resend(s)}
       \/ /\ Fault("send")
          /\ UNCHANGED running /\ sends' = (sends \ {s}) \cup {Resend(s)}
    /\ UNCHANGED <<proofVars, sendFrame, handlers, shard, unsent, e2Unsent, taskVars, quiet>>

SendRelease(s) ==
    /\ s.pc = "release" /\ LockFree
    /\ ReleaseWorker(s.worker)
    /\ SendGoto(s, "fail")
    /\ NoFault /\ UNCHANGED <<proofVars, handlers, workerVars, taskVars, quiet>>

SendFail(s) ==
    /\ s.pc = "fail"
    /\ status' = IF status = "InProgress" THEN "Failing" ELSE status
    /\ SendGoto(s, "try")
    /\ NoFault /\ UNCHANGED <<treeVars, sendFrame, handlers, workerVars, taskVars, quiet>>

SendTry(s) ==
    /\ s.pc = "try" /\ LockFree
    /\ \/ DrainOver /\ TransitionFailingToFailed /\ SendGoto(s, "remove")
       \/ ~DrainOver /\ UNCHANGED proofVars /\ sends' = sends \ {s}
    /\ NoFault /\ UNCHANGED <<sendFrame, handlers, workerVars, taskVars, quiet>>

SendRemove(s) ==
    /\ s.pc = "remove"
    /\ RemoveProof /\ sends' = sends \ {s}
    /\ NoFault /\ UNCHANGED <<proofVars, handlers, workerVars, taskVars, quiet>>

SendStep(s) == SendAttempt(s) \/ SendRelease(s) \/ SendFail(s) \/ SendTry(s) \/ SendRemove(s)
-----------------------------------------------------------------------------
\* start_proof: all shards are dispatched at once, without retries.
Kickoff(w) ==
    /\ dispatch[w] = "sending"
    /\ \/ /\ NoFault
          /\ shard' = [shard EXCEPT ![w] = "proving"]
          /\ dispatch' = [dispatch EXCEPT ![w] = "ok"]
       \/ /\ Fault("ack")
          /\ shard' = [shard EXCEPT ![w] = "proving"]
          /\ dispatch' = [dispatch EXCEPT ![w] = "failed"]
       \/ /\ Fault("send")
          /\ UNCHANGED shard /\ dispatch' = [dispatch EXCEPT ![w] = "failed"]
    /\ UNCHANGED <<proofVars, schedulerVars, handlers, running, unsent, e2Unsent,
                   starter, canceler, watchdog, quiet>>

\* One failure fails the proof.
StartJoin ==
    /\ starter = "dispatch"
    /\ \A w \in StarkWorkers : dispatch[w] # "sending"
    /\ \/ (\E w \in StarkWorkers : dispatch[w] = "failed") /\ MarkFailing /\ starter' = "release"
       \/ (\A w \in StarkWorkers : dispatch[w] = "ok") /\ UNCHANGED proofVars /\ starter' = "done"
    /\ NoFault
    /\ UNCHANGED <<schedulerVars, handlers, workerVars, dispatch, canceler, watchdog, quiet>>

StartRelease ==
    /\ starter = "release" /\ LockFree
    /\ \/ \E w \in StarkWorkers :
            /\ dispatch[w] = "failed"
            /\ \A v \in StarkWorkers : dispatch[v] = "failed" => w <= v
            /\ dispatch' = [dispatch EXCEPT ![w] = "released"]
            /\ ReleaseWorker(w) /\ UNCHANGED <<sends, starter>>
       \/ /\ \A w \in StarkWorkers : dispatch[w] # "failed"
          /\ starter' = "try"
          /\ UNCHANGED <<schedulerVars, dispatch>>
    /\ NoFault /\ UNCHANGED <<proofVars, handlers, workerVars, canceler, watchdog, quiet>>

StartTry ==
    /\ starter = "try" /\ LockFree
    /\ \/ DrainOver /\ TransitionFailingToFailed /\ starter' = "remove"
       \/ ~DrainOver /\ UNCHANGED proofVars /\ starter' = "done"
    /\ NoFault
    /\ UNCHANGED <<schedulerVars, handlers, workerVars, dispatch, canceler, watchdog, quiet>>

StartRemove ==
    /\ starter = "remove"
    /\ RemoveProof /\ UNCHANGED sends
    /\ starter' = "done"
    /\ NoFault /\ UNCHANGED <<proofVars, handlers, workerVars, dispatch, canceler, watchdog, quiet>>

StarterStep ==
    \/ \E w \in StarkWorkers : Kickoff(w)
    \/ StartJoin \/ StartRelease \/ StartTry \/ StartRemove
-----------------------------------------------------------------------------
\* Mutant: whatever its status, the proof is Canceled.
CancelProofAlways ==
    /\ "cancel" \in Faults
    /\ canceler = "idle"
    /\ status' = "Canceled"
    /\ canceler' = "remove"
    /\ NoFault
    /\ UNCHANGED <<treeVars, schedulerVars, handlers, workerVars, dispatch, starter, watchdog,
                   quiet>>

\* cancel_proof: the scheduler entry goes even if the status does not change.
CancelProof ==
    /\ "cancel" \in Faults
    /\ canceler = "idle"
    /\ status' = IF status = "InProgress" /\ ~IsReadyForFinalization THEN "Canceled" ELSE status
    /\ canceler' = "remove"
    /\ NoFault
    /\ UNCHANGED <<treeVars, schedulerVars, handlers, workerVars, dispatch, starter, watchdog,
                   quiet>>

CancelRemove ==
    /\ canceler = "remove"
    /\ RemoveProof /\ UNCHANGED sends
    /\ canceler' = "done"
    /\ NoFault /\ UNCHANGED <<proofVars, handlers, workerVars, dispatch, starter, watchdog, quiet>>

\* scan_and_timeout_proofs, in passes that repeat for ever: the backstop for a
\* Failing proof first, then the timeout and another try.
WatchdogTry ==
    /\ watchdog \in {"idle", "try"} /\ LockFree
    /\ \/ DrainOver /\ TransitionFailingToFailed /\ watchdog' = "remove"
       \/ ~DrainOver /\ watchdog = "try" /\ UNCHANGED proofVars /\ watchdog' = "idle"
    /\ NoFault
    /\ UNCHANGED <<schedulerVars, handlers, workerVars, dispatch, starter, canceler, quiet>>

WatchdogTimeout ==
    /\ "timeout" \in Faults
    /\ watchdog = "idle"
    /\ ~IsSealedForResults
    /\ MarkFailing
    /\ watchdog' = "try"
    /\ NoFault
    /\ UNCHANGED <<schedulerVars, handlers, workerVars, dispatch, starter, canceler, quiet>>

WatchdogRemove ==
    /\ watchdog = "remove"
    /\ RemoveProof /\ UNCHANGED sends
    /\ watchdog' = "idle"
    /\ NoFault /\ UNCHANGED <<proofVars, handlers, workerVars, dispatch, starter, canceler, quiet>>

\* FAILING_DRAIN_TTL runs from last_updated: from the last result handled, not
\* from the moment the proof began to fail.
MinutePasses ==
    /\ "timeout" \in Faults
    /\ ~quiet
    /\ quiet' = TRUE
    /\ NoFault /\ UNCHANGED <<proofVars, schedulerVars, handlers, workerVars, taskVars>>

WatchdogStep == WatchdogTry \/ WatchdogTimeout \/ WatchdogRemove
-----------------------------------------------------------------------------
WorkerStep ==
    \/ \E w \in StarkWorkers : \E seg \in unsent[w] : PostApp(w, seg)
    \/ \E ok \in BOOLEAN : PostExecuteE2(ok)
    \/ \E job \in running : PostTree(job)
    \/ \E job \in running : PostTreeError(job)
    \/ \E w \in StarkWorkers : \E queued \in SUBSET unsent[w] : \E e2Queued \in BOOLEAN :
          PostShardError(w, queued, e2Queued)
    \/ LoseResult

ManagerStep ==
    \/ \E h \in handlers : HandlerStep(h)
    \/ \E s \in sends : SendStep(s)
    \/ StarterStep \/ WatchdogStep \/ CancelRemove \/ MinutePasses

Next == WorkerStep \/ ManagerStep \/ CancelProof

\* The manager's tasks and its clock run on; workers and clients need not.
Spec == Init /\ [][Next]_vars /\ WF_vars(ManagerStep)

\* Workers finish what they accepted.
LiveSpec == Spec /\ WF_vars(WorkerStep)
-----------------------------------------------------------------------------
Pcs == {"segments", "drain", "complete", "late", "dequeue", "sealed", "finalize", "try",
        "remove", "removeFailed", "follow"}

\* Types: what each variable may hold, the pcs of the tasks included.  A send
\* never has more than MaxRetries attempts behind it.
TypeOK ==
    /\ status \in Statuses
    /\ num_segments \in {None, NumSegments}
    /\ sched_segments \in {None, NumSegments}
    /\ app_proofs \subseteq 0..(NumSegments - 1)
    /\ evm_proof \in BOOLEAN
    /\ entry \in BOOLEAN /\ quiet \in BOOLEAN /\ e2Unsent \in BOOLEAN
    /\ active_proof_count \in [Workers -> Nat]
    /\ sharded \in [Workers -> BOOLEAN]
    /\ assigned_leaf_proofs \in Nat
    /\ \A i \in DOMAIN pending : pending[i].step \in Steps
    /\ \A h \in handlers :
          /\ DOMAIN h = {"worker", "work", "copy", "res", "sealed", "pc", "todo"}
          /\ h.worker \in Workers /\ h.pc \in Pcs
          /\ h.pc = "segments" => h.res.count = NumSegments
          /\ \A x \in h.todo : x.step \in Steps
    /\ \A s \in sends :
          /\ DOMAIN s = {"worker", "work", "tries", "pc"}
          /\ s.worker \in Workers /\ s.work.step \in Steps
          /\ s.tries \in 0..MaxRetries
          /\ s.pc \in {"send", "release", "fail", "try", "remove"}
          /\ s.pc = "send" => s.tries < MaxRetries
    /\ \A j \in running :
          j.worker \in Workers /\ j.work.step \in Steps /\ j.copy \in 0..(MaxRetries - 1)
    /\ shard \in [StarkWorkers -> {"idle", "proving", "failed"}]
    /\ unsent \in [StarkWorkers -> SUBSET (0..(NumSegments - 1))]
    /\ dispatch \in [StarkWorkers -> {"sending", "ok", "failed", "released"}]
    /\ starter \in {"dispatch", "release", "try", "remove", "done"}
    /\ canceler \in {"idle", "remove", "done"}
    /\ watchdog \in {"idle", "try", "remove"}

\* The tree is built only when its size is known.  result_handler.rs relies on
\* it where it picks the request that carries the deferral tail ("not reachable
\* in practice (E2 always precedes the final InternalProve dispatch)"), yet
\* nothing in ProofState enforces it: leaf requests are returned before
\* ExecuteE2, and only the scheduler keeps them back, because no worker is free
\* of its shard before set_num_segments.
TreeNeedsSegments ==
    leaf_proofs # {} \/ internal_proofs # {} \/ evm_proof => num_segments # None

\* Why it holds.  Safe is stable.  Each way for tree work to reach a worker, and
\* each way to free a worker of its shard, is open only when Safe is true.
Safe == num_segments # None \/ status # "InProgress"

SegmentsFirst ==
    /\ TreeNeedsSegments
    /\ sends # {} \/ running # {} => Safe
    /\ \A w \in StarkWorkers : ~sharded[w] => Safe
    /\ sched_segments # None => Safe
    /\ starter = "release" => Safe
    /\ \A i \in DOMAIN pending : pending[i].step = "EvmProve" => Safe
    /\ \A h \in handlers : \A x \in h.todo : x.step = "EvmProve" => Safe
    /\ \A h \in handlers : h.res.kind = "Error" \/ h.pc \in {"segments", "late"} => Safe

WorksOf(w) == {s \in sends : s.worker = w /\ s.pc = "send"} \cup {j \in running : j.worker = w}
Unaccounted(w) == {h \in handlers : h.worker = w /\ h.res.kind \in Steps /\ h.pc = "complete"}

\* The scheduler's books are the truth: until the final artifact arrives, each
\* entry of a worker's active_proofs is a request being sent, a job running or
\* a result not yet accounted for, and active_proof_count is their number.
BooksMatchWork ==
    entry /\ ~IsReadyForFinalization =>
      \A w \in Workers :
        /\ active_proof_count[w] = Len(jobs[w]) + (IF sharded[w] THEN 1 ELSE 0)
        /\ \A step \in Steps :
              Cardinality({i \in DOMAIN jobs[w] : jobs[w][i].step = step}) =
                Cardinality({x \in WorksOf(w) : x.work.step = step})
                  + Cardinality({h \in Unaccounted(w) : h.res.kind = step})

\* No slot of the tree is worked on twice, and none that is already proved:
\* follow-ups, the queue, the sends and the jobs never hold two requests for it.
WorkExistsOnce ==
    LET todo   == UNION {{[h |-> h, work |-> x] : x \in h.todo} : h \in handlers}
        works  == {t.work : t \in todo} \cup {pending[i] : i \in DOMAIN pending}
                    \cup {s.work : s \in sends} \cup {j.work : j \in running}
    IN  /\ Cardinality(todo) + Len(pending) + Cardinality(sends) + Cardinality(running)
             = Cardinality({<<x.step, x.layer, x.start>> : x \in works})
        /\ \A x \in works :
              \/ x.step = "LeafProve" /\ LeafOf(x) \notin leaf_proofs
              \/ x.step = "InternalProve" /\ InternalOf(x) \notin internal_proofs
              \/ x.step = "EvmProve" /\ ~evm_proof

\* What a worker is really asked to do respects its role and its capacity: the
\* EVM step runs alone, on a worker that has it; no recursion work reaches a
\* worker with segments still to prove; never more than MaxLeafProvers jobs.
WorkersNotOverloaded ==
    \A w \in Workers :
      /\ Cardinality(WorksOf(w)) <= MaxLeafProvers
      /\ \A x \in WorksOf(w) :
            IF x.work.step = "EvmProve" THEN RunsEvmProve(w) /\ WorksOf(w) = {x}
            ELSE RunsStarkProving(w)
      /\ w \in StarkWorkers /\ WorksOf(w) # {} /\ shard[w] = "proving" => unsent[w] = {}

\* A proof that completes covers every segment of the execution, whatever was
\* duplicated, lost, late or in error on the way.
CompletedCoversAll ==
    status = "Completed" =>
      /\ app_proofs = 0..(NumSegments - 1)
      /\ \E p \in internal_proofs :
            p.layer = EffectiveFinalLayer(NumSegments) /\ p.start = 0 /\ p.end = NumSegments - 1

\* Drained means idle: when every worker's count is 0 no worker is still busy
\* for this proof, so the next proof may have them all.
DrainedMeansIdle ==
    (entry /\ IsFullyDrained) =>
      /\ \A w \in Workers : WorksOf(w) = {}
      /\ \A w \in StarkWorkers : shard[w] = "proving" => (ShardDone(w) \/ Owned(w) = {})

\* A terminal status is never left: finalize, timeout, cancel, the drain and
\* late results may come in any order.
TerminalIsFinal ==
    [][(status \in {"Completed", "Failed", "Canceled"}) => (status' = status)]_vars

\* The final artifact seals the proof against failing: mark_failing is a "no-op
\* once result accumulation seals" (state.rs).
SealedNeverFails ==
    [][(status = "InProgress" /\ IsReadyForFinalization) => (status' # "Failing")]_vars

\* No work is lost to a wakeup that never comes: without faults every proof
\* completes and gives the deployment back.
Completes == <>[](status = "Completed" /\ ~entry)

\* Whatever the workers do, the one slot for an active proof is given back.
SlotEventuallyFreed == <>[](~entry /\ status # "Failing")
=============================================================================

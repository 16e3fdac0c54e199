------------------------------ MODULE AppProver ------------------------------
(***************************************************************************)
(* One ShardedAppProve job of a worker                                     *)
(* (crates/edge-worker/src/provers/sharded_app_prover.rs and the task that *)
(* handle_sharded_app_prove spawns): the metered executor thread, the app  *)
(* provers that take segments from its bounded channel, and the sender     *)
(* that posts what they stream.  With one app prover the job runs on it    *)
(* alone; with more, prover 0 is the coordinator and the others consume.   *)
(* A snapshot is the number of the first segment it can start: the state   *)
(* saved when segment c closes lies inside segment c + 1.                  *)
(***************************************************************************)
EXTENDS Integers, Sequences, FiniteSets

CONSTANTS MaxProvers,     \* bound: workers that share an execution
          MaxAppProvers,  \* bound: app provers of this worker
          MaxSegments,    \* bound: segments of an execution
          FaultBudget     \* how many things may go wrong

ASSUME AppProverAssumption ==
    /\ MaxProvers \in Nat \ {0}
    /\ MaxAppProvers \in Nat \ {0}
    /\ MaxSegments \in Nat \ {0}
    /\ FaultBudget \in Nat

VARIABLES job,         \* num_provers, prover_id, max_app_provers of the request
          total,       \* segments the execution turns out to have
          exec,        \* the executor thread
          curr_idx,    \* the segment it closes next
          snapshots,   \* its deque of VM snapshots
          prove_chan,  \* bounded: executor to provers
          pc, held,    \* of each app prover: where it is, the segment it has
          prover_err,  \* the coordinator's loop broke on an error
          result_chan, \* bounded: to the sender task
          posted,      \* results the sender has posted
          sender,      \* "on" or "done"
          task,        \* the spawned task: "submit", "report", "wait" or "done"
          failed,      \* it posted the error
          faultsLeft

execVars == <<exec, curr_idx, snapshots, prove_chan>>
proverVars == <<pc, held, prover_err>>
taskVars == <<posted, sender, task, failed>>
vars == <<job, total, execVars, proverVars, result_chan, taskVars, faultsLeft>>

Jobs == {j \in [num_provers : 1..MaxProvers, prover_id : 0..(MaxProvers - 1),
                max_app_provers : 1..MaxAppProvers] : j.prover_id < j.num_provers}
Provers == 0..(job.max_app_provers - 1)
Parallel == job.max_app_provers > 1
E2 == -1    \* the ExecuteE2 result, among results named by their segment
Nothing == [seg |-> -2, from |-> 0]

\* Capacities of the channels.
ResultCapacity == 4
ProveCapacity == IF Parallel THEN 2 * job.max_app_provers ELSE 2
-----------------------------------------------------------------------------
\* Mutant: the snapshot is saved one segment too late for its target.
SavesNextOnly(c) == job.num_provers = 1 \/ (c + 1) % job.num_provers = job.prover_id

seeds_initial_snapshot == job.prover_id < 2

saves_snapshot_at(c) ==
    job.num_provers = 1 \/ (c + 2) % job.num_provers = job.prover_id

Assigned(c) == c % job.num_provers = job.prover_id
Owned == {c \in 0..(total - 1) : Assigned(c)}

Init ==
    /\ job \in Jobs
    /\ total \in 1..MaxSegments
    /\ exec = "off"
    /\ curr_idx = 0
    /\ snapshots = <<>>
    /\ prove_chan = <<>>
    /\ pc = [i \in Provers |-> "queued"]
    /\ held = [i \in Provers |-> Nothing]
    /\ prover_err = FALSE
    /\ result_chan = <<>>
    /\ posted = {}
    /\ sender = "on"
    /\ task = "submit"
    /\ failed = FALSE
    /\ faultsLeft = FaultBudget

Fault == faultsLeft > 0 /\ faultsLeft' = faultsLeft - 1
NoFault == UNCHANGED faultsLeft
Goto(i, l) == pc' = [pc EXCEPT ![i] = l]

\* Mutant: the receiver is not dropped before the executor is joined.
ReceiversUndropped ==
    {i \in Provers : pc[i] \in {"queued", "recv", "prove", "stream", "join"}}

\* Who still holds an end of the prove channel: the closure of a prover that
\* did not start holds it too, and its sender is the coordinator's until the
\* executor has it, whose closure keeps it until the thread returns.
Receivers == {i \in Provers : pc[i] \in {"queued", "recv", "prove", "stream"}}
ProveSenderAlive == exec \in {"run", "e2"} \/ (exec = "off" /\ pc[0] = "queued")
ResultSenderAlive ==
    exec \in {"run", "e2"} \/ \E i \in Provers : pc[i] \notin {"ok", "error"}
-----------------------------------------------------------------------------
(* The start of a prover *)

\* The input is read and the executor thread is spawned, with the first
\* snapshot where the schedule needs one.
SpawnExecutor ==
    /\ pc[0] = "queued"
    /\ Goto(0, "recv")
    /\ exec' = "run"
    /\ snapshots' = IF seeds_initial_snapshot THEN <<0>> ELSE <<>>
    /\ NoFault
    /\ UNCHANGED <<job, total, curr_idx, prove_chan, held, prover_err, result_chan, taskVars>>

StartSingle == ~Parallel /\ SpawnExecutor
StartCoordinator == Parallel /\ SpawnExecutor

StartConsumer(i) ==
    /\ i # 0
    /\ pc[i] = "queued"
    /\ Goto(i, "recv")
    /\ NoFault
    /\ UNCHANGED <<job, total, execVars, held, prover_err, result_chan, taskVars>>

\* run_app_job cannot load the program, or the input is missing or malformed:
\* the closure ends before it takes a segment.
StartFails(i) ==
    /\ Fault
    /\ pc[i] = "queued"
    /\ Goto(i, "error")
    /\ UNCHANGED <<job, total, execVars, held, prover_err, result_chan, taskVars>>

\* submit_parallel_app_job gives up before the coordinator is dispatched: its
\* closure is dropped, and those of consumers that no worker has.
DispatchFails(dropped) ==
    /\ Fault
    /\ Parallel
    /\ task = "submit"
    /\ 0 \in dropped
    /\ \A i \in dropped : pc[i] = "queued"
    /\ pc' = [i \in Provers |-> IF i \in dropped THEN "error" ELSE pc[i]]
    /\ task' = "report"
    /\ UNCHANGED <<job, total, execVars, held, prover_err, result_chan, posted, sender, failed>>
-----------------------------------------------------------------------------
(* The executor thread *)

\* Mutant: the loop does not leave at the last segment.
AfterSegmentPastEnd(left) ==
    /\ curr_idx' = curr_idx + 1
    /\ snapshots' = IF saves_snapshot_at(curr_idx) THEN Append(left, curr_idx + 2) ELSE left
    /\ UNCHANGED exec

\* After segment curr_idx: the loop ends with the execution, or the snapshot for
\* curr_idx + 2 is saved on what is left of the deque.
AfterSegment(left) ==
    IF curr_idx = total - 1
    THEN /\ exec' = IF job.prover_id = 0 THEN "e2" ELSE "done"
         /\ snapshots' = left
         /\ UNCHANGED curr_idx
    ELSE /\ curr_idx' = curr_idx + 1
         /\ snapshots' = IF saves_snapshot_at(curr_idx) THEN Append(left, curr_idx + 2) ELSE left
         /\ UNCHANGED exec

\* Runs until suspend; a segment of this shard goes to the provers, with the
\* oldest snapshot, once the channel has room.
ExecuteSegment ==
    /\ exec = "run"
    /\ \/ /\ ~Assigned(curr_idx)
          /\ AfterSegment(snapshots)
          /\ UNCHANGED prove_chan
       \/ /\ Assigned(curr_idx)
          /\ snapshots # <<>>
          /\ Receivers # {}
          /\ Len(prove_chan) < ProveCapacity
          /\ prove_chan' = Append(prove_chan, [seg |-> curr_idx, from |-> Head(snapshots)])
          /\ AfterSegment(IF job.num_provers = 1 /\ curr_idx = 0 THEN snapshots ELSE Tail(snapshots))
    /\ NoFault
    /\ UNCHANGED <<job, total, proverVars, result_chan, taskVars>>

\* The thread ends early: all receivers are gone, or the snapshot is missing
\* (a panic), or the program exits with a non-zero code.
ExecutorStops ==
    /\ exec = "run"
    /\ \/ /\ Assigned(curr_idx) /\ (snapshots = <<>> \/ Receivers = {})
          /\ exec' = IF snapshots = <<>> THEN "panicked" ELSE "failed"
          /\ NoFault
       \/ Fault /\ exec' = "failed"
    /\ UNCHANGED <<job, total, curr_idx, snapshots, prove_chan, proverVars, result_chan, taskVars>>

ExecutorLoopSingle == ~Parallel /\ (ExecuteSegment \/ ExecutorStops)
ExecutorLoopParallel == Parallel /\ (ExecuteSegment \/ ExecutorStops)

\* Prover 0 streams the segment count; the segments may fail to encode.
StreamExecuteE2 ==
    /\ exec = "e2"
    /\ \/ /\ Len(result_chan) < ResultCapacity
          /\ result_chan' = Append(result_chan, E2)
          /\ exec' = "done" /\ NoFault
       \/ Fault /\ exec' = "failed" /\ UNCHANGED result_chan
    /\ UNCHANGED <<job, total, curr_idx, snapshots, prove_chan, proverVars, taskVars>>
StreamExecuteE2Single == ~Parallel /\ StreamExecuteE2
StreamExecuteE2Parallel == Parallel /\ StreamExecuteE2
-----------------------------------------------------------------------------
(* The provers' loops *)

\* Mutant: the segment stays in the channel.
ReceivePeek(i, done) ==
    /\ pc[i] = "recv"
    /\ prove_chan # <<>>
    /\ held' = [held EXCEPT ![i] = Head(prove_chan)]
    /\ Goto(i, "prove")
    /\ NoFault
    /\ UNCHANGED <<job, total, execVars, prover_err, result_chan, taskVars>>

\* Takes the next segment; with none to come, the loop is left for done.
Receive(i, done) ==
    /\ pc[i] = "recv"
    /\ \/ /\ prove_chan # <<>>
          /\ held' = [held EXCEPT ![i] = Head(prove_chan)]
          /\ prove_chan' = Tail(prove_chan)
          /\ Goto(i, "prove")
       \/ /\ prove_chan = <<>>
          /\ ~ProveSenderAlive
          /\ Goto(i, done)
          /\ UNCHANGED <<held, prove_chan>>
    /\ NoFault
    /\ UNCHANGED <<job, total, exec, curr_idx, snapshots, prover_err, result_chan, taskVars>>

\* The fast-forward and the proof, on the last segment the public values and
\* deferral paths too, and the encoding.
Prove(i) ==
    /\ pc[i] = "prove"
    /\ Goto(i, "stream")
    /\ NoFault
    /\ UNCHANGED <<job, total, execVars, held, prover_err, result_chan, taskVars>>
Stream(i) ==
    /\ pc[i] = "stream"
    /\ Len(result_chan) < ResultCapacity
    /\ result_chan' = Append(result_chan, held[i].seg)
    /\ held' = [held EXCEPT ![i] = Nothing]
    /\ Goto(i, "recv")
    /\ NoFault
    /\ UNCHANGED <<job, total, execVars, prover_err, taskVars>>

\* The loop of the thread that spawned the executor breaks to the join.
ProveBreaks ==
    /\ Fault
    /\ pc[0] = "prove"
    /\ held' = [held EXCEPT ![0] = Nothing]
    /\ prover_err' = TRUE
    /\ Goto(0, "join")
    /\ UNCHANGED <<job, total, execVars, result_chan, taskVars>>

\* Returns at once: an encoding error, a panic the worker loop catches, and any
\* error of a consumer.  The executor, if it is this thread's, is left running.
ProveReturns(i) ==
    /\ Fault
    /\ pc[i] = "prove"
    /\ held' = [held EXCEPT ![i] = Nothing]
    /\ Goto(i, "error")
    /\ UNCHANGED <<job, total, execVars, prover_err, result_chan, taskVars>>

ProveLoopSingle ==
    ~Parallel /\ (Receive(0, "join") \/ Prove(0) \/ ProveBreaks)
ProveLoopCoordinator ==
    Parallel /\ (Receive(0, "join") \/ Prove(0) \/ ProveBreaks)
StreamSingle == ~Parallel /\ (Stream(0) \/ ProveReturns(0))
StreamCoordinator == Parallel /\ (Stream(0) \/ ProveReturns(0))
ConsumeSegmentsLoop(i) ==
    i # 0 /\ (Receive(i, "ok") \/ Prove(i) \/ Stream(i) \/ ProveReturns(i))

\* With the receiver dropped, the executor is joined; its errors come second.
Join ==
    /\ pc[0] = "join"
    /\ exec \in {"done", "failed", "panicked"}
    /\ Goto(0, IF exec = "done" /\ ~prover_err THEN "ok" ELSE "error")
    /\ NoFault
    /\ UNCHANGED <<job, total, execVars, held, prover_err, result_chan, taskVars>>
JoinSingle == ~Parallel /\ Join
JoinCoordinator == Parallel /\ Join
-----------------------------------------------------------------------------
(* The task of the handler and its sender *)

\* Mutant: the consumers' errors are dropped.
MergeCoordinatorOnly == pc[0] = "ok"

\* merge_parallel_app_results: success only if every prover had it.
MergeParallelAppResults == \A i \in Provers : pc[i] = "ok"

\* submit_sharded_app_job returns when the coordinator and the consumers have.
JobAnswered ==
    /\ task = "submit"
    /\ \A i \in Provers : pc[i] \in {"ok", "error"}
    /\ task' = IF MergeParallelAppResults THEN "wait" ELSE "report"
    /\ NoFault
    /\ UNCHANGED <<job, total, execVars, proverVars, result_chan, posted, sender, failed>>

SubmitError ==
    /\ task = "report"
    /\ task' = "wait"
    /\ failed' = TRUE
    /\ NoFault
    /\ UNCHANGED <<job, total, execVars, proverVars, result_chan, posted, sender>>

\* The sender posts one result after the other; a failed post is only logged.
SenderPost ==
    /\ result_chan # <<>>
    /\ posted' = posted \cup {Head(result_chan)}
    /\ result_chan' = Tail(result_chan)
    /\ NoFault
    /\ UNCHANGED <<job, total, execVars, proverVars, sender, task, failed>>

SenderEnds ==
    /\ sender = "on"
    /\ result_chan = <<>>
    /\ ~ResultSenderAlive
    /\ sender' = "done"
    /\ NoFault
    /\ UNCHANGED <<job, total, execVars, proverVars, result_chan, posted, task, failed>>

\* The sender is awaited, then the uploaded inputs are removed.
TaskEnds ==
    /\ task = "wait"
    /\ sender = "done"
    /\ task' = "done"
    /\ NoFault
    /\ UNCHANGED <<job, total, execVars, proverVars, result_chan, posted, sender, failed>>

Next ==
    \/ StartSingle \/ StartCoordinator
    \/ \E i \in Provers : StartConsumer(i) \/ StartFails(i)
    \/ \E dropped \in SUBSET Provers : DispatchFails(dropped)
    \/ ExecutorLoopSingle \/ ExecutorLoopParallel
    \/ StreamExecuteE2Single \/ StreamExecuteE2Parallel
    \/ ProveLoopSingle \/ ProveLoopCoordinator
    \/ StreamSingle \/ StreamCoordinator
    \/ \E i \in Provers : ConsumeSegmentsLoop(i)
    \/ JoinSingle \/ JoinCoordinator
    \/ JobAnswered \/ SubmitError \/ SenderPost \/ SenderEnds \/ TaskEnds

\* Threads run on, proofs and posts end (the HTTP client has a timeout), and
\* the pool runs every closure it accepted.
Spec == Init /\ [][Next]_vars
FairSpec == Spec /\ WF_vars(NoFault /\ Next)
-----------------------------------------------------------------------------
Elements(s) == {s[n] : n \in DOMAIN s}
InFlight == Elements(prove_chan) \cup ({held[i] : i \in Provers} \ {Nothing})

\* Types; the index of the executor stays inside the execution, and only segments of
\* this shard are posted.
TypeOK ==
    /\ job \in Jobs
    /\ total \in 1..MaxSegments
    /\ exec \in {"off", "run", "e2", "done", "failed", "panicked"}
    /\ curr_idx \in 0..(total - 1)
    /\ snapshots \in Seq(Nat)
    /\ pc \in [Provers -> {"queued", "recv", "prove", "stream", "join", "ok", "error"}]
    /\ prover_err \in BOOLEAN
    /\ posted \subseteq Owned \cup {E2}
    /\ sender \in {"on", "done"}
    /\ task \in {"submit", "report", "wait", "done"}
    /\ failed \in BOOLEAN
    /\ faultsLeft \in 0..FaultBudget

\* The snapshot schedule (seeds_initial_snapshot, saves_snapshot_at): an assigned
\* segment always finds a snapshot, which lies before the segment (the
\* fast-forward length is an unsigned difference) and at most one segment
\* further back than the freshest one; the deque never outgrows its capacity.
SnapshotsFit ==
    /\ exec # "panicked"
    /\ Len(snapshots) <= 2
    /\ \A d \in InFlight : d.from <= d.seg /\ d.seg <= d.from + 1

\* A segment is proved once: it is in one channel, or with one prover, or
\* posted, and never in two of these or twice in a channel.
SegmentInOnePlace ==
    LET queuedIn(ch, s) == {n \in DOMAIN ch : ch[n] = s}
        places(s) == Cardinality({n \in DOMAIN prove_chan : prove_chan[n].seg = s})
                       + Cardinality({i \in Provers : held[i].seg = s})
                       + Cardinality(queuedIn(result_chan, s))
                       + Cardinality({s} \cap posted)
    IN  /\ \A s \in {E2} \cup (0..(total - 1)) : places(s) <= 1
        /\ Len(result_chan) <= ResultCapacity
        /\ Len(prove_chan) <= ProveCapacity

\* The job implements what the manager relies on: nothing posted twice, nothing
\* missing without an error, nothing posted after the task is over.
Shard == INSTANCE ShardSpec WITH
           Segments <- 0..(MaxSegments - 1),
           unsent <- Owned \ posted,
           e2Unsent <- job.prover_id = 0 /\ E2 \notin posted,
           shard <- CASE task = "done" -> "idle"
                      [] task # "done" /\ failed -> "failed"
                      [] OTHER -> "proving"
ImplementsShard == Shard!Init /\ [][Shard!Next]_(Shard!shardVars)

\* The pipeline cannot lock up: whatever fails, the bounded channels drain, the
\* executor and the sender end and the task answers.
JobEnds == <>(task = "done" /\ exec \notin {"run", "e2"})
=============================================================================

------------------------------ MODULE ProverPool ------------------------------
(***************************************************************************)
(* One class of provers of a worker (crates/edge-worker/src/prover_pool.rs):*)
(* prover threads, each behind a job channel of one place and two atomic   *)
(* flags, and the tasks that submit jobs to them.  A task scans the flags, *)
(* which lag behind the threads, and sleeps on the shared Notify.          *)
(* Either every task submits one job (leaf, internal, root, halo2, or app  *)
(* provers with max_app_provers = 1), or each is a parallel app job over   *)
(* the whole class: part 0 is its coordinator, the others its consumers,   *)
(* which run until the coordinator has fed them.                           *)
(***************************************************************************)
EXTENDS Integers, FiniteSets

CONSTANTS NumThreads,        \* provers of the class (max_app_provers, ...)
          NumTasks,          \* single jobs submitted at about the same time
          NumParallel,       \* parallel app jobs at about the same time
          Programs,          \* programs app jobs are for
          MayShutdown        \* the pool may be shut down

ASSUME PoolAssumption ==
    /\ NumThreads \in Nat \ {0}
    /\ NumTasks \in Nat \ {0} /\ NumParallel \in 0..NumTasks
    /\ Programs # {} /\ MayShutdown \in BOOLEAN

Threads == 1..NumThreads
Tasks == 1..NumTasks
Parts == 0..(NumThreads - 1)
None == [task |-> 0, part |-> 0]
Items == [task : Tasks, part : Parts]

VARIABLES app,             \* the class is the app provers, which swap programs
          parallel,        \* the jobs are parallel app jobs
          program,         \* [Tasks -> program of its job]
          tpc,             \* [Tasks -> where the submitting task is]
          part,            \* [Tasks -> part it dispatches]
          scan,            \* [Tasks -> next thread of its scan]
          notified,        \* tasks whose registered wait was notified
          reply,           \* [Items -> "none", "ok", "error" or "dropped"]
          wpc, item,       \* [Threads -> where it is, the job it has]
          queue,           \* [Threads -> job in its channel, or None]
          is_busy, is_initialized,
          loaded,          \* [Threads -> program its prover is loaded for]
          feed,            \* [Tasks -> coordinator: "none", "on" or "over"]
          cancelled        \* cancel_token, and every cancel channel

taskVars == <<tpc, part, scan>>
threadVars == <<wpc, item, is_busy, is_initialized, loaded>>
vars == <<app, parallel, program, taskVars, notified, reply, threadVars, queue, feed, cancelled>>

NoProgram == "none"

Init ==
    /\ app \in BOOLEAN /\ parallel \in BOOLEAN
    /\ parallel => app
    /\ parallel => NumThreads > 1 /\ NumParallel > 0
    /\ program \in [Tasks -> IF app THEN Programs ELSE {NoProgram}]
    /\ tpc = [t \in Tasks |-> IF parallel /\ t > NumParallel THEN "done" ELSE "admit"]
    /\ part = [t \in Tasks |-> 0]
    /\ scan = [t \in Tasks |-> 1]
    /\ notified = {}
    /\ reply = [i \in Items |-> "none"]
    /\ wpc = [w \in Threads |-> "init"]
    /\ item = [w \in Threads |-> None]
    /\ queue = [w \in Threads |-> None]
    /\ is_busy = [w \in Threads |-> FALSE]
    /\ is_initialized = [w \in Threads |-> FALSE]
    /\ loaded = [w \in Threads |-> NoProgram]
    /\ feed = [t \in Tasks |-> "none"]
    /\ cancelled = FALSE

Available == {w \in Threads : ~is_busy[w] /\ is_initialized[w]}
busy_count == Cardinality({w \in Threads : is_busy[w]})
has_available_worker == Available # {}
Thread(w, l) == wpc' = [wpc EXCEPT ![w] = l]
Task(t, l) == tpc' = [tpc EXCEPT ![t] = l]
ConsumerOf(i) == parallel /\ i # None /\ i.part # 0

\* notify_waiters keeps no permit: it reaches the waiters registered by now.
notify_waiters ==
    notified' = notified \cup {t \in Tasks : tpc[t] \in {"check", "send", "wait"}}
-----------------------------------------------------------------------------
(* A prover thread *)

\* The kind's prover is built; on failure the thread exits uninitialized.  An
\* app prover starts without a program.
WorkerInit(w) ==
    /\ wpc[w] = "init"
    /\ \/ /\ is_initialized' = [is_initialized EXCEPT ![w] = TRUE]
          /\ Thread(w, "inited")
       \/ ~app /\ Thread(w, "dead") /\ UNCHANGED is_initialized
    /\ UNCHANGED <<app, parallel, program, taskVars, notified, reply, item, is_busy, loaded, queue,
                   feed, cancelled>>

\* worker_free.notify_waiters() after either flag is stored.
WorkerNotify(w) ==
    /\ \/ wpc[w] = "inited" /\ Thread(w, "recv")
       \/ wpc[w] = "freed" /\ Thread(w, "reply")
    /\ notify_waiters
    /\ UNCHANGED <<app, parallel, program, taskVars, reply, item, is_busy, is_initialized, loaded,
                   queue, feed, cancelled>>

\* The job leaves the channel before the thread is marked busy.
WorkerReceive(w) ==
    /\ wpc[w] = "recv"
    /\ queue[w] # None
    /\ item' = [item EXCEPT ![w] = queue[w]]
    /\ queue' = [queue EXCEPT ![w] = None]
    /\ Thread(w, "got")
    /\ UNCHANGED <<app, parallel, program, taskVars, notified, reply, is_busy, is_initialized, loaded,
                   feed, cancelled>>

\* The job begins; a coordinator has its executor feed the consumers.
Begin(w) ==
    /\ feed' = [feed EXCEPT ![item[w].task] = IF item[w].part = 0 THEN "on" ELSE @]
    /\ Thread(w, "run")

\* Busy is stored.
WorkerStart(w) ==
    /\ wpc[w] = "got"
    /\ is_busy' = [is_busy EXCEPT ![w] = TRUE]
    /\ IF app THEN Thread(w, "load") /\ UNCHANGED feed ELSE Begin(w)
    /\ UNCHANGED <<app, parallel, program, taskVars, notified, reply, item, is_initialized, loaded,
                   queue, cancelled>>

\* run_app_job: with another program loaded, or none, that prover is dropped
\* first, to free its memory for the one to build.
RunAppJob(w) ==
    /\ wpc[w] = "load"
    /\ IF loaded[w] = program[item[w].task]
       THEN Begin(w) /\ UNCHANGED loaded
       ELSE /\ loaded' = [loaded EXCEPT ![w] = NoProgram]
            /\ Thread(w, "build") /\ UNCHANGED feed
    /\ UNCHANGED <<app, parallel, program, taskVars, notified, reply, item, is_busy, is_initialized,
                   queue, cancelled>>

\* build_gpu_prover for the job's program.
BuildProver(w) ==
    /\ wpc[w] = "build"
    /\ loaded' = [loaded EXCEPT ![w] = program[item[w].task]]
    /\ Begin(w)
    /\ UNCHANGED <<app, parallel, program, taskVars, notified, reply, item, is_busy, is_initialized,
                   queue, cancelled>>

\* The program is not among the instances, or its prover cannot be built: the
\* job, with whatever its closure holds, is dropped.
WorkerLoadFails(w) ==
    /\ wpc[w] \in {"load", "build"}
    /\ feed' = [feed EXCEPT ![item[w].task] = IF item[w].part = 0 THEN "over" ELSE @]
    /\ reply' = [reply EXCEPT ![item[w]] = "error"]
    /\ Thread(w, "ran")
    /\ UNCHANGED <<app, parallel, program, taskVars, notified, item, is_busy, is_initialized, loaded,
                   queue, cancelled>>

\* The job is over; its closure is gone with it.
RunEnds(w, result) ==
    /\ wpc[w] = "run"
    /\ reply' = [reply EXCEPT ![item[w]] = result]
    /\ feed' = [feed EXCEPT ![item[w].task] = IF item[w].part = 0 THEN "over" ELSE @]
    /\ Thread(w, "ran")
    /\ UNCHANGED <<app, parallel, program, taskVars, notified, item, is_busy, is_initialized, loaded,
                   queue, cancelled>>

\* A consumer returns only when the coordinator has fed it or is gone.
WorkerRun(w) ==
    /\ ConsumerOf(item[w]) => feed[item[w].task] # "none"
    /\ RunEnds(w, "ok")

\* The job fails or panics, which catch_unwind makes an error.
WorkerRunFails(w) == RunEnds(w, "error")

WorkerFree(w) ==
    /\ wpc[w] = "ran"
    /\ is_busy' = [is_busy EXCEPT ![w] = FALSE]
    /\ Thread(w, "freed")
    /\ UNCHANGED <<app, parallel, program, taskVars, notified, reply, item, is_initialized, loaded, queue, feed, cancelled>>

\* result_sender.send: from here on the reply can be awaited.
WorkerReply(w) ==
    /\ wpc[w] = "reply"
    /\ item' = [item EXCEPT ![w] = None]
    /\ Thread(w, "recv")
    /\ UNCHANGED <<app, parallel, program, taskVars, notified, reply, is_busy, is_initialized, loaded, queue, feed, cancelled>>

\* The cancel channel wins the select; a queued job is dropped with the channel.
WorkerStop(w) ==
    /\ wpc[w] = "recv"
    /\ cancelled
    /\ Thread(w, "stopped")
    /\ queue' = [queue EXCEPT ![w] = None]
    /\ IF queue[w] = None THEN UNCHANGED <<reply, feed>>
       ELSE /\ reply' = [reply EXCEPT ![queue[w]] = "dropped"]
            /\ feed' = [feed EXCEPT ![queue[w].task] = IF queue[w].part = 0 THEN "over" ELSE @]
    /\ UNCHANGED <<app, parallel, program, taskVars, notified, item, is_busy, is_initialized, loaded, cancelled>>

WorkerStep(w) ==
    \/ WorkerInit(w) \/ WorkerNotify(w) \/ WorkerReceive(w) \/ WorkerStart(w) \/ RunAppJob(w)
    \/ BuildProver(w) \/ WorkerLoadFails(w) \/ WorkerRun(w) \/ WorkerFree(w) \/ WorkerReply(w) \/ WorkerStop(w)
-----------------------------------------------------------------------------
(* A submitting task *)

\* Replies a task can see: those whose thread has sent them.
Answered(i) ==
    reply[i] # "none" /\ \A w \in Threads : item[w] # i

\* The handler refuses with 503 when no prover looks free; a parallel job needs
\* all of them, and begins with its consumers.
Admit(t) ==
    /\ tpc[t] = "admit"
    /\ Task(t, IF ~has_available_worker \/ (parallel /\ Cardinality(Available) < NumThreads)
               THEN "done" ELSE "register")
    /\ part' = [part EXCEPT ![t] = IF parallel THEN 1 ELSE 0]
    /\ UNCHANGED <<app, parallel, program, scan, notified, reply, threadVars, queue, feed, cancelled>>

\* worker_free.notified() is enabled, then the scan begins.
Register(t) ==
    /\ tpc[t] = "register"
    /\ Task(t, "check")
    /\ scan' = [scan EXCEPT ![t] = 1]
    /\ notified' = notified \ {t}
    /\ UNCHANGED <<app, parallel, program, part, reply, threadVars, queue, feed, cancelled>>

\* Mutant: the scan never ends.
CheckPastEnd(t) ==
    /\ tpc[t] = "check"
    /\ \/ scan[t] \in Available /\ Task(t, "send") /\ UNCHANGED scan
       \/ scan[t] \notin Available /\ scan' = [scan EXCEPT ![t] = @ + 1] /\ UNCHANGED tpc
    /\ UNCHANGED <<app, parallel, program, part, notified, reply, threadVars, queue, feed, cancelled>>

\* Mutant: the waiter is registered after the scan.
CheckThenRegister(t) ==
    /\ tpc[t] = "check"
    /\ IF scan[t] > NumThreads
       THEN /\ Task(t, IF cancelled THEN "fail" ELSE "wait")
            /\ notified' = notified \ {t}
            /\ UNCHANGED scan
       ELSE /\ \/ scan[t] \in Available /\ Task(t, "send") /\ UNCHANGED scan
               \/ scan[t] \notin Available /\ scan' = [scan EXCEPT ![t] = @ + 1] /\ UNCHANGED tpc
            /\ UNCHANGED notified
    /\ UNCHANGED <<app, parallel, program, part, reply, threadVars, queue, feed, cancelled>>

\* The two flags of the next thread; at the end of the scan, to sleep or out.
Check(t) ==
    /\ tpc[t] = "check"
    /\ IF scan[t] > NumThreads
       THEN /\ Task(t, IF cancelled THEN "fail" ELSE "wait")
            /\ UNCHANGED scan
       ELSE \/ scan[t] \in Available /\ Task(t, "send") /\ UNCHANGED scan
            \/ scan[t] \notin Available /\ scan' = [scan EXCEPT ![t] = @ + 1] /\ UNCHANGED tpc
    /\ UNCHANGED <<app, parallel, program, part, notified, reply, threadVars, queue, feed, cancelled>>

\* What follows the dispatch of a part: the next consumer, the barrier, or the
\* wait for the answer to a single job or to the coordinator.
AfterDispatch(t) ==
    /\ part' = [part EXCEPT ![t] = IF parallel THEN (@ + 1) % NumThreads ELSE 0]
    /\ Task(t, IF ~parallel \/ part[t] = 0 THEN "await"
               ELSE IF part[t] = NumThreads - 1 THEN "barrier" ELSE "register")

\* Mutant: a job the channel takes is offered to the next thread too.
TrySendAgain(t) ==
    LET w == scan[t]
    IN  /\ tpc[t] = "send"
        /\ \/ /\ wpc[w] # "stopped" /\ queue[w] = None
              /\ queue' = [queue EXCEPT ![w] = [task |-> t, part |-> part[t]]]
              /\ Task(t, "check")
              /\ scan' = [scan EXCEPT ![t] = @ + 1]
              /\ UNCHANGED part
           \/ /\ wpc[w] # "stopped" /\ queue[w] # None
              /\ AfterDispatch(t)
              /\ UNCHANGED <<queue, scan>>
           \/ wpc[w] = "stopped" /\ Task(t, "fail") /\ UNCHANGED <<queue, scan, part>>
        /\ UNCHANGED <<app, parallel, program, notified, reply, threadVars, feed, cancelled>>

\* Mutant: a job the channel refuses is not put back.
TrySendLosingJob(t) ==
    LET w == scan[t]
    IN  /\ tpc[t] = "send"
        /\ \/ /\ wpc[w] # "stopped" /\ queue[w] = None
              /\ queue' = [queue EXCEPT ![w] = [task |-> t, part |-> part[t]]]
              /\ AfterDispatch(t)
              /\ UNCHANGED scan
           \/ /\ wpc[w] # "stopped" /\ queue[w] # None
              /\ AfterDispatch(t)
              /\ UNCHANGED <<queue, scan>>
           \/ wpc[w] = "stopped" /\ Task(t, "fail") /\ UNCHANGED <<queue, scan, part>>
        /\ UNCHANGED <<app, parallel, program, notified, reply, threadVars, feed, cancelled>>

\* try_send into the thread's channel: sent, Full or Disconnected.
TrySend(t) ==
    LET w == scan[t]
    IN  /\ tpc[t] = "send"
        /\ \/ /\ wpc[w] # "stopped" /\ queue[w] = None
              /\ queue' = [queue EXCEPT ![w] = [task |-> t, part |-> part[t]]]
              /\ AfterDispatch(t)
              /\ UNCHANGED scan
           \/ /\ wpc[w] # "stopped" /\ queue[w] # None
              /\ Task(t, "check")
              /\ scan' = [scan EXCEPT ![t] = @ + 1]
              /\ UNCHANGED <<queue, part>>
           \/ wpc[w] = "stopped" /\ Task(t, "fail") /\ UNCHANGED <<queue, scan, part>>
        /\ UNCHANGED <<app, parallel, program, notified, reply, threadVars, feed, cancelled>>

Wake(t) ==
    /\ tpc[t] = "wait"
    /\ t \in notified \/ cancelled
    /\ Task(t, "register")
    /\ UNCHANGED <<app, parallel, program, part, scan, notified, reply, threadVars, queue, feed, cancelled>>

\* The one-second backstop of the select.
Backstop(t) ==
    /\ tpc[t] = "wait"
    /\ Task(t, "register")
    /\ UNCHANGED <<app, parallel, program, part, scan, notified, reply, threadVars, queue, feed, cancelled>>

\* Mutant: there is no barrier.
ConsumersBusyAlways == TRUE

\* wait_for_busy_app_workers: as many threads are busy as there are consumers.
ConsumersBusy == busy_count >= NumThreads - 1

Barrier(t) ==
    /\ tpc[t] = "barrier"
    /\ \/ ConsumersBusy /\ Task(t, "register")
       \/ ~ConsumersBusy /\ Task(t, "fail")      \* after two seconds
    /\ UNCHANGED <<app, parallel, program, part, scan, notified, reply, threadVars, queue, feed, cancelled>>

\* An error return drops the job it had in hand and, of a parallel one, the
\* coordinator.
Fail(t) ==
    /\ tpc[t] = "fail"
    /\ feed' = [feed EXCEPT ![t] = "over"]
    /\ Task(t, "done")
    /\ UNCHANGED <<app, parallel, program, part, scan, notified, reply, threadVars, queue, cancelled>>

\* The answer to a single job or the coordinator; a dropped one is an error at
\* once.  Then the consumers'.
Await(t) ==
    /\ tpc[t] = "await"
    /\ Answered([task |-> t, part |-> 0])
    /\ Task(t, IF parallel /\ reply[[task |-> t, part |-> 0]] # "dropped" THEN "merge" ELSE "done")
    /\ UNCHANGED <<app, parallel, program, part, scan, notified, reply, threadVars, queue, feed, cancelled>>

AwaitConsumers(t) ==
    /\ tpc[t] = "merge"
    /\ \A p \in Parts : Answered([task |-> t, part |-> p])
    /\ Task(t, "done")
    /\ UNCHANGED <<app, parallel, program, part, scan, notified, reply, threadVars, queue, feed, cancelled>>

TaskStep(t) ==
    \/ Admit(t) \/ Register(t) \/ Check(t) \/ TrySend(t) \/ Wake(t) \/ Backstop(t)
    \/ Barrier(t) \/ Fail(t) \/ Await(t) \/ AwaitConsumers(t)

Shutdown ==
    /\ MayShutdown
    /\ ~cancelled
    /\ cancelled' = TRUE
    /\ UNCHANGED <<app, parallel, program, taskVars, notified, reply, threadVars, queue, feed>>

Next ==
    \/ \E w \in Threads : WorkerStep(w) \/ WorkerRunFails(w)
    \/ \E t \in Tasks : TaskStep(t)
    \/ Shutdown

\* Threads and tasks are scheduled, and provers return; nothing has to fail.
Spec ==
    /\ Init /\ [][Next]_vars
    /\ \A w \in Threads : WF_vars(WorkerStep(w))
    /\ \A t \in Tasks : WF_vars(TaskStep(t))
-----------------------------------------------------------------------------
\* Types; a scan ends behind the last thread of the class.
TypeOK ==
    /\ part \in [Tasks -> Parts]
    /\ scan \in [Tasks -> 1..(NumThreads + 1)]
    /\ notified \subseteq Tasks
    /\ reply \in [Items -> {"none", "ok", "error", "dropped"}]
    /\ item \in [Threads -> Items \cup {None}]
    /\ queue \in [Threads -> Items \cup {None}]
    /\ is_busy \in [Threads -> BOOLEAN]
    /\ is_initialized \in [Threads -> BOOLEAN]
    /\ loaded \in [Threads -> Programs \cup {NoProgram}]

\* No wakeup is lost (submit_to_workers registers its waiter before it scans):
\* while a task sleeps unnotified, no thread idles with an empty channel.  The
\* one-second backstop is only that.
NoLostWakeup ==
    \A t \in Tasks : (tpc[t] = "wait" /\ t \notin notified /\ ~cancelled) =>
      \A w \in Threads : ~(wpc[w] = "recv" /\ queue[w] = None)

\* The barrier does its work: the coordinator is never queued behind one of its
\* own consumers, which would wait for it for ever.
CoordinatorNotBehindConsumer ==
    \A w \in Threads :
      (parallel /\ queue[w] # None /\ queue[w].part = 0) =>
        ~(item[w] # None /\ item[w].task = queue[w].task /\ wpc[w] \in {"got", "load", "build", "run"})

\* What its task has still to dispatch: the parts from this one on and, last of
\* all, the coordinator.
Undispatched(i) ==
    \/ tpc[i.task] = "admit"
    \/ /\ tpc[i.task] \in {"register", "check", "send", "wait", "barrier"}
       /\ i.part = 0 \/ (part[i.task] # 0 /\ i.part >= part[i.task])

\* A job runs once: the one that a full channel gives back, a stopped thread
\* drops with its channel or a failed build drops is never also at another
\* thread, and no thread works on what was answered already.
JobInOnePlace ==
    \A i \in Items, v \in Threads :
      /\ queue[v] = i => /\ ~Undispatched(i) /\ reply[i] = "none"
                         /\ \A w \in Threads : item[w] # i /\ (w # v => queue[w] # i)
      /\ item[v] = i =>
           /\ ~Undispatched(i)
           /\ wpc[v] \in {"got", "load", "build", "run"} => reply[i] = "none"
           /\ \A w \in Threads : w # v => item[w] # i
      /\ Undispatched(i) => reply[i] = "none"

\* Every submitted job is answered, unless no thread of the class came up (the
\* manager's timeout is the recovery the code names).
EveryJobAnswered ==
    <>((\A t \in Tasks : tpc[t] = "done") \/ (\A w \in Threads : wpc[w] = "dead"))
=============================================================================

------------------------------ MODULE PoolProofs ------------------------------
(***************************************************************************)
(* Proofs about ProverPool, for every number of prover threads, of tasks   *)
(* and of programs, with and without a shutdown: its types, that a job is  *)
(* at one thread at most and runs unanswered, that no wakeup is lost, and, *)
(* for one parallel job at a time, that the coordinator never waits behind *)
(* one of its own consumers.                                               *)
(***************************************************************************)
EXTENDS ProverPool, FiniteSetTheorems, TLAPS

\* Where a thread holds a job, and where a task has a waiter registered.
AtWork == {"got", "load", "build", "run"}
Holding == AtWork \cup {"ran", "freed", "reply"}
Registered == {"check", "send", "wait"}

ControlTypes ==
    /\ app \in BOOLEAN /\ parallel \in BOOLEAN /\ (parallel => NumThreads > 1)
    /\ program \in [Tasks -> Programs \cup {NoProgram}]
    /\ tpc \in [Tasks -> {"admit", "register", "check", "send", "wait", "barrier", "fail",
                          "await", "merge", "done"}]
    /\ wpc \in [Threads -> {"init", "inited", "recv", "dead", "stopped"} \cup Holding]
    /\ feed \in [Tasks -> {"none", "on", "over"}]
    /\ cancelled \in BOOLEAN

\* A thread past the channel holds a job; a task about to send has a thread.
HasJob == \A w \in Threads : wpc[w] \in Holding => item[w] \in Items
HasThread == \A t \in Tasks : tpc[t] = "send" => scan[t] \in Threads

PoolInv == TypeOK /\ ControlTypes /\ HasJob /\ HasThread
-----------------------------------------------------------------------------
(* Types *)

\* No job is the empty place of a channel.
LEMMA NoneIsNoItem == None \notin Items
BY DEF None, Items, Tasks

\* The part dispatched after a part is a part.
LEMMA NextPart == \A p \in Parts : (p + 1) % NumThreads \in Parts /\ 0 \in Parts
                                   /\ (NumThreads > 1 => 1 \in Parts)
BY PoolAssumption DEF Parts

\* The initial state is well typed.
LEMMA PoolInit == Init => PoolInv
<1>. SUFFICES ASSUME Init PROVE PoolInv
  OBVIOUS
<1>1. TypeOK
  BY PoolAssumption DEF Init, TypeOK, Parts, Threads, Tasks
<1>2. ControlTypes
  BY PoolAssumption DEF Init, ControlTypes
<1>3. HasJob /\ HasThread
  BY PoolAssumption DEF Init, HasJob, HasThread, Holding, AtWork
<1>. QED  BY <1>1, <1>2, <1>3 DEF PoolInv

\* A prover thread's step keeps the types.
LEMMA WorkerTypes ==
    ASSUME PoolInv, NEW w \in Threads, WorkerStep(w) \/ WorkerRunFails(w)
    PROVE  PoolInv'
<1>. USE DEF PoolInv, TypeOK, ControlTypes, HasJob, HasThread, Holding, AtWork, Thread, taskVars,
              threadVars
<1>1. CASE WorkerInit(w)
  <2>1. CASE Thread(w, "inited")
    BY <1>1, <2>1 DEF WorkerInit
  <2>2. CASE Thread(w, "dead")
    BY <1>1, <2>2 DEF WorkerInit
  <2>. QED  BY <1>1, <2>1, <2>2 DEF WorkerInit
<1>2. CASE WorkerNotify(w)
  BY <1>2 DEF WorkerNotify, notify_waiters
<1>3. CASE WorkerReceive(w)
  BY <1>3, NoneIsNoItem DEF WorkerReceive
<1>4. CASE WorkerStart(w)
  BY <1>4 DEF WorkerStart, Begin
<1>5. CASE RunAppJob(w) \/ BuildProver(w) \/ WorkerLoadFails(w)
  <2>0. wpc[w] \in {"load", "build"} => item[w] \in Items /\ item[w].task \in Tasks
    BY DEF Items
  <2>1. CASE RunAppJob(w)
    BY <2>1 DEF RunAppJob, Begin
  <2>2. CASE BuildProver(w)
    <3>1. program[item[w].task] \in Programs \cup {NoProgram}
      BY <2>0, <2>2 DEF BuildProver
    <3>. QED  BY <2>2, <3>1 DEF BuildProver, Begin
  <2>3. CASE WorkerLoadFails(w)
    BY <2>3 DEF WorkerLoadFails
  <2>. QED  BY <1>5, <2>1, <2>2, <2>3
<1>6. CASE WorkerRun(w) \/ WorkerRunFails(w)
  BY <1>6 DEF WorkerRun, WorkerRunFails, RunEnds
<1>7. CASE WorkerFree(w)
  BY <1>7 DEF WorkerFree
<1>8. CASE WorkerReply(w)
  BY <1>8 DEF WorkerReply
<1>9. CASE WorkerStop(w)
  BY <1>9 DEF WorkerStop
<1>. QED  BY <1>1, <1>2, <1>3, <1>4, <1>5, <1>6, <1>7, <1>8, <1>9 DEF WorkerStep

\* A submitting task's step keeps the types.
LEMMA TaskTypes ==
    ASSUME PoolInv, NEW t \in Tasks, TaskStep(t)
    PROVE  PoolInv'
<1>. USE DEF PoolInv, TypeOK, ControlTypes, HasJob, HasThread, Task, taskVars, threadVars
<1>1. CASE Admit(t)
  BY <1>1, NextPart, PoolAssumption DEF Admit, Parts
<1>2. CASE Register(t)
  BY <1>2, PoolAssumption DEF Register
<1>3. CASE Check(t)
  <2>1. scan[t] \in 1..(NumThreads + 1) /\ NumThreads \in Nat
    BY PoolAssumption
  <2>2. CASE scan[t] > NumThreads
    BY <1>3, <2>1, <2>2 DEF Check
  <2>3. CASE ~(scan[t] > NumThreads) /\ scan[t] \in Available
    BY <1>3, <2>1, <2>3 DEF Check, Available
  <2>4. CASE ~(scan[t] > NumThreads) /\ scan[t] \notin Available
    <3>1. scan[t] + 1 \in 1..(NumThreads + 1)
      BY <2>1, <2>4
    <3>. QED  BY <1>3, <2>4, <3>1 DEF Check
  <2>. QED  BY <2>2, <2>3, <2>4
<1>4. CASE TrySend(t)
  <2>. DEFINE i == [task |-> t, part |-> part[t]]
  <2>1. i \in Items /\ scan[t] \in Threads
    BY <1>4 DEF TrySend, Items
  <2>2. CASE queue' = [queue EXCEPT ![scan[t]] = i] /\ AfterDispatch(t) /\ UNCHANGED scan
    BY <1>4, <2>1, <2>2, NextPart DEF TrySend, AfterDispatch
  <2>3. CASE Task(t, "check") /\ scan' = [scan EXCEPT ![t] = @ + 1] /\ UNCHANGED <<queue, part>>
    BY <1>4, <2>1, <2>3, PoolAssumption DEF TrySend, Threads
  <2>4. CASE Task(t, "fail") /\ UNCHANGED <<queue, scan, part>>
    BY <1>4, <2>4 DEF TrySend
  <2>. QED  BY <1>4, <2>2, <2>3, <2>4 DEF TrySend
<1>5. CASE Wake(t) \/ Backstop(t)
  BY <1>5 DEF Wake, Backstop
<1>6. CASE Barrier(t)
  BY <1>6 DEF Barrier
<1>7. CASE Fail(t)
  BY <1>7 DEF Fail
<1>8. CASE Await(t) \/ AwaitConsumers(t)
  BY <1>8 DEF Await, AwaitConsumers
<1>. QED  BY <1>1, <1>2, <1>3, <1>4, <1>5, <1>6, <1>7, <1>8 DEF TaskStep

\* Every step keeps the types.
LEMMA PoolNext == PoolInv /\ [Next]_vars => PoolInv'
<1>. SUFFICES ASSUME PoolInv, [Next]_vars PROVE PoolInv'
  OBVIOUS
<1>1. CASE Shutdown
  BY <1>1 DEF Shutdown, PoolInv, TypeOK, ControlTypes, HasJob, HasThread, taskVars, threadVars
<1>2. CASE UNCHANGED vars
  BY <1>2 DEF vars, PoolInv, TypeOK, ControlTypes, HasJob, HasThread, taskVars, threadVars
<1>. QED  BY <1>1, <1>2, WorkerTypes, TaskTypes DEF Next

\* PoolInv is an invariant of the pool.
LEMMA PoolInvariant == Spec => []PoolInv
BY PoolInit, PoolNext, PTL DEF Spec

\* Flags, channels and cursors of prover_pool.rs keep their types; a scan never
\* runs more than one place past the last thread of the class.
THEOREM PoolTypesHold == Spec => []TypeOK
<1>1. PoolInv => TypeOK
  BY DEF PoolInv
<1>. QED  BY <1>1, PoolInvariant, PTL
-----------------------------------------------------------------------------
(* Wakeups *)

\* The threads a task has scanned will notify it before they wait for work,
\* or have work: this is what sleeping is safe on, and what the scan builds up.
\* A thread that waits for work shows it in its flags, so no scan passes it.
FlagsUp ==
    \A w \in Threads : /\ wpc[w] \notin {"init", "dead"} => is_initialized[w]
                       /\ wpc[w] \notin {"load", "build", "run", "ran"} => ~is_busy[w]
Scanned ==
    \A t \in Tasks : (tpc[t] \in Registered /\ t \notin notified) =>
      \A w \in Threads : w < scan[t] => queue[w] # None \/ wpc[w] \notin {"recv", "reply"}
WholeScan == \A t \in Tasks : tpc[t] = "wait" => scan[t] > NumThreads

WakeupInv == FlagsUp /\ Scanned /\ WholeScan

\* A thread's step: it either notifies every registered waiter, or leaves each
\* thread a task has scanned with work or short of waiting for it.
LEMMA WorkerWakes ==
    ASSUME PoolInv, WakeupInv, NEW w \in Threads, WorkerStep(w) \/ WorkerRunFails(w)
    PROVE  WakeupInv'
<1>. USE DEF WakeupInv, FlagsUp, Scanned, WholeScan, Thread, taskVars, threadVars
<1>0. /\ wpc \in [Threads -> {"init", "inited", "recv", "dead", "stopped"} \cup Holding]
      /\ queue \in [Threads -> Items \cup {None}]
      /\ is_busy \in [Threads -> BOOLEAN]
      /\ is_initialized \in [Threads -> BOOLEAN]
  BY DEF PoolInv, ControlTypes, TypeOK
<1>1. CASE WorkerInit(w)
  BY <1>0, <1>1 DEF WorkerInit
<1>2. CASE WorkerNotify(w)
  BY <1>0, <1>2 DEF WorkerNotify, notify_waiters, Registered
<1>3. CASE WorkerReceive(w)
  BY <1>0, <1>3 DEF WorkerReceive
<1>4. CASE WorkerStart(w) \/ RunAppJob(w) \/ BuildProver(w) \/ WorkerLoadFails(w)
  BY <1>0, <1>4 DEF WorkerStart, RunAppJob, BuildProver, WorkerLoadFails, Begin
<1>5. CASE WorkerRun(w) \/ WorkerRunFails(w)
  BY <1>0, <1>5 DEF WorkerRun, WorkerRunFails, RunEnds
<1>6. CASE WorkerFree(w)
  BY <1>0, <1>6 DEF WorkerFree
<1>7. CASE WorkerReply(w)
  BY <1>0, <1>7 DEF WorkerReply
<1>8. CASE WorkerStop(w)
  BY <1>0, <1>8 DEF WorkerStop
<1>. QED  BY <1>1, <1>2, <1>3, <1>4, <1>5, <1>6, <1>7, <1>8 DEF WorkerStep

\* A task's step: it passes a thread only when that thread's flags are down or
\* its channel is full, and sleeps only when it has passed all of them.
LEMMA TaskWakes ==
    ASSUME PoolInv, WakeupInv, NEW t \in Tasks, TaskStep(t)
    PROVE  WakeupInv'
<1>0. /\ scan \in [Tasks -> 1..(NumThreads + 1)]
      /\ tpc \in [Tasks -> {"admit", "register", "check", "send", "wait", "barrier", "fail",
                            "await", "merge", "done"}]
      /\ queue \in [Threads -> Items \cup {None}]
      /\ NumThreads \in Nat \ {0}
  BY PoolAssumption DEF PoolInv, ControlTypes, TypeOK
<1>1. CASE Register(t)
  BY <1>0, <1>1 DEF WakeupInv, FlagsUp, Scanned, WholeScan, Register, Task, threadVars, Registered,
                    Threads
<1>2. CASE Check(t)
  <2>1. UNCHANGED <<wpc, queue, is_busy, is_initialized, notified>>
    BY <1>2 DEF Check, threadVars
  <2>2. CASE scan[t] > NumThreads
    BY <1>0, <1>2, <2>1, <2>2
       DEF WakeupInv, FlagsUp, Scanned, WholeScan, Check, Task, Registered
  <2>3. CASE ~(scan[t] > NumThreads) /\ Task(t, "send") /\ UNCHANGED scan
    BY <1>0, <1>2, <2>1, <2>3
       DEF WakeupInv, FlagsUp, Scanned, WholeScan, Check, Task, Registered
  <2>4. CASE /\ scan[t] \notin Available /\ ~(scan[t] > NumThreads)
             /\ scan' = [scan EXCEPT ![t] = @ + 1] /\ UNCHANGED tpc
    <3>1. scan[t] \in Threads
      BY <1>0, <2>4 DEF Threads
    <3>2. wpc[scan[t]] \notin {"recv", "reply"}
      BY <3>1, <2>4 DEF WakeupInv, FlagsUp, Available
    <3>3. FlagsUp' /\ WholeScan'
      BY <1>0, <1>2, <2>1, <2>4 DEF WakeupInv, FlagsUp, WholeScan, Check
    <3>4. ASSUME NEW u \in Tasks, tpc'[u] \in Registered, u \notin notified',
                 NEW w \in Threads, w < scan'[u]
          PROVE  queue'[w] # None \/ wpc'[w] \notin {"recv", "reply"}
      <4>1. CASE w < scan[u]
        BY <2>1, <2>4, <3>4, <4>1 DEF WakeupInv, Scanned
      <4>2. CASE ~(w < scan[u])
        <5>1. u = t /\ w = scan[t]
          BY <1>0, <2>4, <3>4, <4>2 DEF Threads
        <5>. QED  BY <5>1, <3>2, <2>1
      <4>. QED  BY <4>1, <4>2
    <3>. QED  BY <3>3, <3>4 DEF WakeupInv, Scanned
  <2>. QED  BY <1>2, <2>2, <2>3, <2>4 DEF Check
<1>3. CASE TrySend(t)
  <2>. DEFINE i == [task |-> t, part |-> part[t]]
  <2>1. UNCHANGED <<wpc, is_busy, is_initialized, notified>> /\ tpc[t] = "send"
    BY <1>3 DEF TrySend, threadVars
  <2>2. CASE queue' = [queue EXCEPT ![scan[t]] = i] /\ AfterDispatch(t) /\ UNCHANGED scan
    <3>1. i # None
      BY <1>0 DEF None, Tasks
    <3>2. \A w \in Threads : queue[w] # None => queue'[w] # None
      BY <1>0, <2>2, <3>1
    <3>3. \A u \in Tasks : tpc'[u] \in Registered => tpc'[u] = tpc[u]
      BY <1>0, <2>2 DEF AfterDispatch, Task, Registered
    <3>. QED  BY <2>1, <2>2, <3>2, <3>3 DEF WakeupInv, FlagsUp, Scanned, WholeScan, Registered
  <2>3. CASE /\ queue[scan[t]] # None /\ Task(t, "check")
             /\ scan' = [scan EXCEPT ![t] = @ + 1] /\ UNCHANGED <<queue, part>>
    <3>1. FlagsUp' /\ WholeScan'
      BY <1>0, <2>1, <2>3 DEF WakeupInv, FlagsUp, WholeScan, Task
    <3>2. ASSUME NEW u \in Tasks, tpc'[u] \in Registered, u \notin notified',
                 NEW w \in Threads, w < scan'[u]
          PROVE  queue'[w] # None \/ wpc'[w] \notin {"recv", "reply"}
      <4>0. tpc[u] \in Registered
        BY <1>0, <2>1, <2>3, <3>2 DEF Task, Registered
      <4>1. CASE w < scan[u]
        BY <2>1, <2>3, <3>2, <4>0, <4>1 DEF WakeupInv, Scanned
      <4>2. CASE ~(w < scan[u])
        <5>1. u = t /\ w = scan[t]
          BY <1>0, <2>3, <3>2, <4>2 DEF Threads
        <5>. QED  BY <5>1, <2>3
      <4>. QED  BY <4>1, <4>2
    <3>. QED  BY <3>1, <3>2 DEF WakeupInv, Scanned
  <2>4. CASE Task(t, "fail") /\ UNCHANGED <<queue, scan, part>>
    BY <1>0, <2>1, <2>4 DEF WakeupInv, FlagsUp, Scanned, WholeScan, Task, Registered
  <2>. QED  BY <1>3, <2>2, <2>3, <2>4 DEF TrySend
<1>4. CASE Admit(t) \/ Barrier(t) \/ Fail(t)
  BY <1>0, <1>4 DEF WakeupInv, FlagsUp, Scanned, WholeScan, Admit, Barrier, Fail, Task,
                    threadVars, Registered
<1>5. CASE Wake(t) \/ Backstop(t) \/ Await(t) \/ AwaitConsumers(t)
  BY <1>0, <1>5 DEF WakeupInv, FlagsUp, Scanned, WholeScan, Wake, Backstop, Await, AwaitConsumers,
                    Task, threadVars, Registered
<1>. QED  BY <1>1, <1>2, <1>3, <1>4, <1>5 DEF TaskStep

\* The notify_waiters that keeps no permit loses no wakeup: whatever the number
\* of threads and tasks, a task asleep without a notification pending has no
\* idle thread to run its job, so the one-second backstop is never needed.
THEOREM NoLostWakeupHolds == Spec => []NoLostWakeup
<1>1. Init => WakeupInv
  BY PoolAssumption DEF Init, WakeupInv, FlagsUp, Scanned, WholeScan, Registered, Tasks, Threads
<1>2. PoolInv /\ WakeupInv /\ [Next]_vars => WakeupInv'
  <2>. SUFFICES ASSUME PoolInv, WakeupInv, [Next]_vars PROVE WakeupInv'
    OBVIOUS
  <2>1. CASE Shutdown \/ UNCHANGED vars
    BY <2>1 DEF Shutdown, vars, taskVars, threadVars, WakeupInv, FlagsUp, Scanned, WholeScan
  <2>. QED  BY <2>1, WorkerWakes, TaskWakes DEF Next
<1>3. PoolInv /\ WakeupInv => NoLostWakeup
  BY PoolAssumption
     DEF PoolInv, TypeOK, WakeupInv, Scanned, WholeScan, NoLostWakeup, Registered, Threads
<1>. QED  BY <1>1, <1>2, <1>3, PoolInvariant, PTL DEF Spec
-----------------------------------------------------------------------------
(* A job is in one place *)

\* What is undispatched after a step was so before: a part counts as dispatched
\* from the send on.
LEMMA DispatchGoesOn ==
    ASSUME PoolInv, NEW t \in Tasks, TaskStep(t), NEW i \in Items, Undispatched(i)'
    PROVE  /\ Undispatched(i)
           /\ queue' # queue => i # [task |-> t, part |-> part[t]]
<1>0. /\ tpc \in [Tasks -> {"admit", "register", "check", "send", "wait", "barrier", "fail",
                            "await", "merge", "done"}]
      /\ part \in [Tasks -> Parts]
      /\ part[t] \in Nat /\ i.part \in Nat /\ i.part <= NumThreads - 1 /\ i.task \in Tasks
      /\ NumThreads \in Nat \ {0}
  BY PoolAssumption DEF PoolInv, TypeOK, ControlTypes, Items, Parts
<1>1. CASE i.task # t
  <2>1. tpc'[i.task] = tpc[i.task] /\ part'[i.task] = part[i.task]
    BY <1>0, <1>1 DEF TaskStep, Admit, Register, Check, TrySend, AfterDispatch, Wake, Backstop,
                      Barrier, Fail, Await, AwaitConsumers, Task
  <2>. QED  BY <1>1, <2>1 DEF Undispatched
<1>2. CASE i.task = t /\ Admit(t)
  BY <1>0, <1>2 DEF Undispatched, Admit, Task
<1>3. CASE i.task = t /\ TrySend(t)
  <2>0. tpc[t] = "send"
    BY <1>3 DEF TrySend
  <2>1. CASE AfterDispatch(t)
    <3>1. parallel /\ part[t] # 0
      BY <1>0, <1>3, <2>1 DEF AfterDispatch, Task, Undispatched
    <3>2. part'[t] = (part[t] + 1) % NumThreads
      BY <1>0, <2>1, <3>1 DEF AfterDispatch
    <3>3. part[t] \in 0..(NumThreads - 1)
      BY <1>0 DEF Parts
    <3>4. CASE part[t] = NumThreads - 1
      <4>1. part'[t] = 0
        BY <1>0, <3>2, <3>4
      <4>2. i.part = 0
        BY <1>0, <1>3, <2>1, <3>1, <3>4, <4>1 DEF AfterDispatch, Task, Undispatched
      <4>. QED  BY <1>3, <2>0, <3>1, <4>2 DEF Undispatched
    <3>5. CASE part[t] # NumThreads - 1
      <4>1. part'[t] = part[t] + 1
        BY <1>0, <3>2, <3>3, <3>5
      <4>2. i.part = 0 \/ i.part >= part[t] + 1
        BY <1>0, <1>3, <2>1, <3>1, <3>5, <4>1 DEF AfterDispatch, Task, Undispatched
      <4>. QED  BY <1>0, <1>3, <2>0, <3>1, <4>2 DEF Undispatched
    <3>. QED  BY <3>4, <3>5
  <2>2. CASE Task(t, "check") /\ UNCHANGED <<queue, part>>
    BY <1>0, <1>3, <2>0, <2>2 DEF Task, Undispatched
  <2>3. CASE Task(t, "fail") /\ UNCHANGED queue
    BY <1>0, <1>3, <2>3 DEF Task, Undispatched
  <2>. QED  BY <1>3, <2>1, <2>2, <2>3 DEF TrySend
<1>4. CASE i.task = t /\ ~Admit(t) /\ ~TrySend(t)
  <2>1. UNCHANGED <<part, queue>>
    BY <1>4 DEF TaskStep, Register, Check, Wake, Backstop, Barrier, Fail, Await, AwaitConsumers
  <2>2. \/ tpc[t] \in {"register", "check", "send", "wait", "barrier"}
        \/ tpc'[t] \in {"done", "merge"}
    BY <1>0, <1>4 DEF TaskStep, Register, Check, Wake, Backstop, Barrier, Fail, Await,
                      AwaitConsumers, Task
  <2>3. tpc'[t] # "admit"
    BY <1>0, <1>4 DEF TaskStep, Register, Check, Wake, Backstop, Barrier, Fail, Await,
                      AwaitConsumers, Task
  <2>. QED  BY <1>4, <2>1, <2>2, <2>3 DEF Undispatched
<1>. QED  BY <1>1, <1>2, <1>3, <1>4

\* A thread's step moves a job on, or answers it where it is.
LEMMA WorkerKeepsPlace ==
    ASSUME PoolInv, JobInOnePlace, NEW u \in Threads, WorkerStep(u) \/ WorkerRunFails(u)
    PROVE  JobInOnePlace'
<1>0. /\ wpc \in [Threads -> {"init", "inited", "recv", "dead", "stopped"} \cup Holding]
      /\ queue \in [Threads -> Items \cup {None}]
      /\ item \in [Threads -> Items \cup {None}]
      /\ reply \in [Items -> {"none", "ok", "error", "dropped"}]
      /\ \A v \in Threads : wpc[v] \in Holding => item[v] \in Items
      /\ None \notin Items
  BY NoneIsNoItem DEF PoolInv, ControlTypes, TypeOK, HasJob
<1>1. \A i \in Items : Undispatched(i)' <=> Undispatched(i)
  BY DEF WorkerStep, WorkerInit, WorkerNotify, WorkerReceive, WorkerStart, RunAppJob, BuildProver,
         WorkerLoadFails, WorkerRun, WorkerRunFails, RunEnds, WorkerFree, WorkerReply, WorkerStop,
         taskVars, Undispatched
<1>. USE DEF JobInOnePlace, Thread
<1>2. CASE WorkerReceive(u)
  BY <1>0, <1>1, <1>2 DEF WorkerReceive, AtWork, Holding
<1>3. CASE WorkerReply(u)
  BY <1>0, <1>1, <1>3 DEF WorkerReply
<1>4. CASE WorkerStop(u)
  BY <1>0, <1>1, <1>4 DEF WorkerStop
<1>5. ASSUME UNCHANGED <<item, queue>>, wpc[u] \in AtWork,
             NEW r, reply' = [reply EXCEPT ![item[u]] = r], wpc' = [wpc EXCEPT ![u] = "ran"]
      PROVE  JobInOnePlace'
  BY <1>0, <1>1, <1>5 DEF Holding
<1>6. ASSUME UNCHANGED <<item, queue, reply>>,
             \A v \in Threads : wpc'[v] \in AtWork => wpc[v] \in AtWork
      PROVE  JobInOnePlace'
  BY <1>1, <1>6 DEF AtWork
<1>7. CASE WorkerInit(u) \/ WorkerNotify(u) \/ WorkerFree(u)
  BY <1>0, <1>6, <1>7 DEF WorkerInit, WorkerNotify, WorkerFree, AtWork
<1>8. CASE WorkerStart(u) \/ RunAppJob(u) \/ BuildProver(u)
  BY <1>0, <1>6, <1>8 DEF WorkerStart, RunAppJob, BuildProver, Begin, AtWork
<1>9. CASE WorkerLoadFails(u) \/ WorkerRun(u) \/ WorkerRunFails(u)
  BY <1>5, <1>9 DEF WorkerLoadFails, WorkerRun, WorkerRunFails, RunEnds, AtWork
<1>. QED  BY <1>2, <1>3, <1>4, <1>7, <1>8, <1>9 DEF WorkerStep

\* A task puts a job into a channel only when it is nowhere yet.
LEMMA TaskKeepsPlace ==
    ASSUME PoolInv, JobInOnePlace, NEW t \in Tasks, TaskStep(t)
    PROVE  JobInOnePlace'
<1>0. /\ queue \in [Threads -> Items \cup {None}]
      /\ None \notin Items
  BY NoneIsNoItem DEF PoolInv, TypeOK
<1>1. UNCHANGED <<wpc, item, reply>>
  BY DEF TaskStep, Admit, Register, Check, TrySend, Wake, Backstop, Barrier, Fail, Await,
         AwaitConsumers, threadVars
<1>2. CASE UNCHANGED queue
  BY <1>1, <1>2, DispatchGoesOn DEF JobInOnePlace
<1>3. CASE queue' # queue
  <2>. DEFINE j == [task |-> t, part |-> part[t]]
              w == scan[t]
  <2>1. TrySend(t)
    BY <1>3 DEF TaskStep, Admit, Register, Check, Wake, Backstop, Barrier, Fail, Await,
                AwaitConsumers
  <2>2. tpc[t] = "send" /\ w \in Threads /\ j \in Items /\ part[t] \in Nat
    BY <2>1 DEF TrySend, PoolInv, HasThread, TypeOK, Items, Parts
  <2>3. queue[w] = None /\ queue' = [queue EXCEPT ![w] = j]
    BY <1>3, <2>1 DEF TrySend
  <2>4. Undispatched(j)
    BY <2>2 DEF Undispatched
  <2>5. reply[j] = "none" /\ \A v \in Threads : queue[v] # j /\ item[v] # j
    BY <2>2, <2>4 DEF JobInOnePlace
  <2>6. \A i \in Items : Undispatched(i)' => Undispatched(i) /\ i # j
    BY <1>3, DispatchGoesOn
  <2>. HIDE DEF j, w
  <2>. QED  BY <1>0, <1>1, <2>2, <2>3, <2>5, <2>6 DEF JobInOnePlace
<1>. QED  BY <1>2, <1>3

\* A job, or a part of a parallel job, is handed out once, whichever channels
\* are full, threads stop, provers cannot be built and jobs fail: no thread ever
\* takes up what another has or what was answered already.
THEOREM JobInOnePlaceHolds == Spec => []JobInOnePlace
<1>1. Init => JobInOnePlace
  BY NoneIsNoItem DEF Init, JobInOnePlace, Undispatched
<1>2. PoolInv /\ JobInOnePlace /\ [Next]_vars => JobInOnePlace'
  <2>. SUFFICES ASSUME PoolInv, JobInOnePlace, [Next]_vars PROVE JobInOnePlace'
    OBVIOUS
  <2>1. CASE Shutdown \/ UNCHANGED vars
    BY <2>1 DEF Shutdown, vars, taskVars, threadVars, JobInOnePlace, Undispatched
  <2>. QED  BY <2>1, WorkerKeepsPlace, TaskKeepsPlace DEF Next
<1>. QED  BY <1>1, <1>2, PoolInvariant, PTL DEF Spec
-----------------------------------------------------------------------------
(* The coordinator and its consumers *)

\* The parts the parallel job has not dispatched yet.
Dispatching == {"register", "check", "send", "wait", "barrier"}
NotYet(p) ==
    \/ tpc[1] = "admit"
    \/ tpc[1] \in Dispatching /\ (p = 0 \/ (part[1] # 0 /\ p >= part[1]))

OneJob ==
    /\ \A t \in Tasks : t # 1 => tpc[t] = "done"
    /\ tpc[1] = "barrier" => part[1] = 0
BusyRuns == \A w \in Threads : is_busy[w] <=> wpc[w] \in {"load", "build", "run", "ran"}
IdleHasNone == \A w \in Threads : wpc[w] \notin Holding => item[w] = None

\* What is in a channel or with a thread was dispatched, and is there once.
Placed ==
    /\ \A w \in Threads : queue[w] # None => queue[w].task = 1 /\ ~NotYet(queue[w].part)
    /\ \A w \in Threads : item[w] # None => item[w].task = 1 /\ ~NotYet(item[w].part)
Once ==
    /\ \A v, w \in Threads : (v # w /\ item[v] # None) => item[v] # item[w]
    /\ \A v, w \in Threads : (v # w /\ queue[v] # None) => queue[v] # queue[w]
    /\ \A v, w \in Threads : queue[v] # None => queue[v] # item[w]

\* Past the barrier every consumer has begun.
PastBarrier ==
    \/ part[1] = 0 /\ tpc[1] \in {"register", "check", "send", "wait"}
    \/ \E w \in Threads : queue[w] # None /\ queue[w].part = 0
Begun ==
    \A w \in Threads : /\ queue[w] # None => queue[w].part = 0
                       /\ wpc[w] = "got" => item[w].part = 0
SendsToFree == (tpc[1] = "send" /\ part[1] = 0) => wpc[scan[1]] \notin AtWork
CoordinatorFree ==
    \A w \in Threads :
      (queue[w] # None /\ queue[w].part = 0) => wpc[w] \notin AtWork

CoordinatorInv ==
    parallel => /\ OneJob /\ BusyRuns /\ IdleHasNone /\ Placed /\ Once
                /\ (PastBarrier => Begun) /\ SendsToFree /\ CoordinatorFree

\* Jobs are told apart by their task and their part.
LEMMA SameItem == \A i, j \in Items : (i.task = j.task /\ i.part = j.part) => i = j
BY DEF Items

\* The barrier counts: if as many threads are busy as there are consumers, and
\* no consumer is in two places, none is left in a channel or not yet begun.
LEMMA BarrierCounts ==
    ASSUME PoolInv, parallel, OneJob, BusyRuns, Placed, Once, tpc[1] = "barrier", ConsumersBusy
    PROVE  Begun
<1>. DEFINE B == {w \in Threads : is_busy[w]}
            P == 1..(NumThreads - 1)
            f == [w \in B |-> item[w].part]
<1>1. NumThreads \in Nat \ {0} /\ NumThreads > 1
  BY PoolAssumption DEF PoolInv, ControlTypes
<1>2. NotYet(0)
  BY DEF NotYet, Dispatching
<1>3. ASSUME NEW i \in Items, ~NotYet(i.part) PROVE i.part \in P
  BY <1>1, <1>2, <1>3 DEF Items, Parts
<1>4. \A w \in B : item[w] \in Items /\ item[w].task = 1 /\ item[w].part \in P
  BY <1>3, NoneIsNoItem DEF PoolInv, HasJob, Holding, AtWork, BusyRuns, Placed
<1>5. ASSUME NEW i \in Items, i.task = 1, i.part \in P, \A w \in B : item[w] # i PROVE FALSE
  <2>1. IsFiniteSet(P) /\ Cardinality(P) = NumThreads - 1
    BY <1>1, FS_Interval
  <2>2. IsFiniteSet(P \ {i.part}) /\ Cardinality(P \ {i.part}) = NumThreads - 2
    <3>. HIDE DEF P
    <3>1. /\ IsFiniteSet(P \ {i.part})
          /\ Cardinality(P \ {i.part}) = Cardinality(P) - 1
      BY <1>5, <2>1, FS_RemoveElement
    <3>. QED  BY <1>1, <2>1, <3>1
  <2>3. IsFiniteSet(B)
    <3>1. IsFiniteSet(Threads)
      BY <1>1, FS_Interval DEF Threads
    <3>2. B \in SUBSET Threads
      OBVIOUS
    <3>. HIDE DEF B
    <3>. QED  BY <3>1, <3>2, FS_Subset
  <2>4. Cardinality(B) >= NumThreads - 1
    BY DEF ConsumersBusy, busy_count
  <2>5. f \in [B -> P \ {i.part}]
    BY <1>4, <1>5, SameItem
  <2>6. Cardinality(P \ {i.part}) < Cardinality(B)
    BY <1>1, <2>2, <2>3, <2>4, FS_CardinalityType
  <2>7. PICK x, y \in B : x # y /\ f[x] = f[y]
    <3>. DEFINE Q == P \ {i.part}
    <3>. HIDE DEF B, f, Q
    <3>1. IsFiniteSet(Q) /\ Cardinality(Q) < Cardinality(B) /\ f \in [B -> Q]
      BY <2>2, <2>5, <2>6 DEF Q
    <3>. QED  BY <2>3, <3>1, FS_PigeonHole
  <2>8. item[x] = item[y]
    BY <1>4, <2>7, SameItem
  <2>. QED  BY <1>4, <2>7, <2>8, NoneIsNoItem DEF Once
<1>6. ASSUME NEW w \in Threads, queue[w] # None PROVE FALSE
  <2>1. queue[w] \in Items /\ queue[w].task = 1 /\ queue[w].part \in P
    BY <1>3, <1>6 DEF PoolInv, TypeOK, Placed
  <2>2. \A v \in B : item[v] # queue[w]
    BY <1>6 DEF Once
  <2>. QED  BY <1>5, <2>1, <2>2
<1>7. ASSUME NEW w \in Threads, wpc[w] = "got" PROVE FALSE
  <2>1. item[w] \in Items /\ w \notin B
    BY <1>7 DEF PoolInv, HasJob, Holding, AtWork, BusyRuns
  <2>2. item[w].task = 1 /\ item[w].part \in P
    BY <1>3, <2>1, NoneIsNoItem DEF Placed
  <2>3. \A v \in B : item[v] # item[w]
    BY <2>1, NoneIsNoItem DEF Once
  <2>. QED  BY <1>5, <2>1, <2>2, <2>3
<1>. QED  BY <1>6, <1>7 DEF Begun

\* While the coordinator is not dispatched it is nowhere.
LEMMA NotDispatched ==
    ASSUME Placed, tpc[1] \in Dispatching, NEW w \in Threads
    PROVE  /\ queue[w] # None => queue[w].part # 0
           /\ item[w] # None => item[w].part # 0
BY DEF Placed, NotYet

\* A thread's step keeps what the coordinator relies on.
LEMMA WorkerCoordinates ==
    ASSUME PoolInv, parallel, CoordinatorInv, NEW w \in Threads,
           WorkerStep(w) \/ WorkerRunFails(w)
    PROVE  CoordinatorInv'
<1>0. /\ wpc \in [Threads -> {"init", "inited", "recv", "dead", "stopped"} \cup Holding]
      /\ queue \in [Threads -> Items \cup {None}]
      /\ item \in [Threads -> Items \cup {None}]
      /\ is_busy \in [Threads -> BOOLEAN]
      /\ \A v \in Threads : wpc[v] \in Holding => item[v] \in Items
      /\ None \notin Items
  BY NoneIsNoItem DEF PoolInv, ControlTypes, TypeOK, HasJob
<1>1. /\ OneJob /\ BusyRuns /\ IdleHasNone /\ Placed /\ Once
      /\ (PastBarrier => Begun) /\ SendsToFree /\ CoordinatorFree
  BY DEF CoordinatorInv
<1>2. UNCHANGED <<parallel, tpc, part, scan>>
  BY DEF WorkerStep, WorkerInit, WorkerNotify, WorkerReceive, WorkerStart, RunAppJob,
         BuildProver, WorkerLoadFails, WorkerRun, WorkerRunFails, RunEnds, WorkerFree, WorkerReply, WorkerStop, taskVars
<1>3. OneJob' /\ \A p : NotYet(p)' <=> NotYet(p)
  BY <1>1, <1>2 DEF OneJob, NotYet
<1>4. CASE UNCHANGED <<item, queue>>
  <2>1. /\ BusyRuns' /\ IdleHasNone'
        /\ \A v \in Threads : /\ wpc'[v] \in AtWork => wpc[v] \in AtWork
                              /\ wpc'[v] = "got" => wpc[v] = "got"
    <3>. USE DEF WorkerStep, BusyRuns, IdleHasNone, Thread, Holding, AtWork
    <3>1. CASE WorkerInit(w)
      BY <1>0, <1>1, <1>4, <3>1 DEF WorkerInit
    <3>2. CASE WorkerNotify(w)
      BY <1>0, <1>1, <1>4, <3>2 DEF WorkerNotify
    <3>3. CASE WorkerReceive(w) \/ WorkerReply(w) \/ WorkerStop(w)
      BY <1>0, <1>1, <1>4, <3>3 DEF WorkerReceive, WorkerReply, WorkerStop
    <3>4. CASE WorkerStart(w)
      BY <1>0, <1>1, <1>4, <3>4 DEF WorkerStart, Begin
    <3>5. CASE RunAppJob(w)
      BY <1>0, <1>1, <1>4, <3>5 DEF RunAppJob, Begin
    <3>6. CASE BuildProver(w)
      BY <1>0, <1>1, <1>4, <3>6 DEF BuildProver, Begin
    <3>7. CASE WorkerLoadFails(w)
      BY <1>0, <1>1, <1>4, <3>7 DEF WorkerLoadFails
    <3>8. CASE WorkerRun(w) \/ WorkerRunFails(w)
      BY <1>0, <1>1, <1>4, <3>8 DEF WorkerRun, WorkerRunFails, RunEnds
    <3>9. CASE WorkerFree(w)
      BY <1>0, <1>1, <1>4, <3>9 DEF WorkerFree
    <3>. QED  BY <3>1, <3>2, <3>3, <3>4, <3>5, <3>6, <3>7, <3>8, <3>9
  <2>2. Placed' /\ Once'
    BY <1>1, <1>3, <1>4 DEF Placed, Once
  <2>3. PastBarrier' => Begun'
    BY <1>1, <1>2, <1>4, <2>1 DEF PastBarrier, Begun
  <2>4. CoordinatorFree'
    BY <1>1, <1>4, <2>1 DEF CoordinatorFree
  <2>5. SendsToFree'
    <3>1. tpc[1] = "send" => scan[1] \in Threads
      BY PoolAssumption DEF PoolInv, HasThread, Tasks
    <3>. QED  BY <1>1, <1>2, <2>1, <3>1 DEF SendsToFree
  <2>. QED  BY <1>3, <2>1, <2>2, <2>3, <2>4, <2>5 DEF CoordinatorInv
<1>6. CASE WorkerReceive(w)
  <2>1. /\ wpc[w] = "recv" /\ queue[w] # None /\ UNCHANGED is_busy
        /\ item' = [item EXCEPT ![w] = queue[w]] /\ queue' = [queue EXCEPT ![w] = None]
        /\ wpc' = [wpc EXCEPT ![w] = "got"]
    BY <1>6 DEF WorkerReceive, Thread
  <2>2. BusyRuns' /\ IdleHasNone'
    BY <1>0, <1>1, <2>1 DEF BusyRuns, IdleHasNone, Holding, AtWork
  <2>3. Placed'
    BY <1>0, <1>1, <1>3, <2>1 DEF Placed
  <2>4. Once'
    BY <1>0, <1>1, <2>1 DEF Once
  <2>5. PastBarrier' => PastBarrier
    BY <1>0, <1>2, <2>1 DEF PastBarrier
  <2>6. PastBarrier' => Begun'
    BY <1>0, <1>1, <2>1, <2>5 DEF Begun
  <2>7. CoordinatorFree'
    BY <1>0, <1>1, <2>1 DEF CoordinatorFree
  <2>8. (tpc[1] = "send" /\ part[1] = 0) => FALSE
    BY <1>1, <2>1, NotDispatched DEF PastBarrier, Begun, Dispatching
  <2>9. SendsToFree'
    BY <1>2, <2>8 DEF SendsToFree
  <2>. QED  BY <1>3, <2>2, <2>3, <2>4, <2>6, <2>7, <2>9 DEF CoordinatorInv
<1>7. CASE WorkerReply(w)
  <2>1. /\ wpc[w] = "reply" /\ UNCHANGED <<is_busy, queue>>
        /\ item' = [item EXCEPT ![w] = None] /\ wpc' = [wpc EXCEPT ![w] = "recv"]
    BY <1>7 DEF WorkerReply, Thread
  <2>2. BusyRuns' /\ IdleHasNone'
    BY <1>0, <1>1, <2>1 DEF BusyRuns, IdleHasNone, Holding, AtWork
  <2>3. Placed' /\ Once'
    BY <1>0, <1>1, <1>3, <2>1 DEF Placed, Once
  <2>4. PastBarrier' => Begun'
    BY <1>0, <1>1, <1>2, <2>1 DEF PastBarrier, Begun
  <2>5. CoordinatorFree' /\ SendsToFree'
    BY <1>0, <1>1, <1>2, <2>1 DEF CoordinatorFree, SendsToFree, AtWork
  <2>. QED  BY <1>3, <2>2, <2>3, <2>4, <2>5 DEF CoordinatorInv
<1>8. CASE WorkerStop(w)
  <2>1. /\ wpc[w] = "recv" /\ UNCHANGED <<is_busy, item>>
        /\ queue' = [queue EXCEPT ![w] = None] /\ wpc' = [wpc EXCEPT ![w] = "stopped"]
    BY <1>8 DEF WorkerStop, Thread
  <2>2. BusyRuns' /\ IdleHasNone'
    BY <1>0, <1>1, <2>1 DEF BusyRuns, IdleHasNone, Holding, AtWork
  <2>3. Placed' /\ Once'
    BY <1>0, <1>1, <1>3, <2>1 DEF Placed, Once
  <2>4. PastBarrier' => Begun'
    BY <1>0, <1>1, <1>2, <2>1 DEF PastBarrier, Begun
  <2>5. CoordinatorFree' /\ SendsToFree'
    BY <1>0, <1>1, <1>2, <2>1 DEF CoordinatorFree, SendsToFree, AtWork
  <2>. QED  BY <1>3, <2>2, <2>3, <2>4, <2>5 DEF CoordinatorInv
<1>9. CASE ~(WorkerReceive(w) \/ WorkerReply(w) \/ WorkerStop(w))
  BY <1>4, <1>9 DEF WorkerStep, WorkerInit, WorkerNotify, WorkerStart, RunAppJob, BuildProver,
                    WorkerLoadFails, WorkerRun, WorkerRunFails, RunEnds, WorkerFree
<1>. QED  BY <1>6, <1>7, <1>8, <1>9

\* A step of the parallel job's task keeps it: the coordinator is dispatched
\* past the barrier only, to a thread that is running none of its consumers.
LEMMA TaskCoordinates ==
    ASSUME PoolInv, parallel, CoordinatorInv, NEW t \in Tasks, TaskStep(t)
    PROVE  CoordinatorInv'
<1>0. /\ tpc \in [Tasks -> {"admit", "register", "check", "send", "wait", "barrier", "fail",
                            "await", "merge", "done"}]
      /\ part \in [Tasks -> Parts]
      /\ scan \in [Tasks -> 1..(NumThreads + 1)]
      /\ queue \in [Threads -> Items \cup {None}]
      /\ NumThreads \in Nat \ {0} /\ NumThreads > 1
      /\ None \notin Items
  BY PoolAssumption, NoneIsNoItem DEF PoolInv, ControlTypes, TypeOK
<1>1. /\ OneJob /\ BusyRuns /\ IdleHasNone /\ Placed /\ Once
      /\ (PastBarrier => Begun) /\ SendsToFree /\ CoordinatorFree
  BY DEF CoordinatorInv
<1>2. t = 1
  BY <1>1 DEF OneJob, TaskStep, Admit, Register, Check, TrySend, Wake, Backstop, Barrier, Fail,
              Await, AwaitConsumers
<1>3. UNCHANGED <<parallel, wpc, item, is_busy>> /\ BusyRuns' /\ IdleHasNone'
  BY <1>1 DEF TaskStep, Admit, Register, Check, TrySend, Wake, Backstop, Barrier, Fail,
              Await, AwaitConsumers, threadVars, BusyRuns, IdleHasNone
<1>4. 1 \in Tasks /\ part[1] \in Nat
  BY <1>0, PoolAssumption DEF Tasks, Parts
\* Steps that dispatch nothing: the job goes on where it was, or gives up.
<1>5. ASSUME UNCHANGED <<queue, part>>, NEW l, Task(1, l),
             tpc[1] # "admit", tpc[1] \in Dispatching \/ l \notin Dispatching, l # "admit",
             l = "barrier" => tpc[1] = "barrier",
             (l \in {"register", "check", "send", "wait"} /\ part[1] = 0) =>
                tpc[1] \in {"register", "check", "send", "wait"} \/ Begun,
             SendsToFree'
      PROVE  CoordinatorInv'
  <2>1. OneJob'
    BY <1>0, <1>1, <1>4, <1>5 DEF OneJob, Task
  <2>2. \A p : NotYet(p)' => NotYet(p)
    BY <1>0, <1>4, <1>5 DEF NotYet, Task
  <2>3. Placed' /\ Once'
    BY <1>1, <1>3, <1>5, <2>2 DEF Placed, Once
  <2>4. PastBarrier' => Begun'
    BY <1>0, <1>1, <1>3, <1>4, <1>5 DEF PastBarrier, Begun, Task
  <2>5. CoordinatorFree'
    BY <1>1, <1>3, <1>5 DEF CoordinatorFree
  <2>. QED  BY <1>3, <1>5, <2>1, <2>3, <2>4, <2>5 DEF CoordinatorInv
<1>6. CASE Admit(t)
  <2>1. PICK l \in {"done", "register"} : tpc' = [tpc EXCEPT ![1] = l]
    BY <1>2, <1>6 DEF Admit, Task
  <2>2. tpc[1] = "admit" /\ UNCHANGED <<queue, scan>> /\ part' = [part EXCEPT ![1] = 1]
    BY <1>2, <1>6 DEF Admit
  <2>3. \A w \in Threads : queue[w] = None /\ item[w] = None
    BY <1>1, <2>2 DEF Placed, NotYet
  <2>4. OneJob' /\ SendsToFree'
    BY <1>0, <1>1, <1>4, <2>1, <2>2 DEF OneJob, SendsToFree
  <2>5. Placed' /\ Once' /\ CoordinatorFree'
    BY <1>3, <2>2, <2>3 DEF Placed, Once, CoordinatorFree
  <2>6. ~PastBarrier'
    BY <1>0, <1>4, <2>2, <2>3 DEF PastBarrier
  <2>. QED  BY <1>3, <2>4, <2>5, <2>6 DEF CoordinatorInv
<1>7. CASE Register(t)
  BY <1>0, <1>2, <1>4, <1>5, <1>7 DEF Register, Dispatching, SendsToFree, Task
<1>8. CASE Check(t)
  <2>0. tpc[1] = "check" /\ UNCHANGED <<queue, part>>
    BY <1>2, <1>8 DEF Check
  <2>1. CASE Task(1, "fail") \/ Task(1, "wait")
    BY <1>0, <1>4, <1>5, <2>0, <2>1 DEF Dispatching, SendsToFree, Task
  <2>2. CASE scan[1] \in Available /\ Task(1, "send") /\ UNCHANGED scan
    <3>1. part[1] = 0 => wpc[scan[1]] \notin AtWork
      <4>. SUFFICES ASSUME part[1] = 0 PROVE wpc[scan[1]] \notin AtWork
        OBVIOUS
      <4>1. Begun /\ scan[1] \in Threads /\ ~is_busy[scan[1]]
        BY <1>1, <2>0, <2>2 DEF PastBarrier, Available
      <4>2. wpc[scan[1]] \notin {"load", "build", "run"}
        BY <1>1, <4>1 DEF BusyRuns
      <4>3. wpc[scan[1]] = "got" => item[scan[1]] \in Items /\ item[scan[1]].part = 0
        BY <4>1 DEF Begun, PoolInv, HasJob, Holding, AtWork
      <4>4. item[scan[1]] \in Items => item[scan[1]].part # 0
        BY <1>0, <1>1, <2>0, <4>1, NotDispatched DEF Dispatching
      <4>. QED  BY <4>2, <4>3, <4>4 DEF AtWork
    <3>2. SendsToFree'
      BY <1>3, <2>0, <2>2, <3>1 DEF SendsToFree
    <3>. QED  BY <1>5, <2>0, <2>2, <3>2 DEF Dispatching
  <2>3. CASE UNCHANGED tpc
    <3>1. Task(1, "check")
      BY <1>0, <1>4, <2>0, <2>3 DEF Task
    <3>. QED  BY <1>5, <2>0, <2>3, <3>1 DEF Dispatching, SendsToFree
  <2>. QED  BY <1>2, <1>8, <2>1, <2>2, <2>3 DEF Check
<1>9. CASE TrySend(t)
  <2>. DEFINE i == [task |-> 1, part |-> part[1]]
              w == scan[1]
  <2>0. tpc[1] = "send" /\ w \in Threads /\ i \in Items
    BY <1>0, <1>2, <1>4, <1>9 DEF TrySend, PoolInv, HasThread, Items
  <2>1. CASE queue[w] = None /\ queue' = [queue EXCEPT ![w] = i] /\ AfterDispatch(1)
    <3>0. /\ part' = [part EXCEPT ![1] = (part[1] + 1) % NumThreads]
          /\ tpc' = [tpc EXCEPT ![1] = IF part[1] = 0 THEN "await"
                                      ELSE IF part[1] = NumThreads - 1 THEN "barrier"
                                      ELSE "register"]
      BY <2>1 DEF AfterDispatch, Task
    <3>1. part[1] \in 0..(NumThreads - 1)
      BY <1>0, <1>4 DEF Parts
    <3>2. /\ part[1] = NumThreads - 1 => part'[1] = 0
          /\ part[1] # NumThreads - 1 => part'[1] = part[1] + 1
      BY <1>0, <1>4, <3>0, <3>1
    <3>3. OneJob'
      BY <1>0, <1>1, <1>4, <3>0, <3>1, <3>2 DEF OneJob
    <3>4. \A p \in Parts : NotYet(p)' => NotYet(p) /\ p # i.part
      <4>. SUFFICES ASSUME NEW p \in Parts, NotYet(p)' PROVE NotYet(p) /\ p # i.part
        OBVIOUS
      <4>1. p \in Nat /\ part[1] # 0
        BY <1>0, <1>4, <3>0 DEF NotYet, Dispatching, Parts
      <4>2. CASE part[1] = NumThreads - 1
        <5>1. part'[1] = 0 /\ tpc'[1] = "barrier"
          BY <1>0, <1>4, <3>0, <3>2, <4>1, <4>2
        <5>2. p = 0
          BY <5>1 DEF NotYet
        <5>. QED  BY <2>0, <4>1, <5>2 DEF NotYet, Dispatching
      <4>3. CASE part[1] # NumThreads - 1
        <5>1. part'[1] = part[1] + 1 /\ tpc'[1] = "register"
          BY <1>0, <1>4, <3>0, <3>2, <4>1, <4>3
        <5>2. p = 0 \/ p >= part[1] + 1
          BY <5>1 DEF NotYet
        <5>. QED  BY <1>4, <2>0, <4>1, <5>2 DEF NotYet, Dispatching
      <4>. QED  BY <4>2, <4>3
    <3>5. NotYet(i.part)
      BY <1>4, <2>0 DEF NotYet, Dispatching
    <3>6. \A v \in Threads : queue[v] # i /\ item[v] # i
      BY <1>0, <1>1, <2>0, <3>5 DEF Placed
    <3>7. ASSUME NEW j \in Items, ~NotYet(j.part) \/ j = i PROVE ~NotYet(j.part)'
      BY <3>4, <3>7 DEF Items
    <3>8. Placed'
      <4>1. ASSUME NEW v \in Threads, queue'[v] # None
            PROVE  (queue[v].task = 1)' /\ ~NotYet(queue[v].part)'
        <5>1. PICK j \in Items : j = queue'[v]
          BY <1>0, <2>0, <2>1, <4>1
        <5>2. j = i \/ j = queue[v]
          BY <1>0, <2>0, <2>1, <5>1
        <5>3. j.task = 1 /\ (~NotYet(j.part) \/ j = i)
          BY <1>0, <1>1, <5>2 DEF Placed
        <5>4. ~NotYet(j.part)'
          BY <3>7, <5>3
        <5>. QED  BY <5>1, <5>3, <5>4 DEF NotYet
      <4>2. ASSUME NEW v \in Threads, item[v] # None
            PROVE  (item[v].task = 1)' /\ ~NotYet(item[v].part)'
        <5>1. PICK j \in Items : j = item[v]
          BY <4>2 DEF PoolInv, TypeOK
        <5>2. j.task = 1 /\ ~NotYet(j.part)
          BY <1>1, <4>2, <5>1 DEF Placed
        <5>3. ~NotYet(j.part)'
          BY <3>7, <5>2
        <5>. QED  BY <1>3, <5>1, <5>2, <5>3 DEF NotYet
      <4>. QED  BY <1>3, <4>1, <4>2 DEF Placed
    <3>9. Once'
      BY <1>0, <1>1, <1>3, <2>0, <2>1, <3>6 DEF Once
    <3>10. SendsToFree'
      BY <1>0, <1>4, <3>0 DEF SendsToFree
    <3>11. CoordinatorFree'
      BY <1>0, <1>1, <1>3, <2>0, <2>1 DEF CoordinatorFree, SendsToFree
    <3>12. part[1] # 0 => ~PastBarrier'
      <4>. SUFFICES ASSUME part[1] # 0 PROVE ~PastBarrier'
        OBVIOUS
      <4>1. \A v \in Threads : queue'[v] # None => queue'[v].part # 0
        BY <1>0, <1>1, <2>0, <2>1, NotDispatched DEF Dispatching
      <4>2. part'[1] = 0 => tpc'[1] = "barrier"
        BY <1>0, <1>4, <3>0, <3>2
      <4>. QED  BY <4>1, <4>2 DEF PastBarrier
    <3>13. part[1] = 0 => Begun'
      BY <1>0, <1>1, <1>3, <2>0, <2>1 DEF PastBarrier, Begun
    <3>. QED  BY <1>3, <3>3, <3>8, <3>9, <3>10, <3>11, <3>12, <3>13 DEF CoordinatorInv
  <2>2. CASE Task(1, "check") /\ UNCHANGED <<queue, part>>
    BY <1>0, <1>4, <1>5, <2>0, <2>2 DEF Dispatching, SendsToFree, Task
  <2>3. CASE Task(1, "fail") /\ UNCHANGED <<queue, scan, part>>
    BY <1>0, <1>4, <1>5, <2>0, <2>3 DEF Dispatching, SendsToFree, Task
  <2>. QED  BY <1>2, <1>9, <2>1, <2>2, <2>3 DEF TrySend
<1>10. CASE Wake(t) \/ Backstop(t)
  <2>1. tpc[1] = "wait" /\ Task(1, "register") /\ UNCHANGED <<queue, part>>
    BY <1>2, <1>10 DEF Wake, Backstop
  <2>2. SendsToFree'
    BY <1>0, <1>4, <2>1 DEF SendsToFree, Task
  <2>. QED  BY <1>5, <2>1, <2>2 DEF Dispatching
<1>11. CASE Barrier(t)
  <2>1. tpc[1] = "barrier" /\ UNCHANGED <<queue, part>>
    BY <1>2, <1>11 DEF Barrier
  <2>2. CASE ConsumersBusy /\ Task(1, "register")
    <3>1. Begun
      BY <1>1, <2>1, <2>2, BarrierCounts
    <3>2. SendsToFree'
      BY <1>0, <1>4, <2>2 DEF SendsToFree, Task
    <3>. QED  BY <1>5, <2>1, <2>2, <3>1, <3>2 DEF Dispatching
  <2>3. CASE Task(1, "fail")
    BY <1>0, <1>4, <1>5, <2>1, <2>3 DEF Dispatching, SendsToFree, Task
  <2>. QED  BY <1>2, <1>11, <2>2, <2>3 DEF Barrier
<1>12. CASE Fail(t)
  BY <1>0, <1>2, <1>4, <1>5, <1>12 DEF Fail, Dispatching, SendsToFree, Task
<1>13. CASE Await(t) \/ AwaitConsumers(t)
  <2>1. PICK l \in {"merge", "done"} : Task(1, l)
    BY <1>2, <1>13 DEF Await, AwaitConsumers
  <2>2. tpc[1] \in {"await", "merge"} /\ UNCHANGED <<queue, part>>
    BY <1>2, <1>13 DEF Await, AwaitConsumers
  <2>3. SendsToFree'
    BY <1>0, <1>4, <2>1 DEF SendsToFree, Task
  <2>. QED  BY <1>5, <2>1, <2>2, <2>3 DEF Dispatching
<1>. QED  BY <1>6, <1>7, <1>8, <1>9, <1>10, <1>11, <1>12, <1>13 DEF TaskStep

\* With one parallel app job at a time (the manager has one active proof, and a
\* worker one shard of it), the barrier of wait_for_busy_app_workers keeps the
\* coordinator off a thread that is about to run or runs one of its consumers,
\* for any number of provers and whichever of them fail or stop.
THEOREM CoordinatorNotBehindConsumerHolds ==
    ASSUME NumParallel <= 1
    PROVE  Spec => []CoordinatorNotBehindConsumer
<1>1. Init => CoordinatorInv
  <2>. SUFFICES ASSUME Init, parallel PROVE CoordinatorInv
    BY DEF CoordinatorInv
  <2>1. NumParallel = 1 /\ 1 \in Tasks
    BY PoolAssumption DEF Init, Tasks
  <2>2. OneJob
    BY <2>1, PoolAssumption DEF Init, OneJob, Tasks
  <2>3. BusyRuns /\ IdleHasNone /\ Placed /\ Once /\ CoordinatorFree
    BY DEF Init, BusyRuns, IdleHasNone, Placed, Once, CoordinatorFree
  <2>4. ~PastBarrier /\ SendsToFree
    BY <2>1 DEF Init, PastBarrier, SendsToFree
  <2>. QED  BY <2>2, <2>3, <2>4 DEF CoordinatorInv
<1>2. PoolInv /\ CoordinatorInv /\ [Next]_vars => CoordinatorInv'
  <2>. SUFFICES ASSUME PoolInv, CoordinatorInv, [Next]_vars PROVE CoordinatorInv'
    OBVIOUS
  <2>1. CASE ~parallel
    <3>1. UNCHANGED parallel
      BY DEF Next, Shutdown, WorkerStep, WorkerInit, WorkerNotify, WorkerReceive, WorkerStart,
             RunAppJob, BuildProver, WorkerLoadFails, WorkerRun, WorkerRunFails, RunEnds, WorkerFree, WorkerReply,
             WorkerStop, TaskStep, Admit, Register, Check, TrySend, Wake, Backstop, Barrier, Fail,
             Await, AwaitConsumers, vars
    <3>. QED  BY <2>1, <3>1 DEF CoordinatorInv
  <2>2. CASE Shutdown \/ UNCHANGED vars
    <3>0. UNCHANGED <<parallel, tpc, part, scan, wpc, item, is_busy, queue>>
      BY <2>2 DEF Shutdown, vars, taskVars, threadVars
    <3>1. OneJob' = OneJob /\ BusyRuns' = BusyRuns /\ IdleHasNone' = IdleHasNone /\ Once' = Once
      BY <3>0 DEF OneJob, BusyRuns, IdleHasNone, Once
    <3>2. Placed' = Placed
      BY <3>0 DEF Placed, NotYet
    <3>3. /\ PastBarrier' = PastBarrier /\ Begun' = Begun /\ SendsToFree' = SendsToFree
          /\ CoordinatorFree' = CoordinatorFree
      BY <3>0 DEF PastBarrier, Begun, SendsToFree, CoordinatorFree
    <3>. QED  BY <3>0, <3>1, <3>2, <3>3 DEF CoordinatorInv
  <2>. QED  BY <2>1, <2>2, WorkerCoordinates, TaskCoordinates DEF Next
<1>3. CoordinatorInv => CoordinatorNotBehindConsumer
  BY DEF CoordinatorInv, CoordinatorFree, CoordinatorNotBehindConsumer, AtWork
<1>. QED  BY <1>1, <1>2, <1>3, PoolInvariant, PTL DEF Spec
=============================================================================

---------------------------- MODULE AppProverProofs ----------------------------
(***************************************************************************)
(* Proofs about AppProver, for every number of workers, app provers,       *)
(* segments and faults: its types, that the snapshot schedule fits, that   *)
(* a segment is in one place at a time, and that the job implements the    *)
(* shard (ShardSpec) the manager relies on.                                *)
(***************************************************************************)
EXTENDS AppProver, FiniteSetTheorems, TLAPS

Work == [seg : Owned, from : Nat]

AppTypes ==
    /\ TypeOK
    /\ prove_chan \in Seq(Work)
    /\ held \in [Provers -> Work \cup {Nothing}]
    /\ result_chan \in Seq(Owned \cup {E2})

\* Where the job is: what the executor and the provers know of each other.
Stages ==
    /\ \A i \in Provers : pc[i] \in {"prove", "stream"} <=> held[i] # Nothing
    /\ exec = "off" => pc[0] \in {"queued", "error"} /\ curr_idx = 0
    /\ pc[0] = "queued" => exec = "off"
    /\ exec = "e2" => job.prover_id = 0
    /\ \A i \in Provers : pc[i] = "join" => i = 0
-----------------------------------------------------------------------------
\* What is not executed yet is nowhere, and nothing is in two places.
Unseen ==
    exec \in {"off", "run"} =>
      /\ \A n \in DOMAIN prove_chan : prove_chan[n].seg < curr_idx
      /\ \A i \in Provers : held[i].seg < curr_idx
      /\ \A n \in DOMAIN result_chan : result_chan[n] < curr_idx
      /\ \A s \in posted : s < curr_idx
E2Last ==
    exec \in {"off", "run", "e2"} \/ job.prover_id # 0 =>
      E2 \notin posted /\ \A n \in DOMAIN result_chan : result_chan[n] # E2
ChannelsDistinct ==
    /\ \A m, n \in DOMAIN prove_chan : m # n => prove_chan[m].seg # prove_chan[n].seg
    /\ \A m, n \in DOMAIN result_chan : m # n => result_chan[m] # result_chan[n]
    /\ \A m \in DOMAIN prove_chan, n \in DOMAIN result_chan : prove_chan[m].seg # result_chan[n]
HeldDistinct ==
    /\ \A i, j \in Provers : (i # j /\ held[i] # Nothing) => held[i].seg # held[j].seg
    /\ \A i \in Provers, n \in DOMAIN prove_chan : held[i].seg # prove_chan[n].seg
    /\ \A i \in Provers, n \in DOMAIN result_chan : held[i].seg # result_chan[n]
PostedDistinct ==
    /\ \A n \in DOMAIN prove_chan : prove_chan[n].seg \notin posted
    /\ \A n \in DOMAIN result_chan : result_chan[n] \notin posted
    /\ \A i \in Provers : held[i].seg \notin posted
Room == Len(result_chan) <= ResultCapacity /\ Len(prove_chan) <= ProveCapacity

OnceInv == Unseen /\ E2Last /\ ChannelsDistinct /\ HeldDistinct /\ PostedDistinct /\ Room
-----------------------------------------------------------------------------
\* The deque before segment curr_idx: with one prover, the snapshots for this
\* segment and the next; with more, the one for an assigned one of the two.
StartOf(s) == IF s < 2 THEN 0 ELSE s
Deque(c) ==
    IF job.num_provers = 1
    THEN IF c = 0 THEN <<0>> ELSE <<StartOf(c), c + 1>>
    ELSE IF Assigned(c) THEN <<StartOf(c)>>
    ELSE IF Assigned(c + 1) THEN <<StartOf(c + 1)>> ELSE <<>>
Fit(d) == d.from <= d.seg /\ d.seg <= d.from + 1
ScheduleInv ==
    /\ exec # "panicked"
    /\ exec = "run" => snapshots = Deque(curr_idx)
    /\ Len(snapshots) <= 2
    /\ \A n \in DOMAIN prove_chan : Fit(prove_chan[n])
    /\ \A i \in Provers : held[i] # Nothing => Fit(held[i])
-----------------------------------------------------------------------------
\* Unless a prover lost a segment, which it reports, what was executed is
\* somewhere; a prover ends well only when there is nothing left to take.
Placed(s) ==
    \/ s \in posted
    \/ \E n \in DOMAIN result_chan : result_chan[n] = s
    \/ \E i \in Provers : held[i].seg = s
    \/ \E n \in DOMAIN prove_chan : prove_chan[n].seg = s
Lossless == ~prover_err /\ \A i \in Provers : pc[i] # "error"
Executed(s) == exec \in {"e2", "done"} \/ (exec \in {"off", "run"} /\ s < curr_idx)
NothingLost ==
    Lossless => /\ \A s \in Owned : Executed(s) => Placed(s)
                /\ (exec = "done" /\ job.prover_id = 0) => Placed(E2)
Drained ==
    /\ \A i \in Provers : (pc[i] = "ok" \/ (pc[i] = "join" /\ ~prover_err)) =>
         prove_chan = <<>> /\ ~ProveSenderAlive
    /\ pc[0] = "ok" => exec = "done" /\ ~prover_err
TaskInv ==
    /\ failed => task \in {"wait", "done"}
    /\ (task \in {"wait", "done"} /\ ~failed) => \A i \in Provers : pc[i] = "ok"
    /\ sender = "done" => result_chan = <<>> /\ ~ResultSenderAlive
    /\ task = "done" => sender = "done"

ShardInv == NothingLost /\ Drained /\ TaskInv
-----------------------------------------------------------------------------
(* The steps, and sequences *)

\* One prover alone and the provers of a parallel job take the same steps.
LEMMA NextCases ==
    ASSUME TypeOK, [Next]_vars
    PROVE  \/ SpawnExecutor \/ ExecuteSegment \/ ExecutorStops \/ StreamExecuteE2
           \/ \E i \in Provers : \/ StartConsumer(i) \/ StartFails(i)
                                 \/ Receive(i, IF i = 0 THEN "join" ELSE "ok")
                                 \/ Prove(i) \/ Stream(i) \/ ProveReturns(i)
           \/ \E dropped \in SUBSET Provers : DispatchFails(dropped)
           \/ ProveBreaks \/ Join
           \/ JobAnswered \/ SubmitError \/ SenderPost \/ SenderEnds \/ TaskEnds
           \/ UNCHANGED vars
<1>1. 0 \in Provers
  BY DEF TypeOK, Jobs, Provers
<1>2. CASE StartSingle \/ StartCoordinator \/ ExecutorLoopSingle \/ ExecutorLoopParallel
             \/ StreamExecuteE2Single \/ StreamExecuteE2Parallel \/ JoinSingle \/ JoinCoordinator
  BY <1>2 DEF StartSingle, StartCoordinator, ExecutorLoopSingle, ExecutorLoopParallel,
              StreamExecuteE2Single, StreamExecuteE2Parallel, JoinSingle, JoinCoordinator
<1>3. CASE ProveLoopSingle \/ ProveLoopCoordinator \/ StreamSingle \/ StreamCoordinator
  BY <1>1, <1>3 DEF ProveLoopSingle, ProveLoopCoordinator, StreamSingle, StreamCoordinator
<1>4. ASSUME NEW i \in Provers, ConsumeSegmentsLoop(i)
      PROVE  Receive(i, IF i = 0 THEN "join" ELSE "ok") \/ Prove(i) \/ Stream(i) \/ ProveReturns(i)
  BY <1>4 DEF ConsumeSegmentsLoop
<1>. QED  BY <1>2, <1>3, <1>4 DEF Next

\* The request and the execution stay what they are.
LEMMA JobIsFixed ==
    ASSUME TypeOK, [Next]_vars
    PROVE  /\ UNCHANGED <<job, total>>
           /\ Owned' = Owned /\ Provers' = Provers /\ Parallel' = Parallel /\ Work' = Work
           /\ ProveCapacity' = ProveCapacity
<1>1. UNCHANGED <<job, total>>
  BY NextCases DEF SpawnExecutor, ExecuteSegment, ExecutorStops, StreamExecuteE2, StartConsumer,
      StartFails, Receive, Prove, Stream, ProveReturns, DispatchFails, ProveBreaks, Join,
      JobAnswered, SubmitError, SenderPost, SenderEnds, TaskEnds, vars
<1>. QED  BY <1>1 DEF Owned, Assigned, Provers, Parallel, Work, ProveCapacity

\* Appending puts the item last and changes nothing before it.
LEMMA Appended ==
    ASSUME NEW S, NEW s \in Seq(S), NEW x \in S
    PROVE  /\ Append(s, x) \in Seq(S) /\ Len(Append(s, x)) = Len(s) + 1
           /\ \A n \in DOMAIN s : n \in DOMAIN Append(s, x) /\ Append(s, x)[n] = s[n]
           /\ Len(s) + 1 \in DOMAIN Append(s, x) /\ Append(s, x)[Len(s) + 1] = x
           /\ \A n \in DOMAIN Append(s, x) : n \in DOMAIN s \/ n = Len(s) + 1
           /\ Len(s) + 1 \notin DOMAIN s
OBVIOUS

\* Taking the head moves the others up.
LEMMA Taken ==
    ASSUME NEW S, NEW s \in Seq(S), s # <<>>
    PROVE  /\ Head(s) \in S /\ Tail(s) \in Seq(S) /\ Len(Tail(s)) = Len(s) - 1
           /\ 1 \in DOMAIN s /\ s[1] = Head(s)
           /\ \A n \in DOMAIN Tail(s) : n + 1 \in DOMAIN s /\ n + 1 # 1 /\ Tail(s)[n] = s[n + 1]
           /\ \A n \in DOMAIN s : n = 1 \/ (n - 1 \in DOMAIN Tail(s) /\ Tail(s)[n - 1] = s[n])
<1>1. s \in [1..Len(s) -> S] /\ Len(s) \in Nat /\ Len(s) > 0
  OBVIOUS
<1>. QED  BY <1>1
-----------------------------------------------------------------------------
(* Types *)

\* A job starts with nothing executed, held or posted.
LEMMA AppTypesInit == Init => AppTypes /\ Stages
<1>. SUFFICES ASSUME Init PROVE AppTypes /\ Stages
  OBVIOUS
<1>0. job \in Jobs /\ total \in 1..MaxSegments /\ 0 \in Provers /\ FaultBudget \in Nat
  BY AppProverAssumption DEF Init, Jobs, Provers
<1>1. TypeOK
  BY <1>0 DEF Init, TypeOK
<1>. QED  BY <1>0, <1>1 DEF Init, AppTypes, Stages

\* A fault costs one of the budget; the rest of the types carry over.
LEMMA FaultTypes ==
    ASSUME TypeOK, Fault \/ NoFault PROVE faultsLeft' \in 0..FaultBudget
BY AppProverAssumption DEF TypeOK, Fault, NoFault

\* What AfterSegment leaves is well typed, inside the execution.
LEMMA AfterSegmentTypes ==
    ASSUME TypeOK, NEW left \in Seq(Nat), AfterSegment(left), exec = "run"
    PROVE  /\ curr_idx' \in 0..(total - 1) /\ snapshots' \in Seq(Nat)
           /\ exec' \in {"run", "e2", "done"} /\ (exec' = "e2" => job.prover_id = 0)
<1>1. curr_idx \in 0..(total - 1) /\ total \in Nat /\ curr_idx + 2 \in Nat
  BY AppProverAssumption DEF TypeOK
<1>2. Append(left, curr_idx + 2) \in Seq(Nat)
  BY <1>1
<1>3. CASE curr_idx = total - 1
  <2>1. curr_idx' = curr_idx /\ snapshots' = left
        /\ exec' = IF job.prover_id = 0 THEN "e2" ELSE "done"
    BY <1>3 DEF AfterSegment
  <2>. QED  BY <1>1, <2>1
<1>4. CASE curr_idx # total - 1
  <2>1. curr_idx' = curr_idx + 1 /\ exec' = exec
        /\ (snapshots' = Append(left, curr_idx + 2) \/ snapshots' = left)
    BY <1>4 DEF AfterSegment
  <2>2. curr_idx + 1 \in 0..(total - 1)
    BY <1>1, <1>4
  <2>. QED  BY <1>2, <2>1, <2>2
<1>. QED  BY <1>3, <1>4

\* Every step keeps the types.
LEMMA AppTypesNext == AppTypes /\ Stages /\ [Next]_vars => AppTypes' /\ Stages'
<1>. SUFFICES ASSUME AppTypes, Stages, [Next]_vars PROVE AppTypes' /\ Stages'
  OBVIOUS
<1>0. TypeOK /\ 0 \in Provers /\ job \in Jobs /\ total \in 1..MaxSegments
  BY DEF AppTypes, TypeOK, Jobs, Provers
<1>1. /\ UNCHANGED <<job, total>>
      /\ Owned' = Owned /\ Provers' = Provers /\ Parallel' = Parallel /\ Work' = Work
  BY <1>0, JobIsFixed
<1>2. Nothing \notin Work
  BY <1>0 DEF Nothing, Work, Owned
<1>. USE DEF AppTypes, TypeOK, Stages, Goto
<1>3. CASE SpawnExecutor
  BY <1>0, <1>1, <1>3, FaultTypes DEF SpawnExecutor, taskVars
<1>4. CASE ExecuteSegment
  <2>0. /\ exec = "run" /\ faultsLeft' \in 0..FaultBudget
        /\ UNCHANGED <<pc, held, prover_err, result_chan, posted, sender, task, failed>>
    BY <1>0, <1>4, FaultTypes DEF ExecuteSegment, proverVars, taskVars
  <2>1. CASE AfterSegment(snapshots) /\ UNCHANGED prove_chan
    BY <1>0, <1>1, <2>0, <2>1, AfterSegmentTypes
  <2>2. CASE /\ Assigned(curr_idx) /\ snapshots # <<>>
             /\ prove_chan' = Append(prove_chan, [seg |-> curr_idx, from |-> Head(snapshots)])
             /\ AfterSegment(IF job.num_provers = 1 /\ curr_idx = 0 THEN snapshots ELSE Tail(snapshots))
    <3>1. Head(snapshots) \in Nat /\ Tail(snapshots) \in Seq(Nat)
      BY <2>2, Taken
    <3>2. [seg |-> curr_idx, from |-> Head(snapshots)] \in Work
      BY <2>2, <3>1 DEF Work, Owned
    <3>3. prove_chan' \in Seq(Work)
      BY <2>2, <3>2
    <3>4. /\ curr_idx' \in 0..(total - 1) /\ snapshots' \in Seq(Nat)
          /\ exec' \in {"run", "e2", "done"} /\ (exec' = "e2" => job.prover_id = 0)
      BY <2>0, <2>2, <3>1, AfterSegmentTypes
    <3>. QED  BY <1>0, <1>1, <2>0, <3>3, <3>4
  <2>. QED  BY <1>4, <2>1, <2>2 DEF ExecuteSegment
<1>5. CASE ExecutorStops
  BY <1>0, <1>1, <1>5, FaultTypes DEF ExecutorStops, proverVars, taskVars
<1>6. CASE StreamExecuteE2
  <2>0. /\ exec' \in {"done", "failed"} /\ exec = "e2" /\ faultsLeft' \in 0..FaultBudget
        /\ UNCHANGED <<curr_idx, snapshots, prove_chan, pc, held, prover_err, posted, sender, task, failed>>
    BY <1>0, <1>6, FaultTypes DEF StreamExecuteE2, proverVars, taskVars
  <2>1. Append(result_chan, E2) \in Seq(Owned \cup {E2})
    BY Appended
  <2>2. result_chan' \in Seq(Owned \cup {E2})
    BY <1>6, <2>1 DEF StreamExecuteE2
  <2>. QED  BY <1>0, <1>1, <2>0, <2>2
<1>7. ASSUME NEW i \in Provers, StartConsumer(i) PROVE AppTypes' /\ Stages'
  BY <1>0, <1>1, <1>7, FaultTypes DEF StartConsumer, execVars, taskVars
<1>8. ASSUME NEW i \in Provers, StartFails(i) PROVE AppTypes' /\ Stages'
  BY <1>0, <1>1, <1>8, FaultTypes DEF StartFails, execVars, taskVars
<1>9. ASSUME NEW i \in Provers, Receive(i, IF i = 0 THEN "join" ELSE "ok")
      PROVE  AppTypes' /\ Stages'
  <2>0. /\ pc[i] = "recv" /\ faultsLeft' \in 0..FaultBudget
        /\ UNCHANGED <<exec, curr_idx, snapshots, prover_err, result_chan, posted, sender, task, failed>>
    BY <1>0, <1>9, FaultTypes DEF Receive, taskVars
  <2>1. CASE prove_chan # <<>>
    <3>1. Head(prove_chan) \in Work /\ Tail(prove_chan) \in Seq(Work)
      BY <2>1, Taken
    <3>2. /\ held' = [held EXCEPT ![i] = Head(prove_chan)]
          /\ prove_chan' = Tail(prove_chan) /\ pc' = [pc EXCEPT ![i] = "prove"]
      BY <1>9, <2>1 DEF Receive
    <3>3. Head(prove_chan) # Nothing
      BY <1>2, <3>1
    <3>4. AppTypes'
      BY <1>0, <1>1, <2>0, <3>1, <3>2
    <3>5. Stages'
      BY <1>0, <1>1, <2>0, <3>2, <3>3
    <3>. QED  BY <3>4, <3>5
  <2>2. CASE prove_chan = <<>>
    BY <1>0, <1>1, <1>2, <1>9, <2>0, <2>2 DEF Receive
  <2>. QED  BY <2>1, <2>2
<1>10. ASSUME NEW i \in Provers, Prove(i) PROVE AppTypes' /\ Stages'
  BY <1>0, <1>1, <1>10, FaultTypes DEF Prove, execVars, taskVars
<1>11. ASSUME NEW i \in Provers, Stream(i) PROVE AppTypes' /\ Stages'
  <2>1. held[i] \in Work /\ held[i].seg \in Owned
    BY <1>11 DEF Stream, Work
  <2>2. Append(result_chan, held[i].seg) \in Seq(Owned \cup {E2})
    BY <2>1, Appended
  <2>. QED  BY <1>0, <1>1, <1>11, <2>2, FaultTypes DEF Stream, execVars, taskVars
<1>12. ASSUME NEW i \in Provers, ProveReturns(i) PROVE AppTypes' /\ Stages'
  BY <1>0, <1>1, <1>12, FaultTypes DEF ProveReturns, execVars, taskVars
<1>13. ASSUME NEW dropped \in SUBSET Provers, DispatchFails(dropped) PROVE AppTypes' /\ Stages'
  BY <1>0, <1>1, <1>13, FaultTypes DEF DispatchFails, execVars
<1>14. CASE ProveBreaks
  BY <1>0, <1>1, <1>14, FaultTypes DEF ProveBreaks, execVars, taskVars
<1>15. CASE Join
  BY <1>0, <1>1, <1>15, FaultTypes DEF Join, execVars, taskVars
<1>16. CASE JobAnswered \/ SubmitError \/ SenderEnds \/ TaskEnds
  BY <1>0, <1>1, <1>16, FaultTypes
     DEF JobAnswered, SubmitError, SenderEnds, TaskEnds, execVars, proverVars
<1>17. CASE SenderPost
  <2>1. Head(result_chan) \in Owned \cup {E2} /\ Tail(result_chan) \in Seq(Owned \cup {E2})
    BY <1>17, Taken DEF SenderPost
  <2>. QED  BY <1>0, <1>1, <1>17, <2>1, FaultTypes DEF SenderPost, execVars, proverVars
<1>18. CASE UNCHANGED vars
  BY <1>0, <1>1, <1>18 DEF vars, execVars, proverVars, taskVars
<1>. QED
  BY <1>0, <1>3, <1>4, <1>5, <1>6, <1>7, <1>8, <1>9, <1>10, <1>11, <1>12, <1>13, <1>14, <1>15,
     <1>16, <1>17, <1>18, NextCases

\* The types and stages are an invariant of the job.
LEMMA AppTypesHold == Spec => [](AppTypes /\ Stages)
BY AppTypesInit, AppTypesNext, PTL DEF Spec

\* The executor's index never leaves the execution, the fault budget is kept,
\* and a worker posts segments of its own shard only.
THEOREM AppProverTypesHold == Spec => []TypeOK
<1>1. AppTypes => TypeOK
  BY DEF AppTypes
<1>. QED  BY <1>1, AppTypesHold, PTL
-----------------------------------------------------------------------------
(* The snapshot schedule *)

\* Two segments in a row never fall to the same one of several workers.
LEMMA NeighboursDiffer ==
    ASSUME NEW n \in Nat, n > 1, NEW c \in Nat PROVE (c + 1) % n # c % n
<1>1. ASSUME NEW k \in Int PROVE n * k # 1
  <2>1. CASE k <= 0
    <3>1. n * k <= 0
      BY <2>1, Z3
    <3>. QED  BY <3>1
  <2>2. CASE k >= 1
    <3>1. n * k >= n
      BY <2>2, Z3
    <3>. QED  BY <3>1
  <2>. QED  BY <2>1, <2>2
<1>2. c = n * (c \div n) + (c % n) /\ c \div n \in Int /\ c % n \in Int
  OBVIOUS
<1>3. c + 1 = n * ((c + 1) \div n) + ((c + 1) % n) /\ (c + 1) \div n \in Int
  OBVIOUS
<1>4. SUFFICES ASSUME (c + 1) % n = c % n PROVE FALSE
  OBVIOUS
<1>5. n * ((c + 1) \div n) - n * (c \div n) = 1
  BY <1>2, <1>3, <1>4
<1>6. n * (((c + 1) \div n) - (c \div n)) = 1
  BY <1>2, <1>3, <1>5
<1>7. ((c + 1) \div n) - (c \div n) \in Int
  BY <1>2, <1>3
<1>. QED  BY <1>1, <1>6, <1>7

\* The deque the schedule prescribes has the snapshot an assigned segment
\* needs at its head, and never outgrows its capacity.
LEMMA DequeServes ==
    ASSUME TypeOK, NEW c \in Nat
    PROVE  /\ Deque(c) \in Seq(Nat) /\ Len(Deque(c)) <= 2
           /\ Assigned(c) => Deque(c) # <<>> /\ Fit([seg |-> c, from |-> Head(Deque(c))])
<1>1. job.num_provers \in Nat \ {0} /\ job.prover_id \in Nat /\ job.prover_id < job.num_provers
  BY AppProverAssumption DEF TypeOK, Jobs
<1>2. StartOf(c) \in Nat /\ StartOf(c) <= c /\ c <= StartOf(c) + 1 /\ StartOf(c + 1) \in Nat
  BY DEF StartOf
<1>3. CASE job.num_provers = 1
  <2>1. CASE c = 0
    BY <1>3, <2>1 DEF Deque, Fit
  <2>2. CASE c # 0
    <3>1. Deque(c) = <<StartOf(c), c + 1>>
      BY <1>3, <2>2 DEF Deque
    <3>2. Head(Deque(c)) = StartOf(c) /\ Len(Deque(c)) = 2 /\ Deque(c) \in Seq(Nat)
      BY <1>2, <3>1
    <3>. QED  BY <1>2, <3>1, <3>2 DEF Fit
  <2>. QED  BY <2>1, <2>2
<1>4. CASE job.num_provers # 1
  <2>1. CASE Assigned(c)
    <3>1. Deque(c) = <<StartOf(c)>>
      BY <1>4, <2>1 DEF Deque
    <3>2. Head(Deque(c)) = StartOf(c) /\ Len(Deque(c)) = 1 /\ Deque(c) \in Seq(Nat)
      BY <1>2, <3>1
    <3>. QED  BY <1>2, <3>1, <3>2 DEF Fit
  <2>2. CASE ~Assigned(c)
    BY <1>2, <1>4, <2>2 DEF Deque
  <2>. QED  BY <2>1, <2>2
<1>. QED  BY <1>3, <1>4

\* The executor starts with the deque the schedule prescribes.
LEMMA DequeSeeded ==
    ASSUME TypeOK PROVE (IF seeds_initial_snapshot THEN <<0>> ELSE <<>>) = Deque(0)
<1>1. job.num_provers \in Nat \ {0} /\ job.prover_id \in Nat /\ job.prover_id < job.num_provers
  BY AppProverAssumption DEF TypeOK, Jobs
<1>2. CASE job.num_provers = 1
  BY <1>1, <1>2 DEF Deque, seeds_initial_snapshot
<1>3. CASE job.num_provers > 1
  <2>1. 0 % job.num_provers = 0 /\ 1 % job.num_provers = 1
    BY <1>1, <1>3
  <2>2. (Assigned(0) <=> job.prover_id = 0) /\ (Assigned(0 + 1) <=> job.prover_id = 1)
    BY <2>1 DEF Assigned
  <2>. QED  BY <1>1, <1>3, <2>2 DEF Deque, StartOf, seeds_initial_snapshot
<1>. QED  BY <1>1, <1>2, <1>3

\* Sequences with the same items are the same.
LEMMA SameSequence ==
    ASSUME NEW S, NEW s \in Seq(S), NEW t \in Seq(S),
           Len(s) = Len(t), \A n \in 1..Len(s) : s[n] = t[n]
    PROVE  s = t
OBVIOUS

\* A snapshot saved on a deque of one makes a deque of two.
LEMMA TwoSnapshots == ASSUME NEW a \in Nat, NEW b \in Nat PROVE Append(<<a>>, b) = <<a, b>>
<1>. DEFINE s == Append(<<a>>, b)
            t == <<a, b>>
<1>1. <<a>> \in Seq(Nat) /\ Len(<<a>>) = 1 /\ <<a>>[1] = a
  OBVIOUS
<1>2. s \in Seq(Nat) /\ Len(s) = 2 /\ s[1] = a /\ s[2] = b
  BY <1>1
<1>3. t \in Seq(Nat) /\ Len(t) = 2 /\ t[1] = a /\ t[2] = b
  OBVIOUS
<1>. HIDE DEF s, t
<1>4. s = t
  BY <1>2, <1>3, SameSequence
<1>. QED  BY <1>4 DEF s, t

\* Taking the head for an assigned segment and saving what the schedule says
\* gives the deque of the next segment.
LEMMA DequeFollows ==
    ASSUME TypeOK, NEW c \in Nat, NEW left,
           left = IF ~Assigned(c) \/ (job.num_provers = 1 /\ c = 0) THEN Deque(c) ELSE Tail(Deque(c))
    PROVE  (IF saves_snapshot_at(c) THEN Append(left, c + 2) ELSE left) = Deque(c + 1)
<1>1. job.num_provers \in Nat \ {0} /\ job.prover_id \in Nat /\ job.prover_id < job.num_provers
  BY AppProverAssumption DEF TypeOK, Jobs
<1>2. CASE job.num_provers = 1
  <2>0. saves_snapshot_at(c) /\ Assigned(c)
    BY <1>1, <1>2 DEF saves_snapshot_at, Assigned
  <2>1. CASE c = 0
    <3>1. left = <<0>> /\ Deque(c + 1) = <<0, c + 2>>
      BY <1>2, <2>1 DEF Deque, StartOf
    <3>2. Append(<<0>>, c + 2) = <<0, c + 2>>
      BY TwoSnapshots
    <3>. QED  BY <2>0, <3>1, <3>2
  <2>2. CASE c # 0
    <3>1. Deque(c) = <<StartOf(c), c + 1>> /\ Deque(c + 1) = <<c + 1, c + 2>>
      BY <1>2, <2>2 DEF Deque, StartOf
    <3>2. left = <<c + 1>>
      BY <2>0, <2>2, <3>1
    <3>3. Append(<<c + 1>>, c + 2) = <<c + 1, c + 2>>
      BY TwoSnapshots
    <3>. QED  BY <2>0, <3>1, <3>2, <3>3
  <2>. QED  BY <2>1, <2>2
<1>3. CASE job.num_provers > 1
  <2>1. saves_snapshot_at(c) <=> Assigned(c + 2)
    BY <1>3 DEF saves_snapshot_at, Assigned
  <2>2. ~(Assigned(c) /\ Assigned(c + 1))
    BY <1>1, <1>3, NeighboursDiffer DEF Assigned
  <2>3. ~(Assigned(c + 1) /\ Assigned(c + 2))
    <3>1. c + 1 \in Nat /\ (c + 1) + 1 = c + 2 /\ job.num_provers \in Nat
      BY <1>1
    <3>2. \A m \in Nat : (m + 1) % job.num_provers # m % job.num_provers
      BY <1>3, <3>1, NeighboursDiffer
    <3>3. (c + 2) % job.num_provers # (c + 1) % job.num_provers
      BY <3>1, <3>2
    <3>. QED  BY <3>3 DEF Assigned
  <2>4. StartOf(c + 2) = c + 2 /\ (c + 1) + 1 = c + 2
    BY DEF StartOf
  <2>5. Deque(c + 1) = IF Assigned(c + 1) THEN <<StartOf(c + 1)>>
                       ELSE IF Assigned(c + 2) THEN <<c + 2>> ELSE <<>>
    BY <1>3, <2>4 DEF Deque
  <2>6. left = IF ~Assigned(c) /\ Assigned(c + 1) THEN <<StartOf(c + 1)>> ELSE <<>>
    <3>1. CASE Assigned(c)
      <4>1. Deque(c) = <<StartOf(c)>>
        BY <1>3, <3>1 DEF Deque
      <4>. QED  BY <1>3, <3>1, <4>1
    <3>2. CASE ~Assigned(c)
      BY <1>3, <3>2 DEF Deque
    <3>. QED  BY <3>1, <3>2
  <2>7. Append(<<>>, c + 2) = <<c + 2>>
    OBVIOUS
  <2>. QED  BY <2>1, <2>2, <2>3, <2>5, <2>6, <2>7
<1>. QED  BY <1>1, <1>2, <1>3

\* Nothing is executed and nothing is on its way at the start.
LEMMA ScheduleInit == Init => ScheduleInv
<1>. SUFFICES ASSUME Init PROVE ScheduleInv
  OBVIOUS
<1>1. Provers = DOMAIN held /\ \A i \in Provers : held[i] = Nothing
  BY DEF Init
<1>. QED  BY <1>1 DEF Init, ScheduleInv

\* Every step keeps the schedule.
LEMMA ScheduleNext ==
    AppTypes /\ Stages /\ ScheduleInv /\ [Next]_vars => ScheduleInv'
<1>. SUFFICES ASSUME AppTypes, Stages, ScheduleInv, [Next]_vars PROVE ScheduleInv'
  OBVIOUS
<1>0. TypeOK /\ 0 \in Provers /\ curr_idx \in Nat /\ prove_chan \in Seq(Work)
  BY AppProverAssumption DEF AppTypes, TypeOK, Jobs, Provers
<1>1. UNCHANGED <<job, total>> /\ Provers' = Provers
  BY <1>0, JobIsFixed
<1>2. \A c : Deque(c)' = Deque(c)
  BY <1>1 DEF Deque, Assigned, StartOf
<1>3. ASSUME exec' = exec \/ exec' \in {"done", "failed"}, UNCHANGED <<curr_idx, snapshots, prove_chan>>,
             \A i \in Provers : held'[i] = held[i] \/ held'[i] = Nothing
      PROVE  ScheduleInv'
  BY <1>1, <1>2, <1>3 DEF ScheduleInv, Fit
<1>4. ASSUME UNCHANGED <<execVars, held>> PROVE ScheduleInv'
  BY <1>3, <1>4 DEF execVars
<1>5. CASE SpawnExecutor
  <2>1. /\ exec' = "run" /\ curr_idx' = 0 /\ snapshots' = IF seeds_initial_snapshot THEN <<0>> ELSE <<>>
        /\ UNCHANGED <<prove_chan, held>>
    BY <1>5 DEF SpawnExecutor, Stages
  <2>2. snapshots' = Deque(0) /\ Len(Deque(0)) <= 2
    BY <1>0, <2>1, DequeSeeded, DequeServes
  <2>. QED  BY <1>1, <1>2, <2>1, <2>2 DEF ScheduleInv, Fit
<1>6. CASE ExecuteSegment
  <2>0. exec = "run" /\ snapshots = Deque(curr_idx) /\ UNCHANGED held
    BY <1>6 DEF ExecuteSegment, ScheduleInv, proverVars
  <2>. DEFINE left == IF ~Assigned(curr_idx) \/ (job.num_provers = 1 /\ curr_idx = 0)
                      THEN Deque(curr_idx) ELSE Tail(Deque(curr_idx))
  <2>1. AfterSegment(left)
    BY <1>6, <2>0 DEF ExecuteSegment
  <2>2. \A n \in DOMAIN prove_chan' : Fit(prove_chan'[n])
    <3>1. CASE UNCHANGED prove_chan
      BY <3>1 DEF ScheduleInv, Fit
    <3>2. CASE Assigned(curr_idx) /\
               prove_chan' = Append(prove_chan, [seg |-> curr_idx, from |-> Head(Deque(curr_idx))])
      <4>. DEFINE d == [seg |-> curr_idx, from |-> Head(Deque(curr_idx))]
      <4>1. Fit(d)
        BY <1>0, <3>2, DequeServes
      <4>2. Head(Deque(curr_idx)) \in Nat
        <5>1. Deque(curr_idx) \in Seq(Nat) /\ Deque(curr_idx) # <<>>
          BY <1>0, <3>2, DequeServes
        <5>. QED  BY <5>1, Taken
      <4>3. d \in Work
        BY <1>0, <3>2, <4>2 DEF Work, Owned, TypeOK
      <4>. HIDE DEF d
      <4>4. prove_chan' = Append(prove_chan, d)
        BY <3>2 DEF d
      <4>5. \A n \in DOMAIN prove_chan' : n \in DOMAIN prove_chan \/ n = Len(prove_chan) + 1
        BY <1>0, <4>3, <4>4, Appended
      <4>6. \A n \in DOMAIN prove_chan : prove_chan'[n] = prove_chan[n]
        BY <1>0, <4>3, <4>4, Appended
      <4>7. prove_chan'[Len(prove_chan) + 1] = d
        BY <1>0, <4>3, <4>4, Appended
      <4>. QED  BY <4>1, <4>5, <4>6, <4>7 DEF ScheduleInv, Fit
    <3>. QED  BY <1>6, <2>0, <3>1, <3>2 DEF ExecuteSegment
  <2>3. CASE curr_idx = total - 1
    <3>1. exec' \in {"e2", "done"} /\ snapshots' = left
      BY <2>1, <2>3 DEF AfterSegment
    <3>2. Len(left) <= 2
      <4>1. Deque(curr_idx) \in Seq(Nat) /\ Len(Deque(curr_idx)) <= 2
            /\ (Assigned(curr_idx) => Deque(curr_idx) # <<>>)
        BY <1>0, DequeServes
      <4>2. Assigned(curr_idx) => Len(Tail(Deque(curr_idx))) = Len(Deque(curr_idx)) - 1
        BY <4>1, Taken
      <4>3. Len(Deque(curr_idx)) \in Nat
        BY <4>1
      <4>. QED  BY <4>1, <4>2, <4>3
    <3>. QED  BY <1>1, <2>0, <2>2, <3>1, <3>2 DEF ScheduleInv, Fit
  <2>4. CASE curr_idx # total - 1
    <3>1. /\ exec' = "run" /\ curr_idx' = curr_idx + 1
          /\ snapshots' = IF saves_snapshot_at(curr_idx) THEN Append(left, curr_idx + 2) ELSE left
      BY <2>0, <2>1, <2>4 DEF AfterSegment
    <3>2. snapshots' = Deque(curr_idx + 1) /\ Len(Deque(curr_idx + 1)) <= 2
      <4>1. snapshots' = Deque(curr_idx + 1)
        BY <1>0, <3>1, DequeFollows
      <4>2. curr_idx + 1 \in Nat
        BY <1>0
      <4>. QED  BY <1>0, <4>1, <4>2, DequeServes
    <3>. QED  BY <1>1, <1>2, <2>0, <2>2, <3>1, <3>2 DEF ScheduleInv, Fit
  <2>. QED  BY <2>3, <2>4
<1>7. CASE ExecutorStops
  <2>1. exec = "run" /\ snapshots = Deque(curr_idx)
    BY <1>7 DEF ExecutorStops, ScheduleInv
  <2>2. Assigned(curr_idx) => snapshots # <<>>
    BY <1>0, <2>1, DequeServes
  <2>3. exec' = "failed" /\ UNCHANGED <<curr_idx, snapshots, prove_chan, held>>
    BY <1>7, <2>2 DEF ExecutorStops, proverVars
  <2>. QED  BY <1>3, <2>3
<1>8. CASE StreamExecuteE2
  BY <1>3, <1>8 DEF StreamExecuteE2, proverVars
<1>9. ASSUME NEW i \in Provers, Receive(i, IF i = 0 THEN "join" ELSE "ok")
      PROVE  ScheduleInv'
  <2>1. CASE prove_chan # <<>>
    <3>1. /\ held' = [held EXCEPT ![i] = Head(prove_chan)] /\ prove_chan' = Tail(prove_chan)
          /\ UNCHANGED <<exec, curr_idx, snapshots>>
      BY <1>9, <2>1 DEF Receive
    <3>2. Fit(Head(prove_chan))
      BY <1>0, <2>1, Taken DEF ScheduleInv
    <3>3. \A n \in DOMAIN prove_chan' : Fit(prove_chan'[n])
      BY <1>0, <2>1, <3>1, Taken DEF ScheduleInv
    <3>4. \A j \in Provers : held'[j] = IF j = i THEN Head(prove_chan) ELSE held[j]
      BY <3>1 DEF AppTypes
    <3>5. \A j \in Provers : held'[j] # Nothing => Fit(held'[j])
      BY <3>2, <3>4 DEF ScheduleInv
    <3>. QED  BY <1>1, <1>2, <3>1, <3>3, <3>5 DEF ScheduleInv, Fit
  <2>2. CASE prove_chan = <<>>
    BY <1>4, <1>9, <2>2 DEF Receive, execVars
  <2>. QED  BY <2>1, <2>2
<1>10. ASSUME NEW i \in Provers, Stream(i) \/ ProveReturns(i) PROVE ScheduleInv'
  <2>1. held' = [held EXCEPT ![i] = Nothing] /\ UNCHANGED execVars
    BY <1>10 DEF Stream, ProveReturns
  <2>. QED  BY <1>3, <2>1 DEF AppTypes, execVars
<1>11. CASE ProveBreaks
  <2>1. held' = [held EXCEPT ![0] = Nothing] /\ UNCHANGED execVars
    BY <1>11 DEF ProveBreaks
  <2>. QED  BY <1>3, <2>1 DEF AppTypes, execVars
<1>12. CASE Join \/ JobAnswered \/ SubmitError \/ SenderPost \/ SenderEnds \/ TaskEnds
  BY <1>4, <1>12
     DEF Join, JobAnswered, SubmitError, SenderPost, SenderEnds, TaskEnds, proverVars
<1>13. ASSUME NEW i \in Provers, StartConsumer(i) \/ StartFails(i) \/ Prove(i) PROVE ScheduleInv'
  BY <1>4, <1>13 DEF StartConsumer, StartFails, Prove
<1>14. ASSUME NEW dropped \in SUBSET Provers, DispatchFails(dropped) PROVE ScheduleInv'
  BY <1>4, <1>14 DEF DispatchFails
<1>15. CASE UNCHANGED vars
  BY <1>4, <1>15 DEF vars, proverVars
<1>. QED
  BY <1>0, <1>5, <1>6, <1>7, <1>8, <1>9, <1>10, <1>11, <1>12, <1>13, <1>14, <1>15, NextCases

\* For every number of workers and of segments, the snapshot schedule
\* (seeds_initial_snapshot, saves_snapshot_at and the kept first snapshot of a
\* single worker) has a snapshot at the head of the deque for each assigned
\* segment, never after the segment and at most one before it, in a deque of two.
THEOREM SnapshotsFitHolds == Spec => []SnapshotsFit
<1>1. AppTypes /\ ScheduleInv => SnapshotsFit
  BY DEF ScheduleInv, SnapshotsFit, InFlight, Elements, Fit
<1>2. AppTypes /\ Stages /\ ScheduleInv /\ [Next]_vars => ScheduleInv'
  BY ScheduleNext
<1>. QED  BY <1>1, <1>2, AppTypesHold, ScheduleInit, PTL DEF Spec
-----------------------------------------------------------------------------
(* One place for each segment *)

\* What the items of the channels, of the provers and of the posts can be.
LEMMA ItemTypes ==
    ASSUME AppTypes
    PROVE  /\ \A n \in DOMAIN prove_chan : prove_chan[n].seg \in Nat
           /\ \A n \in DOMAIN result_chan : result_chan[n] \in Nat \cup {E2}
           /\ \A i \in Provers : held[i].seg \in Nat \/ held[i] = Nothing
           /\ posted \subseteq Nat \cup {E2}
           /\ DOMAIN prove_chan \subseteq Nat /\ DOMAIN result_chan \subseteq Nat
           /\ Nothing.seg = -2 /\ E2 = -1 /\ curr_idx \in Nat
<1>1. Owned \subseteq Nat
  BY DEF Owned
<1>2. \A d \in Work : d.seg \in Nat
  BY <1>1 DEF Work
<1>3. \A n \in DOMAIN prove_chan : prove_chan[n] \in Work
  BY DEF AppTypes
<1>4. \A n \in DOMAIN result_chan : result_chan[n] \in Owned \cup {E2}
  BY DEF AppTypes
<1>5. \A i \in Provers : held[i] \in Work \cup {Nothing}
  BY DEF AppTypes
<1>6. DOMAIN prove_chan \subseteq Nat /\ DOMAIN result_chan \subseteq Nat
  BY DEF AppTypes
<1>7. posted \subseteq Owned \cup {E2} /\ curr_idx \in Nat
  BY DEF AppTypes, TypeOK
<1>. QED  BY <1>1, <1>2, <1>3, <1>4, <1>5, <1>6, <1>7 DEF Nothing, E2

\* A job starts with nothing anywhere.
LEMMA OnceInit == Init => OnceInv
<1>. SUFFICES ASSUME Init PROVE OnceInv
  OBVIOUS
<1>1. /\ prove_chan = <<>> /\ result_chan = <<>> /\ posted = {} /\ curr_idx = 0
      /\ \A i \in Provers : held[i] = Nothing
  BY DEF Init
<1>2. DOMAIN prove_chan = {} /\ DOMAIN result_chan = {} /\ Len(prove_chan) = 0 /\ Len(result_chan) = 0
  BY <1>1
<1>3. ProveCapacity \in Nat /\ Nothing.seg = -2
  BY DEF Init, Jobs, ProveCapacity, Nothing
<1>4. Unseen /\ E2Last
  BY <1>1, <1>2, <1>3 DEF Unseen, E2Last
<1>5. ChannelsDistinct /\ HeldDistinct /\ PostedDistinct
  BY <1>1, <1>2 DEF ChannelsDistinct, HeldDistinct, PostedDistinct
<1>6. Room
  BY <1>2, <1>3 DEF Room, ResultCapacity
<1>. QED  BY <1>4, <1>5, <1>6 DEF OnceInv

\* The executor hands on a segment that is nowhere yet.
LEMMA OnceExecute ==
    ASSUME AppTypes, OnceInv, ExecuteSegment, [Next]_vars PROVE OnceInv'
<1>0. TypeOK /\ exec = "run" /\ curr_idx \in Nat
  BY DEF AppTypes, TypeOK, ExecuteSegment
<1>1. /\ UNCHANGED <<held, result_chan, posted, job>> /\ Provers' = Provers
      /\ ProveCapacity' = ProveCapacity /\ ResultCapacity' = ResultCapacity
  BY <1>0, JobIsFixed DEF ExecuteSegment, proverVars, taskVars, ResultCapacity
<1>2. exec' \in {"e2", "done"} \/ (exec' = "run" /\ curr_idx' = curr_idx + 1)
  BY <1>0 DEF ExecuteSegment, AfterSegment
<1>3. exec' = "done" => job.prover_id # 0
  BY <1>0 DEF ExecuteSegment, AfterSegment
<1>4. E2Last'
  BY <1>0, <1>1, <1>2, <1>3 DEF OnceInv, E2Last
<1>5. CASE UNCHANGED prove_chan
  <2>1. Unseen'
    BY <1>0, <1>1, <1>2, <1>5, ItemTypes DEF OnceInv, Unseen
  <2>. QED  BY <1>1, <1>4, <1>5, <2>1
       DEF OnceInv, ChannelsDistinct, HeldDistinct, PostedDistinct, Room
<1>6. CASE /\ Assigned(curr_idx) /\ snapshots # <<>> /\ Len(prove_chan) < ProveCapacity
           /\ prove_chan' = Append(prove_chan, [seg |-> curr_idx, from |-> Head(snapshots)])
  <2>. DEFINE d == [seg |-> curr_idx, from |-> Head(snapshots)]
  <2>1. d \in Work
    <3>1. Head(snapshots) \in Nat
      BY <1>0, <1>6, Taken DEF TypeOK
    <3>. QED  BY <1>0, <1>6, <3>1 DEF Work, Owned, TypeOK
  <2>2. d.seg = curr_idx /\ prove_chan \in Seq(Work) /\ prove_chan' = Append(prove_chan, d)
    BY <1>6 DEF AppTypes
  <2>. HIDE DEF d
  <2>3. \A n \in DOMAIN prove_chan' : \/ n \in DOMAIN prove_chan /\ prove_chan'[n] = prove_chan[n]
                                      \/ n = Len(prove_chan) + 1 /\ prove_chan'[n].seg = curr_idx
    BY <2>1, <2>2, Appended
  <2>4. Len(prove_chan') <= ProveCapacity
    <3>1. Len(prove_chan') = Len(prove_chan) + 1 /\ Len(prove_chan) \in Nat
      BY <2>1, <2>2, Appended
    <3>2. ProveCapacity \in Nat
      BY <1>0 DEF TypeOK, Jobs, ProveCapacity
    <3>. QED  BY <1>6, <3>1, <3>2
  <2>5. /\ \A n \in DOMAIN prove_chan : prove_chan[n].seg < curr_idx
        /\ \A i \in Provers : held[i].seg < curr_idx
        /\ \A n \in DOMAIN result_chan : result_chan[n] < curr_idx
        /\ \A s \in posted : s < curr_idx
    BY <1>0 DEF OnceInv, Unseen
  <2>6. Unseen'
    BY <1>0, <1>1, <1>2, <2>3, <2>5, ItemTypes DEF Unseen
  <2>7. ChannelsDistinct'
    <3>1. \A m, n \in DOMAIN prove_chan' : m # n => prove_chan'[m].seg # prove_chan'[n].seg
      BY <1>0, <2>3, <2>5, ItemTypes DEF OnceInv, ChannelsDistinct
    <3>2. \A m \in DOMAIN prove_chan', n \in DOMAIN result_chan : prove_chan'[m].seg # result_chan[n]
      BY <1>0, <2>3, <2>5, ItemTypes DEF OnceInv, ChannelsDistinct
    <3>. QED  BY <1>1, <3>1, <3>2 DEF OnceInv, ChannelsDistinct
  <2>8. HeldDistinct'
    BY <1>0, <1>1, <2>3, <2>5, ItemTypes DEF OnceInv, HeldDistinct
  <2>9. PostedDistinct'
    BY <1>0, <1>1, <2>3, <2>5, ItemTypes DEF OnceInv, PostedDistinct
  <2>. QED  BY <1>1, <1>4, <2>4, <2>6, <2>7, <2>8, <2>9 DEF OnceInv, Room
<1>. QED  BY <1>5, <1>6 DEF ExecuteSegment

\* What leaves the provers' channel is in one prover's hands.
LEMMA OnceReceive ==
    ASSUME AppTypes, OnceInv, NEW i \in Provers, NEW done, Receive(i, done), [Next]_vars
    PROVE  OnceInv'
<1>0. TypeOK
  BY DEF AppTypes
<1>1. /\ UNCHANGED <<exec, curr_idx, result_chan, posted, job>> /\ Provers' = Provers
      /\ ProveCapacity' = ProveCapacity /\ ResultCapacity' = ResultCapacity
  BY <1>0, JobIsFixed DEF Receive, taskVars, ResultCapacity
<1>2. CASE UNCHANGED <<prove_chan, held>>
  BY <1>1, <1>2 DEF OnceInv, Unseen, E2Last, ChannelsDistinct, HeldDistinct, PostedDistinct, Room
<1>3. CASE /\ prove_chan # <<>> /\ held' = [held EXCEPT ![i] = Head(prove_chan)]
           /\ prove_chan' = Tail(prove_chan)
  <2>1. /\ \A n \in DOMAIN prove_chan' :
              n + 1 \in DOMAIN prove_chan /\ n + 1 # 1 /\ prove_chan'[n] = prove_chan[n + 1]
        /\ Len(prove_chan') = Len(prove_chan) - 1 /\ Len(prove_chan) \in Nat
        /\ 1 \in DOMAIN prove_chan /\ DOMAIN prove_chan' \subseteq Nat
    BY <1>3, Taken DEF AppTypes
  <2>2. \A j \in Provers : held'[j] = IF j = i THEN prove_chan[1] ELSE held[j]
    BY <1>3, Taken DEF AppTypes
  <2>3. Unseen' /\ E2Last'
    BY <1>1, <2>1, <2>2 DEF OnceInv, Unseen, E2Last
  <2>4. ChannelsDistinct'
    <3>1. \A m, n \in DOMAIN prove_chan' : m # n => prove_chan'[m].seg # prove_chan'[n].seg
      <4>1. TAKE m, n \in DOMAIN prove_chan'
      <4>2. m # n => m + 1 # n + 1
        BY <2>1
      <4>. QED  BY <2>1, <4>2 DEF OnceInv, ChannelsDistinct
    <3>. QED  BY <1>1, <2>1, <3>1 DEF OnceInv, ChannelsDistinct
  <2>5. HeldDistinct'
    <3>1. \A j \in Provers : held[j].seg # prove_chan[1].seg
      BY <2>1 DEF OnceInv, HeldDistinct
    <3>2. \A j, k \in Provers : (j # k /\ held'[j] # Nothing) => held'[j].seg # held'[k].seg
      BY <2>2, <3>1 DEF OnceInv, HeldDistinct
    <3>3. \A j \in Provers, n \in DOMAIN prove_chan' : held'[j].seg # prove_chan'[n].seg
      BY <2>1, <2>2 DEF OnceInv, HeldDistinct, ChannelsDistinct
    <3>4. \A j \in Provers, n \in DOMAIN result_chan : held'[j].seg # result_chan[n]
      BY <2>1, <2>2 DEF OnceInv, HeldDistinct, ChannelsDistinct
    <3>5. Nothing' = Nothing
      BY DEF Nothing
    <3>. QED  BY <1>1, <3>2, <3>3, <3>4, <3>5 DEF HeldDistinct
  <2>6. PostedDistinct'
    BY <1>1, <2>1, <2>2 DEF OnceInv, PostedDistinct
  <2>7. Room'
    <3>1. ProveCapacity \in Nat
      BY <1>0 DEF TypeOK, Jobs, ProveCapacity
    <3>. QED  BY <1>1, <2>1, <3>1 DEF OnceInv, Room
  <2>. QED  BY <2>3, <2>4, <2>5, <2>6, <2>7 DEF OnceInv
<1>. QED  BY <1>2, <1>3 DEF Receive

\* What a prover streams leaves its hands.
LEMMA OnceStream ==
    ASSUME AppTypes, Stages, OnceInv, NEW i \in Provers, Stream(i), [Next]_vars PROVE OnceInv'
<1>0. TypeOK
  BY DEF AppTypes
<1>1. /\ UNCHANGED <<exec, curr_idx, prove_chan, posted, job>> /\ Provers' = Provers
      /\ ProveCapacity' = ProveCapacity /\ ResultCapacity' = ResultCapacity
  BY <1>0, JobIsFixed DEF Stream, taskVars, execVars, ResultCapacity
<1>2. held[i] # Nothing /\ held[i].seg \in Owned /\ held[i].seg \in Nat
  BY DEF Stream, Stages, AppTypes, Work, Owned
<1>3. /\ \A n \in DOMAIN result_chan' : \/ n \in DOMAIN result_chan /\ result_chan'[n] = result_chan[n]
                                        \/ n = Len(result_chan) + 1 /\ result_chan'[n] = held[i].seg
      /\ Len(result_chan') = Len(result_chan) + 1 /\ Len(result_chan) \in Nat
      /\ Len(result_chan) < ResultCapacity
  BY <1>2, Appended DEF Stream, AppTypes
<1>4. \A j \in Provers : held'[j] = IF j = i THEN Nothing ELSE held[j]
  BY DEF Stream, AppTypes
<1>5. Nothing' = Nothing /\ E2' = E2
  BY DEF Nothing, E2
<1>6. Unseen'
  BY <1>1, <1>3, <1>4, ItemTypes DEF OnceInv, Unseen
<1>7. E2Last'
  BY <1>1, <1>2, <1>3, <1>5, ItemTypes DEF OnceInv, E2Last
<1>8. ChannelsDistinct'
  <2>1. \A m, n \in DOMAIN result_chan' : m # n => result_chan'[m] # result_chan'[n]
    BY <1>3 DEF OnceInv, ChannelsDistinct, HeldDistinct
  <2>2. \A m \in DOMAIN prove_chan, n \in DOMAIN result_chan' : prove_chan[m].seg # result_chan'[n]
    BY <1>3 DEF OnceInv, ChannelsDistinct, HeldDistinct
  <2>. QED  BY <1>1, <2>1, <2>2 DEF OnceInv, ChannelsDistinct
<1>9. HeldDistinct'
  <2>1. \A j \in Provers : j # i => held[j].seg # held[i].seg
    BY <1>2 DEF OnceInv, HeldDistinct
  <2>2. \A j, k \in Provers : (j # k /\ held'[j] # Nothing) => held'[j].seg # held'[k].seg
    BY <1>4, ItemTypes DEF OnceInv, HeldDistinct
  <2>3. \A j \in Provers, n \in DOMAIN prove_chan : held'[j].seg # prove_chan[n].seg
    BY <1>4, ItemTypes DEF OnceInv, HeldDistinct
  <2>4. \A j \in Provers, n \in DOMAIN result_chan' : held'[j].seg # result_chan'[n]
    BY <1>2, <1>3, <1>4, <2>1, ItemTypes DEF OnceInv, HeldDistinct
  <2>. QED  BY <1>1, <1>5, <2>2, <2>3, <2>4 DEF HeldDistinct
<1>10. PostedDistinct'
  <2>1. Nothing.seg \notin posted
    BY ItemTypes
  <2>. QED  BY <1>1, <1>3, <1>4, <2>1 DEF OnceInv, PostedDistinct
<1>11. Room'
  BY <1>1, <1>3 DEF OnceInv, Room, ResultCapacity
<1>. QED  BY <1>6, <1>7, <1>8, <1>9, <1>10, <1>11 DEF OnceInv

\* What a prover drops is nowhere.
LEMMA OnceDrop ==
    ASSUME AppTypes, OnceInv, NEW i \in Provers, held' = [held EXCEPT ![i] = Nothing],
           UNCHANGED <<execVars, result_chan, posted>>, [Next]_vars
    PROVE  OnceInv'
<1>0. TypeOK
  BY DEF AppTypes
<1>1. /\ UNCHANGED <<exec, curr_idx, prove_chan, posted, job, result_chan>> /\ Provers' = Provers
      /\ ProveCapacity' = ProveCapacity /\ ResultCapacity' = ResultCapacity
      /\ Nothing' = Nothing /\ E2' = E2
  BY <1>0, JobIsFixed DEF execVars, ResultCapacity, Nothing, E2
<1>2. \A j \in Provers : held'[j] = IF j = i THEN Nothing ELSE held[j]
  BY DEF AppTypes
<1>3. Unseen' /\ E2Last'
  BY <1>1, <1>2, ItemTypes DEF OnceInv, Unseen, E2Last
<1>4. HeldDistinct'
  <2>1. \A j, k \in Provers : (j # k /\ held'[j] # Nothing) => held'[j].seg # held'[k].seg
    BY <1>2, ItemTypes DEF OnceInv, HeldDistinct
  <2>2. \A j \in Provers, n \in DOMAIN prove_chan : held'[j].seg # prove_chan[n].seg
    BY <1>2, ItemTypes DEF OnceInv, HeldDistinct
  <2>3. \A j \in Provers, n \in DOMAIN result_chan : held'[j].seg # result_chan[n]
    BY <1>2, ItemTypes DEF OnceInv, HeldDistinct
  <2>. QED  BY <1>1, <2>1, <2>2, <2>3 DEF HeldDistinct
<1>5. PostedDistinct'
  <2>1. Nothing.seg \notin posted
    BY ItemTypes
  <2>. QED  BY <1>1, <1>2, <2>1 DEF OnceInv, PostedDistinct
<1>. QED  BY <1>1, <1>3, <1>4, <1>5 DEF OnceInv, ChannelsDistinct, Room

\* What the sender posts has left the channel.
LEMMA OncePost ==
    ASSUME AppTypes, OnceInv, SenderPost, [Next]_vars PROVE OnceInv'
<1>0. TypeOK
  BY DEF AppTypes
<1>1. /\ UNCHANGED <<exec, curr_idx, prove_chan, held, job>> /\ Provers' = Provers
      /\ ProveCapacity' = ProveCapacity /\ ResultCapacity' = ResultCapacity
      /\ Nothing' = Nothing /\ E2' = E2
  BY <1>0, JobIsFixed DEF SenderPost, execVars, proverVars, ResultCapacity, Nothing, E2
<1>2. /\ \A n \in DOMAIN result_chan' :
            n + 1 \in DOMAIN result_chan /\ n + 1 # 1 /\ result_chan'[n] = result_chan[n + 1]
      /\ Len(result_chan') = Len(result_chan) - 1 /\ Len(result_chan) \in Nat
      /\ 1 \in DOMAIN result_chan /\ posted' = posted \cup {result_chan[1]}
      /\ DOMAIN result_chan' \subseteq Nat
  BY Taken DEF SenderPost, AppTypes
<1>3. Unseen' /\ E2Last'
  BY <1>1, <1>2 DEF OnceInv, Unseen, E2Last
<1>4. ChannelsDistinct'
  <2>1. \A m, n \in DOMAIN result_chan' : m # n => result_chan'[m] # result_chan'[n]
    <3>1. TAKE m, n \in DOMAIN result_chan'
    <3>2. m # n => m + 1 # n + 1
      BY <1>2
    <3>. QED  BY <1>2, <3>2 DEF OnceInv, ChannelsDistinct
  <2>. QED  BY <1>1, <1>2, <2>1 DEF OnceInv, ChannelsDistinct
<1>5. HeldDistinct'
  BY <1>1, <1>2 DEF OnceInv, HeldDistinct
<1>6. PostedDistinct'
  BY <1>1, <1>2 DEF OnceInv, PostedDistinct, ChannelsDistinct, HeldDistinct
<1>7. Room'
  BY <1>1, <1>2 DEF OnceInv, Room, ResultCapacity
<1>. QED  BY <1>3, <1>4, <1>5, <1>6, <1>7 DEF OnceInv

\* Prover 0 streams the segment count once, when nobody has.
LEMMA OnceStreamE2 ==
    ASSUME AppTypes, Stages, OnceInv, StreamExecuteE2, [Next]_vars PROVE OnceInv'
<1>0. TypeOK
  BY DEF AppTypes
<1>1. /\ UNCHANGED <<curr_idx, prove_chan, held, posted, job>> /\ Provers' = Provers
      /\ ProveCapacity' = ProveCapacity /\ ResultCapacity' = ResultCapacity
      /\ Nothing' = Nothing /\ E2' = E2 /\ exec = "e2"
  BY <1>0, JobIsFixed DEF StreamExecuteE2, proverVars, taskVars, ResultCapacity, Nothing, E2
<1>2. CASE UNCHANGED result_chan /\ exec' = "failed"
  BY <1>1, <1>2 DEF OnceInv, Unseen, E2Last, ChannelsDistinct, HeldDistinct, PostedDistinct, Room
<1>3. CASE /\ result_chan' = Append(result_chan, E2) /\ exec' = "done"
           /\ Len(result_chan) < ResultCapacity
  <2>1. /\ \A n \in DOMAIN result_chan' : \/ n \in DOMAIN result_chan /\ result_chan'[n] = result_chan[n]
                                          \/ n = Len(result_chan) + 1 /\ result_chan'[n] = E2
        /\ Len(result_chan') = Len(result_chan) + 1 /\ Len(result_chan) \in Nat
    BY <1>3, Appended DEF AppTypes
  <2>2. E2 \notin posted /\ \A n \in DOMAIN result_chan : result_chan[n] # E2
    BY <1>1 DEF OnceInv, E2Last
  <2>3. ChannelsDistinct'
    <3>1. \A m, n \in DOMAIN result_chan' : m # n => result_chan'[m] # result_chan'[n]
      BY <2>1, <2>2 DEF OnceInv, ChannelsDistinct
    <3>2. \A m \in DOMAIN prove_chan, n \in DOMAIN result_chan' : prove_chan[m].seg # result_chan'[n]
      BY <2>1, ItemTypes DEF OnceInv, ChannelsDistinct
    <3>. QED  BY <1>1, <3>1, <3>2 DEF OnceInv, ChannelsDistinct
  <2>4. HeldDistinct'
    <3>1. \A j \in Provers, n \in DOMAIN result_chan' : held[j].seg # result_chan'[n]
      BY <2>1, ItemTypes DEF OnceInv, HeldDistinct
    <3>. QED  BY <1>1, <3>1 DEF OnceInv, HeldDistinct
  <2>5. PostedDistinct'
    BY <1>1, <2>1, <2>2 DEF OnceInv, PostedDistinct
  <2>6. Room'
    BY <1>1, <1>3, <2>1 DEF OnceInv, Room, ResultCapacity
  <2>7. Unseen' /\ E2Last'
    <3>1. job.prover_id = 0
      BY <1>1 DEF Stages
    <3>. QED  BY <1>1, <1>3, <3>1 DEF Unseen, E2Last
  <2>. QED  BY <2>3, <2>4, <2>5, <2>6, <2>7 DEF OnceInv
<1>. QED  BY <1>2, <1>3 DEF StreamExecuteE2

\* Every step keeps each segment in one place.
LEMMA OnceNext == AppTypes /\ Stages /\ OnceInv /\ [Next]_vars => OnceInv'
<1>. SUFFICES ASSUME AppTypes, Stages, OnceInv, [Next]_vars PROVE OnceInv'
  OBVIOUS
<1>0. TypeOK /\ 0 \in Provers
  BY DEF AppTypes, TypeOK, Jobs, Provers
<1>1. /\ UNCHANGED job /\ Provers' = Provers /\ ProveCapacity' = ProveCapacity
      /\ ResultCapacity' = ResultCapacity /\ Nothing' = Nothing /\ E2' = E2
  BY <1>0, JobIsFixed DEF ResultCapacity, Nothing, E2
<1>2. ASSUME UNCHANGED <<curr_idx, prove_chan, held, result_chan, posted>>,
             \/ exec' = exec \/ exec' \in {"failed", "panicked"}
             \/ exec = "off" /\ exec' = "run"
      PROVE  OnceInv'
  <2>1. Unseen' /\ E2Last'
    BY <1>1, <1>2 DEF OnceInv, Unseen, E2Last
  <2>2. HeldDistinct' /\ PostedDistinct'
    BY <1>1, <1>2 DEF OnceInv, HeldDistinct, PostedDistinct
  <2>. QED  BY <1>1, <1>2, <2>1, <2>2 DEF OnceInv, ChannelsDistinct, Room
<1>3. CASE SpawnExecutor
  <2>1. exec = "off" /\ exec' = "run" /\ UNCHANGED <<curr_idx, prove_chan, held, result_chan, posted>>
    BY <1>3 DEF SpawnExecutor, Stages, taskVars
  <2>. QED  BY <1>2, <2>1
<1>4. CASE ExecutorStops
  <2>1. /\ exec' \in {"failed", "panicked"}
        /\ UNCHANGED <<curr_idx, prove_chan, held, result_chan, posted>>
    BY <1>4 DEF ExecutorStops, proverVars, taskVars
  <2>. QED  BY <1>2, <2>1
<1>5. ASSUME NEW i \in Provers, ProveReturns(i) PROVE OnceInv'
  <2>1. held' = [held EXCEPT ![i] = Nothing] /\ UNCHANGED <<execVars, result_chan, posted>>
    BY <1>5 DEF ProveReturns, taskVars
  <2>. QED  BY <2>1, OnceDrop
<1>6. CASE ProveBreaks
  <2>1. held' = [held EXCEPT ![0] = Nothing] /\ UNCHANGED <<execVars, result_chan, posted>>
    BY <1>6 DEF ProveBreaks, taskVars
  <2>. QED  BY <1>0, <2>1, OnceDrop
<1>7. ASSUME UNCHANGED <<execVars, held, result_chan, posted>> PROVE OnceInv'
  BY <1>2, <1>7 DEF execVars
<1>8. ASSUME NEW i \in Provers, StartConsumer(i) \/ StartFails(i) \/ Prove(i) PROVE OnceInv'
  BY <1>7, <1>8 DEF StartConsumer, StartFails, Prove, taskVars
<1>9. ASSUME NEW dropped \in SUBSET Provers, DispatchFails(dropped) PROVE OnceInv'
  BY <1>7, <1>9 DEF DispatchFails
<1>10. CASE Join \/ JobAnswered \/ SubmitError \/ SenderEnds \/ TaskEnds \/ UNCHANGED vars
  BY <1>7, <1>10 DEF Join, JobAnswered, SubmitError, SenderEnds, TaskEnds, vars, proverVars, taskVars
<1>11. ASSUME NEW i \in Provers, Receive(i, IF i = 0 THEN "join" ELSE "ok") PROVE OnceInv'
  BY <1>11, OnceReceive
<1>12. ASSUME NEW i \in Provers, Stream(i) PROVE OnceInv'
  BY <1>12, OnceStream
<1>13. CASE ExecuteSegment
  BY <1>13, OnceExecute
<1>14. CASE SenderPost
  BY <1>14, OncePost
<1>15. CASE StreamExecuteE2
  BY <1>15, OnceStreamE2
<1>. QED
  BY <1>0, <1>3, <1>4, <1>5, <1>6, <1>8, <1>9, <1>10, <1>11, <1>12, <1>13, <1>14, <1>15, NextCases

\* The types, the stages and the places together.
LEMMA OnceHolds == Spec => [](AppTypes /\ Stages /\ OnceInv)
<1>1. Init => OnceInv
  BY OnceInit
<1>2. AppTypes /\ Stages /\ OnceInv /\ [Next]_vars => OnceInv'
  BY OnceNext
<1>. QED  BY <1>1, <1>2, AppTypesHold, PTL DEF Spec

\* A set whose elements are all the same has at most one.
LEMMA AtMostOne ==
    ASSUME NEW S, \A x, y \in S : x = y
    PROVE  Cardinality(S) \in {0, 1} /\ (S = {} => Cardinality(S) = 0)
<1>1. CASE S = {}
  BY <1>1, FS_EmptySet
<1>2. CASE S # {}
  <2>1. PICK x \in S : TRUE
    BY <1>2
  <2>2. S = {x}
    BY <2>1
  <2>. QED  BY <1>2, <2>2, FS_Singleton
<1>. QED  BY <1>1, <1>2

\* Whatever fails, a segment is in one channel once, or with one prover, or
\* posted: no interleaving of the executor, the provers and the sender proves
\* or posts it twice, and no channel outgrows its capacity.
THEOREM SegmentInOnePlaceHolds == Spec => []SegmentInOnePlace
<1>1. AppTypes /\ OnceInv => SegmentInOnePlace
  <2>. SUFFICES ASSUME AppTypes, OnceInv PROVE SegmentInOnePlace
    OBVIOUS
  <2>1. ASSUME NEW s \in {E2} \cup (0..(total - 1))
        PROVE  Cardinality({n \in DOMAIN prove_chan : prove_chan[n].seg = s})
                 + Cardinality({i \in Provers : held[i].seg = s})
                 + Cardinality({n \in DOMAIN result_chan : result_chan[n] = s})
                 + Cardinality({s} \cap posted) <= 1
    <3>. DEFINE A == {n \in DOMAIN prove_chan : prove_chan[n].seg = s}
                B == {i \in Provers : held[i].seg = s}
                C == {n \in DOMAIN result_chan : result_chan[n] = s}
                D == {s} \cap posted
    <3>0. s # Nothing.seg
      BY ItemTypes
    <3>1. \A x, y \in A : x = y
      BY DEF OnceInv, ChannelsDistinct
    <3>2. \A x, y \in B : x = y
      BY <3>0 DEF OnceInv, HeldDistinct
    <3>3. \A x, y \in C : x = y
      BY DEF OnceInv, ChannelsDistinct
    <3>4. \A x, y \in D : x = y
      OBVIOUS
    <3>5. (A = {} \/ B = {}) /\ (A = {} \/ C = {}) /\ (B = {} \/ C = {})
      BY DEF OnceInv, ChannelsDistinct, HeldDistinct
    <3>6. (A = {} \/ D = {}) /\ (B = {} \/ D = {}) /\ (C = {} \/ D = {})
      BY DEF OnceInv, PostedDistinct
    <3>. HIDE DEF A, B, C, D
    <3>7. /\ Cardinality(A) \in {0, 1} /\ (A = {} => Cardinality(A) = 0)
          /\ Cardinality(B) \in {0, 1} /\ (B = {} => Cardinality(B) = 0)
      BY <3>1, <3>2, AtMostOne
    <3>8. /\ Cardinality(C) \in {0, 1} /\ (C = {} => Cardinality(C) = 0)
          /\ Cardinality(D) \in {0, 1} /\ (D = {} => Cardinality(D) = 0)
      BY <3>3, <3>4, AtMostOne
    <3>9. Cardinality(A) + Cardinality(B) + Cardinality(C) + Cardinality(D) <= 1
      BY <3>5, <3>6, <3>7, <3>8
    <3>. QED  BY <3>9 DEF A, B, C, D
  <2>. QED  BY <2>1 DEF SegmentInOnePlace, OnceInv, Room
<1>. QED  BY <1>1, OnceHolds, PTL
-----------------------------------------------------------------------------
(* The job implements the shard *)

\* No step brings a prover back from its end, or takes back an error.
LEMMA EndsAreFinal ==
    ASSUME AppTypes, Stages, [Next]_vars
    PROVE  /\ \A i \in Provers : pc[i] \in {"ok", "error"} => pc'[i] = pc[i]
           /\ prover_err => prover_err'
           /\ Lossless' => Lossless
           /\ \A i \in Provers : pc'[i] = "queued" => pc[i] = "queued"
<1>0. TypeOK /\ 0 \in Provers /\ pc \in [Provers -> {"queued", "recv", "prove", "stream", "join", "ok", "error"}]
  BY DEF AppTypes, TypeOK, Jobs, Provers
<1>1. Provers' = Provers
  BY <1>0, JobIsFixed
<1>2. /\ \A i \in Provers : pc[i] \in {"ok", "error"} => pc'[i] = pc[i]
      /\ \A i \in Provers : pc'[i] = "queued" => pc[i] = "queued"
  <2>. USE DEF Goto
  <2>1. CASE SpawnExecutor \/ Join \/ ProveBreaks
    BY <1>0, <2>1 DEF SpawnExecutor, Join, ProveBreaks
  <2>2. ASSUME NEW j \in Provers, StartConsumer(j) \/ StartFails(j) PROVE <1>2!1 /\ <1>2!2
    BY <1>0, <2>2 DEF StartConsumer, StartFails
  <2>3. ASSUME NEW j \in Provers, Receive(j, IF j = 0 THEN "join" ELSE "ok")
        PROVE  <1>2!1 /\ <1>2!2
    BY <1>0, <2>3 DEF Receive
  <2>4. ASSUME NEW j \in Provers, Prove(j) \/ Stream(j) \/ ProveReturns(j) PROVE <1>2!1 /\ <1>2!2
    BY <1>0, <2>4 DEF Prove, Stream, ProveReturns
  <2>5. ASSUME NEW dropped \in SUBSET Provers, DispatchFails(dropped) PROVE <1>2!1 /\ <1>2!2
    BY <1>0, <2>5 DEF DispatchFails
  <2>6. CASE UNCHANGED pc
    BY <2>6
  <2>. QED
    BY <1>0, <2>1, <2>2, <2>3, <2>4, <2>5, <2>6, NextCases
       DEF ExecuteSegment, ExecutorStops, StreamExecuteE2, JobAnswered, SubmitError, SenderPost,
           SenderEnds, TaskEnds, vars, proverVars
<1>3. prover_err => prover_err'
  BY <1>0, NextCases
     DEF SpawnExecutor, ExecuteSegment, ExecutorStops, StreamExecuteE2, StartConsumer, StartFails,
         Receive, Prove, Stream, ProveReturns, DispatchFails, ProveBreaks, Join, JobAnswered,
         SubmitError, SenderPost, SenderEnds, TaskEnds, vars, proverVars
<1>4. Lossless' => Lossless
  BY <1>1, <1>2, <1>3 DEF Lossless
<1>. QED  BY <1>2, <1>3, <1>4

\* A prover that ended well leaves an empty channel that stays empty, and the
\* coordinator a finished execution.
LEMMA DrainedNext ==
    ASSUME AppTypes, Stages, Drained, [Next]_vars PROVE Drained'
<1>0. TypeOK /\ 0 \in Provers /\ pc \in [Provers -> {"queued", "recv", "prove", "stream", "join", "ok", "error"}]
  BY DEF AppTypes, TypeOK, Jobs, Provers
<1>1. Provers' = Provers
  BY <1>0, JobIsFixed
<1>. DEFINE Well(i) == pc[i] = "ok" \/ (pc[i] = "join" /\ ~prover_err)
            Empty == prove_chan = <<>> /\ ~ProveSenderAlive
<1>2. ASSUME exec' = exec \/ exec' \in {"e2", "done", "failed", "panicked"},
             exec # "run" => UNCHANGED prove_chan,
             exec \notin {"run", "e2"} => UNCHANGED exec,
             UNCHANGED <<pc, prover_err>>
      PROVE  Drained'
  <2>1. ASSUME NEW i \in Provers, Well(i)' PROVE Empty'
    <3>1. Well(i) /\ Empty
      BY <1>2, <2>1 DEF Drained
    <3>. QED  BY <1>2, <3>1 DEF ProveSenderAlive
  <2>2. pc'[0] = "ok" => exec' = "done" /\ ~prover_err'
    BY <1>2 DEF Drained
  <2>. QED  BY <1>1, <2>1, <2>2 DEF Drained
<1>3. ASSUME UNCHANGED <<exec, prove_chan>>, prover_err => prover_err',
             \A i \in Provers : pc'[i] = "queued" => pc[i] = "queued",
             \A i \in Provers : Well(i)' => Well(i) \/ Empty,
             pc'[0] = "ok" => exec = "done" /\ ~prover_err'
      PROVE  Drained'
  <2>1. ASSUME NEW i \in Provers, Well(i)' PROVE Empty'
    <3>1. Empty
      BY <1>3, <2>1 DEF Drained
    <3>. QED  BY <1>0, <1>3, <3>1 DEF ProveSenderAlive
  <2>. QED  BY <1>1, <1>3, <2>1 DEF Drained
<1>4. /\ \A i \in Provers : pc'[i] = "queued" => pc[i] = "queued"
      /\ prover_err => prover_err'
  BY EndsAreFinal
<1>. USE DEF Goto
<1>5. CASE SpawnExecutor
  <2>1. ProveSenderAlive /\ pc[0] = "queued" /\ pc' = [pc EXCEPT ![0] = "recv"] /\ UNCHANGED prover_err
    BY <1>5 DEF SpawnExecutor, Stages, ProveSenderAlive
  <2>2. \A i \in Provers : ~Well(i)
    BY <2>1 DEF Drained
  <2>3. \A i \in Provers : ~(Well(i)') /\ pc'[0] # "ok"
    BY <1>0, <2>1, <2>2
  <2>. QED  BY <1>0, <1>1, <2>3 DEF Drained
<1>6. CASE ExecuteSegment \/ ExecutorStops \/ StreamExecuteE2
  <2>1. exec' = exec \/ exec' \in {"e2", "done", "failed", "panicked"}
    BY <1>6 DEF ExecuteSegment, AfterSegment, ExecutorStops, StreamExecuteE2
  <2>2. exec \in {"run", "e2"} /\ (exec # "run" => UNCHANGED prove_chan) /\ UNCHANGED <<pc, prover_err>>
    BY <1>6 DEF ExecuteSegment, ExecutorStops, StreamExecuteE2, proverVars
  <2>. QED  BY <1>2, <2>1, <2>2
<1>7. ASSUME NEW i \in Provers, StartConsumer(i) \/ StartFails(i) \/ Prove(i) \/ Stream(i) \/ ProveReturns(i)
      PROVE  Drained'
  <2>1. PICK l \in {"recv", "error", "stream"} :
          pc' = [pc EXCEPT ![i] = l] /\ UNCHANGED <<exec, prove_chan, prover_err>>
    BY <1>7 DEF StartConsumer, StartFails, Prove, Stream, ProveReturns, execVars
  <2>2. \A j \in Provers : Well(j)' => Well(j)
    BY <1>0, <2>1
  <2>3. pc'[0] = "ok" => exec = "done" /\ ~prover_err'
    BY <1>0, <2>1 DEF Drained
  <2>. QED  BY <1>3, <1>4, <2>1, <2>2, <2>3
<1>8. ASSUME NEW i \in Provers, Receive(i, IF i = 0 THEN "join" ELSE "ok") PROVE Drained'
  <2>0. pc[i] = "recv" /\ UNCHANGED <<exec, prover_err>>
    BY <1>8 DEF Receive
  <2>1. CASE prove_chan # <<>>
    <3>1. pc' = [pc EXCEPT ![i] = "prove"]
      BY <1>8, <2>1 DEF Receive
    <3>2. \A j \in Provers : ~Well(j)
      BY <2>1 DEF Drained
    <3>3. \A j \in Provers : ~(Well(j)')
      BY <1>0, <2>0, <3>1, <3>2
    <3>. QED  BY <1>0, <1>1, <3>3 DEF Drained
  <2>2. CASE prove_chan = <<>>
    <3>1. Empty /\ UNCHANGED prove_chan /\ pc' = [pc EXCEPT ![i] = IF i = 0 THEN "join" ELSE "ok"]
      BY <1>8, <2>2 DEF Receive
    <3>2. pc'[0] = "ok" => pc[0] = "ok"
      BY <1>0, <3>1
    <3>3. pc'[0] = "ok" => exec = "done" /\ ~prover_err'
      BY <2>0, <3>2 DEF Drained
    <3>. QED  BY <1>3, <1>4, <2>0, <3>1, <3>3
  <2>. QED  BY <2>1, <2>2
<1>9. ASSUME NEW dropped \in SUBSET Provers, DispatchFails(dropped) PROVE Drained'
  <2>1. /\ \A i \in Provers : pc'[i] = IF i \in dropped THEN "error" ELSE pc[i]
        /\ UNCHANGED <<exec, prove_chan, prover_err>>
    BY <1>9 DEF DispatchFails, execVars
  <2>2. \A j \in Provers : Well(j)' => Well(j)
    BY <2>1
  <2>3. pc'[0] = "ok" => exec = "done" /\ ~prover_err'
    BY <1>0, <2>1 DEF Drained
  <2>. QED  BY <1>3, <1>4, <2>1, <2>2, <2>3
<1>10. CASE ProveBreaks
  <2>1. pc' = [pc EXCEPT ![0] = "join"] /\ prover_err' = TRUE /\ UNCHANGED <<exec, prove_chan>>
    BY <1>10 DEF ProveBreaks, execVars
  <2>2. pc'[0] # "ok" /\ \A j \in Provers : Well(j)' => Well(j)
    BY <1>0, <2>1
  <2>. QED  BY <1>3, <1>4, <2>1, <2>2
<1>11. CASE Join
  <2>1. /\ pc[0] = "join" /\ UNCHANGED <<exec, prove_chan, prover_err>>
        /\ pc' = [pc EXCEPT ![0] = IF exec = "done" /\ ~prover_err THEN "ok" ELSE "error"]
    BY <1>11 DEF Join, execVars
  <2>2. pc'[0] = "ok" => exec = "done" /\ ~prover_err'
    BY <1>0, <2>1
  <2>3. \A j \in Provers : Well(j)' => Well(j)
    BY <1>0, <2>1
  <2>. QED  BY <1>3, <1>4, <2>1, <2>2, <2>3
<1>12. CASE JobAnswered \/ SubmitError \/ SenderPost \/ SenderEnds \/ TaskEnds \/ UNCHANGED vars
  BY <1>2, <1>12
     DEF JobAnswered, SubmitError, SenderPost, SenderEnds, TaskEnds, vars, execVars, proverVars
<1>. QED
  BY <1>0, <1>5, <1>6, <1>7, <1>8, <1>9, <1>10, <1>11, <1>12, NextCases

\* The task answers for provers that all ended, and its sender ends last.
LEMMA TaskNext ==
    ASSUME AppTypes, Stages, TaskInv, [Next]_vars PROVE TaskInv'
<1>0. TypeOK /\ 0 \in Provers /\ pc \in [Provers -> {"queued", "recv", "prove", "stream", "join", "ok", "error"}]
  BY DEF AppTypes, TypeOK, Jobs, Provers
<1>1. Provers' = Provers /\ \A i \in Provers : pc[i] \in {"ok", "error"} => pc'[i] = pc[i]
  BY <1>0, JobIsFixed, EndsAreFinal
<1>2. ASSUME sender = "done" PROVE UNCHANGED <<exec, result_chan>> /\ ~ResultSenderAlive'
  <2>1. /\ result_chan = <<>> /\ exec \notin {"run", "e2"}
        /\ \A i \in Provers : pc[i] \in {"ok", "error"}
    BY <1>2 DEF TaskInv, ResultSenderAlive
  <2>2. ~SpawnExecutor /\ ~ExecuteSegment /\ ~ExecutorStops /\ ~StreamExecuteE2 /\ ~SenderPost
    BY <1>0, <2>1 DEF SpawnExecutor, ExecuteSegment, ExecutorStops, StreamExecuteE2, SenderPost
  <2>3. \A i \in Provers : ~Stream(i)
    BY <2>1 DEF Stream
  <2>4. UNCHANGED <<exec, result_chan>>
    BY <1>0, <2>2, <2>3, NextCases
       DEF StartConsumer, StartFails, Receive, Prove, ProveReturns, DispatchFails, ProveBreaks, Join,
           JobAnswered, SubmitError, SenderEnds, TaskEnds, vars, execVars
  <2>. QED  BY <1>1, <2>1, <2>4 DEF ResultSenderAlive
<1>3. CASE UNCHANGED <<task, failed, sender>>
  BY <1>1, <1>2, <1>3 DEF TaskInv
<1>4. CASE JobAnswered
  BY <1>1, <1>2, <1>4 DEF JobAnswered, MergeParallelAppResults, TaskInv, proverVars
<1>5. ASSUME NEW dropped \in SUBSET Provers, DispatchFails(dropped) PROVE TaskInv'
  BY <1>1, <1>2, <1>5 DEF DispatchFails, TaskInv
<1>6. CASE SubmitError \/ TaskEnds
  BY <1>1, <1>2, <1>6 DEF SubmitError, TaskEnds, TaskInv, proverVars
<1>7. CASE SenderEnds
  <2>1. ~ResultSenderAlive'
    BY <1>1, <1>7 DEF SenderEnds, ResultSenderAlive, execVars, proverVars
  <2>. QED  BY <1>1, <1>7, <2>1 DEF SenderEnds, TaskInv, proverVars
<1>. QED
  BY <1>0, <1>3, <1>4, <1>5, <1>6, <1>7, NextCases
     DEF SpawnExecutor, ExecuteSegment, ExecutorStops, StreamExecuteE2, StartConsumer, StartFails,
         Receive, Prove, Stream, ProveReturns, ProveBreaks, Join, SenderPost, vars, taskVars

\* What is somewhere stays somewhere, unless a prover drops it and reports.
LEMMA PlacedNext ==
    ASSUME AppTypes, Stages, [Next]_vars, Lossless', NEW s \in Owned \cup {E2}, Placed(s)
    PROVE  Placed(s)'
<1>0. TypeOK /\ 0 \in Provers /\ prove_chan \in Seq(Work) /\ result_chan \in Seq(Owned \cup {E2})
  BY DEF AppTypes, TypeOK, Jobs, Provers
<1>1. Provers' = Provers
  BY <1>0, JobIsFixed
<1>2. s # Nothing.seg
  BY ItemTypes DEF Owned
<1>3. ASSUME posted \subseteq posted',
             \A n \in DOMAIN result_chan : n \in DOMAIN result_chan' /\ result_chan'[n] = result_chan[n],
             \A n \in DOMAIN prove_chan : n \in DOMAIN prove_chan' /\ prove_chan'[n] = prove_chan[n],
             \A i \in Provers : held'[i] = held[i]
      PROVE  Placed(s)'
  BY <1>1, <1>3 DEF Placed
<1>4. ASSUME UNCHANGED <<posted, result_chan, prove_chan, held>> PROVE Placed(s)'
  BY <1>3, <1>4
<1>5. CASE ExecuteSegment
  <2>1. UNCHANGED <<posted, result_chan, held>>
    BY <1>5 DEF ExecuteSegment, proverVars, taskVars
  <2>2. CASE UNCHANGED prove_chan
    BY <1>4, <2>1, <2>2
  <2>3. CASE /\ Assigned(curr_idx) /\ snapshots # <<>>
             /\ prove_chan' = Append(prove_chan, [seg |-> curr_idx, from |-> Head(snapshots)])
    <3>1. Head(snapshots) \in Nat
      BY <1>0, <2>3, Taken DEF TypeOK
    <3>2. [seg |-> curr_idx, from |-> Head(snapshots)] \in Work
      BY <1>0, <2>3, <3>1 DEF Work, Owned, TypeOK
    <3>3. \A n \in DOMAIN prove_chan : n \in DOMAIN prove_chan' /\ prove_chan'[n] = prove_chan[n]
      BY <1>0, <2>3, <3>2, Appended
    <3>. QED  BY <1>3, <2>1, <3>3
  <2>. QED  BY <1>5, <2>2, <2>3 DEF ExecuteSegment
<1>6. CASE StreamExecuteE2
  <2>1. \A n \in DOMAIN result_chan : n \in DOMAIN result_chan' /\ result_chan'[n] = result_chan[n]
    BY <1>0, <1>6, Appended DEF StreamExecuteE2
  <2>. QED  BY <1>3, <1>6, <2>1 DEF StreamExecuteE2, proverVars, taskVars
<1>7. ASSUME NEW i \in Provers, Receive(i, IF i = 0 THEN "join" ELSE "ok") PROVE Placed(s)'
  <2>0. UNCHANGED <<posted, result_chan>> /\ held[i] = Nothing
    BY <1>7 DEF Receive, taskVars, Stages
  <2>1. CASE UNCHANGED <<prove_chan, held>>
    BY <1>4, <2>0, <2>1
  <2>2. CASE /\ prove_chan # <<>> /\ held' = [held EXCEPT ![i] = Head(prove_chan)]
             /\ prove_chan' = Tail(prove_chan)
    <3>1. \A n \in DOMAIN prove_chan : n = 1 \/ (n - 1 \in DOMAIN prove_chan' /\ prove_chan'[n - 1] = prove_chan[n])
      BY <1>0, <2>2, Taken
    <3>2. \A j \in Provers : held'[j] = IF j = i THEN prove_chan[1] ELSE held[j]
      BY <1>0, <2>2, Taken DEF AppTypes
    <3>3. CASE \E n \in DOMAIN prove_chan : prove_chan[n].seg = s
      BY <1>1, <3>1, <3>2, <3>3 DEF Placed
    <3>4. CASE \E j \in Provers : held[j].seg = s
      BY <1>1, <1>2, <2>0, <3>2, <3>4 DEF Placed
    <3>5. CASE s \in posted \/ \E n \in DOMAIN result_chan : result_chan[n] = s
      BY <2>0, <3>5 DEF Placed
    <3>. QED  BY <3>3, <3>4, <3>5 DEF Placed
  <2>. QED  BY <1>7, <2>1, <2>2 DEF Receive
<1>8. ASSUME NEW i \in Provers, Stream(i) PROVE Placed(s)'
  <2>1. UNCHANGED <<posted, prove_chan>> /\ \A j \in Provers : held'[j] = IF j = i THEN Nothing ELSE held[j]
    BY <1>8 DEF Stream, taskVars, execVars, AppTypes
  <2>2. held[i].seg \in Owned /\ result_chan' = Append(result_chan, held[i].seg)
    BY <1>8 DEF Stream, Stages, AppTypes, Work
  <2>3. /\ \A n \in DOMAIN result_chan : n \in DOMAIN result_chan' /\ result_chan'[n] = result_chan[n]
        /\ \E n \in DOMAIN result_chan' : result_chan'[n] = held[i].seg
    BY <1>0, <2>2, Appended
  <2>. QED  BY <1>1, <2>1, <2>3 DEF Placed
<1>9. CASE SenderPost
  <2>1. UNCHANGED <<prove_chan, held>> /\ result_chan # <<>> /\ result_chan' = Tail(result_chan)
        /\ posted' = posted \cup {Head(result_chan)}
    BY <1>9 DEF SenderPost, execVars, proverVars
  <2>2. /\ \A n \in DOMAIN result_chan :
              n = 1 \/ (n - 1 \in DOMAIN result_chan' /\ result_chan'[n - 1] = result_chan[n])
        /\ posted' = posted \cup {result_chan[1]}
    BY <1>0, <2>1, Taken
  <2>. QED  BY <1>1, <2>1, <2>2 DEF Placed
<1>10. ~ProveBreaks /\ \A i \in Provers : ~ProveReturns(i)
  BY <1>1 DEF ProveBreaks, ProveReturns, Lossless, Goto, AppTypes, TypeOK
<1>11. CASE SpawnExecutor \/ ExecutorStops \/ Join \/ JobAnswered \/ SubmitError \/ SenderEnds
              \/ TaskEnds \/ UNCHANGED vars
  BY <1>4, <1>11 DEF SpawnExecutor, ExecutorStops, Join, JobAnswered, SubmitError, SenderEnds,
                     TaskEnds, vars, execVars, proverVars, taskVars
<1>12. ASSUME NEW i \in Provers, StartConsumer(i) \/ StartFails(i) \/ Prove(i) PROVE Placed(s)'
  BY <1>4, <1>12 DEF StartConsumer, StartFails, Prove, execVars, taskVars
<1>13. ASSUME NEW dropped \in SUBSET Provers, DispatchFails(dropped) PROVE Placed(s)'
  BY <1>4, <1>13 DEF DispatchFails, execVars
<1>. QED
  BY <1>0, <1>5, <1>6, <1>7, <1>8, <1>9, <1>10, <1>11, <1>12, <1>13, NextCases

\* Without an error, what was executed is somewhere.
LEMMA LostNext ==
    ASSUME AppTypes, Stages, NothingLost, [Next]_vars PROVE NothingLost'
<1>0. TypeOK /\ curr_idx \in Nat /\ 0 \in Provers
  BY DEF AppTypes, TypeOK, Jobs, Provers
<1>1. Owned' = Owned /\ UNCHANGED <<job, total>> /\ E2' = E2
  BY <1>0, JobIsFixed DEF E2
<1>. SUFFICES ASSUME Lossless'
              PROVE  /\ \A s \in Owned : Executed(s)' => Placed(s)'
                     /\ (exec' = "done" /\ job.prover_id = 0) => Placed(E2)'
  BY <1>1 DEF NothingLost
<1>2. /\ \A s \in Owned : Executed(s) => Placed(s)
      /\ (exec = "done" /\ job.prover_id = 0) => Placed(E2)
  BY EndsAreFinal DEF NothingLost
<1>3. \A s \in Owned \cup {E2} : Placed(s) => Placed(s)'
  BY PlacedNext
<1>4. ASSUME \A s \in Owned : Executed(s)' => Executed(s), exec' = "done" => exec = "done"
      PROVE  /\ \A s \in Owned : Executed(s)' => Placed(s)'
             /\ (exec' = "done" /\ job.prover_id = 0) => Placed(E2)'
  BY <1>2, <1>3, <1>4
<1>5. CASE ExecuteSegment
  <2>0. exec = "run"
    BY <1>5 DEF ExecuteSegment
  <2>1. /\ exec' = "done" => job.prover_id # 0
        /\ \/ exec' = "run" /\ curr_idx' = curr_idx + 1
           \/ exec' \in {"e2", "done"} /\ curr_idx = total - 1
    BY <1>5 DEF ExecuteSegment, AfterSegment
  <2>2. ASSUME NEW s \in Owned, Executed(s)' PROVE Placed(s)'
    <3>1. s \in Nat /\ s <= total - 1 /\ Assigned(s) /\ total \in Nat
      BY <1>0 DEF Owned, TypeOK
    <3>2. s < curr_idx \/ s = curr_idx
      BY <1>0, <2>1, <2>2, <3>1 DEF Executed
    <3>3. CASE s < curr_idx
      BY <1>2, <1>3, <2>0, <3>3 DEF Executed
    <3>4. CASE s = curr_idx
      <4>1. /\ snapshots # <<>>
            /\ prove_chan' = Append(prove_chan, [seg |-> curr_idx, from |-> Head(snapshots)])
        BY <1>5, <3>1, <3>4 DEF ExecuteSegment
      <4>2. Head(snapshots) \in Nat
        BY <1>0, <4>1, Taken DEF TypeOK
      <4>. DEFINE d == [seg |-> curr_idx, from |-> Head(snapshots)]
      <4>3. d \in Work /\ d.seg = s
        BY <3>4, <4>2 DEF Work
      <4>. HIDE DEF d
      <4>4. prove_chan \in Seq(Work) /\ prove_chan' = Append(prove_chan, d)
        BY <4>1 DEF d, AppTypes
      <4>5. Len(prove_chan) + 1 \in DOMAIN prove_chan' /\ prove_chan'[Len(prove_chan) + 1] = d
        BY <4>3, <4>4, Appended
      <4>. QED  BY <4>3, <4>5 DEF Placed
    <3>. QED  BY <3>2, <3>3, <3>4
  <2>. QED  BY <2>1, <2>2
<1>6. CASE StreamExecuteE2
  <2>1. exec = "e2"
    BY <1>6 DEF StreamExecuteE2
  <2>2. \A s \in Owned : Executed(s)
    BY <2>1 DEF Executed
  <2>3. CASE exec' = "done"
    <3>1. result_chan' = Append(result_chan, E2) /\ result_chan \in Seq(Owned \cup {E2})
      BY <1>6, <2>3 DEF StreamExecuteE2, AppTypes
    <3>2. \E n \in DOMAIN result_chan' : result_chan'[n] = E2
      BY <3>1, Appended
    <3>3. Placed(E2)'
      BY <1>1, <3>2 DEF Placed
    <3>. QED  BY <1>2, <1>3, <2>2, <3>3
  <2>4. CASE exec' # "done"
    BY <1>2, <1>3, <2>2, <2>4
  <2>. QED  BY <2>3, <2>4
<1>7. CASE ExecutorStops
  <2>1. exec' \in {"failed", "panicked"}
    BY <1>7 DEF ExecutorStops
  <2>. QED  BY <2>1 DEF Executed
<1>8. CASE SpawnExecutor
  <2>1. exec = "off" /\ exec' = "run" /\ curr_idx' = curr_idx
    BY <1>8 DEF SpawnExecutor, Stages
  <2>. QED  BY <1>4, <2>1 DEF Executed
<1>9. CASE UNCHANGED <<exec, curr_idx>>
  BY <1>4, <1>9 DEF Executed
<1>. QED
  BY <1>0, <1>5, <1>6, <1>7, <1>8, <1>9, NextCases
     DEF StartConsumer, StartFails, Receive, Prove, Stream, ProveReturns, DispatchFails, ProveBreaks,
         Join, JobAnswered, SubmitError, SenderPost, SenderEnds, TaskEnds, vars, execVars

\* Everything the shard's steps rest on is an invariant.
LEMMA ShardInvHolds == Spec => [](AppTypes /\ Stages /\ OnceInv /\ ShardInv)
<1>1. Init => ShardInv
  <2>. SUFFICES ASSUME Init PROVE ShardInv
    OBVIOUS
  <2>0. 0 \in Provers
    BY DEF Init, Jobs, Provers
  <2>1. NothingLost
    <3>1. \A s \in Owned : ~(s < 0)
      BY DEF Init, Owned
    <3>. QED  BY <3>1 DEF Init, NothingLost, Executed
  <2>2. Drained
    BY <2>0 DEF Init, Drained
  <2>3. TaskInv
    BY DEF Init, TaskInv
  <2>. QED  BY <2>1, <2>2, <2>3 DEF ShardInv
<1>2. AppTypes /\ Stages /\ ShardInv /\ [Next]_vars => ShardInv'
  BY LostNext, DrainedNext, TaskNext DEF ShardInv
<1>. QED  BY <1>1, <1>2, OnceHolds, PTL DEF Spec

\* A step that posts nothing, reports nothing and does not end the task is no
\* step of the shard.
LEMMA ShardStutters ==
    ASSUME AppTypes, [Next]_vars, UNCHANGED <<posted, failed>>, task' = "done" <=> task = "done"
    PROVE  UNCHANGED Shard!shardVars
<1>1. Owned' = Owned /\ UNCHANGED job /\ E2' = E2
  BY JobIsFixed DEF AppTypes, E2
<1>. QED  BY <1>1 DEF Shard!shardVars

\* What the sender posts is a segment or the segment count, not posted before
\* and while the shard is not over.
LEMMA SenderPostPosts ==
    ASSUME AppTypes, OnceInv, ShardInv, SenderPost, [Next]_vars PROVE Shard!Next
<1>0. TypeOK /\ result_chan \in Seq(Owned \cup {E2}) /\ result_chan # <<>>
  BY DEF AppTypes, SenderPost
<1>1. Owned' = Owned /\ UNCHANGED <<job, task, failed>> /\ E2' = E2
  BY <1>0, JobIsFixed DEF SenderPost, E2
<1>2. task # "done"
  BY <1>0 DEF ShardInv, TaskInv
<1>3. PICK x \in Owned \cup {E2} : x = Head(result_chan)
  BY <1>0, Taken
<1>4. posted' = posted \cup {x} /\ 1 \in DOMAIN result_chan /\ result_chan[1] = x
  BY <1>0, <1>3, Taken DEF SenderPost
<1>5. x \notin posted /\ E2 \notin Owned
  BY <1>4 DEF OnceInv, PostedDistinct, E2, Owned
<1>6. CASE x \in Owned
  <2>1. x \in Owned \ posted /\ (Owned \ posted)' = (Owned \ posted) \ {x} /\ x # E2
    BY <1>1, <1>4, <1>5, <1>6
  <2>2. Shard!PostApp(x)
    BY <1>1, <1>2, <1>4, <2>1 DEF Shard!PostApp
  <2>. QED  BY <2>1, <2>2 DEF Shard!Next
<1>7. CASE x = E2
  <2>1. job.prover_id = 0
    BY <1>4, <1>7 DEF OnceInv, E2Last
  <2>2. (Owned \ posted)' = Owned \ posted
    BY <1>1, <1>4, <1>5, <1>7
  <2>3. Shard!PostExecuteE2
    BY <1>1, <1>2, <1>4, <1>5, <1>7, <2>1, <2>2 DEF Shard!PostExecuteE2
  <2>. QED  BY <2>3 DEF Shard!Next
<1>. QED  BY <1>3, <1>6, <1>7

\* A task that ends without an error has posted everything.
LEMMA TaskEndsEnds ==
    ASSUME AppTypes, Stages, ShardInv, TaskEnds, [Next]_vars PROVE Shard!Next
<1>0. TypeOK /\ 0 \in Provers
  BY DEF AppTypes, TypeOK, Jobs, Provers
<1>1. Owned' = Owned /\ UNCHANGED <<job, posted, failed>> /\ E2' = E2 /\ task = "wait" /\ task' = "done"
  BY <1>0, JobIsFixed DEF TaskEnds, E2
<1>2. ASSUME ~failed PROVE Owned \ posted = {} /\ ~(job.prover_id = 0 /\ E2 \notin posted)
  <2>1. \A i \in Provers : pc[i] = "ok"
    BY <1>1, <1>2 DEF ShardInv, TaskInv
  <2>2. exec = "done" /\ Lossless
    BY <1>0, <2>1 DEF ShardInv, Drained, Lossless
  <2>3. result_chan = <<>> /\ prove_chan = <<>>
    BY <1>0, <2>1 DEF ShardInv, Drained, TaskInv, TaskEnds
  <2>4. \A i \in Provers : held[i] = Nothing
    BY <2>1 DEF Stages
  <2>5. ASSUME NEW s \in Owned \cup {E2}, Placed(s) PROVE s \in posted
    <3>1. s # Nothing.seg
      BY ItemTypes DEF Owned
    <3>2. DOMAIN result_chan = {} /\ DOMAIN prove_chan = {}
      BY <2>3
    <3>. QED  BY <2>4, <2>5, <3>1, <3>2 DEF Placed
  <2>6. \A s \in Owned : Placed(s)
    BY <2>2 DEF ShardInv, NothingLost, Executed
  <2>7. job.prover_id = 0 => Placed(E2)
    BY <2>2 DEF ShardInv, NothingLost
  <2>. QED  BY <2>5, <2>6, <2>7
<1>3. Shard!End
  BY <1>1, <1>2 DEF Shard!End
<1>. QED  BY <1>3 DEF Shard!Next

\* The job of a worker implements ShardSpec, for every number of workers, app
\* provers and segments and whatever fails: the sender posts each segment and
\* the segment count at most once and never after the task is over, and a task
\* that ends without posting an error has posted all of them.
THEOREM ImplementsShardHolds == Spec => ImplementsShard
<1>1. Init => Shard!Init
  <2>. SUFFICES ASSUME Init PROVE Shard!Init
    OBVIOUS
  <2>1. Owned \ posted \subseteq 0..(MaxSegments - 1)
    BY AppProverAssumption DEF Init, Owned
  <2>2. task = "submit" /\ failed = FALSE
    BY DEF Init
  <2>. QED  BY <2>1, <2>2 DEF Shard!Init
<1>2. ASSUME AppTypes, Stages, OnceInv, ShardInv, [Next]_vars
      PROVE  [Shard!Next]_(Shard!shardVars)
  <2>0. TypeOK
    BY <1>2 DEF AppTypes
  <2>1. CASE SenderPost
    BY <1>2, <2>1, SenderPostPosts
  <2>2. CASE TaskEnds
    BY <1>2, <2>2, TaskEndsEnds
  <2>3. CASE SubmitError
    <3>1. ~failed /\ task = "report" /\ task' = "wait" /\ failed' = TRUE
      BY <1>2, <2>3 DEF SubmitError, ShardInv, TaskInv
    <3>2. Owned' = Owned /\ UNCHANGED <<job, posted>> /\ E2' = E2
      BY <1>2, <2>0, <2>3, JobIsFixed DEF SubmitError, E2
    <3>3. Shard!PostError
      BY <3>1, <3>2 DEF Shard!PostError
    <3>. QED  BY <3>3 DEF Shard!Next
  <2>4. CASE UNCHANGED <<posted, failed>> /\ (task' = "done" <=> task = "done")
    BY <1>2, <2>4, ShardStutters
  <2>5. CASE JobAnswered \/ SenderEnds \/ \E dropped \in SUBSET Provers : DispatchFails(dropped)
    BY <2>4, <2>5 DEF JobAnswered, SenderEnds, DispatchFails
  <2>. QED
    BY <1>2, <2>0, <2>1, <2>2, <2>3, <2>4, <2>5, NextCases
       DEF SpawnExecutor, ExecuteSegment, ExecutorStops, StreamExecuteE2, StartConsumer, StartFails,
           Receive, Prove, Stream, ProveReturns, ProveBreaks, Join, vars, taskVars
<1>. QED  BY <1>1, <1>2, ShardInvHolds, PTL DEF Spec, ImplementsShard
=============================================================================

--------------------------- MODULE LifecycleProofs ---------------------------
(***************************************************************************)
(* Proofs about ProofLifecycle for every deployment, number of proofs and  *)
(* calls, and number of crashes.                                           *)
(***************************************************************************)
EXTENDS ProofLifecycle, FiniteSetTheorems, TLAPS

RegistryTypes ==
    /\ workers \in Registered
    /\ url_to_id \in [Urls -> Ids \cup {NoId}]
    /\ registering \in [Urls -> [id : Ids \cup {NoId}, role : WorkerRoles \cup {None}]]

CallTypes ==
    /\ calls \in [Calls -> Started]
    /\ \A c \in Calls : calls[c].pc = "idle" \/ calls[c].proof \in Proofs

OtherTypes ==
    /\ state \in [Proofs -> Statuses]
    /\ entries \subseteq Proofs /\ canceling \subseteq Proofs /\ old \subseteq Proofs
    /\ running \subseteq Proofs /\ disturbed \subseteq Proofs
    /\ kind \in [Proofs -> ProofTypes \cup {None}]
    /\ \A p \in Proofs : kind[p] # None <=> state[p] \in {"InProgress", "Ready", "Failing"}
    /\ staged \in [Proofs -> [what : ContentKinds \cup {None, "kept"}, at : {None, "upload"}]]
    /\ \A p \in Proofs : staged[p].at = "upload" => staged[p].what \in ContentKinds
    /\ finalizing \in [Proofs -> {"idle", "start", "writing", "renaming", "publishing", "remove"}]
    /\ \A p \in Proofs : Persisting(p) => state[p] = "Ready"
    /\ persists \in BOOLEAN
    /\ disk \in [Proofs -> SUBSET ProofTypes]
    /\ completed \subseteq Proofs \X ProofTypes

\* TypeOK has three parts that are kept separately.
LEMMA TypeParts == TypeOK <=> RegistryTypes /\ CallTypes /\ OtherTypes
BY DEF TypeOK, RegistryTypes, CallTypes, OtherTypes
-----------------------------------------------------------------------------
(* Types *)

\* register keeps the types of its maps.
LEMMA RegisterTypes ==
    ASSUME RegistryTypes, NEW u \in Urls, Register(u)
    PROVE  RegistryTypes'
<1> USE RegistryAssumption DEF RegistryTypes, Registered, NoCall, None
<1>1. ASSUME NEW id \in Claims[u] \cap Ids, NEW role \in RolesOf[u], RegisterAgain(u, id, role)
      PROVE  RegistryTypes'
  BY <1>1 DEF RegisterAgain
<1>2. ASSUME NEW id \in Claims[u] \cap Ids, NEW role \in RolesOf[u], RegisterCheck(u, id, role)
      PROVE  RegistryTypes'
  BY <1>2 DEF RegisterCheck
<1>3. CASE RegisterInsert(u)
  BY <1>3 DEF RegisterInsert
<1> QED BY <1>1, <1>2, <1>3 DEF Register

\* The record of a call that is not under way.
LEMMA NoStartType == NoStart \in Started /\ NoStart.pc = "idle"
BY DEF NoStart, Started, Registered, NoWorker, Pcs, None, ContentKinds

\* A call that moves on is still a call,
LEMMA GotoTypes ==
    ASSUME CallTypes, NEW c \in Calls, calls[c].pc # "idle", NEW l \in Pcs, Goto(c, l)
    PROVE  CallTypes'
BY DEF CallTypes, Goto, Started

\* and so is one that returns.
LEMMA ReturnTypes ==
    ASSUME CallTypes, NEW c \in Calls, Return(c)
    PROVE  CallTypes'
BY NoStartType DEF CallTypes, Return

\* The steps of start_proof keep the types of the calls,
LEMMA StartStepCallTypes ==
    ASSUME CallTypes, OtherTypes, NEW c \in Calls, StartStep(c) \/ CallDropped(c)
    PROVE  CallTypes'
<1> USE DEF Pcs
<1>1. CASE Admit(c)
  BY <1>1, GotoTypes, ReturnTypes DEF Admit
<1>2. CASE InitProof(c)
  BY <1>2, GotoTypes DEF InitProof
<1>3. CASE TakeStaged(c)
  <2>1. staged[calls[c].proof].what \in ContentKinds \cup {None, "kept"}
    BY <1>3 DEF TakeStaged, CallTypes, OtherTypes
  <2>2. calls[c].proof \in Proofs
    BY <1>3 DEF TakeStaged, CallTypes
  <2> QED BY <1>3, <2>1, <2>2 DEF TakeStaged, CallTypes, Started
<1>4. CASE UploadToWorkers(c)
  BY <1>4, GotoTypes DEF UploadToWorkers
<1>5. CASE FanoutDeferralStates(c)
  BY <1>5, GotoTypes DEF FanoutDeferralStates
<1>6. CASE Restage(c)
  BY <1>6, GotoTypes DEF Restage
<1>7. CASE FailStart(c)
  BY <1>7, GotoTypes DEF FailStart
<1>8. CASE FailStartRemove(c)
  BY <1>8, ReturnTypes DEF FailStartRemove
<1>9. CASE Dispatch(c)
  BY <1>9, ReturnTypes DEF Dispatch
<1>10. CASE CallDropped(c)
  BY <1>10, ReturnTypes DEF CallDropped
<1> QED BY <1>1, <1>2, <1>3, <1>4, <1>5, <1>6, <1>7, <1>8, <1>9, <1>10 DEF StartStep

\* The types around the status,
StatusTypes ==
    /\ state \in [Proofs -> Statuses]
    /\ kind \in [Proofs -> ProofTypes \cup {None}]
    /\ \A p \in Proofs : kind[p] # None <=> state[p] \in {"InProgress", "Ready", "Failing"}
    /\ disturbed \subseteq Proofs

\* which a change of the status keeps.
LEMMA ChangeTypes ==
    ASSUME StatusTypes, NEW p \in Proofs, NEW s \in {"Ready", "Failing"} \cup Terminal, Change(p, s),
           s \in Terminal \/ state[p] \in {"InProgress", "Ready", "Failing"}
    PROVE  StatusTypes' /\ \A q \in Proofs \ {p} : state'[q] = state[q]
<1>1. state' \in [Proofs -> Statuses] /\ kind' \in [Proofs -> ProofTypes \cup {None}]
  BY DEF Change, StatusTypes, Statuses
<1>2. disturbed' \subseteq Proofs
  BY DEF Change, Disturb, StatusTypes
<1>3. \A q \in Proofs \ {p} : state'[q] = state[q] /\ kind'[q] = kind[q]
  BY DEF Change, StatusTypes
<1>4. kind'[p] # None <=> state'[p] \in {"InProgress", "Ready", "Failing"}
  BY DEF Change, StatusTypes, Terminal
<1> QED BY <1>1, <1>2, <1>3, <1>4 DEF StatusTypes

\* So does the admission of a proof.
LEMMA EnterTypes ==
    ASSUME StatusTypes, NEW p \in Proofs, NEW t \in ProofTypes, Enter(p, t)
    PROVE  StatusTypes' /\ \A q \in Proofs \ {p} : state'[q] = state[q]
BY LifecycleAssumption DEF Enter, StatusTypes, Statuses

\* The steps of start_proof keep all other types.
LEMMA StartStepOtherTypes ==
    ASSUME CallTypes, OtherTypes, NEW c \in Calls, StartStep(c) \/ CallDropped(c)
    PROVE  OtherTypes'
<1> USE DEF OtherTypes, frame, status, files, Persisting
<1>s. StatusTypes
  BY DEF StatusTypes
<1>0. calls[c].pc # "idle" => calls[c].proof \in Proofs
  BY DEF CallTypes
<1>1. CASE Admit(c)
  <2> DEFINE p == calls[c].proof
  <2>1. p \in Proofs
    BY <1>0, <1>1 DEF Admit
  <2>2. ASSUME NEW t \in ProofTypes, state[p] = None, Enter(p, t) PROVE OtherTypes'
    <3>1. old' \subseteq Proofs
      BY <2>2 DEF Enter
    <3> QED BY <1>1, <1>s, <2>1, <2>2, <3>1, EnterTypes DEF Admit, StatusTypes, None
  <2> QED BY <1>1, <2>2 DEF Admit
<1>2. CASE InitProof(c)
  BY <1>0, <1>2 DEF InitProof
<1>3. CASE TakeStaged(c)
  BY <1>0, <1>3 DEF TakeStaged, Unstage, Nothing, None, ContentKinds
<1>4. CASE UploadToWorkers(c)
  BY <1>4 DEF UploadToWorkers
<1>5. CASE FanoutDeferralStates(c)
  BY <1>5 DEF FanoutDeferralStates
<1>6. CASE Restage(c)
  <2>1. /\ staged' \in [Proofs -> [what : ContentKinds \cup {None, "kept"}, at : {None, "upload"}]]
        /\ \A p \in Proofs : staged'[p].at = "upload" => staged'[p].what \in ContentKinds
    BY <1>0, <1>6 DEF Restage, Stage, None, ContentKinds
  <2> QED BY <1>6, <2>1 DEF Restage
<1>7. CASE FailStart(c)
  <2> DEFINE p == calls[c].proof
  <2>1. p \in Proofs
    BY <1>0, <1>7 DEF FailStart
  <2>2. CASE Status(p, "Failed")
    <3>1. StatusTypes' /\ \A q \in Proofs \ {p} : state'[q] = state[q]
      BY <1>s, <2>1, <2>2, ChangeTypes DEF Status, Terminal
    <3> QED BY <1>7, <2>2, <3>1 DEF FailStart, Status, StatusTypes
  <2> QED BY <1>7, <2>2 DEF FailStart
<1>8. CASE FailStartRemove(c)
  <2>1. /\ staged' \in [Proofs -> [what : ContentKinds \cup {None, "kept"}, at : {None, "upload"}]]
        /\ \A p \in Proofs : staged'[p].at = "upload" => staged'[p].what \in ContentKinds
    <3>1. CASE UNCHANGED staged
      BY <3>1
    <3>2. CASE Unstage(calls[c].proof)
      BY <1>0, <1>8, <3>2 DEF FailStartRemove, Unstage, Nothing, None, ContentKinds
    <3> QED BY <1>8, <3>1, <3>2 DEF FailStartRemove
  <2> QED BY <1>8, <2>1 DEF FailStartRemove
<1>9. CASE Dispatch(c)
  <2> DEFINE p == calls[c].proof
  <2>1. p \in Proofs /\ running' \subseteq Proofs
    BY <1>0, <1>9 DEF Dispatch
  <2>2. CASE state[p] = "InProgress" /\ Status(p, "Failing")
    <3>1. StatusTypes' /\ \A q \in Proofs \ {p} : state'[q] = state[q]
      BY <1>s, <2>1, <2>2, ChangeTypes DEF Status, Terminal
    <3> QED BY <1>9, <2>1, <2>2, <3>1 DEF Dispatch, Status, StatusTypes
  <2> QED BY <1>9, <2>1, <2>2 DEF Dispatch
<1>10. CASE CallDropped(c)
  BY <1>10 DEF CallDropped
<1> QED BY <1>1, <1>2, <1>3, <1>4, <1>5, <1>6, <1>7, <1>8, <1>9, <1>10 DEF StartStep

\* What clients, workers, the watchdog and time do to a proof.
ProofStep(p) ==
    \/ \E what \in Contents : UploadInput(p, what)
    \/ Cancel(p) \/ CancelNoStatus(p) \/ Task(p)
    \/ JitPushed(p) \/ LastResult(p) \/ ShardsOver(p)
    \/ Age(p) \/ Evict(p)

\* None of it touches a call.
LEMMA ProofStepCalls == ASSUME NEW p \in Proofs, ProofStep(p) PROVE UNCHANGED calls
BY DEF ProofStep, Task, FinalizeStep, UploadInput, Cancel, CancelNoStatus, JitPushed, LastResult, ShardsOver, Age,
       Evict, Timeout, Drained, FinalizeReady, FinalizeStart, PersistWrite, PersistRename,
       Publish, FinalizeRemove, CancelRemove, OrphanSweep

\* All of it keeps the other types.
LEMMA ProofStepTypes ==
    ASSUME OtherTypes, NEW p \in Proofs, ProofStep(p)
    PROVE  OtherTypes'
<1> USE DEF OtherTypes, frame, status, files, Persisting
<1>1. ASSUME NEW what \in Contents, UploadInput(p, what) PROVE OtherTypes'
  BY <1>1, LifecycleAssumption DEF UploadInput, Stage
<1>2. CASE Cancel(p) \/ LastResult(p) \/ Timeout(p) \/ Drained(p)
  <2>1. ASSUME NEW s \in {"Ready", "Failing"} \cup Terminal, Change(p, s),
               state[p] \in {"InProgress", "Failing"}, old' \in SUBSET Proofs
        PROVE  /\ StatusTypes' /\ old' \subseteq Proofs
               /\ UNCHANGED finalizing => \A q \in Proofs : Persisting(q)' => state'[q] = "Ready"
    <3>1. StatusTypes' /\ \A q \in Proofs \ {p} : state'[q] = state[q]
      BY <2>1, ChangeTypes DEF StatusTypes
    <3> QED BY <2>1, <3>1
  <2>2. CASE Cancel(p)
    BY <2>1, <2>2 DEF Cancel, Status, Terminal, StatusTypes
  <2>3. CASE LastResult(p)
    BY <2>1, <2>3 DEF LastResult, Touched, StatusTypes
  <2>4. CASE Timeout(p)
    BY <2>1, <2>4 DEF Timeout, Status, StatusTypes
  <2>5. CASE Drained(p)
    <3>1. StatusTypes' /\ \A q \in Proofs \ {p} : state'[q] = state[q]
      BY <2>5, ChangeTypes DEF Drained, Status, Terminal, StatusTypes
    <3> QED BY <2>5, <3>1 DEF Drained, Status, StatusTypes
  <2> QED BY <1>2, <2>2, <2>3, <2>4, <2>5
<1>3. Unstage(p) =>
        /\ staged' \in [Proofs -> [what : ContentKinds \cup {None, "kept"}, at : {None, "upload"}]]
        /\ \A q \in Proofs : staged'[q].at = "upload" => staged'[q].what \in ContentKinds
  BY DEF Unstage, Nothing, None, ContentKinds
<1>4. CASE JitPushed(p) \/ CancelRemove(p) \/ CancelNoStatus(p) \/ OrphanSweep(p)
  BY <1>3, <1>4 DEF JitPushed, CancelRemove, CancelNoStatus, OrphanSweep
<1>5. CASE FinalizeStart(p)
  BY <1>3, <1>5 DEF FinalizeStart
<1>6. CASE ShardsOver(p) \/ FinalizeReady(p) \/ FinalizeRemove(p) \/ Age(p)
  BY <1>6 DEF ShardsOver, FinalizeReady, FinalizeRemove, Age, Disturb
<1>a. Persisting(p) => kind[p] \in ProofTypes
  OBVIOUS
<1>7. CASE PersistWrite(p) \/ PersistRename(p)
  <2>1. CASE PersistFails(p)
    BY <1>7, <2>1 DEF PersistWrite, PersistRename, PersistFails, Touched, Change, Disturb,
                        Statuses, Terminal, None
  <2>2. CASE Rename(p)
    <3>1. disk[p] \cup {kind[p]} \in SUBSET ProofTypes
      BY <1>7, <1>a DEF PersistWrite, PersistRename
    <3> QED BY <1>7, <2>2, <3>1 DEF PersistWrite, PersistRename, Rename
  <2>3. CASE PersistWrite(p) /\ ~PersistFails(p)
    BY <2>3 DEF PersistWrite
  <2> QED BY <1>7, <2>1, <2>2, <2>3 DEF PersistRename
<1>8. CASE Publish(p)
  <2>1. completed' \subseteq Proofs \X ProofTypes
    BY <1>8, <1>a DEF Publish
  <2> QED BY <1>8, <2>1 DEF Publish, Touched, Change, Disturb, Statuses, Terminal, None
<1>9. CASE Evict(p)
  BY <1>9 DEF Evict, should_evict, Disturb, Terminal, Statuses, None
<1> QED BY <1>1, <1>2, <1>4, <1>5, <1>6, <1>7, <1>8, <1>9 DEF ProofStep, Task, FinalizeStep

\* Next, by what moves.
LEMMA NextCases ==
    ASSUME Next
    PROVE  \/ (\E u \in Urls : Register(u)) /\ UNCHANGED lifecycleVars
           \/ \E c \in Calls, p \in Proofs, pre \in BOOLEAN :
                 StartReady(c, p, pre) /\ UNCHANGED registryVars
           \/ \E c \in Calls : (StartStep(c) \/ CallDropped(c)) /\ UNCHANGED registryVars
           \/ \E p \in Proofs : ProofStep(p) /\ UNCHANGED registryVars
           \/ Crash
BY DEF Next, ProofStep

\* A call that begins has the types of a call.
LEMMA StartReadyTypes ==
    ASSUME RegistryTypes, CallTypes, NEW c \in Calls, NEW p \in Proofs, NEW pre \in BOOLEAN,
           StartReady(c, p, pre)
    PROVE  CallTypes'
BY DEF StartReady, RegistryTypes, CallTypes, Started, Pcs, None, ContentKinds

\* Types are kept: all variables stay in their sets, whatever calls, tasks and
\* crashes come in which order.
THEOREM LifecycleTypes == Spec => []TypeOK
<1>1. Init => TypeOK
  <2> SUFFICES ASSUME Init PROVE RegistryTypes /\ CallTypes /\ OtherTypes
    BY TypeParts
  <2>1. RegistryTypes
    BY DEF Init, NoRegistrations, RegistryTypes, Registered, NoWorker, NoCall, None
  <2>2. CallTypes
    BY NoStartType DEF Init, CallTypes
  <2>3. OtherTypes
    BY DEF Init, OtherTypes, Persisting, Nothing, None, Statuses, ContentKinds
  <2> QED BY <2>1, <2>2, <2>3
<1>2. TypeOK /\ [Next]_vars => TypeOK'
  <2> SUFFICES ASSUME TypeOK, [Next]_vars PROVE RegistryTypes' /\ CallTypes' /\ OtherTypes'
    BY TypeParts DEF TypeOK, RegistryTypes, CallTypes, OtherTypes
  <2>0. RegistryTypes /\ CallTypes /\ OtherTypes
    BY TypeParts
  <2>1. ASSUME NEW u \in Urls, Register(u), UNCHANGED lifecycleVars
        PROVE  RegistryTypes' /\ CallTypes' /\ OtherTypes'
    BY <2>0, <2>1, RegisterTypes DEF lifecycleVars, status, files, CallTypes, OtherTypes, Persisting
  <2>2. ASSUME NEW c \in Calls, NEW p \in Proofs, NEW pre \in BOOLEAN,
               StartReady(c, p, pre), UNCHANGED registryVars
        PROVE  RegistryTypes' /\ CallTypes' /\ OtherTypes'
    <3>1. CallTypes'
      BY <2>0, <2>2, StartReadyTypes
    <3>2. RegistryTypes' /\ OtherTypes'
      BY <2>0, <2>2 DEF StartReady, frame, status, files, registryVars, RegistryTypes, OtherTypes, Persisting
    <3> QED BY <3>1, <3>2
  <2>3. ASSUME NEW c \in Calls, StartStep(c) \/ CallDropped(c), UNCHANGED registryVars
        PROVE  RegistryTypes' /\ CallTypes' /\ OtherTypes'
    <3>1. CallTypes' /\ OtherTypes'
      BY <2>0, <2>3, StartStepCallTypes, StartStepOtherTypes
    <3>2. RegistryTypes'
      BY <2>0, <2>3 DEF registryVars, RegistryTypes
    <3> QED BY <3>1, <3>2
  <2>4. ASSUME NEW p \in Proofs, ProofStep(p), UNCHANGED registryVars
        PROVE  RegistryTypes' /\ CallTypes' /\ OtherTypes'
    <3>1. OtherTypes' /\ UNCHANGED calls
      BY <2>0, <2>4, ProofStepTypes, ProofStepCalls
    <3>2. RegistryTypes' /\ CallTypes'
      BY <2>0, <2>4, <3>1 DEF registryVars, RegistryTypes, CallTypes
    <3> QED BY <3>1, <3>2
  <2>5. CASE Crash
    <3>1. RegistryTypes'
      BY <2>5 DEF Crash, RegistryTypes, Registered, NoWorker, NoCall, None
    <3>2. CallTypes'
      BY <2>5, NoStartType DEF Crash, CallTypes
    <3>3. OtherTypes'
      BY <2>0, <2>5 DEF Crash, files, OtherTypes, Persisting, Nothing, None, Statuses, ContentKinds
    <3> QED BY <3>1, <3>2, <3>3
  <2>6. CASE UNCHANGED vars
    BY <2>0, <2>6 DEF vars, registryVars, lifecycleVars, status, files, RegistryTypes, CallTypes,
                      OtherTypes, Persisting
  <2> QED BY <2>1, <2>2, <2>3, <2>4, <2>5, <2>6, NextCases
<1> QED BY <1>1, <1>2, PTL DEF Spec
-----------------------------------------------------------------------------
(* One active proof *)

\* A move changes the pc of its call,
LEMMA GotoCalls ==
    ASSUME CallTypes, NEW c \in Calls, NEW l, Goto(c, l), NEW d \in Calls
    PROVE  /\ calls'[d].pc = IF d = c THEN l ELSE calls[d].pc
           /\ calls'[d].proof = calls[d].proof
           /\ calls'[d].workers = calls[d].workers
BY DEF CallTypes, Goto, Started

\* and a return frees the call.
LEMMA ReturnCalls ==
    ASSUME CallTypes, NEW c \in Calls, Return(c), NEW d \in Calls
    PROVE  calls'[d] = IF d = c THEN NoStart ELSE calls[d]
BY DEF CallTypes, Return

\* Only InitProof gives out the slot, and only Admit lets a call come there.
LEMMA SlotSteps ==
    ASSUME CallTypes, NEW c \in Calls, StartStep(c) \/ CallDropped(c)
    PROVE  \/ /\ Admit(c)
              /\ entries = {} /\ entries' = {}
              /\ calls'[c].pc = "init"
              /\ \A d \in Calls : calls[d].pc # "init"
              /\ \A d \in Calls \ {c} : calls'[d].pc = calls[d].pc
           \/ /\ InitProof(c)
              /\ calls[c].pc = "init"
              /\ entries' = entries \cup {calls[c].proof}
              /\ calls'[c].pc # "init"
              /\ \A d \in Calls \ {c} : calls'[d].pc = calls[d].pc
           \/ /\ entries' \subseteq entries
              /\ calls'[c].pc # "init"
              /\ \A d \in Calls \ {c} : calls'[d].pc = calls[d].pc
<1>1. CASE Admit(c)
  BY <1>1, GotoCalls, ReturnCalls, NoStartType DEF Admit, GateFree
<1>2. CASE InitProof(c)
  BY <1>2, GotoCalls DEF InitProof
<1>3. CASE TakeStaged(c)
  BY <1>3 DEF TakeStaged, CallTypes, Started
<1>4. CASE UploadToWorkers(c)
  BY <1>4, GotoCalls DEF UploadToWorkers
<1>5. CASE FanoutDeferralStates(c)
  BY <1>5, GotoCalls DEF FanoutDeferralStates
<1>6. CASE Restage(c)
  BY <1>6, GotoCalls DEF Restage
<1>7. CASE FailStart(c)
  BY <1>7, GotoCalls DEF FailStart
<1>8. CASE FailStartRemove(c)
  BY <1>8, ReturnCalls, NoStartType DEF FailStartRemove
<1>9. CASE Dispatch(c)
  BY <1>9, ReturnCalls, NoStartType DEF Dispatch
<1>10. CASE CallDropped(c)
  BY <1>10, ReturnCalls, NoStartType DEF CallDropped
<1> QED BY <1>1, <1>2, <1>3, <1>4, <1>5, <1>6, <1>7, <1>8, <1>9, <1>10 DEF StartStep

\* The other tasks only give it back.
LEMMA ProofStepEntries == ASSUME NEW p \in Proofs, ProofStep(p) PROVE entries' \subseteq entries
BY DEF ProofStep, Task, FinalizeStep, UploadInput, Cancel, CancelNoStatus, JitPushed, LastResult, ShardsOver, Age,
       Evict, Timeout, Drained, FinalizeReady, FinalizeStart, PersistWrite, PersistRename,
       Publish, FinalizeRemove, CancelRemove, OrphanSweep

\* Why there is one active proof at most: one call at most is between the two
\* inserts of the admission, and nobody has the slot then.
OneAdmission ==
    /\ \A c, d \in Calls : calls[c].pc = "init" /\ calls[d].pc = "init" => c = d
    /\ (\E c \in Calls : calls[c].pc = "init") => entries = {}
    /\ OneActiveProof

\* One proof at most has the scheduler's slot, whatever calls of start_proof,
\* cancels, failures, timeouts, evictions and crashes race.
THEOREM OneActiveProofHolds == Spec => []OneActiveProof
<1>1. Init => OneAdmission
  BY NoStartType DEF Init, OneAdmission, OneActiveProof
<1>2. TypeOK /\ OneAdmission /\ [Next]_vars => OneAdmission'
  <2> SUFFICES ASSUME TypeOK, OneAdmission, [Next]_vars PROVE OneAdmission'
    OBVIOUS
  <2> USE DEF OneAdmission, OneActiveProof
  <2>0. RegistryTypes /\ CallTypes /\ OtherTypes
    BY TypeParts
  <2>1. ASSUME NEW u \in Urls, Register(u), UNCHANGED lifecycleVars PROVE OneAdmission'
    BY <2>1 DEF lifecycleVars
  <2>2. ASSUME NEW c \in Calls, NEW p \in Proofs, NEW pre \in BOOLEAN, StartReady(c, p, pre)
        PROVE  OneAdmission'
    <3>1. entries' = entries /\ \A d \in Calls : calls'[d].pc = "init" => calls[d].pc = "init"
      BY <2>0, <2>2 DEF StartReady, CallTypes
    <3> QED BY <3>1
  <2>3. ASSUME NEW c \in Calls, StartStep(c) \/ CallDropped(c) PROVE OneAdmission'
    BY <2>0, <2>3, SlotSteps
  <2>4. ASSUME NEW p \in Proofs, ProofStep(p) PROVE OneAdmission'
    BY <2>4, ProofStepCalls, ProofStepEntries
  <2>5. CASE Crash
    BY <2>5, NoStartType DEF Crash
  <2>6. CASE UNCHANGED vars
    BY <2>6 DEF vars, lifecycleVars
  <2> QED BY <2>1, <2>2, <2>3, <2>4, <2>5, <2>6, NextCases
<1>3. OneAdmission => OneActiveProof
  BY DEF OneAdmission
<1> QED BY <1>1, <1>2, <1>3, LifecycleTypes, PTL DEF Spec
-----------------------------------------------------------------------------
(* What is completed can be downloaded *)

\* Files come only at the rename, and stay; clients hear of a completed proof only
\* after that.
FilesInv ==
    /\ \A p \in Proofs : finalizing[p] \in {"writing", "renaming"} => persists
    /\ \A p \in Proofs : persists /\ finalizing[p] = "publishing" => kind[p] \in disk[p]
    /\ persists => \A p \in Proofs, t \in ProofTypes : <<p, t>> \in completed => t \in disk[p]

\* What download_proof answers if a file is there.
LEMMA Download ==
    ASSUME OtherTypes, persists, NEW p \in Proofs, NEW t \in disk[p]
    PROVE  download_proof(p) = IF disk[p] = {t} THEN t ELSE "multiple"
<1>1. t \in ProofTypes /\ disk[p] # {} /\ disk[p] \subseteq ProofTypes
  BY DEF OtherTypes
<1>2. CASE disk[p] = {t}
  <2>1. (CHOOSE u \in disk[p] : TRUE) \in disk[p]
    BY <1>1
  <2>2. \E u \in ProofTypes : disk[p] = {u}
    BY <1>1, <1>2
  <2>3. download_proof(p) = CHOOSE u \in disk[p] : TRUE
    BY <1>1, <2>2, Zenon DEF download_proof
  <2> QED BY <1>2, <2>1, <2>3
<1>3. CASE disk[p] # {t}
  <2>1. ~ \E u \in ProofTypes : disk[p] = {u}
    BY <1>3
  <2> QED BY <1>1, <1>3, <2>1 DEF download_proof
<1> QED BY <1>2, <1>3

\* start_proof touches neither the files nor a proof that is being persisted.
LEMMA StartStepFiles ==
    ASSUME CallTypes, OtherTypes, FilesInv, NEW c \in Calls, StartStep(c) \/ CallDropped(c)
    PROVE  FilesInv'
<1>0. calls[c].pc # "idle" => calls[c].proof \in Proofs
  BY DEF CallTypes
<1>1. UNCHANGED <<files, finalizing>>
  BY DEF StartStep, Admit, InitProof, TakeStaged, UploadToWorkers, FanoutDeferralStates, Restage,
         FailStart, FailStartRemove, Dispatch, CallDropped, frame
<1>2. \A p \in Proofs : finalizing[p] = "publishing" => kind'[p] = kind[p]
  <2>1. CASE Admit(c)
    BY <1>0, <2>1 DEF Admit, Enter, Persisting, OtherTypes, status, None
  <2>2. CASE FailStart(c)
    BY <1>0, <2>2 DEF FailStart, Status, Change, Persisting, OtherTypes, status
  <2>3. CASE Dispatch(c)
    BY <1>0, <2>3 DEF Dispatch, Status, Change, Terminal, status
  <2>4. CASE ~(Admit(c) \/ FailStart(c) \/ Dispatch(c))
    BY <2>4 DEF StartStep, InitProof, TakeStaged, UploadToWorkers, FanoutDeferralStates, Restage,
                FailStartRemove, CallDropped, status
  <2> QED BY <2>1, <2>2, <2>3, <2>4
<1> QED BY <1>1, <1>2 DEF FilesInv, files

\* A proof becomes Completed only when its file has its name.
LEMMA ProofStepFiles ==
    ASSUME OtherTypes, FilesInv, NEW p \in Proofs, ProofStep(p)
    PROVE  FilesInv'
<1> USE DEF OtherTypes, FilesInv, frame, status, files, Persisting, Change
<1>1. CASE \E what \in Contents : UploadInput(p, what)
  BY <1>1 DEF UploadInput
<1>2. CASE Cancel(p) \/ LastResult(p) \/ Timeout(p) \/ Drained(p)
  BY <1>2 DEF Cancel, LastResult, Timeout, Drained, Status, Touched, Terminal
<1>3. CASE JitPushed(p) \/ CancelRemove(p) \/ CancelNoStatus(p) \/ OrphanSweep(p) \/ ShardsOver(p)
             \/ FinalizeReady(p) \/ Age(p)
  BY <1>3 DEF JitPushed, CancelRemove, CancelNoStatus, OrphanSweep, ShardsOver, FinalizeReady, Age
<1>4. CASE FinalizeStart(p) \/ FinalizeRemove(p)
  BY <1>4 DEF FinalizeStart, FinalizeRemove
<1>5. CASE PersistWrite(p)
  BY <1>5 DEF PersistWrite, PersistFails, Touched
<1>6. CASE PersistRename(p)
  <2>1. CASE PersistFails(p)
    BY <1>6, <2>1 DEF PersistRename, PersistFails, Touched
  <2>2. CASE Rename(p)
    BY <1>6, <2>2 DEF PersistRename, Rename
  <2> QED BY <1>6, <2>1, <2>2 DEF PersistRename
<1>7. CASE Publish(p)
  <2>1. /\ \A q \in Proofs \ {p} : kind'[q] = kind[q] /\ finalizing'[q] = finalizing[q]
        /\ finalizing'[p] = "remove"
        /\ UNCHANGED <<persists, disk>>
    BY <1>7 DEF Publish, Touched
  <2>2. ASSUME persists, NEW q \in Proofs, NEW t \in ProofTypes, <<q, t>> \in completed'
        PROVE  t \in disk[q]
    BY <1>7, <2>2 DEF Publish
  <2> QED BY <2>1, <2>2
<1>8. CASE Evict(p)
  BY <1>8 DEF Evict, should_evict, Terminal
<1> QED BY <1>1, <1>2, <1>3, <1>4, <1>5, <1>6, <1>7, <1>8 DEF ProofStep, Task, FinalizeStep

\* Where proofs are persisted, whatever was Completed can be downloaded, unless a
\* second attempt of the other type left its file beside it; also if the manager
\* crashed between any two steps of any attempt.
THEOREM CompletedIsDownloadableHolds == Spec => []CompletedIsDownloadable
<1>1. Init => FilesInv
  BY DEF Init, FilesInv
<1>2. TypeOK /\ FilesInv /\ [Next]_vars => FilesInv'
  <2> SUFFICES ASSUME TypeOK, FilesInv, [Next]_vars
               PROVE  FilesInv'
    OBVIOUS
  <2>0. CallTypes /\ OtherTypes
    BY TypeParts
  <2>1. CASE UNCHANGED <<status, files, finalizing>>
    BY <2>1 DEF FilesInv, status, files
  <2>2. ASSUME NEW c \in Calls, StartStep(c) \/ CallDropped(c) PROVE FilesInv'
    BY <2>0, <2>2, StartStepFiles
  <2>3. ASSUME NEW p \in Proofs, ProofStep(p) PROVE FilesInv'
    BY <2>0, <2>3, ProofStepFiles
  <2>4. CASE Crash
    BY <2>4 DEF Crash, FilesInv, files
  <2> QED BY <2>1, <2>2, <2>3, <2>4, NextCases
         DEF lifecycleVars, status, files, vars, StartReady, frame
<1>3. TypeOK /\ FilesInv => CompletedIsDownloadable
  <2> SUFFICES ASSUME TypeOK, FilesInv PROVE CompletedIsDownloadable
    OBVIOUS
  <2>0. OtherTypes
    BY TypeParts
  <2>1. ASSUME persists, NEW p \in Proofs, NEW t \in ProofTypes, <<p, t>> \in completed
        PROVE  download_proof(p) = t \/ (download_proof(p) = "multiple" /\ t \in disk[p])
    <3>1. t \in disk[p]
      BY <2>1 DEF FilesInv
    <3>2. download_proof(p) = IF disk[p] = {t} THEN t ELSE "multiple"
      BY <2>0, <2>1, <3>1, Download
    <3> QED BY <3>1, <3>2
  <2>2. ASSUME ~persists, NEW p \in Proofs PROVE download_proof(p) = "not found"
    BY <2>2, Zenon DEF download_proof
  <2> QED BY <2>1, <2>2, Zenon DEF CompletedIsDownloadable
<1> QED BY <1>1, <1>2, <1>3, LifecycleTypes, PTL DEF Spec
-----------------------------------------------------------------------------
(* The slot has an owner *)

\* A proof whose second insert is outstanding is in progress, so that it will own the
\* slot, unless a coincidence has met it.
SlotInv ==
    /\ \A c \in Calls : calls[c].pc = "init" =>
          state[calls[c].proof] = "InProgress" \/ calls[c].proof \in disturbed
    /\ SlotHasOwner

\* A change of the status leaves no call between its inserts behind, unless it is a
\* coincidence.
LEMMA ChangeDisturbs ==
    ASSUME OtherTypes, NEW p \in Proofs, NEW s, Change(p, s)
    PROVE  /\ disturbed \subseteq disturbed'
           /\ Admitting(p) => p \in disturbed'
           /\ \A q \in Proofs \ {p} : state'[q] = state[q]
BY DEF Change, Disturb, OtherTypes

\* A step of a call that does not give back leaves those that do alone.
LEMMA OthersGiveBack ==
    ASSUME NEW c \in Calls, calls[c].pc \notin {"abortRemove", "failRemove"},
           \A d \in Calls \ {c} : calls'[d] = calls[d], NEW p, GivesBack(p)
    PROVE  GivesBack(p)'
BY DEF GivesBack

\* The steps of start_proof keep the slot's owner.
LEMMA StartStepOwner ==
    ASSUME CallTypes, OtherTypes, SlotInv, NEW c \in Calls, StartStep(c) \/ CallDropped(c)
    PROVE  SlotInv'
<1> USE DEF SlotInv, frame, status
<1>0. calls[c].pc # "idle" => calls[c].proof \in Proofs
  BY DEF CallTypes
<1>a. \A d \in Calls \ {c} : calls'[d] = calls[d]
  BY DEF StartStep, Admit, InitProof, TakeStaged, UploadToWorkers, FanoutDeferralStates, Restage,
         FailStart, FailStartRemove, Dispatch, CallDropped, Goto, Return, CallTypes
<1>b. calls[c].pc \notin {"abortRemove", "failRemove"} => \A p : GivesBack(p) => GivesBack(p)'
  BY <1>a, OthersGiveBack
<1>1. CASE Admit(c)
  <2>1. CASE Return(c) /\ UNCHANGED <<status, entries, frame>>
    <3>1. calls'[c].pc # "init"
      BY <2>1, ReturnCalls, NoStartType
    <3> QED BY <1>1, <1>a, <1>b, <2>1, <3>1 DEF Admit, SlotHasOwner
  <2>2. CASE /\ entries = {} /\ UNCHANGED <<entries, frame>> /\ Goto(c, "init")
             /\ \E t \in ProofTypes : Enter(calls[c].proof, t)
    <3>1. SlotHasOwner'
      BY <2>2 DEF SlotHasOwner
    <3>2. \A d \in Calls : calls'[d].pc = "init" => d = c
      BY <1>1, <2>2, GotoCalls DEF Admit, GateFree
    <3>3. calls[c].proof \in Proofs /\ calls'[c].proof = calls[c].proof
      BY <1>0, <1>1, <2>2, GotoCalls DEF Admit
    <3>4. state'[calls[c].proof] = "InProgress"
      BY <2>2, <3>3 DEF Enter, OtherTypes
    <3> QED BY <2>2, <3>1, <3>2, <3>3, <3>4
  <2> QED BY <1>1, <2>1, <2>2 DEF Admit
<1>2. CASE InitProof(c)
  BY <1>0, <1>2, <1>a, <1>b, GotoCalls DEF InitProof, SlotHasOwner
<1>3. CASE TakeStaged(c) \/ UploadToWorkers(c) \/ FanoutDeferralStates(c) \/ Restage(c) \/ CallDropped(c)
  <2>1. calls[c].pc \notin {"abortRemove", "failRemove", "init"} /\ UNCHANGED <<status, entries, frame>>
    BY <1>3 DEF TakeStaged, UploadToWorkers, FanoutDeferralStates, Restage, CallDropped
  <2>2. calls'[c].pc # "init"
    <3>1. CASE TakeStaged(c)
      BY <3>1 DEF TakeStaged, CallTypes, Started
    <3>2. CASE ~TakeStaged(c)
      BY <1>3, <3>2, GotoCalls, ReturnCalls, NoStartType
         DEF UploadToWorkers, FanoutDeferralStates, Restage, CallDropped
    <3> QED BY <3>1, <3>2
  <2> QED BY <1>a, <1>b, <2>1, <2>2 DEF SlotHasOwner
<1>4. CASE FailStart(c)
  <2> DEFINE q == calls[c].proof
  <2>1. /\ q \in Proofs /\ calls'[c].proof = q /\ calls'[c].pc \in {"abortRemove", "failRemove"}
        /\ calls[c].pc \notin {"abortRemove", "failRemove"}
    BY <1>0, <1>4, GotoCalls DEF FailStart
  <2>2. GivesBack(q)'
    BY <2>1 DEF GivesBack
  <2>3. /\ \A p \in Proofs \ {q} : state'[p] = state[p]
        /\ disturbed \subseteq disturbed'
        /\ state'[q] = state[q] \/ (Admitting(q) => q \in disturbed')
        /\ UNCHANGED <<entries, finalizing, canceling>>
    BY <1>4, <2>1, ChangeDisturbs DEF FailStart, Status
  <2>4. ASSUME NEW d \in Calls \ {c}, calls[d].pc = "init"
        PROVE  state'[calls[d].proof] = "InProgress" \/ calls[d].proof \in disturbed'
    <3>1. calls[d].proof \in Proofs /\ (calls[d].proof = q => Admitting(q))
      BY <2>4 DEF CallTypes, Admitting
    <3> QED BY <2>3, <2>4, <3>1
  <2>5. SlotHasOwner'
    <3> HIDE DEF SlotInv
    <3>1. entries \subseteq Proofs
      BY DEF OtherTypes
    <3> QED BY <1>b, <2>1, <2>2, <2>3, <3>1 DEF SlotHasOwner, SlotInv
  <2> QED BY <1>a, <2>1, <2>4, <2>5
<1>5. CASE FailStartRemove(c)
  <2>1. \A p : GivesBack(p) => p = calls[c].proof \/ GivesBack(p)'
    BY <1>a DEF GivesBack
  <2>2. calls'[c].pc # "init"
    BY <1>5, ReturnCalls, NoStartType DEF FailStartRemove
  <2> QED BY <1>5, <1>a, <2>1, <2>2 DEF SlotHasOwner, FailStartRemove
<1>6. CASE Dispatch(c)
  <2> DEFINE q == calls[c].proof
  <2>1. q \in Proofs /\ calls'[c].pc # "init" /\ calls[c].pc \notin {"abortRemove", "failRemove"}
    BY <1>0, <1>6, ReturnCalls, NoStartType DEF Dispatch
  <2>2. /\ \A p \in Proofs \ {q} : state'[p] = state[p]
        /\ disturbed \subseteq disturbed'
        /\ \/ state'[q] = state[q]
           \/ state'[q] = "Failing" /\ (Admitting(q) => q \in disturbed')
        /\ UNCHANGED <<entries, finalizing, canceling>>
    <3>1. CASE state[q] = "InProgress" /\ Status(q, "Failing")
      <4>1. state'[q] = "Failing"
        BY <2>1, <3>1 DEF Status, Change, OtherTypes
      <4> QED BY <1>6, <2>1, <3>1, <4>1, ChangeDisturbs DEF Dispatch, Status
    <3>2. CASE UNCHANGED status
      BY <1>6, <3>2 DEF Dispatch
    <3> QED BY <1>6, <3>1, <3>2 DEF Dispatch
  <2>3. ASSUME NEW d \in Calls \ {c}, calls[d].pc = "init"
        PROVE  state'[calls[d].proof] = "InProgress" \/ calls[d].proof \in disturbed'
    <3>1. calls[d].proof \in Proofs /\ (calls[d].proof = q => Admitting(q))
      BY <2>3 DEF CallTypes, Admitting
    <3> QED BY <2>2, <2>3, <3>1
  <2>4. SlotHasOwner'
    <3>1. entries \subseteq Proofs
      BY DEF OtherTypes
    <3> QED BY <1>b, <2>1, <2>2, <3>1 DEF SlotHasOwner
  <2> QED BY <1>a, <2>1, <2>3, <2>4
<1> QED BY <1>1, <1>2, <1>3, <1>4, <1>5, <1>6 DEF StartStep

\* So do clients, workers, the watchdog and eviction.
LEMMA ProofStepOwner ==
    ASSUME CallTypes, OtherTypes, SlotInv, NEW p \in Proofs, ProofStep(p)
    PROVE  SlotInv'
<1> USE DEF SlotInv, frame, status, files
<1>0. UNCHANGED calls /\ \A q : GivesBack(q)' <=> GivesBack(q)
  BY ProofStepCalls DEF GivesBack
<1>a. \A c \in Calls : calls[c].pc = "init" =>
        calls[c].proof \in Proofs /\ Admitting(calls[c].proof)
  BY DEF CallTypes, Admitting
<1>b. entries \subseteq Proofs
  BY DEF OtherTypes
<1>1. CASE \E what \in Contents : UploadInput(p, what)
  BY <1>0, <1>1 DEF SlotHasOwner, UploadInput
<1>2. ASSUME NEW s, Change(p, s), UNCHANGED entries,
             \A q \in Proofs \ {p} : finalizing'[q] = finalizing[q],
             finalizing'[p] = "idle" => finalizing[p] = "idle",
             canceling \subseteq canceling',
             \/ s \in {"Ready", "Failing"} \/ finalizing'[p] # "idle" \/ p \in canceling'
      PROVE  SlotInv'
  <2>1. /\ disturbed \subseteq disturbed' /\ (Admitting(p) => p \in disturbed')
        /\ \A q \in Proofs \ {p} : state'[q] = state[q]
    BY <1>2, ChangeDisturbs
  <2>2. state'[p] = s
    BY <1>2 DEF Change, OtherTypes
  <2>3. SlotHasOwner'
    BY <1>0, <1>2, <1>b, <2>1, <2>2 DEF SlotHasOwner
  <2> QED BY <1>0, <1>a, <2>1, <2>3
<1>3. CASE Cancel(p)
  <2>1. Change(p, "Canceled") /\ p \in canceling'
    BY <1>3 DEF Cancel, Status
  <2> QED BY <1>2, <1>3, <2>1 DEF Cancel
<1>4. CASE Timeout(p)
  <2>1. Change(p, "Failing")
    BY <1>4 DEF Timeout, Status
  <2> QED BY <1>2, <1>4, <2>1 DEF Timeout
<1>5. CASE LastResult(p)
  <2>1. PICK s \in {"Ready", "Failing"} : Change(p, s)
    BY <1>5 DEF LastResult, Touched
  <2> QED BY <1>2, <1>5, <2>1 DEF LastResult
<1>6. CASE Drained(p) \/ PersistWrite(p) \/ PersistRename(p) \/ Publish(p)
  <2>1. /\ \A q \in Proofs \ {p} : finalizing'[q] = finalizing[q]
        /\ finalizing'[p] # "idle"
        /\ UNCHANGED <<entries, canceling>>
    BY <1>6 DEF Drained, PersistWrite, PersistRename, PersistFails, Rename, Publish, OtherTypes
  <2>2. UNCHANGED status \/ \E s \in Terminal : Change(p, s)
    BY <1>6 DEF Drained, PersistWrite, PersistRename, PersistFails, Rename, Publish, Status, Touched,
                Terminal
  <2>3. CASE UNCHANGED status
    BY <1>0, <1>b, <2>1, <2>3 DEF SlotHasOwner
  <2> QED BY <1>2, <2>1, <2>2, <2>3
<1>7. CASE JitPushed(p) \/ OrphanSweep(p) \/ ShardsOver(p) \/ Age(p)
  BY <1>0, <1>7 DEF SlotHasOwner, JitPushed, OrphanSweep, ShardsOver, Age
<1>8. CASE CancelRemove(p) \/ CancelNoStatus(p)
  BY <1>0, <1>8 DEF SlotHasOwner, CancelRemove, CancelNoStatus
<1>9. CASE FinalizeReady(p) \/ FinalizeStart(p)
  BY <1>0, <1>9 DEF SlotHasOwner, FinalizeReady, FinalizeStart, OtherTypes
<1>10. CASE FinalizeRemove(p)
  BY <1>0, <1>10 DEF SlotHasOwner, FinalizeRemove, Disturb
<1>11. CASE Evict(p)
  <2>1. /\ disturbed \subseteq disturbed' /\ (state[p] = "InProgress" => p \in disturbed')
        /\ \A q \in Proofs \ {p} : state'[q] = state[q]
        /\ UNCHANGED <<entries, finalizing, canceling>>
    BY <1>11 DEF Evict, Disturb, OtherTypes
  <2>2. state[p] \notin {"Ready", "Failing"}
    BY <1>11 DEF Evict, should_evict, Terminal
  <2>3. SlotHasOwner'
    BY <1>0, <1>b, <2>1, <2>2 DEF SlotHasOwner
  <2> QED BY <1>0, <1>a, <2>1, <2>3
<1> QED BY <1>1, <1>3, <1>4, <1>5, <1>6, <1>7, <1>8, <1>9, <1>10, <1>11
        DEF ProofStep, Task, FinalizeStep

\* The slot of the single active proof is never lost: its proof is alive, or a task
\* that will free the slot is under way, unless one of the three coincidences has met
\* this very proof since its admission; whatever Rare allows, and others it met.
THEOREM SlotHasOwnerHolds == Spec => []SlotHasOwner
<1>1. Init => SlotInv
  BY NoStartType DEF Init, SlotInv, SlotHasOwner
<1>2. TypeOK /\ SlotInv /\ [Next]_vars => SlotInv'
  <2> SUFFICES ASSUME TypeOK, SlotInv, [Next]_vars PROVE SlotInv'
    OBVIOUS
  <2>0. CallTypes /\ OtherTypes
    BY TypeParts
  <2>1. CASE UNCHANGED lifecycleVars
    BY <2>1 DEF lifecycleVars, status, SlotInv, SlotHasOwner, GivesBack
  <2>2. ASSUME NEW c \in Calls, NEW p \in Proofs, NEW pre \in BOOLEAN, StartReady(c, p, pre)
        PROVE  SlotInv'
    <3>1. /\ calls[c].pc = "idle" /\ calls'[c].pc = "gate"
          /\ \A d \in Calls \ {c} : calls'[d] = calls[d]
      BY <2>0, <2>2, NoStartType DEF StartReady, CallTypes
    <3>2. \A q : GivesBack(q) => GivesBack(q)'
      BY <3>1, OthersGiveBack
    <3> QED BY <2>2, <3>1, <3>2 DEF StartReady, frame, status, SlotInv, SlotHasOwner
  <2>3. ASSUME NEW c \in Calls, StartStep(c) \/ CallDropped(c) PROVE SlotInv'
    BY <2>0, <2>3, StartStepOwner
  <2>4. ASSUME NEW p \in Proofs, ProofStep(p) PROVE SlotInv'
    BY <2>0, <2>4, ProofStepOwner
  <2>5. CASE Crash
    BY <2>5, NoStartType DEF Crash, SlotInv, SlotHasOwner
  <2> QED BY <2>1, <2>2, <2>3, <2>4, <2>5, NextCases DEF vars
<1>3. SlotInv => SlotHasOwner
  BY DEF SlotInv
<1> QED BY <1>1, <1>2, <1>3, LifecycleTypes, PTL DEF Spec
-----------------------------------------------------------------------------
(* The shards of an admitted proof *)

\* The two maps of the registry, with calls of register between their lookups and
\* their inserts: a worker that is registered, and not overwritten by a racing call,
\* is so under the id that its URL is bound to.
RegistryInv ==
    /\ \A i \in Ids : workers[i] # NoWorker =>
          workers[i].url \in Urls /\ url_to_id[workers[i].url] = i
    /\ \A u \in Urls : registering[u] # NoCall =>
          /\ url_to_id[u] = NoId
          /\ registering[u].id \in Ids /\ registering[u].role \in WorkerRoles
    /\ \A u \in Urls : url_to_id[u] \in Ids => workers[url_to_id[u]] # NoWorker

\* register keeps the maps in step.
LEMMA RegisterKeepsMaps ==
    ASSUME RegistryTypes, RegistryInv, NEW u \in Urls, Register(u)
    PROVE  RegistryInv'
<1> USE RegistryAssumption DEF RegistryTypes, RegistryInv, Registered
<1>1. ASSUME NEW id \in Claims[u] \cap Ids, NEW role \in RolesOf[u], RegisterAgain(u, id, role)
      PROVE  RegistryInv'
  <2>1. workers[id] # NoWorker
    BY <1>1 DEF RegisterAgain
  <2>2. /\ workers'[id].url = workers[id].url
        /\ workers'[id] # NoWorker
        /\ \A i \in Ids \ {id} : workers'[i] = workers[i]
    BY <1>1 DEF RegisterAgain, NoWorker, WorkerRoles, None
  <2> QED BY <1>1, <2>1, <2>2 DEF RegisterAgain
<1>2. ASSUME NEW id \in Claims[u] \cap Ids, NEW role \in RolesOf[u], RegisterCheck(u, id, role)
      PROVE  RegistryInv'
  BY <1>2 DEF RegisterCheck
<1>3. CASE RegisterInsert(u)
  <2> DEFINE id == registering[u].id
  <2>1. id \in Ids /\ registering[u].role \in WorkerRoles /\ url_to_id[u] = NoId
    BY <1>3 DEF RegisterInsert
  <2>2. /\ workers'[id].url = u /\ workers'[id] # NoWorker
        /\ \A i \in Ids \ {id} : workers'[i] = workers[i]
    BY <1>3, <2>1 DEF RegisterInsert, NoWorker, WorkerRoles, None
  <2>3. /\ url_to_id'[u] = id
        /\ \A v \in Urls \ {u} : url_to_id'[v] = url_to_id[v]
    BY <1>3 DEF RegisterInsert
  <2>4. /\ registering'[u] = NoCall
        /\ \A v \in Urls \ {u} : registering'[v] = registering[v]
    BY <1>3 DEF RegisterInsert
  <2>5. NoId \notin Ids
    BY DEF NoId, Ids
  <2> HIDE DEF id
  <2>6. ASSUME NEW i \in Ids, workers'[i] # NoWorker
        PROVE  workers'[i].url \in Urls /\ url_to_id'[workers'[i].url] = i
    <3>1. CASE i = id
      BY <2>2, <2>3, <3>1
    <3>2. CASE i # id
      <4>1. workers'[i] = workers[i] /\ workers[i].url \in Urls /\ url_to_id[workers[i].url] = i
        BY <2>2, <2>6, <3>2
      <4> QED BY <2>1, <2>3, <2>5, <4>1
    <3> QED BY <3>1, <3>2
  <2>7. ASSUME NEW v \in Urls, url_to_id'[v] \in Ids PROVE workers'[url_to_id'[v]] # NoWorker
    BY <2>2, <2>3, <2>7
  <2>8. ASSUME NEW v \in Urls, registering'[v] # NoCall
        PROVE  /\ url_to_id'[v] = NoId
               /\ registering'[v].id \in Ids /\ registering'[v].role \in WorkerRoles
    BY <2>3, <2>4, <2>8
  <2> QED BY <2>6, <2>7, <2>8
<1> QED BY <1>1, <1>2, <1>3 DEF Register

\* What ready_workers lets through: different workers, and no hole among the
\* app-eligible ids.
Whole(ws) ==
    /\ \A i, j \in Ids : ws[i].url = ws[j].url => i = j
    /\ \A i \in app_eligible_workers(ws) : \A j \in 0..i : RunsStark(ws[j].role)

\* A complete registry with a gapless prefix gives whole shards.
LEMMA ReadyIsWhole == ASSUME RegistryInv, ready_workers(workers) PROVE Whole(workers)
<1> DEFINE E == app_eligible_workers(workers)
<1>1. Cardinality(E) \in Nat
  <2>1. IsFiniteSet(Ids)
    BY FS_Interval, RegistryAssumption DEF Ids
  <2>2. E \subseteq Ids
    BY DEF app_eligible_workers
  <2> QED BY <2>1, <2>2, FS_Subset, FS_CardinalityType
<1>2. E = 0..(Cardinality(E) - 1)
  BY DEF ready_workers
<1>3. ASSUME NEW i \in E, NEW j \in 0..i PROVE RunsStark(workers[j].role)
  <2> HIDE DEF E
  <2>1. j \in E
    BY <1>1, <1>2, <1>3
  <2> QED BY <2>1 DEF E, app_eligible_workers
<1> QED BY <1>3 DEF Whole, RegistryInv, ready_workers

\* A call keeps the workers it began with.
LEMMA StartStepWorkers ==
    ASSUME CallTypes, NEW c \in Calls, StartStep(c) \/ CallDropped(c), NEW d \in Calls
    PROVE  \/ calls'[d] = NoStart
           \/ calls[d] # NoStart /\ calls'[d].workers = calls[d].workers
<1>0. calls[c] # NoStart
  BY NoStartType DEF StartStep, Admit, InitProof, TakeStaged, UploadToWorkers, FanoutDeferralStates,
         Restage, FailStart, FailStartRemove, Dispatch, CallDropped
<1>1. ASSUME NEW l, Goto(c, l) PROVE calls'[d].workers = calls[d].workers /\ (d # c => calls'[d] = calls[d])
  BY <1>1 DEF CallTypes, Goto, Started
<1>2. ASSUME TakeStaged(c) PROVE calls'[d].workers = calls[d].workers /\ (d # c => calls'[d] = calls[d])
  BY <1>2 DEF CallTypes, TakeStaged, Started
<1> QED BY <1>0, <1>1, <1>2, ReturnCalls
        DEF StartStep, Admit, InitProof, UploadToWorkers, FanoutDeferralStates,
            Restage, FailStart, FailStartRemove, Dispatch, CallDropped

\* The shards of an admitted proof are whole, for every deployment, whatever ids
\* the configurations claim and however registrations and restarts race.
THEOREM ShardsCoveredHolds == Spec => []ShardsCovered
<1> DEFINE Covered == RegistryInv /\ \A c \in Calls : calls[c] # NoStart => Whole(calls[c].workers)
<1>1. Init => Covered
  BY DEF Init, NoRegistrations, RegistryInv, Ids, NoId
<1>2. TypeOK /\ Covered /\ [Next]_vars => Covered'
  <2> SUFFICES ASSUME TypeOK, Covered, [Next]_vars PROVE Covered'
    OBVIOUS
  <2>0. RegistryTypes /\ CallTypes
    BY TypeParts
  <2>1. ASSUME NEW u \in Urls, Register(u), UNCHANGED lifecycleVars PROVE Covered'
    BY <2>0, <2>1, RegisterKeepsMaps DEF lifecycleVars, Whole, app_eligible_workers
  <2>2. UNCHANGED registryVars => RegistryInv'
    BY DEF registryVars, RegistryInv
  <2>3. ASSUME NEW c \in Calls, NEW p \in Proofs, NEW pre \in BOOLEAN,
               StartReady(c, p, pre), UNCHANGED registryVars
        PROVE  Covered'
    <3>1. calls'[c].workers = workers /\ \A d \in Calls \ {c} : calls'[d] = calls[d]
      BY <2>0, <2>3 DEF StartReady, CallTypes
    <3>2. Whole(workers)
      BY <2>3, ReadyIsWhole DEF StartReady
    <3> QED BY <2>2, <2>3, <3>1, <3>2 DEF Whole, app_eligible_workers
  <2>4. ASSUME NEW c \in Calls, StartStep(c) \/ CallDropped(c), UNCHANGED registryVars
        PROVE  Covered'
    BY <2>0, <2>2, <2>4, StartStepWorkers DEF Whole, app_eligible_workers
  <2>5. ASSUME NEW p \in Proofs, ProofStep(p), UNCHANGED registryVars PROVE Covered'
    BY <2>2, <2>5, ProofStepCalls DEF Whole, app_eligible_workers
  <2>6. CASE Crash
    BY <2>6 DEF Crash, RegistryInv, Ids, NoId
  <2>7. CASE UNCHANGED vars
    BY <2>2, <2>7 DEF vars, lifecycleVars, Whole, app_eligible_workers
  <2> QED BY <2>1, <2>3, <2>4, <2>5, <2>6, <2>7, NextCases
<1>3. Covered => ShardsCovered
  BY DEF ShardsCovered, Whole
<1> QED BY <1>1, <1>2, <1>3, LifecycleTypes, PTL DEF Spec
=============================================================================

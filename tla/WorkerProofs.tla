----------------------------- MODULE WorkerProofs -----------------------------
(***************************************************************************)
(* Proofs about Worker, for every finite set of proofs, every choice of    *)
(* those with deferral and of type Evm, and any room in /dev/shm: its      *)
(* types, that an accepted job finds its files but for the one race the    *)
(* janitor leaves open, that each accepted request is answered once, and   *)
(* that what is answered last is complete.                                 *)
(***************************************************************************)
EXTENDS Worker, FiniteSetTheorems, TLAPS

Files == {"input", "state", "deferral_input"}

\* What a step of the worker does to its input files.
InputsNext ==
    \/ \E p \in Proofs :
         \/ UploadStep(p) \/ AppStep(p) \/ InputsFault(p) \/ Age(p)
         \/ ReadDeferralInputs(p)
         \/ /\ tail[p] # "none" /\ tail' = [tail EXCEPT ![p] = "over"]
            /\ UNCHANGED <<disk, old, active, upload, app, cleaner, started, raced>>
    \/ JanitorTick
    \/ \E c \in Cleaners : CleanerStep(c)
    \/ UNCHANGED inputVars

\* A scan that is about to remove a directory has a proof's.
CleanersOnProofs ==
    \A c \in Cleaners : cleaner[c].pc \in {"recheck", "delete"} => cleaner[c].dir \in Proofs

Scans == [pc : {"scan", "recheck", "delete"}, todo : SUBSET Proofs, dir : Cleaners]
InputTypes ==
    /\ disk \in [Proofs -> SUBSET (Files \cup {Tmp})]
    /\ old \subseteq {p \in Proofs : disk[p] # {}}
    /\ active \subseteq Proofs
    /\ upload \in [Proofs -> Files \cup {"none"}]
    /\ app \in [Proofs -> {"new", "input", "uploaded", "waiting", "accepted", "proving", "posted",
                           "refuse", "cleanup", "discard", "dropped", "done", "over"}]
    /\ tail \in [Proofs -> {"none", "pushed", "read", "over"}]
    /\ cleaner \in [Cleaners -> Scans]
    /\ CleanersOnProofs

\* No scan is about to remove the directory of p.
NotReclaimed(p) == \A c \in Cleaners : ~Deletes(c, p)

\* A scan with nothing chosen and some directories ahead of it.
Ahead(todo) == [Idle EXCEPT !.todo = todo]

\* What the record of such a scan holds.
LEMMA AheadScans ==
    ASSUME NEW todo \in SUBSET Proofs
    PROVE  Ahead(todo) \in Scans /\ Ahead(todo).pc = "scan"
BY DEF Ahead, Scans, Idle, Cleaners
-----------------------------------------------------------------------------
(* Types *)

\* The input files change only by what WorkerInputs says.
LEMMA StepsOnInputs == [Next]_vars => InputsNext
<1>. SUFFICES ASSUME [Next]_vars PROVE InputsNext
  OBVIOUS
<1>1. CASE InputsStep
  BY <1>1 DEF InputsStep, InputsNext, TailAbandoned
<1>2. CASE \E p \in Proofs, step \in Steps : Accept(p, step) \/ Refuse(p, step)
  BY <1>2 DEF Accept, Refuse, InputsNext
<1>3. ASSUME NEW p \in Proofs, RequestStep(p) PROVE InputsNext
  <2>1. CASE LeafProved(p) \/ InternalProved(p) \/ RootProved(p) \/ Halo2Proved(p)
    BY <2>1 DEF LeafProved, InternalProved, RootProved, Halo2Proved, InputsNext
  <2>2. CASE TailMergeReads(p)
    BY <2>2 DEF TailMergeReads, InputsNext
  <2>3. ASSUME NEW a, TailMergeProves(p, a) PROVE InputsNext
    BY <2>3 DEF TailMergeProves, InputsNext
  <2>. QED  BY <1>3, <2>1, <2>2, <2>3 DEF RequestStep, DriveStarkDeferralMergeAndPost,
                                          DriveEvmPrepAndPost, InputsNext
<1>4. CASE UNCHANGED vars
  BY <1>4 DEF vars, InputsNext
<1>. QED  BY <1>1, <1>2, <1>3, <1>4 DEF Next

\* A write keeps the directories' types and leaves only whole files.
LEMMA WriteTypes ==
    ASSUME InputTypes, NEW p \in Proofs, NEW f \in Files, WriteFile(p, f)
    PROVE  /\ disk' \in [Proofs -> SUBSET (Files \cup {Tmp})]
           /\ old' \subseteq {q \in Proofs : disk'[q] # {}}
BY DEF InputTypes, WriteFile

\* Every step keeps the types of the input files.
LEMMA InputTypesNext == InputTypes /\ InputsNext => InputTypes'
<1>. SUFFICES ASSUME InputTypes, InputsNext PROVE InputTypes'
  OBVIOUS
<1>0. ASSUME NEW p \in Proofs, NEW f, NEW ok, Uploaded(p, f, ok)
      PROVE  /\ app' \in [Proofs -> {"new", "input", "uploaded", "waiting", "accepted", "proving",
                             "posted", "refuse", "cleanup", "discard", "dropped", "done", "over"}]
             /\ tail' \in [Proofs -> {"none", "pushed", "read", "over"}]
  BY <1>0 DEF Uploaded, App, InputTypes
<1>1. ASSUME NEW p \in Proofs, NEW f \in Files, Upload(p, f) PROVE InputTypes'
  <2>1. active' = active /\ WriteFile(p, f)
    BY <1>1 DEF Upload
  <2>2. upload' \in [Proofs -> Files \cup {"none"}]
    BY <1>1 DEF Upload, InputTypes
  <2>3. cleaner' \in [Cleaners -> Scans] /\ CleanersOnProofs'
    <3>1. CASE UNCHANGED cleaner
      BY <3>1 DEF InputTypes, CleanersOnProofs
    <3>2. CASE cleaner' = [cleaner EXCEPT ![p] = Ahead({q \in Proofs : disk'[q] # {}})]
      <4>1. cleaner' \in [Cleaners -> Scans]
        BY <3>2, AheadScans DEF InputTypes
      <4>. QED  BY <3>2, <4>1, AheadScans DEF InputTypes, CleanersOnProofs
    <3>. QED  BY <1>1, <3>1, <3>2 DEF Upload, Ahead
  <2>4. CASE UNCHANGED <<app, tail>>
    BY <2>1, <2>2, <2>3, <2>4, WriteTypes DEF InputTypes
  <2>5. CASE Uploaded(p, f, TRUE)
    BY <1>0, <2>1, <2>2, <2>3, <2>5, WriteTypes DEF InputTypes
  <2>. QED  BY <1>1, <2>4, <2>5 DEF Upload
<1>2. ASSUME NEW p \in Proofs, UploadStep(p) PROVE InputTypes'
  <2>1. CASE UploadInput(p) \/ UploadDeferralState(p) \/ UploadDeferralInput(p)
    BY <1>1, <2>1 DEF UploadInput, UploadDeferralState, UploadDeferralInput, Files
  <2>2. CASE UploadRetry(p)
    <3>1. upload[p] \in Files /\ WriteFile(p, upload[p])
      BY <2>2 DEF InputTypes, UploadRetry
    <3>2. upload' \in [Proofs -> Files \cup {"none"}]
      BY <2>2 DEF InputTypes, UploadRetry
    <3>3. CleanersOnProofs' /\ UNCHANGED <<active, cleaner>>
      BY <2>2 DEF InputTypes, CleanersOnProofs, UploadRetry
    <3>4. Uploaded(p, upload[p], ~NoSpace)
      BY <2>2 DEF UploadRetry
    <3>. QED  BY <1>0, <3>1, <3>2, <3>3, <3>4, WriteTypes DEF InputTypes
  <2>. QED  BY <1>2, <2>1, <2>2 DEF UploadStep
<1>3. ASSUME NEW p \in Proofs, AppStep(p) \/ InputsFault(p) PROVE InputTypes'
  <2>. USE DEF InputTypes, App, CleanersOnProofs
  <2>1. CASE Kickoff(p) \/ KickoffAccepted(p) \/ KickoffTimesOut(p) \/ ReadInputs(p)
    BY <2>1 DEF Kickoff, KickoffAccepted, KickoffTimesOut, ReadInputs
  <2>2. CASE LastResultPosted(p) \/ CleanupMark(p)
    BY <2>2 DEF LastResultPosted, CleanupMark
  <2>3. CASE CleanupUploadedInputDir(p)
    BY <2>3 DEF CleanupUploadedInputDir
  <2>4. CASE InputsFault(p)
    BY <2>4 DEF InputsFault, ManagerGivesUp, KickoffRefused, KickoffDropped
  <2>. QED  BY <1>3, <2>1, <2>2, <2>3, <2>4 DEF AppStep
<1>4. ASSUME NEW p \in Proofs, Age(p) \/ ReadDeferralInputs(p) PROVE InputTypes'
  BY <1>4 DEF InputTypes, CleanersOnProofs, Age, ReadDeferralInputs
<1>5. ASSUME NEW p \in Proofs, tail[p] # "none", tail' = [tail EXCEPT ![p] = "over"],
             UNCHANGED <<disk, old, active, upload, app, cleaner, started, raced>>
      PROVE  InputTypes'
  BY <1>5 DEF InputTypes, CleanersOnProofs
<1>6. ASSUME NEW c \in Cleaners, NEW todo \in SUBSET Proofs,
             cleaner' = [cleaner EXCEPT ![c] = Ahead(todo)]
      PROVE  cleaner' \in [Cleaners -> Scans] /\ CleanersOnProofs'
  <2>1. cleaner' \in [Cleaners -> Scans]
    BY <1>6, AheadScans DEF InputTypes
  <2>. QED  BY <1>6, <2>1, AheadScans DEF InputTypes, CleanersOnProofs
<1>7. ASSUME NEW c \in Cleaners, JanitorTick \/ CleanerStep(c) PROVE InputTypes'
  <2>0. cleaner[c].todo \subseteq Proofs
    BY DEF InputTypes, Scans
  <2>1. ASSUME NEW p \in Proofs, CleanerScan(c, p) PROVE InputTypes'
    <3>1. UNCHANGED <<disk, old, active, upload, app, tail>>
      BY <2>1 DEF CleanerScan
    <3>2. CASE Stale(p)
      <4>1. cleaner' = [cleaner EXCEPT ![c] =
                          [pc |-> "recheck", todo |-> cleaner[c].todo \ {p}, dir |-> p]]
        BY <2>1, <3>2 DEF CleanerScan, InputTypes
      <4>. QED  BY <2>0, <3>1, <4>1 DEF InputTypes, CleanersOnProofs, Scans, Cleaners
    <3>3. CASE ~Stale(p)
      <4>1. cleaner' = [cleaner EXCEPT ![c] = Ahead(cleaner[c].todo \ {p})]
        BY <2>1, <3>3 DEF CleanerScan, InputTypes, Ahead
      <4>2. cleaner[c].todo \ {p} \in SUBSET Proofs
        BY <2>0
      <4>3. cleaner' \in [Cleaners -> Scans] /\ CleanersOnProofs'
        BY <1>6, <4>1, <4>2
      <4>. QED  BY <3>1, <4>3 DEF InputTypes
    <3>. QED  BY <3>2, <3>3
  <2>2. CASE CleanerRecheck(c)
    <3>1. UNCHANGED <<disk, old, active, upload, app, tail>>
      BY <2>2 DEF CleanerRecheck
    <3>2. CASE cleaner[c].dir \in active
      <4>1. cleaner' = [cleaner EXCEPT ![c] = Ahead(cleaner[c].todo)]
        BY <2>2, <3>2 DEF CleanerRecheck, InputTypes, Ahead
      <4>. QED  BY <1>6, <2>0, <3>1, <4>1 DEF InputTypes
    <3>3. CASE cleaner[c].dir \notin active
      <4>1. cleaner' = [cleaner EXCEPT ![c] = [cleaner[c] EXCEPT !.pc = "delete"]]
        BY <2>2, <3>3 DEF CleanerRecheck, InputTypes
      <4>2. cleaner[c].dir \in Proofs
        BY <2>2 DEF CleanerRecheck, InputTypes, CleanersOnProofs
      <4>. QED  BY <3>1, <4>1, <4>2 DEF InputTypes, CleanersOnProofs, Scans
    <3>. QED  BY <3>2, <3>3
  <2>3. CASE CleanerDelete(c)
    <3>1. cleaner' \in [Cleaners -> Scans] /\ CleanersOnProofs'
      BY <1>6, <2>0, <2>3 DEF CleanerDelete, Ahead
    <3>. QED  BY <2>3, <3>1 DEF InputTypes, CleanerDelete
  <2>4. CASE JanitorTick
    <3>1. Janitor \in Cleaners /\ {q \in Proofs : disk[q] # {}} \subseteq Proofs
      BY DEF Cleaners
    <3>2. cleaner' \in [Cleaners -> Scans] /\ CleanersOnProofs'
      BY <1>6, <2>4, <3>1 DEF JanitorTick, Ahead
    <3>. QED  BY <2>4, <3>2 DEF InputTypes, JanitorTick
  <2>. QED  BY <1>7, <2>1, <2>2, <2>3, <2>4 DEF CleanerStep
<1>8. CASE UNCHANGED inputVars
  BY <1>8 DEF InputTypes, CleanersOnProofs, inputVars
<1>. QED  BY <1>2, <1>3, <1>4, <1>5, <1>7, <1>8 DEF InputsNext, Cleaners

\* Nothing has been uploaded in the initial state.
LEMMA InputTypesInit == Init => InputTypes
BY DEF Init, NoInputs, InputTypes, CleanersOnProofs, Scans, Idle, Cleaners

\* The types of the input files are an invariant of the worker.
LEMMA InputTypesHold == Spec => []InputTypes
BY InputTypesInit, InputTypesNext, StepsOnInputs, PTL DEF Spec
-----------------------------------------------------------------------------
(* /dev/shm holds no more than fits *)

Held == UNION {{p} \X (disk[p] \ {Tmp}) : p \in Proofs}
Fits == Cardinality(Held) <= Capacity

\* The files are finitely many.
LEMMA HeldFinite ==
    ASSUME InputTypes
    PROVE  /\ IsFiniteSet(Held) /\ Cardinality(Held) \in Nat
           /\ \A S \in SUBSET Held : Cardinality(S) \in Nat /\ Cardinality(S) <= Cardinality(Held)
<1>1. IsFiniteSet(Files)
  <2>1. Files = ({"input"} \cup {"state"}) \cup {"deferral_input"}
    BY DEF Files
  <2>. QED  BY <2>1, FS_Singleton, FS_Union
<1>2. IsFiniteSet(Proofs \X Files)
  BY <1>1, InputsAssumption, FS_Product
<1>3. Held \subseteq Proofs \X Files
  BY DEF Held, InputTypes
<1>4. IsFiniteSet(Held)
  BY <1>2, <1>3, FS_Subset
<1>. QED  BY <1>4, FS_Subset, FS_CardinalityType

\* A step that adds no file keeps what is held within bounds.
LEMMA NoFileAdded ==
    ASSUME InputTypes, Fits, \A p \in Proofs : disk'[p] \subseteq disk[p] \cup {Tmp}
    PROVE  Fits'
<1>1. Held' \subseteq Held
  BY DEF Held
<1>. QED  BY <1>1, HeldFinite, InputsAssumption DEF Fits

\* Nor does a write: one that finds no space leaves no file.
LEMMA WriteFits ==
    ASSUME InputTypes, Fits, NEW p \in Proofs, NEW f \in Files, WriteFile(p, f)
    PROVE  Fits'
<1>1. CASE NoSpace
  <2>1. \A q \in Proofs : disk'[q] \subseteq disk[q] \cup {Tmp}
    BY <1>1 DEF WriteFile, InputTypes
  <2>. QED  BY <2>1, NoFileAdded
<1>2. CASE ~NoSpace
  <2>1. Cardinality(Held) < Capacity
    BY <1>2, HeldFinite, InputsAssumption DEF NoSpace, Held
  <2>2. Held' \subseteq Held \cup {<<p, f>>}
    <3>1. \A q \in Proofs : disk'[q] \subseteq disk[q] \cup (IF q = p THEN {f} ELSE {})
      BY <1>2 DEF WriteFile, InputTypes
    <3>. QED  BY <3>1 DEF Held
  <2>3. /\ IsFiniteSet(Held \cup {<<p, f>>})
        /\ Cardinality(Held \cup {<<p, f>>}) <= Cardinality(Held) + 1
    <3>. DEFINE S == Held
                x == <<p, f>>
    <3>1. IsFiniteSet(S) /\ Cardinality(S) \in Nat
      BY HeldFinite
    <3>. HIDE DEF S, x
    <3>2. /\ IsFiniteSet(S \cup {x})
          /\ Cardinality(S \cup {x}) = IF x \in S THEN Cardinality(S) ELSE Cardinality(S) + 1
      BY <3>1, FS_AddElement
    <3>3. IsFiniteSet(S \cup {x}) /\ Cardinality(S \cup {x}) <= Cardinality(S) + 1
      BY <3>1, <3>2
    <3>. QED  BY <3>3 DEF S, x
  <2>4. Cardinality(Held') <= Cardinality(Held \cup {<<p, f>>})
    BY <2>2, <2>3, FS_Subset
  <2>5. Cardinality(Held') \in Nat /\ Cardinality(Held \cup {<<p, f>>}) \in Nat
    BY <2>2, <2>3, FS_Subset, FS_CardinalityType
  <2>. QED  BY <2>1, <2>3, <2>4, <2>5, HeldFinite, InputsAssumption DEF Fits
<1>. QED  BY <1>1, <1>2

\* The types of the worker's input files hold and /dev/shm is never overfull,
\* whatever uploads, retries, scans and cleanups interleave.
THEOREM WorkerTypesHold == Spec => []TypeOK
<1>1. Init => Fits
  <2>. SUFFICES ASSUME Init PROVE Fits
    OBVIOUS
  <2>1. Held = {}
    BY DEF Init, NoInputs, Held
  <2>. QED  BY <2>1, FS_EmptySet, InputsAssumption DEF Fits
<1>2. InputTypes /\ Fits /\ InputsNext => Fits'
  <2>. SUFFICES ASSUME InputTypes, Fits, InputsNext PROVE Fits'
    OBVIOUS
  <2>1. ASSUME NEW p \in Proofs, UploadStep(p) PROVE Fits'
    <3>1. CASE UploadInput(p) \/ UploadDeferralState(p) \/ UploadDeferralInput(p)
      BY <3>1, WriteFits DEF UploadInput, UploadDeferralState, UploadDeferralInput, Upload, Files
    <3>2. CASE UploadRetry(p)
      BY <3>2, WriteFits DEF UploadRetry, InputTypes
    <3>. QED  BY <2>1, <3>1, <3>2 DEF UploadStep
  <2>2. ASSUME NEW p \in Proofs, AppStep(p) \/ InputsFault(p) PROVE Fits'
    <3>1. \A q \in Proofs : disk'[q] \subseteq disk[q] \cup {Tmp}
      BY <2>2 DEF InputTypes, AppStep, InputsFault, Kickoff, KickoffAccepted, KickoffTimesOut,
                  ReadInputs, LastResultPosted, CleanupMark, CleanupUploadedInputDir, ManagerGivesUp,
                  KickoffRefused, KickoffDropped
    <3>. QED  BY <3>1, NoFileAdded
  <2>3. ASSUME NEW p \in Proofs, Age(p) \/ ReadDeferralInputs(p) PROVE Fits'
    BY <2>3, NoFileAdded DEF InputTypes, Age, ReadDeferralInputs
  <2>4. CASE UNCHANGED disk
    BY <2>4, NoFileAdded
  <2>5. ASSUME NEW c \in Cleaners, CleanerStep(c) PROVE Fits'
    BY <2>5, NoFileAdded DEF InputTypes, CleanerStep, CleanerScan, CleanerRecheck, CleanerDelete
  <2>. QED  BY <2>1, <2>2, <2>3, <2>4, <2>5 DEF InputsNext, JanitorTick, inputVars
<1>3. InputTypes /\ Fits => TypeOK
  BY DEF InputTypes, Fits, Held, TypeOK, Files
<1>. QED  BY <1>1, <1>2, <1>3, InputTypesHold, StepsOnInputs, PTL DEF Spec
-----------------------------------------------------------------------------
(* The inputs of an accepted job *)

\* From the kickoff to the cleanup a proof is marked.  A marked proof, when no
\* scan was past its last look at the mark, meets none later.
Marked == {"waiting", "accepted", "proving", "posted", "refuse", "dropped"}
Guarded ==
    \A p \in Proofs :
      /\ app[p] \in Marked => p \in active
      /\ app[p] \in {"waiting", "accepted"} /\ p \notin raced => NotReclaimed(p)

\* An upload belongs to the phase its proof is in.
Out == {"posted", "cleanup", "done"}
UploadInPhase ==
    \A p \in Proofs :
      /\ upload[p] = "input" => app[p] = "new"
      /\ upload[p] = "state" => app[p] = "input"
      /\ upload[p] = "deferral_input" => app[p] \in Out /\ tail[p] = "none"
      /\ tail[p] # "none" => app[p] \in Out

HeldInv == Guarded /\ UploadInPhase /\ InputsHeld

\* A scan that has still to look at the mark spares a marked directory.
LEMMA ScansSpare ==
    ASSUME InputTypes, InputsNext, NEW p \in Proofs, NotReclaimed(p), p \in active
    PROVE  NotReclaimed(p)'
<1>. USE DEF Deletes
<1>1. CASE UNCHANGED cleaner
  BY <1>1 DEF NotReclaimed
<1>2. ASSUME NEW c \in Cleaners, NEW todo \in SUBSET Proofs,
             cleaner' = [cleaner EXCEPT ![c] = Ahead(todo)]
      PROVE  NotReclaimed(p)'
  BY <1>2, AheadScans DEF NotReclaimed, InputTypes
<1>3. ASSUME NEW q \in Proofs, UploadStep(q) PROVE NotReclaimed(p)'
  <2>1. ASSUME NEW f, Upload(q, f) PROVE NotReclaimed(p)'
    <3>1. q \in Cleaners /\ {d \in Proofs : disk'[d] # {}} \in SUBSET Proofs
      BY DEF Cleaners
    <3>. QED  BY <1>1, <1>2, <2>1, <3>1 DEF Upload, Ahead
  <2>. QED  BY <1>1, <1>3, <2>1 DEF UploadStep, UploadInput, UploadDeferralState,
                                    UploadDeferralInput, UploadRetry
<1>4. CASE JanitorTick
  <2>1. Janitor \in Cleaners /\ {q \in Proofs : disk[q] # {}} \in SUBSET Proofs
    BY DEF Cleaners
  <2>. QED  BY <1>2, <1>4, <2>1 DEF JanitorTick, Ahead
<1>5. ASSUME NEW c \in Cleaners, CleanerStep(c) PROVE NotReclaimed(p)'
  <2>0. cleaner[c].todo \in SUBSET Proofs
    BY DEF InputTypes, Scans
  <2>1. ASSUME NEW q \in Proofs, CleanerScan(c, q) PROVE NotReclaimed(p)'
    <3>1. CASE Stale(q)
      <4>1. cleaner' = [cleaner EXCEPT ![c] =
                          [pc |-> "recheck", todo |-> cleaner[c].todo \ {q}, dir |-> q]]
        BY <2>1, <3>1 DEF CleanerScan, InputTypes
      <4>. QED  BY <4>1 DEF NotReclaimed, InputTypes
    <3>2. CASE ~Stale(q)
      <4>1. cleaner' = [cleaner EXCEPT ![c] = Ahead(cleaner[c].todo \ {q})]
        BY <2>1, <3>2 DEF CleanerScan, InputTypes, Ahead
      <4>. QED  BY <1>2, <2>0, <4>1
    <3>. QED  BY <3>1, <3>2
  <2>2. CASE CleanerRecheck(c)
    <3>1. CASE cleaner[c].dir \in active
      <4>1. cleaner' = [cleaner EXCEPT ![c] = Ahead(cleaner[c].todo)]
        BY <2>2, <3>1 DEF CleanerRecheck, InputTypes, Ahead
      <4>. QED  BY <1>2, <2>0, <4>1
    <3>2. CASE cleaner[c].dir \notin active
      <4>1. cleaner' = [cleaner EXCEPT ![c] = [cleaner[c] EXCEPT !.pc = "delete"]]
        BY <2>2, <3>2 DEF CleanerRecheck, InputTypes
      <4>2. cleaner'[c].dir = cleaner[c].dir /\ cleaner[c].dir # p
        BY <3>2, <4>1 DEF InputTypes, Scans
      <4>. QED  BY <4>1, <4>2 DEF NotReclaimed, InputTypes
    <3>. QED  BY <3>1, <3>2
  <2>3. CASE CleanerDelete(c)
    BY <1>2, <2>0, <2>3 DEF CleanerDelete, Ahead
  <2>. QED  BY <1>5, <2>1, <2>2, <2>3 DEF CleanerStep
<1>6. ASSUME NEW q \in Proofs, AppStep(q) \/ InputsFault(q) PROVE NotReclaimed(p)'
  BY <1>1, <1>6 DEF AppStep, InputsFault, Kickoff, KickoffAccepted, KickoffTimesOut, ReadInputs,
                    LastResultPosted, CleanupMark, CleanupUploadedInputDir, ManagerGivesUp,
                    KickoffRefused, KickoffDropped
<1>. QED  BY <1>1, <1>3, <1>4, <1>5, <1>6 DEF InputsNext, Age, ReadDeferralInputs, inputVars

\* The response to an upload moves only the phase the upload belongs to.
LEMMA UploadMoves ==
    ASSUME InputTypes, UploadInPhase, NEW p \in Proofs, UploadStep(p)
    PROVE  /\ UNCHANGED <<active, raced>>
           /\ \/ UNCHANGED app
              \/ /\ app[p] \in {"new", "input"}
                 /\ \E l \in {"over", "input", "uploaded"} : App(p, l)
<1>1. ASSUME NEW f \in Files, NEW ok, Uploaded(p, f, ok), f # "deferral_input" => app[p] \in {"new", "input"}
      PROVE  \/ UNCHANGED app
             \/ /\ app[p] \in {"new", "input"}
                /\ \E l \in {"over", "input", "uploaded"} : App(p, l)
  BY <1>1 DEF Uploaded
<1>2. CASE UploadInput(p) \/ UploadDeferralState(p) \/ UploadDeferralInput(p)
  BY <1>1, <1>2 DEF UploadInput, UploadDeferralState, UploadDeferralInput, Upload, Files
<1>3. CASE UploadRetry(p)
  <2>1. upload[p] \in Files /\ (upload[p] # "deferral_input" => app[p] \in {"new", "input"})
    BY <1>3 DEF UploadRetry, InputTypes, UploadInPhase, Files
  <2>. QED  BY <1>1, <1>3, <2>1 DEF UploadRetry
<1>. QED  BY <1>2, <1>3 DEF UploadStep

\* Every step keeps uploads in their phase.
LEMMA PhasesNext == InputTypes /\ UploadInPhase /\ InputsNext => UploadInPhase'
<1>. SUFFICES ASSUME InputTypes, UploadInPhase, InputsNext PROVE UploadInPhase'
  OBVIOUS
<1>. USE DEF InputTypes, UploadInPhase, App, Out
<1>1. ASSUME NEW p \in Proofs, UploadStep(p) PROVE UploadInPhase'
  <2>1. CASE UploadInput(p)
    BY <2>1 DEF UploadInput, Upload, Uploaded
  <2>2. CASE UploadDeferralState(p)
    BY <2>2 DEF UploadDeferralState, Upload, Uploaded
  <2>3. CASE UploadDeferralInput(p)
    BY <2>3 DEF UploadDeferralInput, Upload, Uploaded
  <2>4. CASE UploadRetry(p)
    <3>1. CASE upload[p] = "deferral_input"
      BY <2>4, <3>1 DEF UploadRetry, Uploaded
    <3>2. CASE upload[p] # "deferral_input"
      BY <2>4, <3>2 DEF UploadRetry, Uploaded, Files
    <3>. QED  BY <3>1, <3>2
  <2>. QED  BY <1>1, <2>1, <2>2, <2>3, <2>4 DEF UploadStep
<1>2. ASSUME NEW p \in Proofs, AppStep(p) \/ InputsFault(p) PROVE UploadInPhase'
  <2>1. UNCHANGED <<upload, tail>>
    BY <1>2 DEF AppStep, InputsFault, Kickoff, KickoffAccepted, KickoffTimesOut, ReadInputs,
                LastResultPosted, CleanupMark, CleanupUploadedInputDir, ManagerGivesUp,
                KickoffRefused, KickoffDropped
  <2>2. app[p] \notin {"new", "input"} /\ \E l : App(p, l) /\ (app[p] \in Out => l \in Out)
    BY <1>2 DEF AppStep, InputsFault, Kickoff, KickoffAccepted, KickoffTimesOut, ReadInputs,
                LastResultPosted, CleanupMark, CleanupUploadedInputDir, ManagerGivesUp,
                KickoffRefused, KickoffDropped
  <2>. QED  BY <2>1, <2>2
<1>3. ASSUME NEW p \in Proofs, Age(p) \/ ReadDeferralInputs(p) PROVE UploadInPhase'
  BY <1>3 DEF Age, ReadDeferralInputs
<1>4. ASSUME NEW p \in Proofs, tail[p] # "none", tail' = [tail EXCEPT ![p] = "over"],
             UNCHANGED <<disk, old, active, upload, app, cleaner, started, raced>>
      PROVE  UploadInPhase'
  BY <1>4
<1>5. CASE JanitorTick \/ (\E c \in Cleaners : CleanerStep(c)) \/ UNCHANGED inputVars
  BY <1>5 DEF JanitorTick, CleanerStep, CleanerScan, CleanerRecheck, CleanerDelete, inputVars
<1>. QED  BY <1>1, <1>2, <1>3, <1>4, <1>5 DEF InputsNext

\* A proof gets marked at its kickoff, and the mark goes only with the cleanup;
\* a kickoff that no scan was past is not among the raced.
LEMMA PhaseBefore ==
    ASSUME InputTypes, UploadInPhase, Guarded, InputsNext, NEW p \in Proofs
    PROVE  /\ app'[p] \in Marked => p \in active'
           /\ app'[p] \in {"waiting", "accepted"} /\ p \notin raced' =>
                \/ app[p] \in {"waiting", "accepted"} /\ p \notin raced
                \/ NotReclaimed(p) /\ UNCHANGED cleaner
<1>. USE DEF InputTypes, Guarded, App, Marked
<1>1. CASE UNCHANGED <<app, active, raced>>
  BY <1>1
<1>2. ASSUME NEW q \in Proofs, UploadStep(q)
      PROVE  /\ app'[p] \in Marked => p \in active'
             /\ app'[p] \in {"waiting", "accepted"} /\ p \notin raced' =>
                  app[p] \in {"waiting", "accepted"} /\ p \notin raced
  <2>1. CASE UNCHANGED <<app, active, raced>>
    BY <2>1
  <2>2. ASSUME NEW l \in {"over", "input", "uploaded"}, App(q, l), UNCHANGED <<active, raced>>
        PROVE  /\ app'[p] \in Marked => p \in active'
               /\ app'[p] \in {"waiting", "accepted"} /\ p \notin raced' =>
                    app[p] \in {"waiting", "accepted"} /\ p \notin raced
    BY <2>2
  <2>. QED  BY <1>2, <2>1, <2>2, UploadMoves
<1>3. ASSUME NEW q \in Proofs, Kickoff(q)
      PROVE  /\ app'[p] \in Marked => p \in active'
             /\ app'[p] \in {"waiting", "accepted"} /\ p \notin raced' =>
                  \/ app[p] \in {"waiting", "accepted"} /\ p \notin raced
                  \/ NotReclaimed(p) /\ UNCHANGED cleaner
  BY <1>3 DEF Kickoff, NotReclaimed
<1>4. ASSUME NEW q \in Proofs, AppStep(q) \/ InputsFault(q), ~Kickoff(q)
      PROVE  /\ app'[p] \in Marked => p \in active'
             /\ app'[p] \in {"waiting", "accepted"} /\ p \notin raced' =>
                  app[p] \in {"waiting", "accepted"} /\ p \notin raced
  <2>1. CASE KickoffAccepted(q) \/ KickoffTimesOut(q) \/ ReadInputs(q)
    BY <2>1 DEF KickoffAccepted, KickoffTimesOut, ReadInputs
  <2>2. CASE LastResultPosted(q)
    BY <2>2 DEF LastResultPosted
  <2>3. CASE CleanupMark(q) \/ CleanupUploadedInputDir(q)
    BY <2>3 DEF CleanupMark, CleanupUploadedInputDir
  <2>4. CASE InputsFault(q)
    BY <2>4 DEF InputsFault, ManagerGivesUp, KickoffRefused, KickoffDropped
  <2>. QED  BY <1>4, <2>1, <2>2, <2>3, <2>4 DEF AppStep
<1>5. ASSUME NEW c \in Cleaners, CleanerStep(c) PROVE UNCHANGED <<app, active, raced>>
  BY <1>5 DEF CleanerStep, CleanerScan, CleanerRecheck, CleanerDelete
<1>. QED  BY <1>1, <1>2, <1>3, <1>4, <1>5
          DEF InputsNext, Age, ReadDeferralInputs, JanitorTick, inputVars

\* Every step keeps marked directories guarded.
LEMMA GuardedNext == InputTypes /\ UploadInPhase /\ Guarded /\ InputsNext => Guarded'
<1>. SUFFICES ASSUME InputTypes, UploadInPhase, Guarded, InputsNext, NEW p \in Proofs
              PROVE  /\ app'[p] \in Marked => p \in active'
                     /\ app'[p] \in {"waiting", "accepted"} /\ p \notin raced' => NotReclaimed(p)'
  BY DEF Guarded
<1>1. app[p] \in {"waiting", "accepted"} /\ p \notin raced => NotReclaimed(p)'
  BY ScansSpare DEF Guarded, Marked
<1>2. NotReclaimed(p) /\ UNCHANGED cleaner => NotReclaimed(p)'
  BY DEF NotReclaimed, Deletes
<1>. QED  BY <1>1, <1>2, PhaseBefore

\* A job that found its files keeps them until it has read them: no cleanup of
\* its own is due, no merge has a directory to remove, and no scan may.
LEMMA HeldNext ==
    InputTypes /\ UploadInPhase /\ Guarded /\ InputsHeld /\ InputsNext => InputsHeld'
<1>. SUFFICES ASSUME InputTypes, UploadInPhase, Guarded, InputsHeld, InputsNext,
                     NEW p \in Proofs, p \notin raced', app'[p] = "accepted"
              PROVE  required_files(p) \subseteq disk'[p]
  BY DEF InputsHeld, required_files
<1>. USE DEF InputTypes, App
<1>0. Tmp \notin required_files(p)
  BY DEF Tmp, required_files
<1>1. ASSUME app[p] = "accepted", p \notin raced, disk[p] \ {Tmp} \subseteq disk'[p]
      PROVE  required_files(p) \subseteq disk'[p]
  BY <1>0, <1>1 DEF InputsHeld
<1>2. ASSUME NEW q \in Proofs, UploadStep(q) PROVE required_files(p) \subseteq disk'[p]
  <2>1. app[p] = "accepted" /\ p \notin raced
    BY <1>2, UploadMoves
  <2>2. CASE UploadInput(q) \/ UploadDeferralState(q) \/ UploadDeferralInput(q)
    BY <1>1, <2>1, <2>2 DEF UploadInput, UploadDeferralState, UploadDeferralInput, Upload, WriteFile
  <2>3. CASE UploadRetry(q)
    BY <1>1, <2>1, <2>3 DEF UploadRetry, WriteFile
  <2>. QED  BY <1>2, <2>2, <2>3 DEF UploadStep
<1>3. ASSUME NEW q \in Proofs, AppStep(q) PROVE required_files(p) \subseteq disk'[p]
  <2>1. CASE KickoffAccepted(q)
    BY <1>1, <2>1 DEF KickoffAccepted
  <2>2. CASE Kickoff(q)
    BY <1>1, <2>2 DEF Kickoff
  <2>3. CASE KickoffTimesOut(q) \/ ReadInputs(q) \/ LastResultPosted(q) \/ CleanupMark(q)
    BY <1>1, <2>3 DEF KickoffTimesOut, ReadInputs, LastResultPosted, CleanupMark
  <2>4. CASE CleanupUploadedInputDir(q)
    BY <1>1, <2>4 DEF CleanupUploadedInputDir
  <2>. QED  BY <1>3, <2>1, <2>2, <2>3, <2>4 DEF AppStep
<1>4. ASSUME NEW q \in Proofs, InputsFault(q) PROVE required_files(p) \subseteq disk'[p]
  BY <1>1, <1>4 DEF InputsFault, ManagerGivesUp, KickoffRefused, KickoffDropped
<1>5. ASSUME NEW q \in Proofs, ReadDeferralInputs(q) PROVE required_files(p) \subseteq disk'[p]
  BY <1>1, <1>5 DEF ReadDeferralInputs, UploadInPhase, Out
<1>6. ASSUME NEW c \in Cleaners, CleanerStep(c) PROVE required_files(p) \subseteq disk'[p]
  <2>1. app[p] = "accepted" /\ p \notin raced
    BY <1>6 DEF CleanerStep, CleanerScan, CleanerRecheck, CleanerDelete
  <2>2. CASE CleanerDelete(c)
    <3>1. cleaner[c].dir # p
      BY <2>1, <2>2 DEF CleanerDelete, Guarded, NotReclaimed, Deletes
    <3>. QED  BY <1>1, <2>1, <2>2, <3>1 DEF CleanerDelete
  <2>3. CASE ~CleanerDelete(c)
    BY <1>1, <1>6, <2>1, <2>3 DEF CleanerStep, CleanerScan, CleanerRecheck
  <2>. QED  BY <2>2, <2>3
<1>7. CASE UNCHANGED <<app, disk, raced>>
  BY <1>1, <1>7
<1>. QED  BY <1>2, <1>3, <1>4, <1>5, <1>6, <1>7 DEF InputsNext, Age, JanitorTick, inputVars

\* Nothing reclaims the inputs of an accepted job before the prover has read
\* them, however old they are, for any number of proofs, uploads out of space
\* and janitor runs, unless a scan had checked the mark for the last time before
\* handle_sharded_app_prove set it.
THEOREM InputsHeldHolds == Spec => []InputsHeld
<1>1. Init => HeldInv
  BY DEF Init, NoInputs, HeldInv, Guarded, UploadInPhase, InputsHeld, NotReclaimed, Deletes, Idle,
         Marked
<1>2. InputTypes /\ HeldInv /\ InputsNext => HeldInv'
  BY PhasesNext, GuardedNext, HeldNext DEF HeldInv
<1>3. HeldInv => InputsHeld
  BY DEF HeldInv
<1>. QED  BY <1>1, <1>2, <1>3, InputTypesHold, StepsOnInputs, PTL DEF Spec
-----------------------------------------------------------------------------
(* Requests and their messages *)

\* A request has posted nothing until it is over, and one message then; only
\* deferral proofs come to a merge, only Evm proofs without to a preparation.
Waiting == {"none", "submit", "merge", "prep", "halo2", "silent", "refused"}
Complete(p, a) ==
    a.kind = "Internal" =>
      /\ a.ready_for_evm = (p \in evm)
      /\ p \in Deferral => a.merged /\ a.merkle = "tail"
      /\ p \in evm \ Deferral => a.merkle = Depth0(p)
Answer(p, step) ==
    \/ request[<<p, step>>] \in Waiting /\ posted[<<p, step>>] = <<>>
    \/ /\ request[<<p, step>>] = "over"
       /\ \E a : posted[<<p, step>>] = <<a>> /\ (step = "InternalProve" => Complete(p, a))
Route(p) ==
    /\ request[<<p, "InternalProve">>] = "merge" => p \in Deferral
    /\ request[<<p, "InternalProve">>] = "prep" => p \in evm \ Deferral
Artifacts == [kind : {"Leaf", "Internal", "Evm", "Error"}, merged : BOOLEAN,
              merkle : {"none", "depth0", "tail"}, ready_for_evm : BOOLEAN]
RequestInv ==
    /\ request \in [Proofs \X Steps -> Waiting \cup {"over"}]
    /\ posted \in [Proofs \X Steps -> Seq(Artifacts)]
    /\ \A p \in Proofs, step \in Steps : Answer(p, step)
    /\ \A p \in Proofs : Route(p)

\* The one message of a request, if it is complete, keeps the invariant.
LEMMA SubmitOnce ==
    ASSUME RequestInv, UNCHANGED kinds, NEW p \in Proofs, NEW step \in Steps,
           request[<<p, step>>] \in Waiting, NEW a \in Artifacts,
           step = "InternalProve" => Complete(p, a), Submit(<<p, step>>, a)
    PROVE  RequestInv'
<1>. DEFINE r == <<p, step>>
<1>1. /\ request' = [request EXCEPT ![r] = "over"]
      /\ posted' = [posted EXCEPT ![r] = Append(@, a)]
  BY DEF Submit, Goto
<1>2. posted[r] = <<>>
  BY DEF RequestInv, Answer, Waiting
<1>3. request'[r] = "over" /\ posted'[r] = <<a>>
  BY <1>1, <1>2 DEF RequestInv
<1>4. \A q \in Proofs, s \in Steps : <<q, s>> # r =>
        request'[<<q, s>>] = request[<<q, s>>] /\ posted'[<<q, s>>] = posted[<<q, s>>]
  BY <1>1 DEF RequestInv
<1>5. \A q, b : Complete(q, b)' <=> Complete(q, b)
  BY DEF Complete, Depth0, kinds
<1>6. ASSUME NEW q \in Proofs, NEW s \in Steps PROVE Answer(q, s)'
  <2>1. CASE <<q, s>> = r
    <3>1. q = p /\ s = step
      BY <2>1
    <3>. QED  BY <1>3, <1>5, <3>1 DEF Answer
  <2>2. CASE <<q, s>> # r
    <3>1. Answer(q, s)
      BY DEF RequestInv
    <3>. QED  BY <1>4, <1>5, <2>2, <3>1 DEF Answer
  <2>. QED  BY <2>1, <2>2
<1>7. ASSUME NEW q \in Proofs PROVE Route(q)'
  <2>1. Route(q)
    BY DEF RequestInv
  <2>2. request'[<<q, "InternalProve">>] \in {request[<<q, "InternalProve">>], "over"}
    BY <1>3, <1>4 DEF Steps
  <2>. QED  BY <2>1, <2>2 DEF Route, kinds
<1>8. /\ request' \in [Proofs \X Steps -> Waiting \cup {"over"}]
      /\ posted' \in [Proofs \X Steps -> Seq(Artifacts)]
  <2>1. Append(posted[r], a) \in Seq(Artifacts)
    BY DEF RequestInv
  <2>. QED  BY <1>1, <2>1 DEF RequestInv
<1>. QED  BY <1>6, <1>7, <1>8 DEF RequestInv

\* A request that goes on without a message keeps the invariant.
LEMMA GoOn ==
    ASSUME RequestInv, UNCHANGED <<kinds, posted>>, NEW p \in Proofs, NEW step \in Steps,
           request[<<p, step>>] \in Waiting, NEW l \in Waiting, Goto(<<p, step>>, l),
           (step = "InternalProve" /\ l = "merge") => p \in Deferral,
           (step = "InternalProve" /\ l = "prep") => p \in evm \ Deferral
    PROVE  RequestInv'
<1>. DEFINE r == <<p, step>>
<1>1. request' = [request EXCEPT ![r] = l]
  BY DEF Goto
<1>2. request'[r] = l /\ posted[r] = <<>>
  BY <1>1 DEF RequestInv, Answer, Waiting
<1>3. \A q \in Proofs, s \in Steps : <<q, s>> # r => request'[<<q, s>>] = request[<<q, s>>]
  BY <1>1 DEF RequestInv
<1>4. ASSUME NEW q \in Proofs, NEW s \in Steps PROVE Answer(q, s)'
  <2>1. CASE <<q, s>> = r
    BY <1>2, <2>1 DEF Answer
  <2>2. CASE <<q, s>> # r
    <3>1. Answer(q, s)
      BY DEF RequestInv
    <3>2. \A b : Complete(q, b)' <=> Complete(q, b)
      BY DEF Complete, Depth0, kinds
    <3>. QED  BY <1>3, <2>2, <3>1, <3>2 DEF Answer
  <2>. QED  BY <2>1, <2>2
<1>5. ASSUME NEW q \in Proofs PROVE Route(q)'
  <2>1. Route(q) /\ "InternalProve" \in Steps
    BY DEF RequestInv, Steps
  <2>2. CASE <<q, "InternalProve">> = r
    BY <1>2, <2>2 DEF Route, kinds
  <2>3. CASE <<q, "InternalProve">> # r
    BY <1>3, <2>1, <2>3 DEF Route, kinds
  <2>. QED  BY <2>2, <2>3
<1>6. request' \in [Proofs \X Steps -> Waiting \cup {"over"}]
  BY <1>1 DEF RequestInv
<1>. QED  BY <1>4, <1>5, <1>6 DEF RequestInv

\* Steps that touch no request keep the invariant.
LEMMA RequestsUntouched ==
    ASSUME RequestInv, UNCHANGED <<kinds, requestVars>> PROVE RequestInv'
<1>1. \A q, b : Complete(q, b)' <=> Complete(q, b)
  BY DEF Complete, Depth0, kinds
<1>2. \A q, s : Answer(q, s)' <=> Answer(q, s)
  BY <1>1 DEF Answer, requestVars
<1>. QED  BY <1>2 DEF RequestInv, requestVars, Route, kinds

\* What the handlers post are artifacts.
LEMMA Posted ==
    /\ Error \in Artifacts
    /\ \A kind \in {"Leaf", "Internal", "Evm"} : Artifact(kind, FALSE, "none", FALSE) \in Artifacts
    /\ \A p : Artifact("Internal", FALSE, Depth0(p), TRUE) \in Artifacts
    /\ \A ready \in BOOLEAN : Artifact("Internal", TRUE, "tail", ready) \in Artifacts
BY DEF Artifacts, Artifact, Error, Depth0

\* What each path of the final internal request posts is complete.
LEMMA PostedComplete ==
    ASSUME NEW p \in Proofs
    PROVE  /\ Complete(p, Error)
           /\ (p \notin Deferral /\ p \notin evm) =>
                Complete(p, Artifact("Internal", FALSE, "none", FALSE))
           /\ p \notin evm => Complete(p, Artifact("Internal", TRUE, "tail", FALSE))
           /\ (p \in evm /\ p \in Deferral) => Complete(p, Artifact("Internal", TRUE, "tail", TRUE))
           /\ p \in evm \ Deferral => Complete(p, Artifact("Internal", FALSE, Depth0(p), TRUE))
<1>1. Complete(p, Error)
  BY DEF Complete, Artifact, Error
<1>2. ASSUME NEW merged, NEW merkle, NEW ready, ready = (p \in evm),
             p \in Deferral => merged /\ merkle = "tail",
             p \in evm \ Deferral => merkle = Depth0(p)
      PROVE  Complete(p, Artifact("Internal", merged, merkle, ready))
  BY <1>2 DEF Complete, Artifact
<1>3. (p \in evm => TRUE = (p \in evm)) /\ (p \notin evm => FALSE = (p \in evm))
  OBVIOUS
<1>. QED  BY <1>1, <1>2, <1>3

\* Every step keeps the requests' invariant.
LEMMA RequestNext == RequestInv /\ [Next]_vars => RequestInv'
<1>. SUFFICES ASSUME RequestInv, [Next]_vars PROVE RequestInv'
  OBVIOUS
<1>. USE DEF Steps
<1>0. UNCHANGED kinds
  BY DEF Next, vars
<1>1. CASE InputsStep \/ UNCHANGED vars
  BY <1>0, <1>1, RequestsUntouched DEF InputsStep, vars
<1>2. ASSUME NEW p \in Proofs, NEW step \in Steps, Accept(p, step) \/ Refuse(p, step)
      PROVE  RequestInv'
  BY <1>0, <1>2, GoOn DEF Accept, Refuse, Waiting
<1>3. ASSUME NEW p \in Proofs, RequestStep(p) PROVE RequestInv'
  <2>1. CASE LeafProved(p)
    <3>1. PICK a \in {Artifact("Leaf", FALSE, "none", FALSE), Error} : Submit(<<p, "LeafProve">>, a)
      BY <2>1 DEF LeafProved
    <3>. QED  BY <1>0, <2>1, <3>1, Posted, SubmitOnce DEF LeafProved, Waiting
  <2>2. CASE InternalProved(p)
    <3>1. request[<<p, "InternalProve">>] = "submit"
      BY <2>2 DEF InternalProved
    <3>2. CASE Submit(<<p, "InternalProve">>, Error)
      BY <1>0, <3>1, <3>2, Posted, PostedComplete, SubmitOnce DEF Waiting
    <3>3. CASE /\ p \notin Deferral /\ p \notin evm
               /\ Submit(<<p, "InternalProve">>, Artifact("Internal", FALSE, "none", FALSE))
      BY <1>0, <3>1, <3>3, Posted, PostedComplete, SubmitOnce DEF Waiting
    <3>4. CASE p \in Deferral /\ Goto(<<p, "InternalProve">>, "merge") /\ UNCHANGED posted
      BY <1>0, <3>1, <3>4, GoOn DEF Waiting
    <3>5. CASE p \in evm \ Deferral /\ Goto(<<p, "InternalProve">>, "prep") /\ UNCHANGED posted
      BY <1>0, <3>1, <3>5, GoOn DEF Waiting
    <3>6. CASE Goto(<<p, "InternalProve">>, "silent") /\ UNCHANGED posted
      BY <1>0, <3>1, <3>6, GoOn DEF Waiting
    <3>. QED  BY <2>2, <3>2, <3>3, <3>4, <3>5, <3>6 DEF InternalProved
  <2>3. CASE TailMergeReads(p)
    <3>1. request[<<p, "InternalProve">>] = "merge"
      BY <2>3 DEF TailMergeReads
    <3>2. CASE Submit(<<p, "InternalProve">>, Error)
      BY <1>0, <3>1, <3>2, Posted, PostedComplete, SubmitOnce DEF Waiting
    <3>. QED  BY <1>0, <2>3, <3>2, RequestsUntouched DEF TailMergeReads
  <2>4. ASSUME NEW a \in Artifacts, Complete(p, a), TailMergeProves(p, a) PROVE RequestInv'
    BY <1>0, <2>4, SubmitOnce DEF TailMergeProves, Waiting
  <2>5. CASE DriveStarkDeferralMergeAndPost(p)
    <3>1. PICK a \in {Artifact("Internal", TRUE, "tail", FALSE), Error} : TailMergeProves(p, a)
      BY <2>5 DEF DriveStarkDeferralMergeAndPost
    <3>. QED  BY <2>4, <2>5, <3>1, Posted, PostedComplete DEF DriveStarkDeferralMergeAndPost
  <2>6. CASE DriveEvmPrepAndPost(p)
    <3>1. ASSUME NEW a \in {Artifact("Internal", TRUE, "tail", TRUE), Error}, TailMergeProves(p, a)
          PROVE  RequestInv'
      <4>1. p \in Deferral
        BY <3>1 DEF TailMergeProves, RequestInv, Route
      <4>. QED  BY <2>4, <2>6, <3>1, <4>1, Posted, PostedComplete DEF DriveEvmPrepAndPost
    <3>2. ASSUME request[<<p, "InternalProve">>] = "prep",
                 NEW a \in {Artifact("Internal", FALSE, Depth0(p), TRUE), Error},
                 Submit(<<p, "InternalProve">>, a)
          PROVE  RequestInv'
      <4>1. p \in evm \ Deferral
        BY <3>2 DEF RequestInv, Route
      <4>. QED  BY <1>0, <3>2, <4>1, Posted, PostedComplete, SubmitOnce DEF Waiting
    <3>. QED  BY <2>6, <3>1, <3>2 DEF DriveEvmPrepAndPost
  <2>7. CASE RootProved(p)
    <3>1. CASE Submit(<<p, "EvmProve">>, Error)
      BY <1>0, <2>7, <3>1, Posted, SubmitOnce DEF RootProved, Waiting
    <3>. QED  BY <1>0, <2>7, <3>1, GoOn DEF RootProved, Waiting
  <2>8. CASE Halo2Proved(p)
    <3>1. PICK a \in {Artifact("Evm", FALSE, "none", FALSE), Error} : Submit(<<p, "EvmProve">>, a)
      BY <2>8 DEF Halo2Proved
    <3>. QED  BY <1>0, <2>8, <3>1, Posted, SubmitOnce DEF Halo2Proved, Waiting
  <2>. QED  BY <1>3, <2>1, <2>2, <2>3, <2>5, <2>6, <2>7, <2>8 DEF RequestStep
<1>. QED  BY <1>1, <1>2, <1>3 DEF Next

\* The requests' invariant holds of the worker.
LEMMA RequestsHold == Spec => []RequestInv
<1>1. Init => RequestInv
  <2>. SUFFICES ASSUME Init PROVE RequestInv
    OBVIOUS
  <2>1. /\ request \in [Proofs \X Steps -> Waiting \cup {"over"}]
        /\ posted \in [Proofs \X Steps -> Seq(Artifacts)]
    BY DEF Init, Waiting
  <2>2. \A p \in Proofs, step \in Steps : Answer(p, step)
    BY DEF Init, Answer, Waiting
  <2>3. \A p \in Proofs : Route(p)
    BY DEF Init, Route, Steps
  <2>. QED  BY <2>1, <2>2, <2>3 DEF RequestInv
<1>. QED  BY <1>1, RequestNext, PTL DEF Spec

\* The handlers of handle_recursion_prove post one message per accepted
\* request and none before, whichever prover, merge or read fails: the manager
\* frees a worker with each message.
THEOREM AnsweredOnceHolds == Spec => []AnsweredOnce
<1>1. RequestInv => AnsweredOnce
  <2>. SUFFICES ASSUME RequestInv, NEW p \in Proofs, NEW step \in Steps
                PROVE  /\ Len(posted[<<p, step>>]) <= 1
                       /\ request[<<p, step>>] \in {"none", "submit", "merge", "prep", "halo2"} =>
                            posted[<<p, step>>] = <<>>
    BY DEF AnsweredOnce
  <2>1. Answer(p, step)
    BY DEF RequestInv
  <2>2. CASE posted[<<p, step>>] = <<>>
    BY <2>2
  <2>3. CASE request[<<p, step>>] = "over" /\ \E a : posted[<<p, step>>] = <<a>>
    <3>1. PICK a : posted[<<p, step>>] = <<a>>
      BY <2>3
    <3>2. Len(<<a>>) = 1
      OBVIOUS
    <3>. QED  BY <2>3, <3>1, <3>2
  <2>. QED  BY <2>1, <2>2, <2>3 DEF Answer
<1>. QED  BY <1>1, RequestsHold, PTL

\* What the final internal request posts completes the proof: merged, with the
\* tail's merkle proofs, exactly if the proof has deferral, with those of
\* depth 0 on the way to the EVM step, and flagged for it exactly if its type
\* is Evm.
THEOREM FinalArtifactCompleteHolds == Spec => []FinalArtifactComplete
<1>1. RequestInv => FinalArtifactComplete
  <2>. SUFFICES ASSUME RequestInv, NEW p \in Proofs, NEW n \in DOMAIN posted[<<p, "InternalProve">>]
                PROVE  Complete(p, posted[<<p, "InternalProve">>][n])
    BY DEF FinalArtifactComplete, Complete
  <2>1. Answer(p, "InternalProve")
    BY DEF RequestInv, Steps
  <2>. QED  BY <2>1 DEF Answer
<1>. QED  BY <1>1, RequestsHold, PTL
=============================================================================

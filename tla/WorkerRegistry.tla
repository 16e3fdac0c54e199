---------------------------- MODULE WorkerRegistry ----------------------------
(***************************************************************************)
(* The registry of workers (crates/edge-manager/src/worker_registry.rs).   *)
(* register runs on several threads of the runtime without a lock around   *)
(* its two concurrent maps: other calls run between its lookups and its    *)
(* inserts.                                                                *)
(***************************************************************************)
EXTENDS Integers, FiniteSets

CONSTANTS Urls,                  \* the workers, by URL
          expected_num_workers,  \* server.num_workers
          Claims,                \* [Urls -> ids its configuration may give it]
          RolesOf                \* [Urls -> roles its configuration may give it]

WorkerRoles == {"Full", "StarkOnly", "EvmDedicated"}
Capacities == {"expected", "none", "other"}   \* [provers] as a worker reports it

ASSUME RegistryAssumption ==
    /\ expected_num_workers \in Nat \ {0}
    /\ Claims \in [Urls -> SUBSET Nat]
    /\ RolesOf \in [Urls -> SUBSET WorkerRoles]

VARIABLES workers,      \* [Ids -> the worker registered there, or NoWorker]
          url_to_id,    \* [Urls -> its id, or NoId]
          registering   \* [Urls -> its call of register, or NoCall]

registryVars == <<workers, url_to_id, registering>>

Ids == 0..(expected_num_workers - 1)
None == "none"
NoId == -1
NoWorker == [url |-> None, role |-> None]
NoCall == [id |-> NoId, role |-> None]
RunsStark(role) == role \in {"Full", "StarkOnly"}

NoRegistrations ==
    /\ workers = [i \in Ids |-> NoWorker]
    /\ url_to_id = [u \in Urls |-> NoId]
    /\ registering = [u \in Urls |-> NoCall]
-----------------------------------------------------------------------------
validate_provers(reported, role) ==
    IF RunsStark(role) THEN reported = "expected" ELSE reported = "none"

\* A worker that is bound to its id already: only its role is refreshed, in the
\* record of the id, whosever it is by now.
RegisterAgain(u, id, role) ==
    /\ registering[u] = NoCall
    /\ url_to_id[u] = id
    /\ workers' = [workers EXCEPT ![id].role = role]
    /\ UNCHANGED <<url_to_id, registering>>

\* Mutant: the URL is not looked up.
RegisterCheckIdOnly(u, id, role) ==
    /\ registering[u] = NoCall
    /\ workers[id].url \in {None, u}
    /\ registering' = [registering EXCEPT ![u] = [id |-> id, role |-> role]]
    /\ UNCHANGED <<workers, url_to_id>>

\* Neither the URL nor the id is taken.
RegisterCheck(u, id, role) ==
    /\ registering[u] = NoCall
    /\ url_to_id[u] = NoId
    /\ workers[id].url \in {None, u}
    /\ registering' = [registering EXCEPT ![u] = [id |-> id, role |-> role]]
    /\ UNCHANGED <<workers, url_to_id>>

\* Both inserts; a call for another URL looks at the first map only.
RegisterInsert(u) ==
    /\ registering[u] # NoCall
    /\ workers' = [workers EXCEPT ![registering[u].id] = [url |-> u, role |-> registering[u].role]]
    /\ url_to_id' = [url_to_id EXCEPT ![u] = registering[u].id]
    /\ registering' = [registering EXCEPT ![u] = NoCall]

\* register: what does not validate, or is bound otherwise, is refused.
Register(u) ==
    \/ \E id \in Claims[u] \cap Ids, role \in RolesOf[u], reported \in Capacities :
          /\ validate_provers(reported, role)
          /\ RegisterAgain(u, id, role) \/ RegisterCheck(u, id, role)
    \/ RegisterInsert(u)
-----------------------------------------------------------------------------
app_eligible_workers(ws) == {i \in Ids : RunsStark(ws[i].role)}

\* Every id is registered, and the app-eligible ones are the prefix 0..M-1.
ready_workers(ws) ==
    /\ \A i \in Ids : ws[i] # NoWorker
    /\ app_eligible_workers(ws) = 0..(Cardinality(app_eligible_workers(ws)) - 1)
=============================================================================

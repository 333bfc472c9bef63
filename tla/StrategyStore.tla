--------------------------- MODULE StrategyStore ---------------------------
(***************************************************************************)
(* The strategies of services/local-api: the cache _strategies, the tables *)
(* of SQLite behind it, and the deployments kept beside the runner.        *)
(*                                                                         *)
(* A handler awaits a read of the row, then works on what it read.  Writes *)
(* go through the write lock of AsyncSQLiteManager in the order they reach *)
(* it: a write the handler awaits joins the queue at once, a write given   *)
(* to create_task joins when the event loop has started the task.  Reads   *)
(* have a connection of their own and pass the queue.                      *)
(*                                                                         *)
(* Abstractions: a configuration is its version, its lifecycle state and   *)
(* the set of edits it holds; one user; every strategy has rules; the list *)
(* endpoint reads row by row; SQLite itself does not fail.  What the slots *)
(* of the runner do is in StrategyRunner.                                  *)
(***************************************************************************)
EXTENDS Integers, Sequences

CONSTANTS
    Strategies,    \* strategy ids
    Requests,      \* requests, numbered as their handlers begin; they also name edits
                   \* and deployments
    Absent,        \* no configuration
    MaxCrashes     \* bound: restarts of the service in a behaviour

VARIABLES
    configs,         \* configs[s]: the cache _strategies
    rows,            \* rows[s]: the table strategies
    versionRows,     \* the table strategy_versions: strategy, version, edit
    deploymentRows,  \* the table strategy_deployments
    tasks,           \* writes given to create_task that have not started
    writes,          \* writes that hold or await the write lock
    requests,        \* requests[r]: operation, strategy, progress and what was read
    runnerSlots,     \* deployments with a slot in the runner
    records,         \* records[r]: status in _strategy_deployments
    deployLock,      \* _deploy_lock is held
    known,           \* strategies whose id a client has seen
    deleted,         \* strategies a client has deleted
    crashes          \* restarts so far

storeVars == <<configs, rows, versionRows, deploymentRows, tasks, writes, requests, runnerSlots,
               records, deployLock, known, deleted, crashes>>

Edits == {"update", "confirm", "agentSave"}
Operations == Edits \cup {"create", "get", "deploy", "agentDeploy", "stop", "agentStop", "delete"}
Progress == {"idle", "reading", "read", "save", "saved", "snapshot", "warming", "done", "gone"}

Configs == [version: Nat, state: {"draft", "confirmed", "running"}, edits: SUBSET Requests]
Writes == [kind: {"save", "snapshot", "deployment", "delete"}, strategy: Strategies,
           config: Configs \cup {Absent}, by: Requests]

ASSUME StoreAssumption ==
    /\ Absent \notin Configs \cup Strategies
    /\ Requests \subseteq Nat
    /\ MaxCrashes \in Nat

StoreTypeOK ==
    /\ configs \in [Strategies -> Configs \cup {Absent}]
    /\ rows \in [Strategies -> Configs \cup {Absent}]
    /\ versionRows \subseteq [strategy: Strategies, version: Nat, by: Requests]
    /\ deploymentRows \subseteq [strategy: Strategies, by: Requests]
    /\ tasks \in Seq(Writes)
    /\ writes \in Seq(Writes)
    /\ requests \in [Requests -> [op: Operations \cup {"none"},
                                  strategy: Strategies \cup {Absent}, pc: Progress,
                                  config: Configs \cup {Absent}]]
    /\ runnerSlots \subseteq Requests
    /\ records \in [Requests -> {"none", "running", "stopped"}]
    /\ deployLock \in BOOLEAN
    /\ known \subseteq Strategies
    /\ deleted \subseteq Strategies
    /\ crashes \in 0..MaxCrashes

NewConfig == [version |-> 1, state |-> "draft", edits |-> {}]

\* A service started on an empty database, or on one with the strategies of
\* earlier, loaded into the cache.
StoreInit ==
    /\ \E old \in SUBSET Strategies :
          /\ configs = [s \in Strategies |-> IF s \in old THEN NewConfig ELSE Absent]
          /\ known = old
    /\ rows = configs
    /\ versionRows = {}
    /\ deploymentRows = {}
    /\ tasks = <<>>
    /\ writes = <<>>
    /\ requests = [r \in Requests |->
                     [op |-> "none", strategy |-> Absent, pc |-> "idle", config |-> Absent]]
    /\ runnerSlots = {}
    /\ records = [r \in Requests |-> "none"]
    /\ deployLock = FALSE
    /\ deleted = {}
    /\ crashes = 0

-------------------------------------------------------------------------------
(* Helpers *)

Of(r) == requests[r].strategy
Does(r, op, pc) == requests[r].op = op /\ requests[r].pc = pc
Advance(r, pc) == requests' = [requests EXCEPT ![r].pc = pc]

Write(kind, s, config, r) == [kind |-> kind, strategy |-> s, config |-> config, by |-> r]
WriteOf(kind, r, config) == Write(kind, Of(r), config, r)

\* A reply, a new request or an answer of the database takes the event loop at
\* least one turn, in which the tasks created before have started.
LoopHasTurned == tasks = <<>>

SlotsFor(s) == {r \in runnerSlots : Of(r) = s}
RecordedAsRunning(s) == {r \in Requests : Of(r) = s /\ records[r] = "running"}

\* What _get_strategy returns: the row it read, else the cache.
Found(r) == IF requests[r].config # Absent THEN requests[r].config ELSE configs[Of(r)]

\* _get_strategy puts the row it read into the cache.
CacheWhatWasRead(r) ==
    configs' = IF requests[r].config # Absent THEN [configs EXCEPT ![Of(r)] = requests[r].config]
                                              ELSE configs

-------------------------------------------------------------------------------
(* Requests arrive *)

\* A request that finds the event loop free begins its operation on s.
Begin(r, op, s, pc) ==
    /\ LoopHasTurned
    /\ requests[r].pc = "idle"
    /\ \A q \in Requests : q < r => requests[q].pc # "idle"
    /\ requests' = [requests EXCEPT ![r] = [op |-> op, strategy |-> s, pc |-> pc, config |-> Absent]]

\* create_strategy: the save becomes a task, the snapshot is awaited at once and
\* so reaches the write lock first.
Create(r, s) ==
    /\ Begin(r, "create", s, "snapshot")
    /\ s \notin known
    /\ configs[s] = Absent
    /\ configs' = [configs EXCEPT ![s] = NewConfig]
    /\ tasks' = Append(tasks, Write("save", s, NewConfig, r))
    /\ writes' = Append(writes, Write("snapshot", s, NewConfig, r))
    /\ UNCHANGED <<rows, versionRows, deploymentRows, runnerSlots, records, deployLock, known,
                   deleted, crashes>>

BeginReadUnlocked(r, op, s) ==
    /\ Begin(r, op, s, "reading")
    /\ s \in known
    /\ op \in Edits \cup {"get", "deploy", "agentDeploy"}
    /\ UNCHANGED <<configs, rows, versionRows, deploymentRows, tasks, writes, runnerSlots,
                   records, deployLock, known, deleted, crashes>>

\* Every handler but create, the stops and delete starts with _get_strategy;
\* deploy_strategy_to_paper takes _deploy_lock before.
BeginRead(r, op, s) ==
    /\ Begin(r, op, s, "reading")
    /\ s \in known
    /\ op \in Edits \cup {"get", "deploy", "agentDeploy"}
    /\ op = "deploy" => ~ deployLock
    /\ deployLock' = (deployLock \/ op = "deploy")
    /\ UNCHANGED <<configs, rows, versionRows, deploymentRows, tasks, writes, runnerSlots,
                   records, known, deleted, crashes>>

StopRecordsOnly(s) ==
    /\ records' = [r \in Requests |-> IF r \in RecordedAsRunning(s) THEN "stopped" ELSE records[r]]
    /\ UNCHANGED runnerSlots

\* runner.stop_by_strategy_id, and every running record of the strategy.
StopDeployments(s) ==
    /\ runnerSlots' = runnerSlots \ SlotsFor(s)
    /\ records' = [r \in Requests |-> IF r \in RecordedAsRunning(s) THEN "stopped" ELSE records[r]]

\* stop_strategy_deployment, up to its read.
BeginStop(r, s) ==
    /\ Begin(r, "stop", s, "reading")
    /\ s \in known
    /\ StopDeployments(s)
    /\ UNCHANGED <<configs, rows, versionRows, deploymentRows, tasks, writes, deployLock, known,
                   deleted, crashes>>

\* _stop_strategy_callback of the agent leaves the lifecycle state alone.
AgentStop(r, s) ==
    /\ Begin(r, "agentStop", s, "done")
    /\ s \in known
    /\ StopDeployments(s)
    /\ UNCHANGED <<configs, rows, versionRows, deploymentRows, tasks, writes, deployLock, known,
                   deleted, crashes>>

\* delete_strategy looks the strategy up in the cache only; deployments go on.
Delete(r, s) ==
    /\ Begin(r, "delete", s, "done")
    /\ s \in known
    /\ configs[s] # Absent
    /\ configs' = [configs EXCEPT ![s] = Absent]
    /\ tasks' = Append(tasks, Write("delete", s, Absent, r))
    /\ deleted' = deleted \cup {s}
    /\ UNCHANGED <<rows, versionRows, deploymentRows, writes, runnerSlots, records, deployLock,
                   known, crashes>>

-------------------------------------------------------------------------------
(* The database *)

\* The SELECT of StrategyRepository.get runs on the read connection.
ReadRow(r) ==
    /\ LoopHasTurned
    /\ requests[r].pc = "reading"
    /\ requests' = [requests EXCEPT ![r].pc = "read", ![r].config = rows[Of(r)]]
    /\ UNCHANGED <<configs, rows, versionRows, deploymentRows, tasks, writes, runnerSlots,
                   records, deployLock, known, deleted, crashes>>

\* The event loop starts the task created first; it queues for the write lock.
StartTask ==
    /\ tasks # <<>>
    /\ tasks' = Tail(tasks)
    /\ writes' = Append(writes, Head(tasks))
    /\ UNCHANGED <<configs, rows, versionRows, deploymentRows, requests, runnerSlots, records,
                   deployLock, known, deleted, crashes>>

\* Where the handler that awaited a write goes on.
AfterWrite(r) == CASE requests[r].op = "agentSave" /\ requests[r].pc = "save" -> "saved"
                   [] OTHER -> "done"

\* The write at the head commits and wakes its handler, if that awaits it.  A
\* created strategy is known to clients once create_strategy has answered.
Commit(kind) ==
    /\ LoopHasTurned
    /\ writes # <<>>
    /\ Head(writes).kind = kind
    /\ writes' = Tail(writes)
    /\ LET r == Head(writes).by
       IN  IF requests[r].pc = kind
           THEN /\ Advance(r, AfterWrite(r))
                /\ known' = IF requests[r].op = "create" THEN known \cup {Of(r)} ELSE known
           ELSE UNCHANGED <<requests, known>>
    /\ UNCHANGED <<configs, tasks, runnerSlots, records, deployLock, deleted, crashes>>

\* INSERT ... ON CONFLICT DO UPDATE.
CommitSave ==
    /\ Commit("save")
    /\ rows' = [rows EXCEPT ![Head(writes).strategy] = Head(writes).config]
    /\ UNCHANGED <<versionRows, deploymentRows>>

\* As if the table had one row per version.
CommitSnapshotByVersion ==
    /\ Commit("snapshot")
    /\ LET w == Head(writes)
       IN  versionRows' = IF rows[w.strategy] # Absent
                          THEN {v \in versionRows : v.version # w.config.version}
                                 \cup {[strategy |-> w.strategy,
                                        version |-> w.config.version, by |-> w.by]}
                          ELSE versionRows
    /\ UNCHANGED <<rows, deploymentRows>>

\* The foreign key refuses a snapshot of a strategy without a row; the handler
\* logs that and goes on.
CommitSnapshot ==
    /\ Commit("snapshot")
    /\ LET w == Head(writes)
       IN  versionRows' = IF rows[w.strategy] # Absent
                          THEN versionRows \cup {[strategy |-> w.strategy,
                                                  version |-> w.config.version, by |-> w.by]}
                          ELSE versionRows
    /\ UNCHANGED <<rows, deploymentRows>>

CommitDeployment ==
    /\ Commit("deployment")
    /\ LET w == Head(writes)
       IN  deploymentRows' = IF rows[w.strategy] # Absent
                             THEN deploymentRows \cup {[strategy |-> w.strategy, by |-> w.by]}
                             ELSE deploymentRows
    /\ UNCHANGED <<rows, versionRows>>

\* ON DELETE CASCADE takes the snapshots and deployments along.
CommitDelete ==
    /\ Commit("delete")
    /\ LET s == Head(writes).strategy
       IN  /\ rows' = [rows EXCEPT ![s] = Absent]
           /\ versionRows' = {v \in versionRows : v.strategy # s}
           /\ deploymentRows' = {d \in deploymentRows : d.strategy # s}

-------------------------------------------------------------------------------
(* Handlers go on after their read *)

\* The strategy is gone: 404, and deploy releases its lock.
NotFound(r) ==
    /\ requests[r].pc = "read"
    /\ Found(r) = Absent
    /\ Advance(r, "done")
    /\ deployLock' = (deployLock /\ requests[r].op # "deploy")
    /\ UNCHANGED <<configs, rows, versionRows, deploymentRows, tasks, writes, runnerSlots,
                   records, known, deleted, crashes>>

FinishGet(r) ==
    /\ Does(r, "get", "read")
    /\ Found(r) # Absent
    /\ CacheWhatWasRead(r)
    /\ Advance(r, "done")
    /\ UNCHANGED <<rows, versionRows, deploymentRows, tasks, writes, runnerSlots, records,
                   deployLock, known, deleted, crashes>>

\* The configuration an edit makes of the one it found.
Edited(r) == [version |-> Found(r).version + 1,
              state |-> IF requests[r].op = "confirm" THEN "confirmed" ELSE Found(r).state,
              edits |-> Found(r).edits \cup {r}]

\* update_strategy and confirm_strategy: cache, a task for the save, then the
\* snapshot, which the handler awaits.
FinishUpdate(r) ==
    /\ requests[r].op \in {"update", "confirm"}
    /\ requests[r].pc = "read"
    /\ Found(r) # Absent
    /\ configs' = [configs EXCEPT ![Of(r)] = Edited(r)]
    /\ tasks' = Append(tasks, WriteOf("save", r, Edited(r)))
    /\ writes' = Append(writes, WriteOf("snapshot", r, Edited(r)))
    /\ requests' = [requests EXCEPT ![r].pc = "snapshot", ![r].config = Edited(r)]
    /\ UNCHANGED <<rows, versionRows, deploymentRows, runnerSlots, records, deployLock, known,
                   deleted, crashes>>

\* _save_strategy_version_callback awaits the save, then the snapshot.
FinishAgentSave(r) ==
    /\ Does(r, "agentSave", "read")
    /\ Found(r) # Absent
    /\ configs' = [configs EXCEPT ![Of(r)] = Edited(r)]
    /\ writes' = Append(writes, WriteOf("save", r, Edited(r)))
    /\ requests' = [requests EXCEPT ![r].pc = "save", ![r].config = Edited(r)]
    /\ UNCHANGED <<rows, versionRows, deploymentRows, tasks, runnerSlots, records, deployLock,
                   known, deleted, crashes>>

AgentSnapshot(r) ==
    /\ Does(r, "agentSave", "saved")
    /\ writes' = Append(writes, WriteOf("snapshot", r, requests[r].config))
    /\ Advance(r, "snapshot")
    /\ UNCHANGED <<configs, rows, versionRows, deploymentRows, tasks, runnerSlots, records,
                   deployLock, known, deleted, crashes>>

\* stop_strategy_deployment, after its read.
FinishStop(r) ==
    /\ Does(r, "stop", "read")
    /\ Found(r) # Absent
    /\ IF Found(r).state = "running"
       THEN LET c == [Found(r) EXCEPT !.state = "confirmed"]
            IN  /\ configs' = [configs EXCEPT ![Of(r)] = c]
                /\ tasks' = Append(tasks, WriteOf("save", r, c))
       ELSE CacheWhatWasRead(r) /\ UNCHANGED tasks
    /\ Advance(r, "done")
    /\ UNCHANGED <<rows, versionRows, deploymentRows, writes, runnerSlots, records, deployLock,
                   known, deleted, crashes>>

-------------------------------------------------------------------------------
(* Deployment *)

\* A running record, or a slot in the runner, answers the request.
RefuseDeploy(r) ==
    /\ requests[r].op \in {"deploy", "agentDeploy"}
    /\ requests[r].pc = "read"
    /\ Found(r) # Absent
    /\ RecordedAsRunning(Of(r)) # {} \/ SlotsFor(Of(r)) # {}
    /\ CacheWhatWasRead(r)
    /\ Advance(r, "done")
    /\ deployLock' = (deployLock /\ requests[r].op # "deploy")
    /\ UNCHANGED <<rows, versionRows, deploymentRows, tasks, writes, runnerSlots, records, known,
                   deleted, crashes>>

\* runner.deploy takes the slot and awaits the warm-up.
RunnerDeploys(r) ==
    /\ requests[r].op \in {"deploy", "agentDeploy"}
    /\ requests[r].pc = "read"
    /\ Found(r) # Absent
    /\ RecordedAsRunning(Of(r)) = {} /\ SlotsFor(Of(r)) = {}
    /\ CacheWhatWasRead(r)
    /\ runnerSlots' = runnerSlots \cup {r}
    /\ requests' = [requests EXCEPT ![r].pc = "warming", ![r].config = Found(r)]
    /\ UNCHANGED <<rows, versionRows, deploymentRows, tasks, writes, records, deployLock, known,
                   deleted, crashes>>

\* The configuration read before the warm-up, now in the state running.
Running(r) == [requests[r].config EXCEPT !.state = "running"]

\* _deploy_strategy_inner after the warm-up.
FinishDeploy(r) ==
    /\ Does(r, "deploy", "warming")
    /\ records' = [records EXCEPT ![r] = "running"]
    /\ LET deployment == WriteOf("deployment", r, Absent)
       IN  IF requests[r].config.state = "running"
           THEN tasks' = Append(tasks, deployment) /\ UNCHANGED configs
           ELSE /\ tasks' = tasks \o <<deployment, WriteOf("save", r, Running(r))>>
                /\ configs' = [configs EXCEPT ![Of(r)] = Running(r)]
    /\ deployLock' = FALSE
    /\ Advance(r, "done")
    /\ UNCHANGED <<rows, versionRows, deploymentRows, writes, runnerSlots, known, deleted, crashes>>

\* _deploy_strategy_callback of the agent: building the StrategyDeployment
\* raises, since it is given no created_at, which the except passes over along
\* with the record, the state running and their writes.
FinishAgentDeploy(r) ==
    /\ Does(r, "agentDeploy", "warming")
    /\ Advance(r, "done")
    /\ UNCHANGED <<configs, rows, versionRows, deploymentRows, tasks, writes, runnerSlots, records,
                   deployLock, known, deleted, crashes>>

-------------------------------------------------------------------------------
(* Crash and restart *)

\* A client keeps the answer it has; a deployment with a slot is from now on one
\* of the runner's file, whoever asked for it.
StaysAnswered(r) ==
    requests[r].pc = "idle" \/ (requests[r].pc = "done" /\ r \notin runnerSlots)

\* The lifespan handler loads the rows; nobody loads the deployment records,
\* and the runner restores the slots its file holds.
RestartService ==
    /\ crashes < MaxCrashes
    /\ crashes' = crashes + 1
    /\ configs' = rows
    /\ tasks' = <<>>
    /\ writes' = <<>>
    /\ requests' = [r \in Requests |-> IF StaysAnswered(r) THEN requests[r]
                                       ELSE [requests[r] EXCEPT !.pc = "gone"]]
    /\ \E kept \in SUBSET runnerSlots :
          /\ \A r \in runnerSlots \ kept : requests[r].pc = "warming"
          /\ runnerSlots' = kept
    /\ records' = [r \in Requests |-> "none"]
    /\ deployLock' = FALSE
    /\ UNCHANGED <<rows, versionRows, deploymentRows, known, deleted>>

-------------------------------------------------------------------------------

StoreNext ==
    \/ \E r \in Requests :
          \/ \E s \in Strategies :
                \/ Create(r, s) \/ BeginStop(r, s) \/ AgentStop(r, s) \/ Delete(r, s)
                \/ \E op \in Operations : BeginRead(r, op, s)
          \/ ReadRow(r) \/ NotFound(r) \/ FinishGet(r) \/ FinishUpdate(r) \/ FinishAgentSave(r)
          \/ AgentSnapshot(r) \/ FinishStop(r) \/ RefuseDeploy(r) \/ RunnerDeploys(r)
          \/ FinishDeploy(r) \/ FinishAgentDeploy(r)
    \/ StartTask \/ CommitSave \/ CommitSnapshot \/ CommitDeployment \/ CommitDelete
    \/ RestartService

StoreSpec == StoreInit /\ [][StoreNext]_storeVars

-------------------------------------------------------------------------------
(* Properties *)

\* An edit the client was told has succeeded.
Answered(r) ==
    /\ requests[r].pc = "done"
    /\ requests[r].config # Absent
    /\ r \in requests[r].config.edits

\* Concurrent edits overwrite each other in the cache and in the table, and a
\* crash may take a save with it, but an edit that was answered is never lost
\* altogether: until the strategy is deleted, its snapshot is in the history.
AnsweredEditsAreInHistory ==
    \A r \in Requests :
        Answered(r) /\ Of(r) \notin deleted =>
            \E v \in versionRows : v.strategy = Of(r) /\ v.by = r

\* Whatever stops, deploys and agents overlap, a deployment of the endpoint that
\* runs is recorded as running once its request is answered; and no strategy has
\* two running records, so that the one a stop or a refusal finds is the one
\* there is: _deploy_lock, the records and the slots together keep them apart,
\* also when a stop empties the slot during a warm-up.  What the agent deploys
\* runs and is never recorded.
DeploymentsAreRecorded ==
    /\ \A r \in runnerSlots : Does(r, "deploy", "done") => records[r] = "running"
    /\ \A s \in Strategies : \A q, r \in RecordedAsRunning(s) : q = r

=============================================================================

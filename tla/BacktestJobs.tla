---------------------------- MODULE BacktestJobs ----------------------------
(***************************************************************************)
(* Backtests started over REST or by the agent, and where their results    *)
(* live: the task table _tasks and the results store _backtest_results,    *)
(* both of bounded size, and the table backtests of SQLite, whose writes   *)
(* pass one lock in the order they reach it.                               *)
(*                                                                         *)
(* Abstractions: one user; a result is the id of its backtest; reading the *)
(* strategy and loading bars is one step with the run in its thread, since *)
(* they change no state here; no strategy is deleted, which would take the *)
(* rows of its backtests along (ON DELETE CASCADE).                        *)
(***************************************************************************)
EXTENDS Naturals, Sequences, SequencesExt, SeqWithout

CONSTANTS
    Backtests,       \* ids
    MaxTasks,        \* _MAX_TASKS
    MaxResults,      \* _MAX_RESULTS
    MaxConcurrent,   \* _MAX_CONCURRENT_PER_USER
    MaxRestarts      \* bound: restarts of the service in a behaviour

ASSUME JobsAssumption ==
    /\ MaxTasks \in Nat \ {0} /\ MaxResults \in Nat \ {0}
    /\ MaxConcurrent \in Nat \ {0} /\ MaxRestarts \in Nat

VARIABLES
    jobs,        \* jobs[b]: status of the BacktestTask or of the agent's tool call
    taskTable,   \* keys of _tasks, oldest first
    results,     \* keys of _backtest_results, oldest first
    backtestRows,   \* the table backtests
    dbWrites,    \* saves and deletes that hold or await the write lock
    deletedJobs, \* deletedJobs[b]: whether, and when, b was deleted
    unsaved,     \* results whose save raised
    undeleted,   \* backtests whose last delete raised in the database
    restarts     \* restarts so far

jobsVars == <<jobs, taskTable, results, backtestRows, dbWrites, deletedJobs, unsaved, undeleted,
              restarts>>

Active == {"pending", "running"}
Statuses == Active \cup {"new", "agentRunning", "completed", "failed", "lost"}

JobsTypeOK ==
    /\ jobs \in [Backtests -> Statuses]
    /\ taskTable \in Seq(Backtests) /\ Len(taskTable) <= MaxTasks
    /\ results \in Seq(Backtests)
    /\ backtestRows \subseteq Backtests
    /\ dbWrites \in Seq([kind: {"save", "delete"}, of: Backtests])
    /\ deletedJobs \in [Backtests -> {"no", "unfinished", "finished"}]
    /\ unsaved \subseteq Backtests /\ undeleted \subseteq Backtests
    /\ restarts \in 0..MaxRestarts

JobsInit ==
    /\ jobs = [b \in Backtests |-> "new"]
    /\ taskTable = <<>>
    /\ results = <<>>
    /\ backtestRows = {}
    /\ dbWrites = <<>>
    /\ deletedJobs = [b \in Backtests |-> "no"]
    /\ unsaved = {} /\ undeleted = {}
    /\ restarts = 0

-------------------------------------------------------------------------------

EvictedLate(keys, max) == IF Len(keys) > max + 1 THEN Tail(keys) ELSE keys

\* A dict with a new last key, rid of its oldest keys beyond max.
Evicted(keys, max) == IF Len(keys) > max THEN SubSeq(keys, Len(keys) - max + 1, Len(keys)) ELSE keys

Tracked(b) == b \in ToSet(taskTable)
DbWrite(kind, b) == [kind |-> kind, of |-> b]

-------------------------------------------------------------------------------
(* POST /backtests and _run_backtest *)

\* The limit counts the tasks of the table; the oldest task leaves a full table
\* whatever its status.
StartBacktest(b) ==
    /\ jobs[b] = "new"
    /\ Len(SelectSeq(taskTable, LAMBDA t : jobs[t] \in Active)) < MaxConcurrent
    /\ jobs' = [jobs EXCEPT ![b] = "pending"]
    /\ taskTable' = Evicted(Append(taskTable, b), MaxTasks)
    /\ UNCHANGED <<results, backtestRows, dbWrites, deletedJobs, unsaved, undeleted, restarts>>

RunBacktest(b) ==
    /\ jobs[b] = "pending"
    /\ jobs' = [jobs EXCEPT ![b] = "running"]
    /\ UNCHANGED <<taskTable, results, backtestRows, dbWrites, deletedJobs, unsaved, undeleted,
                   restarts>>

FinishBacktestUnsaved(b) ==
    /\ jobs[b] = "running"
    /\ jobs' = [jobs EXCEPT ![b] = "completed"]
    /\ results' = Evicted(Append(results, b), MaxResults)
    /\ UNCHANGED <<taskTable, backtestRows, dbWrites, deletedJobs, unsaved, undeleted, restarts>>

\* The result goes to the task, to the store and, awaited, to the database;
\* whether the backtest has been deleted meanwhile is not asked.
FinishBacktest(b) ==
    /\ jobs[b] = "running"
    /\ jobs' = [jobs EXCEPT ![b] = "completed"]
    /\ results' = Evicted(Append(results, b), MaxResults)
    /\ dbWrites' = Append(dbWrites, DbWrite("save", b))
    /\ UNCHANGED <<taskTable, backtestRows, deletedJobs, unsaved, undeleted, restarts>>

\* No strategy, no bars, or the engine raises.
FailBacktest(b) ==
    /\ jobs[b] = "running"
    /\ jobs' = [jobs EXCEPT ![b] = "failed"]
    /\ UNCHANGED <<taskTable, results, backtestRows, dbWrites, deletedJobs, unsaved, undeleted,
                   restarts>>

\* The agent's tool has no task and evicts nothing.
AgentStarts(b) ==
    /\ jobs[b] = "new"
    /\ jobs' = [jobs EXCEPT ![b] = "agentRunning"]
    /\ UNCHANGED <<taskTable, results, backtestRows, dbWrites, deletedJobs, unsaved, undeleted,
                   restarts>>

AgentFinishes(b) ==
    /\ jobs[b] = "agentRunning"
    /\ jobs' = [jobs EXCEPT ![b] = "completed"]
    /\ results' = Append(results, b)
    /\ dbWrites' = Append(dbWrites, DbWrite("save", b))
    /\ UNCHANGED <<taskTable, backtestRows, deletedJobs, unsaved, undeleted, restarts>>

-------------------------------------------------------------------------------
(* DELETE /backtests/{id} *)

\* A client may ask again for what a delete in the database left.
MayDelete(b) ==
    /\ jobs[b] \in Active \cup {"completed", "failed"}
    /\ deletedJobs[b] = "no" \/ b \in undeleted
    /\ deletedJobs' = [deletedJobs EXCEPT ![b] = IF jobs[b] \in Active THEN "unfinished" ELSE "finished"]
    /\ undeleted' = undeleted \ {b}

DeleteRowAtOnce(b) ==
    /\ MayDelete(b)
    /\ taskTable' = Without(taskTable, {b})
    /\ results' = Without(results, {b})
    /\ backtestRows' = backtestRows \ {b}
    /\ UNCHANGED <<jobs, dbWrites, unsaved, restarts>>

\* Out of both stores at once, and out of the database behind the writes that
\* wait; a run goes on.
DeleteBacktest(b) ==
    /\ MayDelete(b)
    /\ taskTable' = Without(taskTable, {b})
    /\ results' = Without(results, {b})
    /\ dbWrites' = Append(dbWrites, DbWrite("delete", b))
    /\ UNCHANGED <<jobs, backtestRows, unsaved, restarts>>

-------------------------------------------------------------------------------
(* The database, and restarts *)

WriteRow ==
    /\ dbWrites # <<>>
    /\ LET w == Head(dbWrites)
       IN  backtestRows' = IF w.kind = "save" THEN backtestRows \cup {w.of} ELSE backtestRows \ {w.of}
    /\ dbWrites' = Tail(dbWrites)
    /\ UNCHANGED <<jobs, taskTable, results, deletedJobs, unsaved, undeleted, restarts>>

\* A save that raises is logged; the result stays in memory only.
SaveRaises ==
    /\ dbWrites # <<>>
    /\ Head(dbWrites).kind = "save"
    /\ unsaved' = unsaved \cup {Head(dbWrites).of}
    /\ dbWrites' = Tail(dbWrites)
    /\ UNCHANGED <<jobs, taskTable, results, backtestRows, deletedJobs, undeleted, restarts>>

\* A delete that raises is logged, and answered like one that did not.
DeleteRaises ==
    /\ dbWrites # <<>>
    /\ Head(dbWrites).kind = "delete"
    /\ undeleted' = undeleted \cup {Head(dbWrites).of}
    /\ dbWrites' = Tail(dbWrites)
    /\ UNCHANGED <<jobs, taskTable, results, backtestRows, deletedJobs, unsaved, restarts>>

\* The service stops and starts again: tables, stores, runs and waiting writes
\* are gone, and a DELETE whose write waited was never answered.
RestartJobs ==
    /\ restarts < MaxRestarts
    /\ restarts' = restarts + 1
    /\ jobs' = [b \in Backtests |->
                  IF jobs[b] = "new" \/ (jobs[b] = "completed" /\ b \in backtestRows) THEN jobs[b]
                  ELSE "lost"]
    /\ taskTable' = <<>>
    /\ results' = <<>>
    /\ dbWrites' = <<>>
    /\ deletedJobs' = [b \in Backtests |->
                         IF DbWrite("delete", b) \in ToSet(dbWrites) THEN "no" ELSE deletedJobs[b]]
    /\ UNCHANGED <<backtestRows, unsaved, undeleted>>

JobsNext ==
    \/ \E b \in Backtests :
          \/ StartBacktest(b) \/ RunBacktest(b) \/ FinishBacktest(b) \/ FailBacktest(b)
          \/ AgentStarts(b) \/ AgentFinishes(b) \/ DeleteBacktest(b)
    \/ WriteRow \/ SaveRaises \/ DeleteRaises \/ RestartJobs

JobsSpec == JobsInit /\ [][JobsNext]_jobsVars

-------------------------------------------------------------------------------
(* Properties *)

WriteWaits(kind, b) == DbWrite(kind, b) \in ToSet(dbWrites)

\* What GET /backtests/{id} finds: the task, the store or the row.
Findable(b) == Tracked(b) \/ b \in ToSet(results) \/ b \in backtestRows

\* Eviction from two bounded tables never loses a result: a completed backtest
\* nobody deleted is found, or its save is under way, unless that save raised
\* before the tables filled.
FinishedBacktestsFound ==
    \A b \in Backtests :
        jobs[b] = "completed" /\ deletedJobs[b] = "no" /\ b \notin unsaved
            => Findable(b) \/ WriteWaits("save", b)

\* A backtest deleted once it was finished does not come back to the tables of
\* the process; nor does its row, as long as the database carried the delete out:
\* a row or a save that still waits has a delete behind it.  Where that delete
\* raised, the row stays and is found, though the client was told otherwise; and a
\* backtest deleted while it runs comes back when it finishes.
DeletedStaysDeleted ==
    \A b \in Backtests :
        deletedJobs[b] = "finished" /\ jobs[b] = "completed" =>
            /\ ~ Tracked(b) /\ b \notin ToSet(results)
            /\ b \notin undeleted /\ (b \in backtestRows \/ WriteWaits("save", b)) =>
                  \E n \in DOMAIN dbWrites :
                      /\ dbWrites[n] = DbWrite("delete", b)
                      /\ \A m \in DOMAIN dbWrites : dbWrites[m] = DbWrite("save", b) => m < n

=============================================================================

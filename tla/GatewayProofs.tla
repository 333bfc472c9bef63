--------------------------- MODULE GatewayProofs ----------------------------
(***************************************************************************)
(* Theorems of three parts of local-api, each for all values of its        *)
(* constants: the backtest jobs, the fan-out to browsers, and the versions *)
(* and deployments of strategies that the endpoints and the agent record.  *)
(* They share no state; each section begins with the argument.             *)
(***************************************************************************)
EXTENDS StrategyStore, BacktestJobs, Gateway, DataFacts

-------------------------------------------------------------------------------
(***************************************************************************)
(* The backtest jobs, for any backtests and any sizes of the tables and    *)
(* the store.                                                              *)
(*                                                                         *)
(* Finished backtests are found because their row is there or its save     *)
(* waits, whatever the tables evicted.  Deleted ones stay away because     *)
(* writes keep their order: behind every row and every waiting save waits  *)
(* a delete, which no later save can follow, since nothing that was        *)
(* deleted when finished finishes again; only a delete that raises leaves  *)
(* a row with nothing behind it.                                           *)
(***************************************************************************)

JobWrites == [kind: {"save", "delete"}, of: Backtests]

\* A delete of b waits behind the row of b and every waiting save of it.
DeleteBehind(q, kept, b) ==
    b \in kept \/ DbWrite("save", b) \in ToSet(q) =>
        \E n \in DOMAIN q :
            /\ q[n] = DbWrite("delete", b)
            /\ \A m \in DOMAIN q : q[m] = DbWrite("save", b) => m < n

RowsAfter(w, kept) == IF w.kind = "save" THEN kept \cup {w.of} ELSE kept \ {w.of}

LEMMA WritesDiffer ==
    \A b, c : /\ DbWrite("save", b) # DbWrite("delete", c)
              /\ DbWrite("save", b) = DbWrite("save", c) => b = c
              /\ DbWrite("delete", b) = DbWrite("delete", c) => b = c
              /\ DbWrite("save", b).kind = "save" /\ DbWrite("save", b).of = b
              /\ DbWrite("delete", b).kind = "delete" /\ DbWrite("delete", b).of = b
<1> SUFFICES ASSUME NEW b, NEW c
             PROVE  /\ DbWrite("save", b) # DbWrite("delete", c)
                    /\ DbWrite("save", b) = DbWrite("save", c) => b = c
                    /\ DbWrite("delete", b) = DbWrite("delete", c) => b = c
                    /\ DbWrite("save", b).kind = "save" /\ DbWrite("save", b).of = b
                    /\ DbWrite("delete", b).kind = "delete" /\ DbWrite("delete", b).of = b
  OBVIOUS
<1>1. \A x : DbWrite("save", x).of = x /\ DbWrite("delete", x).of = x
             /\ DbWrite("save", x).kind = "save" /\ DbWrite("delete", x).kind = "delete"
  BY DEF DbWrite
<1> QED BY <1>1

LEMMA DeleteAppended ==
    ASSUME NEW q \in Seq(JobWrites), NEW b \in Backtests, NEW kept
    PROVE  DeleteBehind(Append(q, DbWrite("delete", b)), kept, b)
<1>1. DbWrite("delete", b) \in JobWrites BY DEF DbWrite, JobWrites
<1> DEFINE w == DbWrite("delete", b)
           more == Append(q, w)
<1>2. more[Len(q) + 1] = w /\ DOMAIN more = 1..(Len(q) + 1) /\ Len(q) \in Nat BY <1>1, AppendedMembers
<1>3. \A m \in DOMAIN more : more[m] = DbWrite("save", b) => m < Len(q) + 1 BY <1>2, WritesDiffer
<1>4. Len(q) + 1 \in DOMAIN more BY <1>2
<1> HIDE DEF w, more
<1> QED BY <1>2, <1>3, <1>4 DEF DeleteBehind, w, more

LEMMA OtherAppended ==
    ASSUME NEW q \in Seq(JobWrites), NEW b \in Backtests, NEW kept, DeleteBehind(q, kept, b),
           NEW w \in JobWrites, w # DbWrite("save", b)
    PROVE  DeleteBehind(Append(q, w), kept, b)
<1> DEFINE more == Append(q, w)
<1>1. /\ ToSet(more) = ToSet(q) \cup {w} /\ more[Len(q) + 1] = w
      /\ DOMAIN more = 1..(Len(q) + 1) /\ DOMAIN q = 1..Len(q) /\ Len(q) \in Nat
      /\ \A n \in 1..Len(q) : more[n] = q[n]
  BY AppendedMembers
<1> HIDE DEF more
<1> SUFFICES ASSUME b \in kept \/ DbWrite("save", b) \in ToSet(more)
             PROVE  \E n \in DOMAIN more : /\ more[n] = DbWrite("delete", b)
                                           /\ \A m \in DOMAIN more : more[m] = DbWrite("save", b) => m < n
  BY DEF DeleteBehind, more
<1>2. PICK n \in DOMAIN q : /\ q[n] = DbWrite("delete", b)
                            /\ \A m \in DOMAIN q : q[m] = DbWrite("save", b) => m < n
  BY <1>1 DEF DeleteBehind
<1>3. n \in DOMAIN more /\ more[n] = DbWrite("delete", b) BY <1>1, <1>2
<1>4. \A m \in DOMAIN more : m \in DOMAIN q \/ m = Len(q) + 1 BY <1>1
<1>5. \A m \in DOMAIN more : more[m] = DbWrite("save", b) => m < n BY <1>1, <1>2, <1>4
<1> QED BY <1>3, <1>5

\* Whether the write at the head is carried out, or raises, as long as it is not
\* the delete of b that raises.
LEMMA HeadLeaves ==
    ASSUME NEW q \in Seq(JobWrites), NEW b \in Backtests, NEW kept, DeleteBehind(q, kept, b),
           q # <<>>, NEW now,
           now = RowsAfter(Head(q), kept) \/ (now = kept /\ Head(q) # DbWrite("delete", b))
    PROVE  DeleteBehind(Tail(q), now, b)
<1>1. /\ Head(q) = q[1] /\ 1 \in DOMAIN q /\ Len(q) \in Nat /\ Tail(q) \in Seq(JobWrites)
      /\ DOMAIN Tail(q) = 1..(Len(q) - 1) /\ DOMAIN q = 1..Len(q)
      /\ \A n \in 1..(Len(q) - 1) : Tail(q)[n] = q[n + 1]
      /\ \A n \in DOMAIN q : n # 1 => n - 1 \in DOMAIN Tail(q) /\ Tail(q)[n - 1] = q[n]
      /\ ToSet(q) = {Head(q)} \cup ToSet(Tail(q))
  BY TailMembers
<1>2. Head(q) \in JobWrites BY <1>1
<1> SUFFICES ASSUME b \in now \/ DbWrite("save", b) \in ToSet(Tail(q))
             PROVE  \E n \in DOMAIN Tail(q) :
                       /\ Tail(q)[n] = DbWrite("delete", b)
                       /\ \A m \in DOMAIN Tail(q) : Tail(q)[m] = DbWrite("save", b) => m < n
  BY DEF DeleteBehind
<1>3. b \in now => b \in kept \/ Head(q) = DbWrite("save", b)
  BY <1>2 DEF RowsAfter, DbWrite, JobWrites
<1>4. PICK n \in DOMAIN q : /\ q[n] = DbWrite("delete", b)
                            /\ \A m \in DOMAIN q : q[m] = DbWrite("save", b) => m < n
  BY <1>1, <1>3 DEF DeleteBehind
<1>5. n # 1
  <2> SUFFICES ASSUME n = 1 PROVE FALSE OBVIOUS
  <2>1. Head(q) = DbWrite("delete", b) BY <1>1, <1>4
  <2>2. now = kept \ {b} BY <2>1, WritesDiffer DEF RowsAfter
  <2>3. DbWrite("save", b) \in ToSet(Tail(q)) BY <2>2
  <2>4. PICK k \in DOMAIN Tail(q) : Tail(q)[k] = DbWrite("save", b) BY <2>3 DEF ToSet
  <2>5. k \in 1..(Len(q) - 1) /\ k + 1 \in DOMAIN q /\ q[k + 1] = DbWrite("save", b) BY <1>1, <2>4
  <2> QED BY <2>5, <1>4
<1>6. n - 1 \in DOMAIN Tail(q) /\ Tail(q)[n - 1] = DbWrite("delete", b) BY <1>1, <1>4, <1>5
<1>7. ASSUME NEW m \in DOMAIN Tail(q), Tail(q)[m] = DbWrite("save", b) PROVE m < n - 1
  <2>1. m \in 1..(Len(q) - 1) /\ m + 1 \in DOMAIN q /\ q[m + 1] = DbWrite("save", b) BY <1>1, <1>7
  <2>2. m + 1 < n BY <2>1, <1>4
  <2>3. n \in Int /\ m \in Int BY <1>1, <2>1
  <2> QED BY <2>2, <2>3
<1> QED BY <1>6, <1>7
-------------------------------------------------------------------------------
(* The inductive invariant *)

\* A backtest is deleted as finished only when it is.
FinishedWhenDeleted == \A b \in Backtests : deletedJobs[b] = "finished" => jobs[b] \in {"completed", "failed", "lost"}

\* A waiting delete is of something deleted.
DeletesAreOfDeleted == \A b \in Backtests : WriteWaits("delete", b) => deletedJobs[b] # "no"

\* The row of a finished backtest is there, or its save waits.
FinishedInDatabase ==
    \A b \in Backtests :
        jobs[b] = "completed" /\ deletedJobs[b] = "no" /\ b \notin unsaved
            => b \in backtestRows \/ WriteWaits("save", b)

JobsInv ==
    /\ JobsTypeOK
    /\ FinishedWhenDeleted /\ DeletesAreOfDeleted /\ FinishedInDatabase /\ DeletedStaysDeleted

\* DeletedStaysDeleted, for one backtest.
Away(table, store, kept, q, failed, b) ==
    /\ b \notin ToSet(table) /\ b \notin ToSet(store)
    /\ b \in failed \/ DeleteBehind(q, kept, b)

LEMMA StaysAway ==
    DeletedStaysDeleted <=>
        \A b \in Backtests : deletedJobs[b] = "finished" /\ jobs[b] = "completed"
                                => Away(taskTable, results, backtestRows, dbWrites, undeleted, b)
  BY DEF DeletedStaysDeleted, Away, DeleteBehind, Tracked, WriteWaits

LEMMA StaysAwayNext ==
    DeletedStaysDeleted' <=>
        \A b \in Backtests : deletedJobs'[b] = "finished" /\ jobs'[b] = "completed"
                                => Away(taskTable', results', backtestRows', dbWrites', undeleted', b)
  BY DEF DeletedStaysDeleted, Away, DeleteBehind, Tracked, WriteWaits

\* What an eviction leaves.
LEMMA EvictedFacts ==
    ASSUME NEW keys \in Seq(Backtests), NEW max \in Nat \ {0}
    PROVE  /\ Evicted(keys, max) \in Seq(Backtests) /\ Len(Evicted(keys, max)) <= max
           /\ ToSet(Evicted(keys, max)) \subseteq ToSet(keys)
<1>1. CASE Len(keys) > max
  <2> DEFINE from == Len(keys) - max + 1
             r == SubSeq(keys, from, Len(keys))
  <2>1. from \in 1..Len(keys) /\ Len(keys) \in Nat /\ from \in Int BY <1>1
  <2>2. \A i \in from..Len(keys) : keys[i] \in Backtests BY <2>1
  <2>3. Len(keys) - from + 1 = max BY <2>1
  <2>4. r \in Seq(Backtests) /\ Len(r) = max /\ \A i \in 1..max : r[i] = keys[from + i - 1]
    <3> HIDE DEF from
    <3> QED BY <2>1, <2>2, <2>3, SubSeqProperties
  <2>5. ASSUME NEW i \in DOMAIN r PROVE r[i] \in ToSet(keys)
    <3>1. i \in 1..max BY <2>4
    <3>2. from + i - 1 \in 1..Len(keys) BY <2>1, <3>1
    <3> QED BY <2>4, <3>1, <3>2 DEF ToSet
  <2>6. Evicted(keys, max) = r BY <1>1 DEF Evicted
  <2> HIDE DEF r, from
  <2> QED BY <2>4, <2>5, <2>6 DEF ToSet
<1>2. CASE ~ (Len(keys) > max) BY <1>2 DEF Evicted
<1> QED BY <1>1, <1>2

LEMMA JobsInitInv == JobsInit => JobsInv
<1> SUFFICES ASSUME JobsInit PROVE JobsInv OBVIOUS
<1>1. JobsTypeOK BY JobsAssumption DEF JobsInit, JobsTypeOK, Statuses
<1>2. ToSet(<<>>) = {} BY DEF ToSet
<1>3. FinishedWhenDeleted /\ FinishedInDatabase /\ DeletesAreOfDeleted BY <1>2 DEF JobsInit, FinishedWhenDeleted, FinishedInDatabase, DeletesAreOfDeleted, WriteWaits
<1>4. DeletedStaysDeleted BY DEF JobsInit, DeletedStaysDeleted
<1> QED BY <1>1, <1>3, <1>4 DEF JobsInv

\* Steps of a backtest that write nothing.
LEMMA StartBacktestKeeps == ASSUME JobsInv, NEW b \in Backtests, StartBacktest(b) PROVE JobsInv'
<1>1. /\ jobs[b] = "new" /\ jobs' = [jobs EXCEPT ![b] = "pending"]
      /\ taskTable' = Evicted(Append(taskTable, b), MaxTasks)
      /\ UNCHANGED <<results, backtestRows, dbWrites, deletedJobs, unsaved, undeleted, restarts>>
  BY DEF StartBacktest
<1>2. /\ taskTable' \in Seq(Backtests) /\ Len(taskTable') <= MaxTasks
      /\ ToSet(taskTable') \subseteq ToSet(taskTable) \cup {b}
  <2>1. taskTable \in Seq(Backtests) BY DEF JobsInv, JobsTypeOK
  <2>2. Append(taskTable, b) \in Seq(Backtests) /\ ToSet(Append(taskTable, b)) = ToSet(taskTable) \cup {b}
    BY <2>1, AppendedMembers
  <2> QED BY <1>1, <2>2, EvictedFacts, JobsAssumption
<1>3. JobsTypeOK' BY <1>1, <1>2 DEF JobsInv, JobsTypeOK, Statuses, Active
<1>4. \A c \in Backtests : jobs'[c] = IF c = b THEN "pending" ELSE jobs[c] BY <1>1 DEF JobsInv, JobsTypeOK
<1>5. FinishedWhenDeleted' /\ FinishedInDatabase' /\ DeletesAreOfDeleted'
  BY <1>1, <1>4 DEF JobsInv, FinishedWhenDeleted, FinishedInDatabase, DeletesAreOfDeleted, WriteWaits
<1>6. DeletedStaysDeleted'
  <2> SUFFICES ASSUME NEW c \in Backtests, deletedJobs'[c] = "finished", jobs'[c] = "completed"
               PROVE  Away(taskTable', results', backtestRows', dbWrites', undeleted', c)
    BY StaysAwayNext
  <2>1. c # b /\ jobs[c] = "completed" /\ deletedJobs[c] = "finished" BY <1>1, <1>4
  <2>2. Away(taskTable, results, backtestRows, dbWrites, undeleted, c) BY <2>1, StaysAway DEF JobsInv
  <2> QED BY <2>1, <2>2, <1>1, <1>2 DEF Away
<1> QED BY <1>3, <1>5, <1>6 DEF JobsInv

LEMMA StatusKeeps ==
    ASSUME JobsInv, NEW b \in Backtests, NEW s \in {"running", "failed", "agentRunning"},
           jobs[b] \in {"new", "pending", "running"}, jobs' = [jobs EXCEPT ![b] = s],
           UNCHANGED <<taskTable, results, backtestRows, dbWrites, deletedJobs, unsaved, undeleted, restarts>>
    PROVE  JobsInv'
<1>1. JobsTypeOK' BY DEF JobsInv, JobsTypeOK, Statuses, Active
<1>2. \A c \in Backtests : jobs'[c] = IF c = b THEN s ELSE jobs[c] BY DEF JobsInv, JobsTypeOK
<1>3. FinishedWhenDeleted' /\ FinishedInDatabase' /\ DeletesAreOfDeleted'
  BY <1>2 DEF JobsInv, FinishedWhenDeleted, FinishedInDatabase, DeletesAreOfDeleted, WriteWaits
<1>4. DeletedStaysDeleted' BY <1>2 DEF JobsInv, DeletedStaysDeleted, Tracked, WriteWaits
<1> QED BY <1>1, <1>3, <1>4 DEF JobsInv

\* A run that ends with a result.
LEMMA ResultKeeps ==
    ASSUME JobsInv, NEW b \in Backtests, jobs[b] \in {"running", "agentRunning"},
           jobs' = [jobs EXCEPT ![b] = "completed"],
           results' \in Seq(Backtests), ToSet(results') \subseteq ToSet(results) \cup {b},
           dbWrites' = Append(dbWrites, DbWrite("save", b)),
           UNCHANGED <<taskTable, backtestRows, deletedJobs, unsaved, undeleted, restarts>>
    PROVE  JobsInv'
<1>1. DbWrite("save", b) \in JobWrites /\ dbWrites \in Seq(JobWrites) BY DEF JobsInv, JobsTypeOK, DbWrite, JobWrites
<1>2. dbWrites' \in Seq(JobWrites) /\ ToSet(dbWrites') = ToSet(dbWrites) \cup {DbWrite("save", b)}
  BY <1>1, AppendedMembers
<1>3. JobsTypeOK' BY <1>2 DEF JobsInv, JobsTypeOK, Statuses, Active, JobWrites
<1>4. \A c \in Backtests : jobs'[c] = IF c = b THEN "completed" ELSE jobs[c] BY DEF JobsInv, JobsTypeOK
<1>5. deletedJobs[b] # "finished" BY DEF JobsInv, FinishedWhenDeleted
<1>6. FinishedWhenDeleted' BY <1>4 DEF JobsInv, FinishedWhenDeleted
<1>7. DeletesAreOfDeleted' BY <1>2, WritesDiffer DEF JobsInv, DeletesAreOfDeleted, WriteWaits
<1>8. FinishedInDatabase' BY <1>2, <1>4 DEF JobsInv, FinishedInDatabase, WriteWaits
<1>9. DeletedStaysDeleted'
  <2> SUFFICES ASSUME NEW c \in Backtests, deletedJobs'[c] = "finished", jobs'[c] = "completed"
               PROVE  Away(taskTable', results', backtestRows', dbWrites', undeleted', c)
    BY StaysAwayNext
  <2>1. c # b /\ jobs[c] = "completed" /\ deletedJobs[c] = "finished" BY <1>4, <1>5
  <2>2. Away(taskTable, results, backtestRows, dbWrites, undeleted, c) BY <2>1, StaysAway DEF JobsInv
  <2>3. DbWrite("save", b) # DbWrite("save", c) BY <2>1, WritesDiffer
  <2>4. c \in undeleted' \/ DeleteBehind(dbWrites', backtestRows', c) BY <1>1, <2>2, <2>3, OtherAppended DEF Away
  <2> QED BY <2>1, <2>2, <2>4 DEF Away
<1> QED BY <1>3, <1>6, <1>7, <1>8, <1>9 DEF JobsInv

LEMMA FinishBacktestKeeps == ASSUME JobsInv, NEW b \in Backtests, FinishBacktest(b) PROVE JobsInv'
<1>1. results \in Seq(Backtests) BY DEF JobsInv, JobsTypeOK
<1>2. Append(results, b) \in Seq(Backtests) /\ ToSet(Append(results, b)) = ToSet(results) \cup {b}
  BY <1>1, AppendedMembers
<1>3. results' = Evicted(Append(results, b), MaxResults) BY DEF FinishBacktest
<1>4. results' \in Seq(Backtests) /\ ToSet(results') \subseteq ToSet(results) \cup {b}
  BY <1>2, <1>3, EvictedFacts, JobsAssumption
<1> QED BY <1>4, ResultKeeps DEF FinishBacktest

LEMMA AgentFinishesKeeps == ASSUME JobsInv, NEW b \in Backtests, AgentFinishes(b) PROVE JobsInv'
<1>1. results \in Seq(Backtests) BY DEF JobsInv, JobsTypeOK
<1>2. results' = Append(results, b) BY DEF AgentFinishes
<1>3. results' \in Seq(Backtests) /\ ToSet(results') \subseteq ToSet(results) \cup {b}
  BY <1>1, <1>2, AppendedMembers
<1> QED BY <1>3, ResultKeeps DEF AgentFinishes

LEMMA DeleteBacktestKeeps == ASSUME JobsInv, NEW b \in Backtests, DeleteBacktest(b) PROVE JobsInv'
<1> DEFINE how == IF jobs[b] \in Active THEN "unfinished" ELSE "finished"
<1>1. /\ jobs[b] \in {"pending", "running", "completed", "failed"}
      /\ deletedJobs' = [deletedJobs EXCEPT ![b] = how]
      /\ taskTable' = Without(taskTable, {b}) /\ results' = Without(results, {b})
      /\ dbWrites' = Append(dbWrites, DbWrite("delete", b))
      /\ undeleted' = undeleted \ {b}
      /\ UNCHANGED <<jobs, backtestRows, unsaved, restarts>>
  BY DEF DeleteBacktest, MayDelete, Active
<1>2. taskTable \in Seq(Backtests) /\ results \in Seq(Backtests) BY DEF JobsInv, JobsTypeOK
<1>3. /\ taskTable' \in Seq(Backtests) /\ Len(taskTable') <= Len(taskTable)
      /\ ToSet(taskTable') = ToSet(taskTable) \ {b}
      /\ results' \in Seq(Backtests) /\ ToSet(results') = ToSet(results) \ {b}
  BY <1>1, <1>2, WithoutProperties
<1>4. DbWrite("delete", b) \in JobWrites /\ dbWrites \in Seq(JobWrites) BY DEF JobsInv, JobsTypeOK, DbWrite, JobWrites
<1>5. dbWrites' \in Seq(JobWrites) /\ ToSet(dbWrites') = ToSet(dbWrites) \cup {DbWrite("delete", b)}
  BY <1>1, <1>4, AppendedMembers
<1>6. how \in {"unfinished", "finished"} /\ (how = "finished" => jobs[b] \in {"completed", "failed"})
  BY <1>1 DEF Active
<1> HIDE DEF how
<1>7. Len(taskTable) \in Nat /\ Len(taskTable') \in Nat BY <1>2, <1>3
<1>8. JobsTypeOK' BY <1>1, <1>3, <1>5, <1>6, <1>7, JobsAssumption DEF JobsInv, JobsTypeOK, JobWrites
<1>9. \A c \in Backtests : deletedJobs'[c] = IF c = b THEN how ELSE deletedJobs[c] BY <1>1 DEF JobsInv, JobsTypeOK
<1>10. FinishedWhenDeleted' BY <1>1, <1>6, <1>9 DEF JobsInv, FinishedWhenDeleted
<1>11. DeletesAreOfDeleted' BY <1>5, <1>6, <1>9, WritesDiffer DEF JobsInv, DeletesAreOfDeleted, WriteWaits
<1>12. FinishedInDatabase' BY <1>1, <1>5, <1>6, <1>9 DEF JobsInv, FinishedInDatabase, WriteWaits
<1>13. DeletedStaysDeleted'
  <2> SUFFICES ASSUME NEW c \in Backtests, deletedJobs'[c] = "finished", jobs'[c] = "completed"
               PROVE  Away(taskTable', results', backtestRows', dbWrites', undeleted', c)
    BY StaysAwayNext
  <2>1. CASE c = b
    <3>1. DeleteBehind(dbWrites', backtestRows', b) BY <1>1, <1>4, DeleteAppended
    <3> QED BY <2>1, <3>1, <1>3 DEF Away
  <2>2. CASE c # b
    <3>1. Away(taskTable, results, backtestRows, dbWrites, undeleted, c) BY <2>2, <1>1, <1>9, StaysAway DEF JobsInv
    <3>2. DbWrite("delete", b) # DbWrite("save", c) BY WritesDiffer
    <3>3. c \in undeleted' \/ DeleteBehind(dbWrites', backtestRows', c)
      BY <1>1, <1>4, <2>2, <3>1, <3>2, OtherAppended DEF Away
    <3> QED BY <3>1, <3>3, <1>3 DEF Away
  <2> QED BY <2>1, <2>2
<1> QED BY <1>8, <1>10, <1>11, <1>12, <1>13 DEF JobsInv

\* The head of the queue is written, or raises.
LEMMA HeadKeeps == ASSUME JobsInv, WriteRow \/ SaveRaises \/ DeleteRaises PROVE JobsInv'
<1> DEFINE w == Head(dbWrites)
<1>1. /\ dbWrites # <<>> /\ dbWrites' = Tail(dbWrites)
      /\ UNCHANGED <<jobs, taskTable, results, deletedJobs, restarts>>
      /\ \/ backtestRows' = RowsAfter(w, backtestRows) /\ unsaved' = unsaved /\ undeleted' = undeleted
         \/ /\ backtestRows' = backtestRows /\ w.kind = "save"
            /\ unsaved' = unsaved \cup {w.of} /\ undeleted' = undeleted
         \/ /\ backtestRows' = backtestRows /\ w.kind = "delete"
            /\ unsaved' = unsaved /\ undeleted' = undeleted \cup {w.of}
  BY DEF WriteRow, SaveRaises, DeleteRaises, RowsAfter
<1>2. dbWrites \in Seq(JobWrites) BY DEF JobsInv, JobsTypeOK, JobWrites
<1>3. w \in JobWrites /\ Tail(dbWrites) \in Seq(JobWrites) /\ ToSet(dbWrites) = {w} \cup ToSet(dbWrites')
  BY <1>1, <1>2, TailMembers
<1>4. /\ w.of \in Backtests /\ w.kind \in {"save", "delete"} /\ w = DbWrite(w.kind, w.of)
  BY <1>3 DEF JobWrites, DbWrite
<1>5. backtestRows' \subseteq backtestRows \cup {w.of} /\ unsaved \subseteq unsaved' /\ unsaved' \subseteq unsaved \cup {w.of}
      /\ undeleted \subseteq undeleted' /\ undeleted' \subseteq undeleted \cup {w.of}
  BY <1>1 DEF RowsAfter
<1>6. JobsTypeOK' BY <1>1, <1>3, <1>4, <1>5 DEF JobsInv, JobsTypeOK, JobWrites
<1>7. FinishedWhenDeleted' /\ DeletesAreOfDeleted'
  BY <1>1, <1>3 DEF JobsInv, FinishedWhenDeleted, DeletesAreOfDeleted, WriteWaits
<1>8. FinishedInDatabase'
  <2> SUFFICES ASSUME NEW c \in Backtests, jobs[c] = "completed", deletedJobs[c] = "no", c \notin unsaved'
               PROVE  c \in backtestRows' \/ DbWrite("save", c) \in ToSet(dbWrites')
    BY <1>1 DEF FinishedInDatabase, WriteWaits
  <2>1. c \in backtestRows \/ DbWrite("save", c) \in ToSet(dbWrites)
    BY <1>5 DEF JobsInv, FinishedInDatabase, WriteWaits
  <2>2. CASE w = DbWrite("save", c) BY <2>2, <1>1, WritesDiffer DEF RowsAfter
  <2>3. CASE w = DbWrite("delete", c)
    <3>1. WriteWaits("delete", c) BY <2>3, <1>3 DEF WriteWaits
    <3> QED BY <3>1 DEF JobsInv, DeletesAreOfDeleted
  <2>4. CASE w # DbWrite("save", c) /\ w # DbWrite("delete", c)
    <3>1. w.of # c BY <2>4, <1>4
    <3>2. c \in backtestRows => c \in backtestRows' BY <3>1, <1>1 DEF RowsAfter
    <3> QED BY <2>1, <2>4, <3>2, <1>3
  <2> QED BY <2>2, <2>3, <2>4
<1>9. DeletedStaysDeleted'
  <2> SUFFICES ASSUME NEW c \in Backtests, deletedJobs'[c] = "finished", jobs'[c] = "completed"
               PROVE  Away(taskTable', results', backtestRows', dbWrites', undeleted', c)
    BY StaysAwayNext
  <2>1. Away(taskTable, results, backtestRows, dbWrites, undeleted, c) BY <1>1, StaysAway DEF JobsInv
  <2>2. ASSUME c \notin undeleted' PROVE DeleteBehind(Tail(dbWrites), backtestRows', c)
    <3>1. DeleteBehind(dbWrites, backtestRows, c) BY <1>5, <2>1, <2>2 DEF Away
    <3>2. \/ backtestRows' = RowsAfter(w, backtestRows)
          \/ backtestRows' = backtestRows /\ w # DbWrite("delete", c)
      BY <1>1, <2>2, WritesDiffer
    <3> QED BY <1>1, <1>2, <3>1, <3>2, HeadLeaves
  <2> QED BY <1>1, <2>1, <2>2 DEF Away
<1> QED BY <1>6, <1>7, <1>8, <1>9 DEF JobsInv

LEMMA RestartJobsKeeps == ASSUME JobsInv, RestartJobs PROVE JobsInv'
<1>1. ToSet(<<>>) = {} BY DEF ToSet
<1>2. /\ jobs' = [b \in Backtests |-> IF jobs[b] = "new" \/ (jobs[b] = "completed" /\ b \in backtestRows)
                                     THEN jobs[b] ELSE "lost"]
      /\ restarts < MaxRestarts /\ restarts' = restarts + 1
      /\ deletedJobs' = [b \in Backtests |-> IF WriteWaits("delete", b) THEN "no" ELSE deletedJobs[b]]
      /\ taskTable' = <<>> /\ results' = <<>> /\ dbWrites' = <<>>
      /\ UNCHANGED <<backtestRows, unsaved, undeleted>>
  BY DEF RestartJobs, WriteWaits
<1>3. JobsTypeOK' BY <1>2, JobsAssumption DEF JobsInv, JobsTypeOK, Statuses
<1>4. FinishedWhenDeleted' BY <1>2 DEF JobsInv, FinishedWhenDeleted
<1>5. DeletesAreOfDeleted' BY <1>1, <1>2 DEF DeletesAreOfDeleted, WriteWaits
<1>6. FinishedInDatabase' BY <1>2 DEF FinishedInDatabase
<1>7. DeletedStaysDeleted'
  <2> SUFFICES ASSUME NEW c \in Backtests, deletedJobs'[c] = "finished", jobs'[c] = "completed"
               PROVE  c \in undeleted
    BY <1>1, <1>2 DEF DeletedStaysDeleted, Tracked
  <2>1. deletedJobs[c] = "finished" /\ ~ WriteWaits("delete", c) /\ jobs[c] = "completed" /\ c \in backtestRows
    BY <1>2
  <2>2. Away(taskTable, results, backtestRows, dbWrites, undeleted, c) BY <2>1, StaysAway DEF JobsInv
  <2> QED BY <2>1, <2>2 DEF Away, DeleteBehind, WriteWaits, ToSet
<1> QED BY <1>3, <1>4, <1>5, <1>6, <1>7 DEF JobsInv

LEMMA JobsStep == JobsInv /\ [JobsNext]_jobsVars => JobsInv'
<1> SUFFICES ASSUME JobsInv, [JobsNext]_jobsVars PROVE JobsInv' OBVIOUS
<1>1. ASSUME NEW b \in Backtests, StartBacktest(b) PROVE JobsInv' BY <1>1, StartBacktestKeeps
<1>2. ASSUME NEW b \in Backtests, RunBacktest(b) \/ FailBacktest(b) \/ AgentStarts(b) PROVE JobsInv'
  <2>1. \E s \in {"running", "failed", "agentRunning"} :
           /\ jobs[b] \in {"new", "pending", "running"} /\ jobs' = [jobs EXCEPT ![b] = s]
           /\ UNCHANGED <<taskTable, results, backtestRows, dbWrites, deletedJobs, unsaved, undeleted, restarts>>
    BY <1>2 DEF RunBacktest, FailBacktest, AgentStarts
  <2> QED BY <2>1, StatusKeeps
<1>3. ASSUME NEW b \in Backtests, FinishBacktest(b) PROVE JobsInv' BY <1>3, FinishBacktestKeeps
<1>4. ASSUME NEW b \in Backtests, AgentFinishes(b) PROVE JobsInv' BY <1>4, AgentFinishesKeeps
<1>5. ASSUME NEW b \in Backtests, DeleteBacktest(b) PROVE JobsInv' BY <1>5, DeleteBacktestKeeps
<1>6. ASSUME WriteRow \/ SaveRaises \/ DeleteRaises PROVE JobsInv' BY <1>6, HeadKeeps
<1>7. CASE RestartJobs BY <1>7, RestartJobsKeeps
<1>8. CASE UNCHANGED jobsVars
  BY <1>8 DEF jobsVars, JobsInv, JobsTypeOK, FinishedWhenDeleted, DeletesAreOfDeleted, FinishedInDatabase,
              DeletedStaysDeleted, WriteWaits, Tracked
<1> QED BY <1>1, <1>2, <1>3, <1>4, <1>5, <1>6, <1>7, <1>8 DEF JobsNext

LEMMA JobsInvariant == JobsSpec => []JobsInv
<1> QED BY JobsInitInv, JobsStep, PTL DEF JobsSpec

\* Every variable of the backtest jobs keeps to its type.
THEOREM JobsTypes == JobsSpec => []JobsTypeOK
<1>1. JobsInv => JobsTypeOK BY DEF JobsInv
<1> QED BY <1>1, JobsInvariant, PTL

\* The eviction of the oldest from the two bounded tables (_evict_oldest_tasks,
\* _evict_oldest_results) loses no result that was saved or is about to be,
\* whatever the tables hold.
THEOREM FinishedFound == JobsSpec => []FinishedBacktestsFound
<1>1. JobsInv => FinishedBacktestsFound
  BY DEF JobsInv, FinishedInDatabase, FinishedBacktestsFound, Findable
<1> QED BY <1>1, JobsInvariant, PTL

\* DELETE /backtests/{id} of a finished backtest is final for the process: neither
\* table keeps it, whatever runs and saves are under way.  It is final for the
\* database unless the delete raised there: no write that waits brings the row back.
THEOREM DeletedFinal == JobsSpec => []DeletedStaysDeleted
<1>1. JobsInv => DeletedStaysDeleted BY DEF JobsInv
<1> QED BY <1>1, JobsInvariant, PTL

-------------------------------------------------------------------------------
(***************************************************************************)
(* The fan-out to browsers, for any browsers, slow or mortal, any limit    *)
(* and any number of events.                                               *)
(*                                                                         *)
(* The clients a broadcast has yet to visit are in the order of the        *)
(* connections (`CastsOrdered`), and whatever a subscriber is owed is in   *)
(* such a rest (`OwedComes`).  Of two broadcasts of one kind the older is  *)
(* ahead: the client it waits on, and all that it has yet to visit, are    *)
(* what the newer one has yet to visit, or the newer waits behind it       *)
(* (`Follows`).  A broadcast never gets past a client on whom another      *)
(* waits, so none overtakes, until such a client leaves.                   *)
(***************************************************************************)

\* x comes before y wherever both are connected.
Before(x, y, conn) == \A p, q \in DOMAIN conn : conn[p] = x /\ conn[q] = y => p < q
Ordered(list, conn) == \A k, m \in DOMAIN list : k < m => Before(list[k], list[m], conn)
CastOrdered(c, conn) == Ordered(c.ahead, conn) /\ \A z \in ToSet(c.ahead) : Before(c.waits, z, conn)
CastsOrdered == \A i \in DOMAIN casts : CastOrdered(casts[i], connections)

\* Where a client and its entries are.
ClientsPlaced ==
    \A b \in Browsers :
        /\ b \in Keys => endpoint[b] \in {"open", "refusing"} \/ b \in leaked
        /\ b \in leaked => endpoint[b] = "gone"
        /\ b \in channel => endpoint[b] \in {"open", "gone"}
        /\ b \in channel \cap alive => endpoint[b] = "open" /\ b \in Keys
        /\ owed[b] # {} => b \in channel

\* A broadcast drops nobody who is there, and its list holds nobody who has yet
\* to come.
CastPlaced(c, ep, al) ==
    /\ c.dead \cap al = {}
    /\ \A z \in {c.waits} \cup ToSet(c.ahead) : ep[z] \notin {"none", "accepting"}
CastsPlaced == \A i \in DOMAIN casts : CastPlaced(casts[i], endpoint, alive)

Reachable == alive \cap Keys

OwedComes ==
    \A b \in channel \cap Reachable : \A e \in owed[b] :
        \E i \in DOMAIN casts : casts[i].event = e /\ b \in ToSet(casts[i].ahead)

\* How many have come so far bounds the counts.
Come(ep) == {b \in Browsers : ep[b] \notin {"none", "accepting"}}
CountsBounded ==
    /\ ipCount <= Cardinality(Come(endpoint))
    /\ \A b \in Browsers : ipRead[b] <= Cardinality(Come(endpoint))

\* An event of that kind and number has not begun.
NewTo(cs, lt, kind, number) ==
    /\ \A i \in DOMAIN cs : cs[i].event.kind = kind => cs[i].event.number < number
    /\ \A b \in Browsers : lt[b][kind] < number

\* Numbers of events grow from the casts over those created to those to come.
NumbersGrow ==
    /\ \A k \in Kinds : NewTo(casts, latest, k, published[k] + 1)
    /\ pendingBook # 0 => NewTo(casts, latest, "depth", pendingBook) /\ pendingBook <= published["depth"]
    /\ \A m \in DOMAIN created :
          /\ NewTo(casts, latest, created[m].kind, created[m].number)
          /\ created[m].number <= published[created[m].kind]
          /\ pendingBook # 0 /\ created[m].kind = "depth" => created[m].number < pendingBook
    /\ \A m, n \in DOMAIN created :
          m < n /\ created[m].kind = created[n].kind => created[m].number < created[n].number

\* No two broadcasts are of one event.
Distinct(cs) == \A i, j \in DOMAIN cs : i # j => cs[i].event # cs[j].event

Older(c, d) == c.event.kind = d.event.kind /\ c.event.number < d.event.number

\* Cast j follows the older cast i, as far as the clients of R go.
Follows(cs, i, j, R) ==
    /\ \/ cs[i].waits = cs[j].waits /\ i < j
       \/ cs[i].waits \in ToSet(cs[j].ahead)
    /\ ToSet(cs[i].ahead) \cap R \subseteq ToSet(cs[j].ahead)
AllFollow(cs, R) == \A i, j \in DOMAIN cs : Older(cs[i], cs[j]) => Follows(cs, i, j, R)

\* What a broadcast brings is news to whom it has yet to visit.
BringsNews(c, lt, R) == \A z \in ToSet(c.ahead) \cap R : lt[z][c.event.kind] < c.event.number
AllBringNews(cs, lt, R) == \A i \in DOMAIN cs : BringsNews(cs[i], lt, R)

WaitsOnSubscribers(cs, C) == \A i \in DOMAIN cs : cs[i].waits \in C

InTurn ==
    ~ jumped => /\ ~ disorder
                /\ WaitsOnSubscribers(casts, channel \cap alive)
                /\ AllFollow(casts, Reachable)
                /\ AllBringNews(casts, latest, Reachable)

GatewayInv ==
    /\ GatewayTypeOK /\ IsInjective(connections)
    /\ ClientsPlaced /\ CastsPlaced /\ CastsOrdered
    /\ OwedComes /\ CountsBounded /\ CountsMatchConnections
    /\ NumbersGrow /\ Distinct(casts) /\ InTurn

-------------------------------------------------------------------------------
(* Order *)

LEMMA BeforeWithout ==
    ASSUME NEW S, NEW conn \in Seq(S), NEW gone, NEW x, NEW y, Before(x, y, conn)
    PROVE  Before(x, y, Without(conn, gone))
<1> DEFINE l == Without(conn, gone)
<1>1. l \in Seq(S) /\ InOrder(conn, Len(conn), l) /\ ToSet(l) = ToSet(conn) \ gone BY WithoutProperties
<1> HIDE DEF l
<1> SUFFICES ASSUME NEW p \in DOMAIN l, NEW q \in DOMAIN l, l[p] = x, l[q] = y, ~ (p < q) PROVE FALSE
  BY DEF Before, l
<1>2. p \in Nat /\ q \in Nat BY <1>1
<1>3. CASE p = q
  <2>1. x = y /\ x \in ToSet(conn) BY <1>1, <1>3 DEF ToSet
  <2>2. PICK k \in DOMAIN conn : conn[k] = x BY <2>1 DEF ToSet
  <2>3. k \in Nat /\ k < k BY <2>1, <2>2 DEF Before
  <2> QED BY <2>3
<1>4. CASE q < p
  <2>1. PICK k \in 1..Len(conn), j \in 1..Len(conn) : k < j /\ conn[k] = l[q] /\ conn[j] = l[p]
    BY <1>1, <1>4 DEF InOrder
  <2>2. j < k BY <2>1 DEF Before
  <2> QED BY <2>1, <2>2
<1> QED BY <1>2, <1>3, <1>4

LEMMA BeforeAppend ==
    ASSUME NEW S, NEW conn \in Seq(S), NEW b \in S, NEW x, NEW y, Before(x, y, conn), x # b, y # b
    PROVE  Before(x, y, Append(conn, b))
<1> DEFINE l == Append(conn, b)
<1>1. /\ DOMAIN l = 1..(Len(conn) + 1) /\ DOMAIN conn = 1..Len(conn) /\ Len(conn) \in Nat
      /\ \A n \in 1..Len(conn) : l[n] = conn[n]
      /\ l[Len(conn) + 1] = b
  BY AppendedMembers
<1> HIDE DEF l
<1>2. \A p \in DOMAIN l : l[p] \in {x, y} => p \in DOMAIN conn /\ conn[p] = l[p]
  <2> SUFFICES ASSUME NEW p \in DOMAIN l, l[p] \in {x, y} PROVE p \in DOMAIN conn /\ conn[p] = l[p]
    OBVIOUS
  <2>1. p # Len(conn) + 1 BY <1>1
  <2>2. p \in 1..Len(conn) BY <1>1, <2>1
  <2> QED BY <1>1, <2>2
<1> QED BY <1>2 DEF Before, l

\* A cast stays in order when clients go, or come who are not on its list.
LEMMA CastOrderedWithout ==
    ASSUME NEW conn \in Seq(Browsers), NEW gone, NEW c, CastOrdered(c, conn)
    PROVE  CastOrdered(c, Without(conn, gone))
  BY BeforeWithout DEF CastOrdered, Ordered

LEMMA CastOrderedAppend ==
    ASSUME NEW conn \in Seq(Browsers), NEW b \in Browsers, NEW c \in Cast, CastOrdered(c, conn),
           b \notin {c.waits} \cup ToSet(c.ahead)
    PROVE  CastOrdered(c, Append(conn, b))
<1>1. \A k \in DOMAIN c.ahead : c.ahead[k] \in ToSet(c.ahead) /\ c.ahead[k] # b BY DEF ToSet
<1> QED BY <1>1, BeforeAppend DEF CastOrdered, Ordered

LEMMA ConnectionsOrdered ==
    ASSUME NEW conn \in Seq(Browsers), IsInjective(conn)
    PROVE  Ordered(conn, conn)
<1> SUFFICES ASSUME NEW k \in DOMAIN conn, NEW m \in DOMAIN conn, k < m,
                    NEW p \in DOMAIN conn, NEW q \in DOMAIN conn, conn[p] = conn[k], conn[q] = conn[m]
             PROVE  p < q
  BY DEF Ordered, Before
<1>1. p = k /\ q = m BY DEF IsInjective
<1> QED BY <1>1

\* Who is connected is once in an ordered list.
LEMMA OrderedOnce ==
    ASSUME NEW conn \in Seq(Browsers), NEW list \in Seq(Browsers), Ordered(list, conn),
           NEW k \in DOMAIN list, NEW m \in DOMAIN list, list[k] = list[m], list[k] \in ToSet(conn)
    PROVE  k = m
<1>1. PICK p \in DOMAIN conn : conn[p] = list[k] BY DEF ToSet
<1>2. p \in Nat /\ k \in Nat /\ m \in Nat BY <1>1
<1>3. k < m => p < p BY <1>1 DEF Ordered, Before
<1>4. m < k => p < p BY <1>1 DEF Ordered, Before
<1> QED BY <1>2, <1>3, <1>4

\* Two connected clients are in an ordered list as Before says.
LEMMA OrderedAs ==
    ASSUME NEW conn \in Seq(Browsers), NEW list \in Seq(Browsers), Ordered(list, conn),
           NEW k \in DOMAIN list, NEW m \in DOMAIN list, Before(list[k], list[m], conn),
           list[k] \in ToSet(conn), list[m] \in ToSet(conn)
    PROVE  k < m
<1>1. PICK p \in DOMAIN conn : conn[p] = list[k] BY DEF ToSet
<1>2. PICK q \in DOMAIN conn : conn[q] = list[m] BY DEF ToSet
<1>3. p < q BY <1>1, <1>2 DEF Before
<1>4. p \in Nat /\ q \in Nat /\ k \in Nat /\ m \in Nat BY <1>1, <1>2
<1>5. m < k => q < p BY <1>1, <1>2 DEF Ordered, Before
<1>6. m = k => p < p BY <1>1, <1>2 DEF Before
<1> QED BY <1>3, <1>4, <1>5, <1>6

-------------------------------------------------------------------------------
(* A cast leaves the sequence *)

Was(j, n) == IF n < j THEN n ELSE n + 1

LEMMA RemovedAt ==
    ASSUME NEW S, NEW s \in Seq(S), NEW j \in DOMAIN s
    PROVE  /\ RemoveAt(s, j) \in Seq(S)
           /\ \A n \in DOMAIN RemoveAt(s, j) :
                 Was(j, n) \in DOMAIN s /\ Was(j, n) # j /\ RemoveAt(s, j)[n] = s[Was(j, n)]
           /\ \A m \in DOMAIN s : m # j => \E n \in DOMAIN RemoveAt(s, j) : RemoveAt(s, j)[n] = s[m]
<1> DEFINE a == SubSeq(s, 1, j - 1)
           b == SubSeq(s, j + 1, Len(s))
           r == a \o b
           len == Len(s)
<1>1. len \in Nat /\ j \in 1..len /\ DOMAIN s = 1..len OBVIOUS
<1>2. (\A i \in 1..(j - 1) : s[i] \in S) /\ \A i \in (j + 1)..len : s[i] \in S BY <1>1
<1>3. /\ a \in Seq(S) /\ Len(a) = j - 1 /\ \A i \in 1..(j - 1) : a[i] = s[i]
  <2>1. 1 \in Int /\ j - 1 \in Int /\ 1 <= j BY <1>1
  <2>2. a \in Seq(S) /\ Len(a) = (IF 1 <= j - 1 THEN j - 1 - 1 + 1 ELSE 0)
        /\ \A i \in 1..(j - 1 - 1 + 1) : a[i] = s[1 + i - 1]
    BY <1>2, <2>1, SubSeqProperties
  <2> HIDE DEF a
  <2> QED BY <1>1, <2>2
<1>4. /\ b \in Seq(S) /\ Len(b) = len - j /\ \A i \in 1..(len - j) : b[i] = s[j + i]
  <2>1. len \in Int /\ j + 1 \in Int /\ j <= len BY <1>1
  <2>2. b \in Seq(S) /\ Len(b) = (IF j + 1 <= len THEN len - (j + 1) + 1 ELSE 0)
        /\ \A i \in 1..(len - (j + 1) + 1) : b[i] = s[(j + 1) + i - 1]
    BY <1>2, <2>1, SubSeqProperties
  <2> HIDE DEF b
  <2>3. len - (j + 1) + 1 = len - j /\ (IF j + 1 <= len THEN len - (j + 1) + 1 ELSE 0) = len - j BY <1>1
  <2>4. \A i \in 1..(len - j) : (j + 1) + i - 1 = j + i BY <1>1
  <2> QED BY <2>2, <2>3, <2>4
<1> HIDE DEF a, b
<1>5. /\ r \in Seq(S) /\ DOMAIN r = 1..(len - 1)
      /\ \A n \in 1..(len - 1) : r[n] = IF n < j THEN a[n] ELSE b[n - (j - 1)]
  <2>1. /\ r \in Seq(S) /\ Len(r) = Len(a) + Len(b)
        /\ \A i \in 1..(Len(a) + Len(b)) : r[i] = IF i <= Len(a) THEN a[i] ELSE b[i - Len(a)]
    BY <1>3, <1>4, ConcatProperties
  <2> HIDE DEF r
  <2>2. Len(a) + Len(b) = len - 1 BY <1>1, <1>3, <1>4
  <2>3. \A n \in 1..(len - 1) : n < j <=> n <= Len(a) BY <1>1, <1>3
  <2> QED BY <2>1, <2>2, <2>3, <1>3
<1> HIDE DEF r, len
<1>6. ASSUME NEW n \in 1..(len - 1)
      PROVE  Was(j, n) \in 1..len /\ Was(j, n) # j /\ r[n] = s[Was(j, n)]
  <2>1. CASE n < j BY <2>1, <1>1, <1>3, <1>5 DEF Was
  <2>2. CASE ~ (n < j)
    <3>1. n - (j - 1) \in 1..(len - j) /\ j + (n - (j - 1)) = n + 1 BY <2>2, <1>1
    <3>2. r[n] = s[n + 1] BY <2>2, <3>1, <1>4, <1>5
    <3> QED BY <2>2, <3>2, <1>1 DEF Was
  <2> QED BY <2>1, <2>2
<1>7. ASSUME NEW m \in 1..len, m # j PROVE \E n \in 1..(len - 1) : r[n] = s[m]
  <2>1. CASE m < j
    <3>1. m \in 1..(len - 1) /\ Was(j, m) = m BY <2>1, <1>1 DEF Was
    <3> QED BY <3>1, <1>6
  <2>2. CASE ~ (m < j)
    <3>1. m - 1 \in 1..(len - 1) /\ Was(j, m - 1) = m BY <2>2, <1>1, <1>7 DEF Was
    <3> QED BY <3>1, <1>6
  <2> QED BY <2>1, <2>2
<1> QED BY <1>1, <1>5, <1>6, <1>7 DEF r, a, b, RemoveAt, len

LEMMA WasGrows ==
    ASSUME NEW j \in Nat, NEW n \in Nat, NEW m \in Nat
    PROVE  (n < m <=> Was(j, n) < Was(j, m)) /\ (n # m => Was(j, n) # Was(j, m))
  BY DEF Was

\* What holds of the casts holds of the others.
LEMMA OthersKeep ==
    ASSUME NEW cs \in Seq(Cast), NEW j \in DOMAIN cs, NEW R, NEW lt, NEW C
    PROVE  /\ Distinct(cs) => Distinct(RemoveAt(cs, j))
           /\ AllFollow(cs, R) => AllFollow(RemoveAt(cs, j), R)
           /\ AllBringNews(cs, lt, R) => AllBringNews(RemoveAt(cs, j), lt, R)
           /\ WaitsOnSubscribers(cs, C) => WaitsOnSubscribers(RemoveAt(cs, j), C)
<1> DEFINE r == RemoveAt(cs, j)
<1>1. r \in Seq(Cast) /\ \A n \in DOMAIN r : Was(j, n) \in DOMAIN cs /\ Was(j, n) # j /\ r[n] = cs[Was(j, n)]
  BY RemovedAt
<1> HIDE DEF r
<1>2. (\A n \in DOMAIN r : n \in Nat) /\ j \in Nat BY <1>1
<1>3. Distinct(cs) => Distinct(r) BY <1>1, <1>2, WasGrows DEF Distinct
<1>4. AllFollow(cs, R) => AllFollow(r, R)
  <2> SUFFICES ASSUME AllFollow(cs, R), NEW n \in DOMAIN r, NEW m \in DOMAIN r, Older(r[n], r[m])
               PROVE  Follows(r, n, m, R)
    BY DEF AllFollow
  <2>1. Follows(cs, Was(j, n), Was(j, m), R) BY <1>1 DEF AllFollow
  <2>2. r[n] = cs[Was(j, n)] /\ r[m] = cs[Was(j, m)] BY <1>1
  <2>3. Was(j, n) < Was(j, m) => n < m BY <1>2, WasGrows
  <2> QED BY <2>1, <2>2, <2>3 DEF Follows
<1>5. AllBringNews(cs, lt, R) => AllBringNews(r, lt, R) BY <1>1 DEF AllBringNews
<1>6. WaitsOnSubscribers(cs, C) => WaitsOnSubscribers(r, C) BY <1>1 DEF WaitsOnSubscribers
<1> QED BY <1>3, <1>4, <1>5, <1>6 DEF r

-------------------------------------------------------------------------------
(* A broadcast goes through its list *)

LEMMA FirstIs ==
    ASSUME NEW S, S \subseteq Nat, S # {}
    PROVE  FirstOf(S) \in S /\ \A m \in S : FirstOf(S) <= m
<1>1. \E n \in S : \A m \in S : n <= m BY LeastNatural
<1> QED BY <1>1 DEF FirstOf

\* It visits the first n clients.
Visited(list, n) == {list[k] : k \in 1..n} \cap channel

\* ... and none of them, but the last, keeps another waiting.
NobodyPassed(list, n, others) ==
    \A k \in 1..n : list[k] \in channel \cap alive /\ (\E i \in DOMAIN others : others[i].waits = list[k]) => k = n

Rest(event, list, dead, n) ==
    [event |-> event, waits |-> list[n], ahead |-> SubSeq(list, n + 1, Len(list)),
     dead |-> dead \cup (Visited(list, n) \ alive)]

VisitsFirst(event, list, dead, others, due, n) ==
    /\ NobodyPassed(list, n, others)
    /\ WriteTo(event, Visited(list, n) \cap alive, due)
    /\ \/ n = Len(list) /\ casts' = others /\ DropClients(dead \cup (Visited(list, n) \ alive))
       \/ /\ n > 0 /\ list[n] \in channel \cap alive
          /\ casts' = Append(others, Rest(event, list, dead, n))
          /\ UNCHANGED <<connections, ipCount>>

LEMMA VisitStops ==
    ASSUME NEW event, NEW list \in Seq(Browsers), NEW dead, NEW others, NEW due,
           Visit(event, list, dead, others, due)
    PROVE  \E n \in 0..Len(list) : VisitsFirst(event, list, dead, others, due, n)
<1> DEFINE stops == WaitsAt(list, others)
<1>1. stops \subseteq 1..Len(list) /\ Len(list) \in Nat BY DEF WaitsAt
<1>2. \A k \in 1..Len(list) : list[k] \in channel \cap alive /\ (\E i \in DOMAIN others : others[i].waits = list[k])
                                => k \in stops
  BY DEF WaitsAt
<1>3. \A k \in stops : list[k] \in channel \cap alive BY DEF WaitsAt
<1>4. CASE stops = {}
  <2>1. WriteTo(event, Visited(list, Len(list)) \cap alive, due)
    BY <1>4 DEF Visit, Visited
  <2>2. casts' = others /\ DropClients(dead \cup (Visited(list, Len(list)) \ alive))
    BY <1>4 DEF Visit, Visited
  <2> HIDE DEF stops
  <2>3. NobodyPassed(list, Len(list), others) BY <1>2, <1>4 DEF NobodyPassed
  <2>4. VisitsFirst(event, list, dead, others, due, Len(list)) BY <2>1, <2>2, <2>3 DEF VisitsFirst
  <2> QED BY <1>1, <2>4
<1>5. CASE stops # {}
  <2> DEFINE n == FirstOf(stops)
  <2>1. WriteTo(event, Visited(list, n) \cap alive, due)
    BY <1>5 DEF Visit, Visited
  <2>2. casts' = Append(others, Rest(event, list, dead, n)) /\ UNCHANGED <<connections, ipCount>>
    BY <1>5 DEF Visit, Visited, Rest
  <2> HIDE DEF stops
  <2>3. n \in stops /\ \A m \in stops : n <= m
    <3>1. stops \subseteq Nat BY <1>1
    <3> QED BY <3>1, <1>5, FirstIs
  <2> HIDE DEF n
  <2>4. n \in 1..Len(list) /\ list[n] \in channel \cap alive BY <2>3, <1>1, <1>3
  <2>5. NobodyPassed(list, n, others)
    <3> SUFFICES ASSUME NEW k \in 1..n, list[k] \in channel \cap alive,
                        \E i \in DOMAIN others : others[i].waits = list[k]
                 PROVE  k = n
      BY DEF NobodyPassed
    <3>1. k \in 1..Len(list) BY <2>4, <1>1
    <3>2. n <= k BY <3>1, <1>2, <2>3
    <3> QED BY <3>1, <3>2, <2>4
  <2>6. n > 0 /\ n \in 0..Len(list) BY <2>4, <1>1
  <2>7. VisitsFirst(event, list, dead, others, due, n) BY <2>1, <2>2, <2>4, <2>5, <2>6 DEF VisitsFirst
  <2> QED BY <2>6, <2>7
<1> QED BY <1>4, <1>5

\* What a visit finds.
CanVisit(event, list, dead, others, due) ==
    /\ event \in Event /\ list \in Seq(Browsers) /\ dead \subseteq Browsers
    /\ others \in Seq(Cast) /\ due \in [Browsers -> SUBSET Event]
    /\ Ordered(list, connections) /\ dead \cap alive = {}
    /\ \A z \in ToSet(list) : endpoint[z] \notin {"none", "accepting"}
    /\ \A i \in DOMAIN others : CastPlaced(others[i], endpoint, alive) /\ CastOrdered(others[i], connections)
    /\ \A b \in Browsers : due[b] # {} => b \in channel
    /\ \A b \in channel \cap Reachable : \A e \in due[b] :
          \/ e = event /\ b \in ToSet(list)
          \/ \E i \in DOMAIN others : others[i].event = e /\ b \in ToSet(others[i].ahead)
    /\ Distinct(others) /\ \A i \in DOMAIN others : others[i].event # event

\* Older broadcasts are ahead of it in its list, newer ones behind.
VisitInTurn(event, list, others) ==
    /\ ~ disorder
    /\ WaitsOnSubscribers(others, channel \cap alive)
    /\ AllFollow(others, Reachable) /\ AllBringNews(others, latest, Reachable)
    /\ \A z \in ToSet(list) \cap Reachable : latest[z][event.kind] < event.number
    /\ \A i \in DOMAIN others : others[i].event.kind = event.kind =>
          /\ others[i].event.number < event.number =>
                others[i].waits \in ToSet(list) /\ ToSet(others[i].ahead) \cap Reachable \subseteq ToSet(list)
          /\ event.number < others[i].event.number => ToSet(list) \cap Reachable \subseteq ToSet(others[i].ahead)

LEMMA RestFacts ==
    ASSUME NEW list \in Seq(Browsers), NEW n \in 0..Len(list)
    PROVE  LET rest == SubSeq(list, n + 1, Len(list))
           IN  /\ rest \in Seq(Browsers) /\ ToSet(rest) \subseteq ToSet(list)
               /\ \A m \in DOMAIN rest : n + m \in DOMAIN list /\ rest[m] = list[n + m]
               /\ \A k \in DOMAIN list : n < k => list[k] \in ToSet(rest)
               /\ \A z \in ToSet(rest) : \E k \in DOMAIN list : n < k /\ list[k] = z
<1> DEFINE len == Len(list)
           r == SubSeq(list, n + 1, len)
<1>1. len \in Nat /\ n \in Nat /\ n <= len /\ DOMAIN list = 1..len OBVIOUS
<1>2. \A i \in (n + 1)..len : list[i] \in Browsers BY <1>1
<1>3. /\ r \in Seq(Browsers) /\ Len(r) = (IF n + 1 <= len THEN len - (n + 1) + 1 ELSE 0)
      /\ \A i \in 1..(len - (n + 1) + 1) : r[i] = list[(n + 1) + i - 1]
  <2>1. n + 1 \in Int /\ len \in Int BY <1>1
  <2> HIDE DEF len
  <2> QED BY <1>2, <2>1, SubSeqProperties
<1> HIDE DEF r, len
<1>4. len - (n + 1) + 1 = len - n /\ (IF n + 1 <= len THEN len - (n + 1) + 1 ELSE 0) = len - n BY <1>1
<1>5. DOMAIN r = 1..(len - n) BY <1>3, <1>4
<1>6. \A m \in DOMAIN r : n + m \in DOMAIN list /\ n < n + m /\ r[m] = list[n + m]
  <2> SUFFICES ASSUME NEW m \in 1..(len - n) PROVE n + m \in 1..len /\ n < n + m /\ r[m] = list[n + m]
    BY <1>1, <1>5
  <2>1. (n + 1) + m - 1 = n + m /\ n + m \in 1..len /\ n < n + m BY <1>1
  <2> QED BY <2>1, <1>3, <1>4
<1>7. ASSUME NEW k \in DOMAIN list, n < k PROVE list[k] \in ToSet(r)
  <2>1. k - n \in DOMAIN r /\ n + (k - n) = k BY <1>1, <1>5, <1>7
  <2>2. r[k - n] = list[k] BY <2>1, <1>6
  <2> QED BY <2>1, <2>2 DEF ToSet
<1>8. \A z \in ToSet(r) : \E k \in DOMAIN list : n < k /\ list[k] = z
  <2> SUFFICES ASSUME NEW z \in ToSet(r) PROVE \E k \in DOMAIN list : n < k /\ list[k] = z
    OBVIOUS
  <2>1. PICK m \in DOMAIN r : r[m] = z BY DEF ToSet
  <2> QED BY <2>1, <1>6
<1>9. ToSet(r) \subseteq ToSet(list) BY <1>8 DEF ToSet
<1> QED BY <1>3, <1>6, <1>7, <1>8, <1>9 DEF r, len

\* Clients are dropped.
LEMMA DropFacts ==
    ASSUME connections \in Seq(Browsers), IsInjective(connections), ipCount \in Nat,
           NEW gone \in SUBSET Browsers, DropClients(gone)
    PROVE  /\ connections' \in Seq(Browsers) /\ IsInjective(connections') /\ Keys' = Keys \ gone
           /\ ipCount' \in Nat /\ ipCount' <= ipCount
           /\ ipCount = Len(connections) => ipCount' = Len(connections')
           /\ \A c : CastOrdered(c, connections) => CastOrdered(c, connections')
<1>1. connections' = Without(connections, gone) /\ ipCount' = Minus(ipCount, Cardinality(gone \cap Keys))
  BY DEF DropClients
<1>2. /\ connections' \in Seq(Browsers) /\ IsInjective(connections') /\ Keys' = Keys \ gone
      /\ Len(connections') = Len(connections) - Cardinality(gone \cap Keys)
  BY <1>1, WithoutProperties DEF Keys
<1> DEFINE k == Cardinality(gone \cap Keys)
           len == Len(connections)
           now == Len(connections')
<1>3. k \in Nat
  <2>1. IsFiniteSet(gone \cap Keys) BY GatewayAssumption, FS_Subset
  <2> QED BY <2>1, FS_CardinalityType
<1>4. len \in Nat /\ now \in Nat BY <1>2
<1>5. now = len - k BY <1>2
<1>6. ipCount' = IF ipCount > k THEN ipCount - k ELSE 0 BY <1>1 DEF Minus
<1> HIDE DEF k, len, now
<1>7. ipCount' \in Nat /\ ipCount' <= ipCount /\ (ipCount = len => ipCount' = now)
  BY <1>3, <1>4, <1>5, <1>6
<1>8. \A c : CastOrdered(c, connections) => CastOrdered(c, connections') BY <1>1, CastOrderedWithout
<1> QED BY <1>2, <1>7, <1>8 DEF len, now

\* What a visit writes.
Written(event, here, due) ==
    /\ owed' \in [Browsers -> SUBSET Event]
    /\ latest' \in [Browsers -> [Kinds -> Nat]] /\ disorder' \in BOOLEAN
    /\ \A b \in Browsers : owed'[b] \subseteq due[b] /\ (b \in here => event \notin owed'[b])
    /\ \A b \in Browsers, k \in Kinds :
          latest'[b][k] = IF b \in here /\ k = event.kind THEN event.number ELSE latest[b][k]
    /\ disorder' => disorder \/ \E b \in here : latest[b][event.kind] >= event.number

LEMMA WriteFacts ==
    ASSUME latest \in [Browsers -> [Kinds -> Nat]], disorder \in BOOLEAN, NEW event \in Event,
           NEW here \in SUBSET Browsers, NEW due \in [Browsers -> SUBSET Event], WriteTo(event, here, due)
    PROVE  Written(event, here, due)
<1>1. /\ owed' = [b \in Browsers |-> IF b \in here THEN due[b] \ {event} ELSE due[b]]
      /\ latest' = [b \in Browsers |-> IF b \in here THEN [latest[b] EXCEPT ![event.kind] = event.number]
                                                 ELSE latest[b]]
      /\ disorder' = (disorder \/ \E b \in here : latest[b][event.kind] >= event.number)
  BY DEF WriteTo
<1>2. event.kind \in Kinds /\ event.number \in Nat BY GatewayAssumption DEF Event
<1>3. owed' \in [Browsers -> SUBSET Event] /\ \A b \in Browsers : owed'[b] \subseteq due[b] /\ (b \in here => event \notin owed'[b])
  BY <1>1
<1>4. \A b \in Browsers : latest[b] \in [Kinds -> Nat] OBVIOUS
<1>5. latest' \in [Browsers -> [Kinds -> Nat]] BY <1>1, <1>2, <1>4
<1>6. \A b \in Browsers, k \in Kinds :
          latest'[b][k] = IF b \in here /\ k = event.kind THEN event.number ELSE latest[b][k]
  BY <1>1, <1>2, <1>4
<1> QED BY <1>1, <1>3, <1>5, <1>6 DEF Written

\* The rest of a visit, as a cast.
LEMMA RestIsCast ==
    ASSUME GatewayInv, NEW event, NEW list, NEW dead, NEW others, NEW due,
           CanVisit(event, list, dead, others, due),
           NEW n \in 1..Len(list), list[n] \in channel \cap alive
    PROVE  LET c == Rest(event, list, dead, n)
           IN  c \in Cast /\ CastPlaced(c, endpoint, alive) /\ CastOrdered(c, connections)
<1> DEFINE rest == SubSeq(list, n + 1, Len(list))
           gone == dead \cup (Visited(list, n) \ alive)
           c == Rest(event, list, dead, n)
<1>1. /\ list \in Seq(Browsers) /\ dead \subseteq Browsers /\ dead \cap alive = {} /\ event \in Event
      /\ Ordered(list, connections) /\ \A z \in ToSet(list) : endpoint[z] \notin {"none", "accepting"}
  BY DEF CanVisit
<1>2. n \in 0..Len(list) /\ n \in DOMAIN list /\ list[n] \in Browsers BY <1>1
<1>3. /\ rest \in Seq(Browsers) /\ ToSet(rest) \subseteq ToSet(list)
      /\ \A m \in DOMAIN rest : n + m \in DOMAIN list /\ rest[m] = list[n + m]
      /\ \A z \in ToSet(rest) : \E k \in DOMAIN list : n < k /\ list[k] = z
  BY <1>1, <1>2, RestFacts
<1>4. gone \subseteq Browsers /\ gone \cap alive = {}
  <2>1. channel \subseteq Browsers BY DEF GatewayInv, GatewayTypeOK
  <2> QED BY <2>1, <1>1 DEF Visited
<1>5. c = [event |-> event, waits |-> list[n], ahead |-> rest, dead |-> gone] BY DEF Rest
<1> HIDE DEF rest, gone, c
<1>6. c \in Cast BY <1>1, <1>2, <1>3, <1>4, <1>5 DEF Cast
<1>7. c.waits = list[n] /\ c.ahead = rest /\ c.dead = gone BY <1>5
<1>8. list[n] \in ToSet(list) BY <1>2 DEF ToSet
<1>9. CastPlaced(c, endpoint, alive) BY <1>1, <1>3, <1>4, <1>7, <1>8 DEF CastPlaced
<1>10. \A z \in ToSet(rest) : Before(list[n], z, connections) BY <1>1, <1>2, <1>3 DEF Ordered
<1>11. Ordered(rest, connections)
  <2> SUFFICES ASSUME NEW k \in DOMAIN rest, NEW m \in DOMAIN rest, k < m
               PROVE  Before(rest[k], rest[m], connections)
    BY DEF Ordered
  <2>1. n + k < n + m /\ n + k \in DOMAIN list /\ n + m \in DOMAIN list BY <1>1, <1>2, <1>3
  <2>2. rest[k] = list[n + k] /\ rest[m] = list[n + m] BY <1>3
  <2> QED BY <2>1, <2>2, <1>1 DEF Ordered
<1>12. CastOrdered(c, connections) BY <1>7, <1>10, <1>11 DEF CastOrdered
<1> QED BY <1>6, <1>9, <1>12 DEF c

\* The casts after a visit: the others and, if it waits, itself.
CastsAfter(event, list, dead, others, n) ==
    \/ n = Len(list) /\ casts' = others
    \/ /\ n \in 1..Len(list) /\ list[n] \in channel \cap alive
       /\ casts' = Append(others, Rest(event, list, dead, n))

Grown(cs, others, c) ==
    /\ cs \in Seq(Cast)
    /\ \A i \in DOMAIN others : i \in DOMAIN cs /\ cs[i] = others[i]
    /\ \A i \in DOMAIN cs :
          \/ i \in DOMAIN others /\ cs[i] = others[i]
          \/ cs # others /\ i = Len(others) + 1 /\ cs[i] = c
    /\ cs # others => Len(others) + 1 \in DOMAIN cs /\ cs[Len(others) + 1] = c

LEMMA CastAfter ==
    ASSUME NEW others \in Seq(Cast), NEW c \in Cast
    PROVE  Grown(Append(others, c), others, c) /\ Append(others, c) # others
<1> DEFINE cs == Append(others, c)
<1>1. /\ cs \in Seq(Cast)
      /\ DOMAIN cs = 1..(Len(others) + 1) /\ DOMAIN others = 1..Len(others) /\ Len(others) \in Nat
      /\ \A i \in 1..Len(others) : cs[i] = others[i]
      /\ cs[Len(others) + 1] = c
  BY AppendedMembers
<1> HIDE DEF cs
<1>2. \A i \in DOMAIN cs : i \in DOMAIN others \/ i = Len(others) + 1 BY <1>1
<1>3. Len(others) + 1 \in DOMAIN cs /\ \A i \in DOMAIN others : i \in DOMAIN cs BY <1>1
<1>4. Len(others) + 1 \notin DOMAIN others BY <1>1
<1>5. cs # others BY <1>3, <1>4
<1>6. \A i \in DOMAIN others : i \in DOMAIN cs /\ cs[i] = others[i] BY <1>1, <1>3
<1>7. \A i \in DOMAIN cs :
          \/ i \in DOMAIN others /\ cs[i] = others[i]
          \/ cs # others /\ i = Len(others) + 1 /\ cs[i] = c
  BY <1>1, <1>2, <1>5
<1>8. Grown(cs, others, c) BY <1>1, <1>3, <1>6, <1>7 DEF Grown
<1> QED BY <1>5, <1>8 DEF cs

\* What is true after a visit.
Stopped(list, n) == n \in 1..Len(list) /\ list[n] \in channel \cap alive

VisitDone(event, list, dead, others, due, n) ==
    /\ WriteTo(event, Visited(list, n) \cap alive, due)
    /\ connections' \in Seq(Browsers) /\ IsInjective(connections') /\ Keys' \subseteq Keys
    /\ Reachable' = Reachable
    /\ ipCount' \in Nat /\ ipCount' <= ipCount /\ (ipCount = Len(connections) => ipCount' = Len(connections'))
    /\ Grown(casts', others, Rest(event, list, dead, n)) /\ CastsPlaced' /\ CastsOrdered'
    /\ casts' # others => Stopped(list, n)
    /\ n # Len(list) => casts' # others

LEMMA VisitKeepsState ==
    ASSUME GatewayInv, NEW event, NEW list, NEW dead, NEW others, NEW due,
           CanVisit(event, list, dead, others, due),
           NEW n \in 0..Len(list), VisitsFirst(event, list, dead, others, due, n),
           UNCHANGED <<endpoint, alive, channel>>
    PROVE  VisitDone(event, list, dead, others, due, n)
<1> DEFINE gone == dead \cup (Visited(list, n) \ alive)
           c == Rest(event, list, dead, n)
<1>1. /\ list \in Seq(Browsers) /\ dead \subseteq Browsers /\ dead \cap alive = {} /\ others \in Seq(Cast)
      /\ \A i \in DOMAIN others : CastPlaced(others[i], endpoint, alive) /\ CastOrdered(others[i], connections)
  BY DEF CanVisit
<1>2. gone \in SUBSET Browsers /\ gone \cap alive = {}
  <2>1. channel \subseteq Browsers BY DEF GatewayInv, GatewayTypeOK
  <2> QED BY <2>1, <1>1 DEF Visited
<1>3. /\ connections \in Seq(Browsers) /\ IsInjective(connections) /\ ipCount \in Nat
  <2>1. IsFiniteSet(Browsers) BY GatewayAssumption
  <2>2. Cardinality(Browsers) \in Nat BY <2>1, FS_CardinalityType
  <2> QED BY <2>2 DEF GatewayInv, GatewayTypeOK
<1>4. \/ n = Len(list) /\ casts' = others /\ DropClients(gone)
      \/ /\ n > 0 /\ list[n] \in channel \cap alive /\ casts' = Append(others, c) /\ UNCHANGED <<connections, ipCount>>
  BY DEF VisitsFirst
<1>5. WriteTo(event, Visited(list, n) \cap alive, due) BY DEF VisitsFirst
<1> HIDE DEF gone
<1>6. /\ connections' \in Seq(Browsers) /\ IsInjective(connections')
      /\ Keys' \subseteq Keys /\ (\A b \in Keys \cap alive : b \in Keys')
      /\ ipCount' \in Nat /\ ipCount' <= ipCount /\ (ipCount = Len(connections) => ipCount' = Len(connections'))
      /\ \A d : CastOrdered(d, connections) => CastOrdered(d, connections')
  <2>1. CASE DropClients(gone)
    <3>1. /\ connections' \in Seq(Browsers) /\ IsInjective(connections') /\ Keys' = Keys \ gone
          /\ ipCount' \in Nat /\ ipCount' <= ipCount
          /\ (ipCount = Len(connections) => ipCount' = Len(connections'))
          /\ \A d : CastOrdered(d, connections) => CastOrdered(d, connections')
      BY <2>1, <1>2, <1>3, DropFacts
    <3> QED BY <3>1, <1>2
  <2>2. CASE UNCHANGED <<connections, ipCount>>
    <3>1. Keys' = Keys BY <2>2 DEF Keys
    <3> QED BY <2>2, <3>1, <1>3
  <2> QED BY <1>4, <2>1, <2>2
<1>7. Reachable' = Reachable BY <1>6 DEF Reachable
<1>8. n > 0 => n \in 1..Len(list) BY <1>1
<1>9. n \in 1..Len(list) /\ list[n] \in channel \cap alive
         => c \in Cast /\ CastPlaced(c, endpoint, alive) /\ CastOrdered(c, connections)
  BY RestIsCast
<1> HIDE DEF c
<1>10. /\ Grown(casts', others, c)
       /\ casts' # others => Stopped(list, n)
       /\ n # Len(list) => casts' # others
  <2>1. CASE casts' = others /\ n = Len(list)
    BY <2>1, <1>1 DEF Grown
  <2>2. CASE n > 0 /\ list[n] \in channel \cap alive /\ casts' = Append(others, c)
    <3>1. c \in Cast /\ others \in Seq(Cast) BY <2>2, <1>1, <1>8, <1>9
    <3>2. Grown(Append(others, c), others, c) /\ Append(others, c) # others BY <3>1, CastAfter
    <3>3. Grown(casts', others, c) /\ casts' # others BY <2>2, <3>2
    <3> QED BY <2>2, <3>3, <1>8 DEF Stopped
  <2> QED BY <1>4, <2>1, <2>2
<1>11. CastsPlaced' /\ CastsOrdered'
  <2>1. ASSUME NEW i \in DOMAIN casts'
        PROVE  CastPlaced(casts'[i], endpoint, alive) /\ CastOrdered(casts'[i], connections')
    BY <1>1, <1>6, <1>9, <1>10 DEF Grown, Stopped
  <2> QED BY <2>1 DEF CastsPlaced, CastsOrdered
<1> QED BY <1>5, <1>6, <1>7, <1>10, <1>11 DEF c, VisitDone

LEMMA VisitOwes ==
    ASSUME GatewayInv, NEW event, NEW list, NEW dead, NEW others, NEW due,
           CanVisit(event, list, dead, others, due),
           NEW n \in 0..Len(list), VisitsFirst(event, list, dead, others, due, n),
           UNCHANGED <<endpoint, alive, channel>>
    PROVE  /\ owed' \in [Browsers -> SUBSET Event]
           /\ \A b \in Browsers : owed'[b] # {} => b \in channel
           /\ OwedComes' /\ Distinct(casts')
<1> DEFINE rest == SubSeq(list, n + 1, Len(list))
           c == Rest(event, list, dead, n)
           here == Visited(list, n) \cap alive
<1>1. /\ event \in Event /\ list \in Seq(Browsers) /\ due \in [Browsers -> SUBSET Event]
      /\ Distinct(others) /\ \A i \in DOMAIN others : others[i].event # event
      /\ \A b \in Browsers : due[b] # {} => b \in channel
      /\ \A b \in channel \cap Reachable : \A e \in due[b] :
            \/ e = event /\ b \in ToSet(list)
            \/ \E i \in DOMAIN others : others[i].event = e /\ b \in ToSet(others[i].ahead)
  BY DEF CanVisit
<1>0. VisitDone(event, list, dead, others, due, n) BY VisitKeepsState
<1>2. /\ WriteTo(event, here, due) /\ Reachable' = Reachable
      /\ \A i \in DOMAIN others : i \in DOMAIN casts' /\ casts'[i] = others[i]
      /\ \A i \in DOMAIN casts' :
            \/ i \in DOMAIN others /\ casts'[i] = others[i]
            \/ i = Len(others) + 1 /\ casts'[i] = c
      /\ n # Len(list) => Len(others) + 1 \in DOMAIN casts' /\ casts'[Len(others) + 1] = c
  BY <1>0 DEF VisitDone, Grown
<1>3. /\ \A z \in ToSet(list) : z \in ToSet(rest) \/ z \in {list[k] : k \in 1..n}
  <2>1. \A k \in DOMAIN list : n < k => list[k] \in ToSet(rest) BY <1>1, RestFacts
  <2>2. \A k \in DOMAIN list : n < k \/ k \in 1..n BY <1>1
  <2> HIDE DEF rest
  <2> QED BY <2>1, <2>2 DEF ToSet
<1>4. n = Len(list) => \A z \in ToSet(list) : z \in {list[k] : k \in 1..n} BY <1>1 DEF ToSet
<1>5. c.event = event /\ c.ahead = rest BY DEF Rest
<1>6. /\ owed' \in [Browsers -> SUBSET Event]
      /\ \A b \in Browsers : owed'[b] \subseteq due[b] /\ (b \in here => event \notin owed'[b])
  <2>1. here \in SUBSET Browsers /\ latest \in [Browsers -> [Kinds -> Nat]] /\ disorder \in BOOLEAN
    BY DEF GatewayInv, GatewayTypeOK
  <2> HIDE DEF here
  <2>2. Written(event, here, due) BY <2>1, <1>1, <1>2, WriteFacts
  <2> QED BY <2>2 DEF Written
<1> HIDE DEF rest, c
<1>7. ASSUME NEW b \in channel \cap Reachable, NEW e \in owed'[b]
      PROVE  \E i \in DOMAIN casts' : casts'[i].event = e /\ b \in ToSet(casts'[i].ahead)
  <2>1. b \in Browsers /\ b \in alive BY DEF GatewayInv, GatewayTypeOK, Reachable
  <2>2. e \in due[b] BY <1>6, <2>1
  <2>3. CASE e = event /\ b \in ToSet(list)
    <3>1. b \notin {list[k] : k \in 1..n} BY <2>1, <2>3, <1>6 DEF Visited
    <3>2. b \in ToSet(rest) /\ n # Len(list) BY <3>1, <2>3, <1>3, <1>4
    <3> QED BY <3>2, <2>3, <1>2, <1>5
  <2>4. CASE \E i \in DOMAIN others : others[i].event = e /\ b \in ToSet(others[i].ahead)
    BY <2>4, <1>2
  <2> QED BY <2>2, <2>3, <2>4, <1>1
<1>8. OwedComes' BY <1>2, <1>7 DEF OwedComes
<1>9. Distinct(casts')
  <2> SUFFICES ASSUME NEW i \in DOMAIN casts', NEW j \in DOMAIN casts', i # j
               PROVE  casts'[i].event # casts'[j].event
    BY DEF Distinct
  <2>1. CASE i \in DOMAIN others /\ casts'[i] = others[i] /\ j \in DOMAIN others /\ casts'[j] = others[j]
    BY <2>1, <1>1 DEF Distinct
  <2>2. CASE i \in DOMAIN others /\ casts'[i] = others[i] /\ casts'[j] = c
    BY <2>2, <1>1, <1>5
  <2>3. CASE casts'[i] = c /\ j \in DOMAIN others /\ casts'[j] = others[j]
    BY <2>3, <1>1, <1>5
  <2> QED BY <2>1, <2>2, <2>3, <1>2
<1>10. \A b \in Browsers : owed'[b] # {} => b \in channel BY <1>1, <1>6
<1> QED BY <1>6, <1>8, <1>9, <1>10

\* A broadcast that no client has left visits in turn.
LEMMA VisitStaysInTurn ==
    ASSUME GatewayInv, NEW event, NEW list, NEW dead, NEW others, NEW due,
           CanVisit(event, list, dead, others, due), VisitInTurn(event, list, others),
           NEW n \in 0..Len(list), VisitsFirst(event, list, dead, others, due, n),
           UNCHANGED <<endpoint, alive, channel>>
    PROVE  /\ ~ disorder'
           /\ WaitsOnSubscribers(casts', channel \cap alive)
           /\ AllFollow(casts', Reachable) /\ AllBringNews(casts', latest', Reachable)
<1> DEFINE rest == SubSeq(list, n + 1, Len(list))
           c == Rest(event, list, dead, n)
           here == Visited(list, n) \cap alive
<1>1. /\ event \in Event /\ list \in Seq(Browsers) /\ due \in [Browsers -> SUBSET Event]
      /\ others \in Seq(Cast) /\ Ordered(list, connections)
      /\ \A i \in DOMAIN others : CastOrdered(others[i], connections) /\ others[i].event # event
  BY DEF CanVisit
<1>0. VisitDone(event, list, dead, others, due, n) BY VisitKeepsState
<1>2. /\ WriteTo(event, here, due)
      /\ \A i \in DOMAIN others : i \in DOMAIN casts' /\ casts'[i] = others[i]
      /\ \A i \in DOMAIN casts' :
            \/ i \in DOMAIN others /\ casts'[i] = others[i]
            \/ /\ n \in 1..Len(list) /\ list[n] \in channel \cap alive
               /\ i = Len(others) + 1 /\ casts'[i] = c
  BY <1>0 DEF VisitDone, Grown, Stopped
<1>3. /\ rest \in Seq(Browsers) /\ ToSet(rest) \subseteq ToSet(list)
      /\ \A k \in DOMAIN list : n < k => list[k] \in ToSet(rest)
      /\ \A z \in ToSet(rest) : \E k \in DOMAIN list : n < k /\ list[k] = z
  BY <1>1, RestFacts
<1>4. /\ connections \in Seq(Browsers) /\ Reachable \subseteq ToSet(connections) /\ channel \cap alive \subseteq Reachable
      /\ latest \in [Browsers -> [Kinds -> Nat]] /\ disorder \in BOOLEAN /\ channel \subseteq Browsers
  BY DEF GatewayInv, GatewayTypeOK, ClientsPlaced, Reachable, Keys
<1>5. here \subseteq channel \cap alive /\ \A z \in here : \E k \in 1..n : list[k] = z BY DEF Visited
<1>6. c.event = event /\ c.ahead = rest /\ (n \in 1..Len(list) => c.waits = list[n]) BY DEF Rest
<1>7. 1..n \subseteq DOMAIN list /\ n \in Nat /\ DOMAIN list \subseteq Nat /\ DOMAIN list = 1..Len(list) BY <1>1
<1>8. /\ ~ disorder
      /\ WaitsOnSubscribers(others, channel \cap alive)
      /\ AllFollow(others, Reachable) /\ AllBringNews(others, latest, Reachable)
      /\ \A z \in ToSet(list) \cap Reachable : latest[z][event.kind] < event.number
      /\ \A i \in DOMAIN others : others[i].event.kind = event.kind =>
            /\ others[i].event.number < event.number =>
                  others[i].waits \in ToSet(list) /\ ToSet(others[i].ahead) \cap Reachable \subseteq ToSet(list)
            /\ event.number < others[i].event.number => ToSet(list) \cap Reachable \subseteq ToSet(others[i].ahead)
  BY DEF VisitInTurn
<1>9. \A k \in 1..n : list[k] \in channel \cap alive /\ (\E i \in DOMAIN others : others[i].waits = list[k]) => k = n
  BY DEF VisitsFirst, NobodyPassed
<1>10. /\ latest' \in [Browsers -> [Kinds -> Nat]] /\ disorder' \in BOOLEAN
       /\ \A b \in Browsers, k \in Kinds :
             latest'[b][k] = IF b \in here /\ k = event.kind THEN event.number ELSE latest[b][k]
       /\ disorder' => disorder \/ \E b \in here : latest[b][event.kind] >= event.number
  <2>1. here \in SUBSET Browsers BY <1>4, <1>5
  <2> HIDE DEF here
  <2>2. Written(event, here, due) BY <2>1, <1>1, <1>2, <1>4, WriteFacts
  <2> QED BY <2>2 DEF Written
<1> HIDE DEF rest, c, here
<1>11. event.kind \in Kinds /\ event.number \in Nat BY <1>1, GatewayAssumption DEF Event
<1>12. ~ disorder'
  <2> SUFFICES ASSUME NEW b \in here, latest[b][event.kind] >= event.number PROVE FALSE
    BY <1>8, <1>10
  <2>1. b \in Reachable /\ b \in ToSet(list) BY <1>4, <1>5, <1>7 DEF ToSet
  <2>2. latest[b][event.kind] < event.number BY <2>1, <1>8
  <2>3. latest[b][event.kind] \in Nat BY <1>4, <1>5, <1>11
  <2> QED BY <2>2, <2>3, <1>11
<1>13. WaitsOnSubscribers(casts', channel \cap alive) BY <1>2, <1>6, <1>8 DEF WaitsOnSubscribers
\* An older broadcast waits at the place where this one stops, or later.
<1>14. ASSUME NEW i \in DOMAIN others, others[i].event.kind = event.kind,
              others[i].event.number < event.number
       PROVE  \E p \in DOMAIN list : /\ list[p] = others[i].waits /\ n <= p
                                      /\ \A k \in DOMAIN list : list[k] \in ToSet(others[i].ahead) \cap Reachable => p < k
  <2>1. others[i].waits \in ToSet(list) /\ others[i].waits \in channel \cap alive
    BY <1>8, <1>14 DEF WaitsOnSubscribers
  <2>2. PICK p \in DOMAIN list : list[p] = others[i].waits BY <2>1 DEF ToSet
  <2>3. n <= p
    <3>1. p \in Nat BY <1>7
    <3>2. p <= n => p \in 1..n BY <1>7
    <3>3. p \in 1..n => p = n BY <2>1, <2>2, <1>9
    <3> QED BY <3>1, <3>2, <3>3, <1>7
  <2>4. ASSUME NEW k \in DOMAIN list, list[k] \in ToSet(others[i].ahead) \cap Reachable PROVE p < k
    <3>1. Before(list[p], list[k], connections) BY <2>2, <2>4, <1>1 DEF CastOrdered
    <3>2. list[p] \in ToSet(connections) /\ list[k] \in ToSet(connections) BY <2>1, <2>2, <2>4, <1>4
    <3> QED BY <3>1, <3>2, <1>1, <1>4, OrderedAs
  <2> QED BY <2>2, <2>3, <2>4
\* Whom it has yet to visit it has not visited.
<1>15. ASSUME NEW z \in ToSet(rest) \cap Reachable PROVE z \notin here
  <2>1. PICK k \in DOMAIN list : n < k /\ list[k] = z BY <1>3
  <2> SUFFICES ASSUME z \in here PROVE FALSE
    OBVIOUS
  <2>2. PICK m \in 1..n : list[m] = z BY <1>5
  <2>3. m \in DOMAIN list /\ z \in ToSet(connections) BY <1>4, <1>7
  <2>4. m = k BY <2>1, <2>2, <2>3, <1>1, <1>4, OrderedOnce
  <2> QED BY <2>1, <2>2, <2>4, <1>7
<1>16. AllBringNews(casts', latest', Reachable)
  <2> SUFFICES ASSUME NEW i \in DOMAIN casts', NEW z \in ToSet(casts'[i].ahead) \cap Reachable
               PROVE  latest'[z][casts'[i].event.kind] < casts'[i].event.number
    BY DEF AllBringNews, BringsNews
  <2>1. z \in Browsers BY <1>4 DEF GatewayInv, GatewayTypeOK, Reachable
  <2>2. CASE i \in DOMAIN others /\ casts'[i] = others[i]
    <3>1. latest[z][others[i].event.kind] < others[i].event.number BY <2>2, <1>8 DEF AllBringNews, BringsNews
    <3>2. others[i] \in Cast BY <2>2, <1>1
    <3>3. others[i].event \in Event BY <3>2 DEF Cast
    <3>4. others[i].event.kind \in Kinds /\ others[i].event.number \in Nat BY <3>3, GatewayAssumption DEF Event
    <3>5. CASE z \in here /\ others[i].event.kind = event.kind
      <4>1. others[i].event.number # event.number BY <2>2, <3>3, <3>5, <1>1 DEF Event
      <4>2. ~ (others[i].event.number < event.number)
        <5> SUFFICES ASSUME others[i].event.number < event.number PROVE FALSE
          OBVIOUS
        <5>1. PICK k \in 1..n : list[k] = z BY <3>5, <1>5
        <5>2. k \in DOMAIN list /\ list[k] \in ToSet(others[i].ahead) \cap Reachable BY <5>1, <2>2, <1>7
        <5>3. PICK p \in DOMAIN list : n <= p /\ p < k BY <5>2, <2>2, <3>5, <1>14
        <5> QED BY <5>1, <5>3, <1>7
      <4>3. latest'[z][event.kind] = event.number BY <2>1, <3>5, <1>10, <1>11
      <4> QED BY <4>1, <4>2, <4>3, <2>2, <3>4, <3>5, <1>11
    <3>6. CASE ~ (z \in here /\ others[i].event.kind = event.kind)
      BY <3>1, <3>4, <3>6, <2>1, <2>2, <1>10
    <3> QED BY <3>5, <3>6
  <2>3. CASE casts'[i] = c
    <3>1. z \in ToSet(rest) \cap Reachable BY <2>3, <1>6
    <3>2. z \notin here BY <3>1, <1>15
    <3>3. latest[z][event.kind] < event.number BY <3>1, <1>3, <1>8
    <3> QED BY <3>2, <3>3, <2>1, <2>3, <1>6, <1>10, <1>11
  <2> QED BY <2>2, <2>3, <1>2
<1>17. AllFollow(casts', Reachable)
  <2> SUFFICES ASSUME NEW i \in DOMAIN casts', NEW j \in DOMAIN casts', Older(casts'[i], casts'[j])
               PROVE  Follows(casts', i, j, Reachable)
    BY DEF AllFollow
  <2>1. CASE i \in DOMAIN others /\ casts'[i] = others[i] /\ j \in DOMAIN others /\ casts'[j] = others[j]
    <3>1. Follows(others, i, j, Reachable) BY <2>1, <1>8 DEF AllFollow
    <3> QED BY <3>1, <2>1 DEF Follows
  <2>2. CASE i \in DOMAIN others /\ casts'[i] = others[i] /\ n \in 1..Len(list) /\ j = Len(others) + 1 /\ casts'[j] = c
    <3>1. others[i].event.kind = event.kind /\ others[i].event.number < event.number BY <2>2, <1>6 DEF Older
    <3>2. PICK p \in DOMAIN list : /\ list[p] = others[i].waits /\ n <= p
                                   /\ \A k \in DOMAIN list : list[k] \in ToSet(others[i].ahead) \cap Reachable => p < k
      BY <3>1, <2>2, <1>14
    <3>3. i < j BY <2>2, <1>1
    <3>4. \/ others[i].waits = c.waits
          \/ others[i].waits \in ToSet(c.ahead)
      <4>1. p = n \/ n < p BY <3>2, <1>7
      <4> QED BY <4>1, <3>2, <2>2, <1>3, <1>6
    <3>5. ASSUME NEW z \in ToSet(others[i].ahead) \cap Reachable PROVE z \in ToSet(c.ahead)
      <4>1. z \in ToSet(list) BY <3>1, <2>2, <1>8
      <4>2. PICK k \in DOMAIN list : list[k] = z BY <4>1 DEF ToSet
      <4>3. p < k BY <4>2, <3>2
      <4>4. n < k BY <4>3, <3>2, <1>7
      <4> QED BY <4>2, <4>4, <1>3, <1>6
    <3> QED BY <3>3, <3>4, <3>5, <2>2 DEF Follows
  <2>3. CASE /\ casts'[i] = c /\ n \in 1..Len(list) /\ list[n] \in channel \cap alive
             /\ j \in DOMAIN others /\ casts'[j] = others[j]
    <3>1. others[j].event.kind = event.kind /\ event.number < others[j].event.number BY <2>3, <1>6 DEF Older
    <3>2. ToSet(list) \cap Reachable \subseteq ToSet(others[j].ahead) BY <3>1, <2>3, <1>8
    <3>3. list[n] \in ToSet(list) \cap Reachable BY <2>3, <1>4, <1>7 DEF ToSet
    <3>4. c.waits \in ToSet(others[j].ahead) BY <2>3, <3>2, <3>3, <1>6
    <3>5. ToSet(c.ahead) \cap Reachable \subseteq ToSet(others[j].ahead) BY <3>2, <1>3, <1>6
    <3> QED BY <3>4, <3>5, <2>3 DEF Follows
  <2>4. CASE casts'[i] = c /\ casts'[j] = c
    BY <2>4, <1>6, <1>11 DEF Older
  <2> QED BY <2>1, <2>2, <2>3, <2>4, <1>2
<1> QED BY <1>12, <1>13, <1>16, <1>17

\* An event that is new stays so when an older one goes through its list.
LEMMA VisitKeepsNew ==
    ASSUME GatewayInv, NEW event, NEW list, NEW dead, NEW others, NEW due,
           CanVisit(event, list, dead, others, due),
           NEW n \in 0..Len(list), VisitsFirst(event, list, dead, others, due, n),
           UNCHANGED <<endpoint, alive, channel>>,
           NEW kind \in Kinds, NEW number, NewTo(others, latest, kind, number),
           event.kind = kind => event.number < number
    PROVE  NewTo(casts', latest', kind, number)
<1> DEFINE c == Rest(event, list, dead, n)
           here == Visited(list, n) \cap alive
<1>1. event \in Event /\ due \in [Browsers -> SUBSET Event] BY DEF CanVisit
<1>0. VisitDone(event, list, dead, others, due, n) BY VisitKeepsState
<1>2. /\ WriteTo(event, here, due)
      /\ \A i \in DOMAIN casts' :
            \/ i \in DOMAIN others /\ casts'[i] = others[i]
            \/ casts'[i] = c
  BY <1>0 DEF VisitDone, Grown
<1>3. c.event = event BY DEF Rest
<1>4. \A b \in Browsers, k \in Kinds :
             latest'[b][k] = IF b \in here /\ k = event.kind THEN event.number ELSE latest[b][k]
  <2>1. here \in SUBSET Browsers /\ latest \in [Browsers -> [Kinds -> Nat]] /\ disorder \in BOOLEAN
    BY DEF GatewayInv, GatewayTypeOK, Visited
  <2> HIDE DEF here
  <2>2. Written(event, here, due) BY <2>1, <1>1, <1>2, WriteFacts
  <2> QED BY <2>2 DEF Written
<1> HIDE DEF c, here
<1>5. \A i \in DOMAIN casts' : casts'[i].event.kind = kind => casts'[i].event.number < number
  BY <1>2, <1>3 DEF NewTo
<1>6. \A b \in Browsers : latest'[b][kind] < number BY <1>4 DEF NewTo
<1> QED BY <1>5, <1>6 DEF NewTo

\* Nobody comes while a broadcast goes through its list.
LEMMA VisitKeepsInv ==
    ASSUME GatewayInv, NEW event, NEW list, NEW dead, NEW others, NEW due,
           CanVisit(event, list, dead, others, due), ~ jumped => VisitInTurn(event, list, others),
           NEW n \in 0..Len(list), VisitsFirst(event, list, dead, others, due, n),
           UNCHANGED <<endpoint, alive, full, channel, ipRead, published, pendingBook, flushers, raced, leaked, jumped>>,
           created' \in Seq(Event), NumbersGrow'
    PROVE  GatewayInv'
<1>1. VisitDone(event, list, dead, others, due, n) BY VisitKeepsState
<1>2. /\ connections' \in Seq(Browsers) /\ IsInjective(connections') /\ Keys' \subseteq Keys
      /\ Reachable' = Reachable
      /\ ipCount' \in Nat /\ ipCount' <= ipCount /\ (ipCount = Len(connections) => ipCount' = Len(connections'))
      /\ casts' \in Seq(Cast) /\ CastsPlaced' /\ CastsOrdered'
      /\ WriteTo(event, Visited(list, n) \cap alive, due)
  BY <1>1 DEF VisitDone, Grown
<1>3. /\ owed' \in [Browsers -> SUBSET Event]
      /\ \A b \in Browsers : owed'[b] # {} => b \in channel
      /\ OwedComes' /\ Distinct(casts')
  BY VisitOwes
<1>4. GatewayTypeOK /\ ClientsPlaced /\ CountsBounded /\ CountsMatchConnections BY DEF GatewayInv
<1>5. latest' \in [Browsers -> [Kinds -> Nat]] /\ disorder' \in BOOLEAN
  <2> DEFINE here == Visited(list, n) \cap alive
  <2>1. /\ here \in SUBSET Browsers /\ latest \in [Browsers -> [Kinds -> Nat]] /\ disorder \in BOOLEAN
        /\ event \in Event /\ due \in [Browsers -> SUBSET Event] /\ WriteTo(event, here, due)
    BY <1>2, <1>4 DEF GatewayTypeOK, Visited, CanVisit
  <2> HIDE DEF here
  <2>2. Written(event, here, due) BY <2>1, WriteFacts
  <2> QED BY <2>2 DEF Written
<1>6. GatewayTypeOK'
  <2>1. Cardinality(Browsers) \in Nat BY GatewayAssumption, FS_CardinalityType
  <2>2. ipCount' \in 0..Cardinality(Browsers) BY <2>1, <1>2, <1>4 DEF GatewayTypeOK
  <2> QED BY <2>2, <1>2, <1>3, <1>4, <1>5 DEF GatewayTypeOK
<1>7. ClientsPlaced'
  <2>1. Reachable' = Reachable /\ Keys' \subseteq Keys /\ UNCHANGED <<endpoint, leaked, channel, alive>> BY <1>2
  <2>2. \A b \in Browsers : b \in channel \cap alive => b \in Keys' BY <1>2, <1>4 DEF ClientsPlaced, Reachable
  <2> QED BY <2>1, <2>2, <1>3, <1>4 DEF ClientsPlaced
<1>8. CountsBounded'
  <2>1. Cardinality(Come(endpoint)) \in Nat
    <3>1. IsFiniteSet(Come(endpoint)) BY GatewayAssumption, FS_Subset DEF Come
    <3> QED BY <3>1, FS_CardinalityType
  <2>2. ipCount \in Nat
    <3>1. Cardinality(Browsers) \in Nat BY GatewayAssumption, FS_CardinalityType
    <3> QED BY <3>1, <1>4 DEF GatewayTypeOK
  <2> QED BY <2>1, <2>2, <1>2, <1>4 DEF CountsBounded
<1>9. CountsMatchConnections' BY <1>2, <1>4 DEF CountsMatchConnections
<1>10. InTurn'
  <2>1. jumped' = jumped /\ channel' = channel /\ alive' = alive OBVIOUS
  <2>2. CASE jumped BY <2>1, <2>2 DEF InTurn
  <2>3. CASE ~ jumped
    <3>1. VisitInTurn(event, list, others) BY <2>3
    <3>2. /\ ~ disorder'
          /\ WaitsOnSubscribers(casts', channel \cap alive)
          /\ AllFollow(casts', Reachable) /\ AllBringNews(casts', latest', Reachable)
      BY <3>1, VisitStaysInTurn
    <3> QED BY <3>2, <2>1, <1>2 DEF InTurn
  <2> QED BY <2>2, <2>3
<1> QED BY <1>2, <1>3, <1>6, <1>7, <1>8, <1>9, <1>10 DEF GatewayInv

LEMMA BeginCastKeeps ==
    ASSUME GatewayInv, BeginCast
    PROVE  GatewayInv'
<1> DEFINE event == Head(created)
           due == [b \in Browsers |-> IF b \in channel \cap Keys THEN owed[b] \cup {event} ELSE owed[b]]
<1>1. /\ GatewayTypeOK /\ IsInjective(connections) /\ ClientsPlaced /\ CastsPlaced /\ CastsOrdered
      /\ OwedComes /\ NumbersGrow /\ Distinct(casts) /\ InTurn
  BY DEF GatewayInv
<1>2. /\ created \in Seq(Event) /\ casts \in Seq(Cast) /\ connections \in Seq(Browsers)
      /\ owed \in [Browsers -> SUBSET Event]
  BY <1>1 DEF GatewayTypeOK
<1>3. created # <<>> /\ created' = Tail(created) /\ Visit(event, connections, {}, casts, due)
  BY DEF BeginCast
<1>4. UNCHANGED <<endpoint, alive, full, channel, ipRead, published, pendingBook, flushers, raced, leaked, jumped>>
  BY DEF BeginCast
<1>5. 1 \in DOMAIN created /\ event = created[1] /\ event \in Event BY <1>2, <1>3
<1>6. /\ created' \in Seq(Event)
      /\ \A m \in DOMAIN created' : m + 1 \in DOMAIN created /\ m \in Nat /\ m > 0 /\ created'[m] = created[m + 1]
  BY <1>2, <1>3, TailMembers
<1>7. due \in [Browsers -> SUBSET Event] BY <1>2, <1>5
<1>8. \A b \in Browsers : due[b] = IF b \in channel \cap Keys THEN owed[b] \cup {event} ELSE owed[b] OBVIOUS
<1> HIDE DEF event, due
<1>9. NewTo(casts, latest, event.kind, event.number) BY <1>1, <1>5 DEF NumbersGrow
<1>10. event.kind \in Kinds /\ event.number \in Nat BY <1>5, GatewayAssumption DEF Event
<1>11. CanVisit(event, connections, {}, casts, due)
  <2>1. Ordered(connections, connections) BY <1>1, <1>2, ConnectionsOrdered
  <2>2. \A z \in ToSet(connections) : endpoint[z] \notin {"none", "accepting"}
    <3>1. ToSet(connections) \subseteq Browsers BY <1>2 DEF ToSet
    <3> QED BY <3>1, <1>1 DEF ClientsPlaced, Keys
  <2>3. \A i \in DOMAIN casts : CastPlaced(casts[i], endpoint, alive) /\ CastOrdered(casts[i], connections)
    BY <1>1 DEF CastsPlaced, CastsOrdered
  <2>4. \A b \in Browsers : due[b] # {} => b \in channel BY <1>1, <1>8 DEF ClientsPlaced
  <2>5. ASSUME NEW b \in channel \cap Reachable, NEW e \in due[b]
        PROVE  \/ e = event /\ b \in ToSet(connections)
               \/ \E i \in DOMAIN casts : casts[i].event = e /\ b \in ToSet(casts[i].ahead)
    <3>1. b \in Browsers /\ b \in ToSet(connections) BY <1>1 DEF GatewayTypeOK, Reachable, Keys
    <3>2. e = event \/ e \in owed[b] BY <3>1, <1>8
    <3> QED BY <3>1, <3>2, <1>1 DEF OwedComes
  <2>6. \A i \in DOMAIN casts : casts[i].event # event
    <3> SUFFICES ASSUME NEW i \in DOMAIN casts, casts[i].event = event PROVE FALSE
      OBVIOUS
    <3>1. event.number < event.number BY <1>9 DEF NewTo
    <3> QED BY <3>1, <1>10
  <2> QED BY <2>1, <2>2, <2>3, <2>4, <2>5, <2>6, <1>1, <1>2, <1>5, <1>7 DEF CanVisit
<1>12. ~ jumped => VisitInTurn(event, connections, casts)
  <2> SUFFICES ASSUME ~ jumped PROVE VisitInTurn(event, connections, casts)
    OBVIOUS
  <2>1. /\ ~ disorder /\ WaitsOnSubscribers(casts, channel \cap alive)
        /\ AllFollow(casts, Reachable) /\ AllBringNews(casts, latest, Reachable)
    BY <1>1 DEF InTurn
  <2>2. channel \cap alive \subseteq ToSet(connections) /\ Reachable \subseteq ToSet(connections) /\ Reachable \subseteq Browsers
    BY <1>1 DEF ClientsPlaced, GatewayTypeOK, Reachable, Keys
  <2>3. \A z \in ToSet(connections) \cap Reachable : latest[z][event.kind] < event.number
    BY <2>2, <1>9 DEF NewTo
  <2>4. ASSUME NEW i \in DOMAIN casts, casts[i].event.kind = event.kind
        PROVE  /\ casts[i].waits \in ToSet(connections) /\ ToSet(casts[i].ahead) \cap Reachable \subseteq ToSet(connections)
               /\ ~ (event.number < casts[i].event.number)
    <3>1. casts[i].event.number < event.number BY <2>4, <1>9 DEF NewTo
    <3>2. casts[i] \in Cast BY <1>2
    <3>3. casts[i].event.number \in Nat BY <3>2, GatewayAssumption DEF Cast, Event
    <3>4. casts[i].waits \in channel \cap alive BY <2>1 DEF WaitsOnSubscribers
    <3> QED BY <3>1, <3>3, <3>4, <2>2, <1>10
  <2> QED BY <2>1, <2>3, <2>4 DEF VisitInTurn
<1>13. PICK n \in 0..Len(connections) : VisitsFirst(event, connections, {}, casts, due, n)
  BY <1>2, <1>3, VisitStops
<1>14. ASSUME NEW kind \in Kinds, NEW number, NewTo(casts, latest, kind, number),
              event.kind = kind => event.number < number
       PROVE  NewTo(casts', latest', kind, number)
  <2>1. UNCHANGED <<endpoint, alive, channel>> BY <1>4
  <2> QED BY <2>1, <1>11, <1>13, <1>14, VisitKeepsNew
<1>15. NumbersGrow'
  <2>1. published' = published /\ pendingBook' = pendingBook BY <1>4
  <2>2. published \in [Kinds -> Nat] BY <1>1 DEF GatewayTypeOK
  <2>3. ASSUME NEW k \in Kinds PROVE NewTo(casts', latest', k, published[k] + 1)
    <3>1. NewTo(casts, latest, k, published[k] + 1) BY <1>1 DEF NumbersGrow
    <3>2. event.kind = k => event.number <= published[k] BY <1>1, <1>5 DEF NumbersGrow
    <3>3. event.kind = k => event.number < published[k] + 1 BY <3>2, <2>2, <1>10
    <3> QED BY <3>1, <3>3, <1>14
  <2>4. pendingBook # 0 => NewTo(casts', latest', "depth", pendingBook) /\ pendingBook <= published["depth"]
    <3> SUFFICES ASSUME pendingBook # 0
                 PROVE  NewTo(casts', latest', "depth", pendingBook) /\ pendingBook <= published["depth"]
      OBVIOUS
    <3>1. NewTo(casts, latest, "depth", pendingBook) /\ pendingBook <= published["depth"] BY <1>1 DEF NumbersGrow
    <3>2. event.kind = "depth" => event.number < pendingBook BY <1>1, <1>5 DEF NumbersGrow
    <3>3. "depth" \in Kinds BY DEF Kinds
    <3> QED BY <3>1, <3>2, <3>3, <1>14
  <2>5. ASSUME NEW m \in DOMAIN created'
        PROVE  /\ NewTo(casts', latest', created'[m].kind, created'[m].number)
               /\ created'[m].number <= published[created'[m].kind]
               /\ pendingBook # 0 /\ created'[m].kind = "depth" => created'[m].number < pendingBook
    <3>1. m + 1 \in DOMAIN created /\ created'[m] = created[m + 1] /\ m \in Nat /\ m > 0 BY <1>6
    <3>2. /\ NewTo(casts, latest, created[m + 1].kind, created[m + 1].number)
          /\ created[m + 1].number <= published[created[m + 1].kind]
          /\ pendingBook # 0 /\ created[m + 1].kind = "depth" => created[m + 1].number < pendingBook
      BY <3>1, <1>1 DEF NumbersGrow
    <3>3. 1 < m + 1 BY <3>1
    <3>4. event.kind = created[m + 1].kind => event.number < created[m + 1].number
      BY <3>1, <3>3, <1>1, <1>5 DEF NumbersGrow
    <3>5. created[m + 1].kind \in Kinds
      <4>1. created[m + 1] \in Event BY <3>1, <1>2
      <4> QED BY <4>1 DEF Event
    <3>6. NewTo(casts', latest', created[m + 1].kind, created[m + 1].number) BY <3>2, <3>4, <3>5, <1>14
    <3> QED BY <3>1, <3>2, <3>6
  <2>6. ASSUME NEW m \in DOMAIN created', NEW k \in DOMAIN created', m < k, created'[m].kind = created'[k].kind
        PROVE  created'[m].number < created'[k].number
    <3>1. m + 1 \in DOMAIN created /\ k + 1 \in DOMAIN created /\ m + 1 < k + 1 BY <2>6, <1>6
    <3>2. created'[m] = created[m + 1] /\ created'[k] = created[k + 1] BY <1>6
    <3> QED BY <3>1, <3>2, <2>6, <1>1 DEF NumbersGrow
  <2> QED BY <2>1, <2>3, <2>4, <2>5, <2>6 DEF NumbersGrow
<1> QED BY <1>4, <1>6, <1>11, <1>12, <1>13, <1>15, VisitKeepsInv

LEMMA ResumeCastKeeps ==
    ASSUME GatewayInv, NEW b \in Browsers, ResumeCast(b)
    PROVE  GatewayInv'
<1> DEFINE j == FirstOf(WaitingOn(b))
           c == casts[j]
           dead == c.dead \cup ({b} \ alive)
           others == RemoveAt(casts, j)
<1>1. /\ GatewayTypeOK /\ IsInjective(connections) /\ ClientsPlaced /\ CastsPlaced /\ CastsOrdered
      /\ OwedComes /\ NumbersGrow /\ Distinct(casts) /\ InTurn
  BY DEF GatewayInv
<1>2. casts \in Seq(Cast) /\ owed \in [Browsers -> SUBSET Event] BY <1>1 DEF GatewayTypeOK
<1>3. WaitingOn(b) # {} /\ Visit(c.event, c.ahead, dead, others, owed) BY DEF ResumeCast
<1>4. UNCHANGED <<endpoint, alive, full, channel, ipRead, created, published, pendingBook, flushers, raced, leaked, jumped>>
  BY DEF ResumeCast
<1>5. /\ j \in DOMAIN casts /\ casts[j].waits = b /\ \A m \in DOMAIN casts : casts[m].waits = b => j <= m
  <2>1. WaitingOn(b) \subseteq Nat BY <1>2 DEF WaitingOn
  <2>2. j \in WaitingOn(b) /\ \A m \in WaitingOn(b) : j <= m BY <2>1, <1>3, FirstIs
  <2> HIDE DEF j
  <2> QED BY <2>2 DEF WaitingOn
<1>6. c \in Cast /\ CastPlaced(c, endpoint, alive) /\ CastOrdered(c, connections)
  BY <1>1, <1>2, <1>5 DEF CastsPlaced, CastsOrdered
<1> HIDE DEF j
<1>7. /\ others \in Seq(Cast)
      /\ \A n \in DOMAIN others : Was(j, n) \in DOMAIN casts /\ Was(j, n) # j /\ others[n] = casts[Was(j, n)]
      /\ \A m \in DOMAIN casts : m # j => \E n \in DOMAIN others : others[n] = casts[m]
  BY <1>2, <1>5, RemovedAt
<1>8. /\ Distinct(others)
      /\ AllFollow(casts, Reachable) => AllFollow(others, Reachable)
      /\ AllBringNews(casts, latest, Reachable) => AllBringNews(others, latest, Reachable)
      /\ WaitsOnSubscribers(casts, channel \cap alive) => WaitsOnSubscribers(others, channel \cap alive)
  BY <1>1, <1>2, <1>5, OthersKeep
<1> HIDE DEF others
<1>9. c.event \in Event /\ c.ahead \in Seq(Browsers) /\ c.dead \subseteq Browsers BY <1>6 DEF Cast
<1>10. c.event.kind \in Kinds /\ c.event.number \in Nat BY <1>9, GatewayAssumption DEF Event
<1>11. CanVisit(c.event, c.ahead, dead, others, owed)
  <2>1. dead \subseteq Browsers /\ dead \cap alive = {} BY <1>6, <1>9 DEF CastPlaced
  <2>2. Ordered(c.ahead, connections) BY <1>6 DEF CastOrdered
  <2>3. \A z \in ToSet(c.ahead) : endpoint[z] \notin {"none", "accepting"} BY <1>6 DEF CastPlaced
  <2>4. \A i \in DOMAIN others : CastPlaced(others[i], endpoint, alive) /\ CastOrdered(others[i], connections)
    BY <1>1, <1>7 DEF CastsPlaced, CastsOrdered
  <2>5. \A x \in Browsers : owed[x] # {} => x \in channel BY <1>1 DEF ClientsPlaced
  <2>6. ASSUME NEW x \in channel \cap Reachable, NEW e \in owed[x]
        PROVE  \/ e = c.event /\ x \in ToSet(c.ahead)
               \/ \E i \in DOMAIN others : others[i].event = e /\ x \in ToSet(others[i].ahead)
    <3>1. PICK m \in DOMAIN casts : casts[m].event = e /\ x \in ToSet(casts[m].ahead) BY <1>1 DEF OwedComes
    <3>2. CASE m = j BY <3>1, <3>2
    <3>3. CASE m # j
      <4>1. PICK n \in DOMAIN others : others[n] = casts[m] BY <3>3, <1>7
      <4> QED BY <3>1, <4>1
    <3> QED BY <3>2, <3>3
  <2>7. \A i \in DOMAIN others : others[i].event # c.event BY <1>1, <1>5, <1>7 DEF Distinct
  <2> QED BY <2>1, <2>2, <2>3, <2>4, <2>5, <2>6, <2>7, <1>2, <1>7, <1>8, <1>9 DEF CanVisit
<1>12. ~ jumped => VisitInTurn(c.event, c.ahead, others)
  <2> SUFFICES ASSUME ~ jumped PROVE VisitInTurn(c.event, c.ahead, others)
    OBVIOUS
  <2>1. /\ ~ disorder /\ WaitsOnSubscribers(casts, channel \cap alive)
        /\ AllFollow(casts, Reachable) /\ AllBringNews(casts, latest, Reachable)
    BY <1>1 DEF InTurn
  <2>2. \A z \in ToSet(c.ahead) \cap Reachable : latest[z][c.event.kind] < c.event.number
    BY <2>1, <1>5 DEF AllBringNews, BringsNews
  <2>3. ASSUME NEW i \in DOMAIN others, others[i].event.kind = c.event.kind
        PROVE  /\ others[i].event.number < c.event.number =>
                  /\ others[i].waits \in ToSet(c.ahead)
                  /\ ToSet(others[i].ahead) \cap Reachable \subseteq ToSet(c.ahead)
               /\ c.event.number < others[i].event.number =>
                  ToSet(c.ahead) \cap Reachable \subseteq ToSet(others[i].ahead)
    <3> DEFINE w == Was(j, i)
    <3>1. w \in DOMAIN casts /\ w # j /\ others[i] = casts[w] BY <1>7
    <3> HIDE DEF w
    <3>2. ASSUME casts[w].event.number < c.event.number
          PROVE  casts[w].waits \in ToSet(c.ahead) /\ ToSet(casts[w].ahead) \cap Reachable \subseteq ToSet(c.ahead)
      <4>1. Older(casts[w], casts[j]) BY <2>3, <3>1, <3>2 DEF Older
      <4>2. Follows(casts, w, j, Reachable) BY <4>1, <3>1, <2>1, <1>5 DEF AllFollow
      <4>3. ~ (casts[w].waits = casts[j].waits /\ w < j)
        <5>1. casts[w].waits = casts[j].waits => j <= w BY <3>1, <1>5
        <5>2. j \in Nat /\ w \in Nat BY <3>1, <1>2, <1>5
        <5> QED BY <5>1, <5>2
      <4> QED BY <4>2, <4>3 DEF Follows
    <3>3. ASSUME c.event.number < casts[w].event.number
          PROVE  ToSet(c.ahead) \cap Reachable \subseteq ToSet(casts[w].ahead)
      <4>1. Older(casts[j], casts[w]) BY <2>3, <3>1, <3>3 DEF Older
      <4>2. Follows(casts, j, w, Reachable) BY <4>1, <3>1, <2>1, <1>5 DEF AllFollow
      <4> QED BY <4>2 DEF Follows
    <3> QED BY <3>1, <3>2, <3>3
  <2> QED BY <2>1, <2>2, <2>3, <1>8 DEF VisitInTurn
<1>13. PICK n \in 0..Len(c.ahead) : VisitsFirst(c.event, c.ahead, dead, others, owed, n)
  BY <1>3, <1>9, VisitStops
<1>14. ASSUME NEW kind \in Kinds, NEW number, NewTo(casts, latest, kind, number)
       PROVE  NewTo(casts', latest', kind, number)
  <2>1. UNCHANGED <<endpoint, alive, channel>> BY <1>4
  <2>2. NewTo(others, latest, kind, number) BY <1>7, <1>14 DEF NewTo
  <2>3. c.event.kind = kind => c.event.number < number BY <1>5, <1>14 DEF NewTo
  <2> QED BY <2>1, <2>2, <2>3, <1>11, <1>13, VisitKeepsNew
<1>15. NumbersGrow'
  <2>1. published' = published /\ pendingBook' = pendingBook /\ created' = created BY <1>4
  <2>2. "depth" \in Kinds /\ \A m \in DOMAIN created : created[m].kind \in Kinds
    <3>1. created \in Seq(Event) BY <1>1 DEF GatewayTypeOK
    <3>2. \A m \in DOMAIN created : created[m] \in Event BY <3>1
    <3> QED BY <3>2 DEF Event, Kinds
  <2> QED BY <2>1, <2>2, <1>1, <1>14 DEF NumbersGrow
<1>16. created' \in Seq(Event) BY <1>1, <1>4 DEF GatewayTypeOK
<1> HIDE DEF c, dead
<1> QED BY <1>4, <1>11, <1>12, <1>13, <1>15, <1>16, VisitKeepsInv

-------------------------------------------------------------------------------
(* The other steps *)

\* What a step does not disturb.
LEMMA GatewayKept ==
    ASSUME GatewayInv
    PROVE  /\ UNCHANGED connections => IsInjective(connections)'
           /\ UNCHANGED <<endpoint, alive, connections, channel, leaked, owed>> => ClientsPlaced'
           /\ UNCHANGED <<casts, endpoint, alive>> => CastsPlaced'
           /\ UNCHANGED <<casts, connections>> => CastsOrdered'
           /\ UNCHANGED <<channel, alive, connections, owed, casts>> => OwedComes'
           /\ UNCHANGED <<endpoint, ipCount, ipRead>> => CountsBounded'
           /\ UNCHANGED <<raced, ipCount, connections, endpoint, leaked>> => CountsMatchConnections'
           /\ UNCHANGED <<casts, latest, published, pendingBook, created>> => NumbersGrow'
           /\ UNCHANGED casts => Distinct(casts)'
           /\ UNCHANGED <<jumped, disorder, casts, channel, alive, connections, latest>> => InTurn'
<1>1. UNCHANGED connections => IsInjective(connections)' BY DEF GatewayInv
<1>2. UNCHANGED <<endpoint, alive, connections, channel, leaked, owed>> => ClientsPlaced'
  BY DEF GatewayInv, ClientsPlaced, Keys
<1>3. UNCHANGED <<casts, endpoint, alive>> => CastsPlaced' BY DEF GatewayInv, CastsPlaced
<1>4. UNCHANGED <<casts, connections>> => CastsOrdered' BY DEF GatewayInv, CastsOrdered
<1>5. UNCHANGED <<channel, alive, connections, owed, casts>> => OwedComes'
  BY DEF GatewayInv, OwedComes, Reachable, Keys
<1>6. UNCHANGED <<endpoint, ipCount, ipRead>> => CountsBounded' BY DEF GatewayInv, CountsBounded
<1>7. UNCHANGED <<raced, ipCount, connections, endpoint, leaked>> => CountsMatchConnections'
  BY DEF GatewayInv, CountsMatchConnections, Keys
<1>8. UNCHANGED <<casts, latest, published, pendingBook, created>> => NumbersGrow'
  BY DEF GatewayInv, NumbersGrow
<1>9. UNCHANGED casts => Distinct(casts)' BY DEF GatewayInv
<1>10. UNCHANGED <<jumped, disorder, casts, channel, alive, connections, latest>> => InTurn'
  <2> SUFFICES ASSUME UNCHANGED <<jumped, disorder, casts, channel, alive, connections, latest>> PROVE InTurn'
    OBVIOUS
  <2>1. Reachable' = Reachable BY DEF Reachable, Keys
  <2> QED BY <2>1 DEF GatewayInv, InTurn
<1> QED BY <1>1, <1>2, <1>3, <1>4, <1>5, <1>6, <1>7, <1>8, <1>9, <1>10

LEMMA Grows ==
    ASSUME NEW ep, NEW next, Come(ep) \subseteq Come(next)
    PROVE  /\ Cardinality(Come(ep)) \in Nat /\ Cardinality(Come(next)) \in Nat
           /\ Cardinality(Come(ep)) <= Cardinality(Come(next))
           /\ Cardinality(Come(next)) <= Cardinality(Browsers) /\ Cardinality(Browsers) \in Nat
<1>1. IsFiniteSet(Browsers) /\ Come(next) \subseteq Browsers BY GatewayAssumption DEF Come
<1>2. IsFiniteSet(Come(next)) BY <1>1, FS_Subset
<1>3. /\ Cardinality(Come(next)) <= Cardinality(Browsers) /\ Cardinality(Come(next)) \in Nat
  BY <1>1, <1>2, FS_Subset, FS_CardinalityType
<1>4. IsFiniteSet(Come(ep)) /\ Cardinality(Come(ep)) <= Cardinality(Come(next)) BY <1>2, FS_Subset
<1>5. Cardinality(Come(ep)) \in Nat /\ Cardinality(Browsers) \in Nat BY <1>1, <1>4, FS_CardinalityType
<1> QED BY <1>3, <1>4, <1>5

\* The counts stay bounded when nobody un-comes.
LEMMA CountsStayBounded ==
    ASSUME GatewayTypeOK, CountsBounded, Come(endpoint) \subseteq Come(endpoint'),
           ipCount' \in Nat, ipCount' <= ipCount, ipRead' = ipRead
    PROVE  CountsBounded'
<1>1. /\ Cardinality(Come(endpoint)) \in Nat /\ Cardinality(Come(endpoint')) \in Nat
      /\ Cardinality(Come(endpoint)) <= Cardinality(Come(endpoint')) /\ Cardinality(Browsers) \in Nat
  BY Grows
<1>2. ipCount \in Nat /\ \A b \in Browsers : ipRead[b] \in Nat BY <1>1 DEF GatewayTypeOK
<1> QED BY <1>1, <1>2 DEF CountsBounded

LEMMA CountsStayMatched ==
    ASSUME connections' \in Seq(Browsers), ClientsPlaced', ~ raced' => ipCount' = Len(connections')
    PROVE  CountsMatchConnections'
<1>1. Keys' \subseteq Browsers BY DEF Keys, ToSet
<1> QED BY <1>1 DEF CountsMatchConnections, ClientsPlaced

LEMMA BeginAcceptKeeps ==
    ASSUME GatewayInv, NEW b \in Browsers, BeginAccept(b)
    PROVE  GatewayInv'
<1>1. /\ GatewayTypeOK /\ ClientsPlaced /\ CastsPlaced /\ CountsBounded /\ CountsMatchConnections BY DEF GatewayInv
<1>2. /\ endpoint[b] = "none"
      /\ UNCHANGED <<alive, full, connections, channel, ipCount, created, casts, latest, disorder,
                     published, pendingBook, flushers, raced, leaked, owed, jumped>>
  BY DEF BeginAccept
<1>3. /\ endpoint' \in [Browsers -> {"none", "accepting", "refusing", "open", "gone"}]
      /\ endpoint'[b] \in {"accepting", "gone"} /\ \A z \in Browsers \ {b} : endpoint'[z] = endpoint[z]
  BY <1>1 DEF BeginAccept, GatewayTypeOK
<1>4. /\ ipRead' \in [Browsers -> 0..Cardinality(Browsers)]
      /\ ipRead'[b] \in {ipCount, ipRead[b]} /\ \A z \in Browsers \ {b} : ipRead'[z] = ipRead[z]
  BY <1>1 DEF BeginAccept, GatewayTypeOK
<1>5. b \notin Keys /\ b \notin leaked /\ b \notin channel BY <1>1, <1>2 DEF ClientsPlaced
<1>6. Keys' = Keys /\ Reachable' = Reachable BY <1>2 DEF Keys, Reachable
<1>7. GatewayTypeOK' BY <1>1, <1>2, <1>3, <1>4 DEF GatewayTypeOK
<1>8. ClientsPlaced' BY <1>1, <1>2, <1>3, <1>5, <1>6 DEF ClientsPlaced
<1>9. CastsPlaced'
  <2> SUFFICES ASSUME NEW i \in DOMAIN casts PROVE CastPlaced(casts[i], endpoint', alive)
    BY <1>2 DEF CastsPlaced
  <2>1. CastPlaced(casts[i], endpoint, alive) BY <1>1 DEF CastsPlaced
  <2>2. casts[i] \in Cast BY <1>1 DEF GatewayTypeOK
  <2>3. {casts[i].waits} \cup ToSet(casts[i].ahead) \subseteq Browsers BY <2>2 DEF Cast, ToSet
  <2> QED BY <2>1, <2>3, <1>2, <1>3 DEF CastPlaced
<1>10. CountsBounded'
  <2>1. Come(endpoint) \subseteq Come(endpoint') BY <1>2, <1>3 DEF Come
  <2>2. /\ Cardinality(Come(endpoint)) \in Nat /\ Cardinality(Come(endpoint')) \in Nat
        /\ Cardinality(Come(endpoint)) <= Cardinality(Come(endpoint')) /\ Cardinality(Browsers) \in Nat
    BY <2>1, Grows
  <2>3. ipCount \in Nat /\ \A z \in Browsers : ipRead[z] \in Nat BY <1>1, <2>2 DEF GatewayTypeOK
  <2>4. ipCount' = ipCount BY <1>2
  <2>5. \A z \in Browsers : ipRead'[z] <= Cardinality(Come(endpoint)) BY <1>1, <1>4 DEF CountsBounded
  <2>6. \A z \in Browsers : ipRead'[z] \in Nat BY <2>3, <1>4
  <2> QED BY <2>2, <2>3, <2>4, <2>5, <2>6, <1>1 DEF CountsBounded
<1>11. CountsMatchConnections'
  <2>1. ~ raced' => ipCount' = Len(connections') BY <1>1, <1>2 DEF CountsMatchConnections
  <2>2. connections' \in Seq(Browsers) BY <1>7 DEF GatewayTypeOK
  <2> QED BY <2>1, <2>2, <1>8, CountsStayMatched
<1> QED BY <1>2, <1>7, <1>8, <1>9, <1>10, <1>11, GatewayKept DEF GatewayInv

\* A client that has just connected is on no list.
LEMMA Arrives ==
    ASSUME GatewayInv, NEW b \in Browsers, endpoint[b] = "accepting",
           endpoint' \in [Browsers -> {"none", "accepting", "refusing", "open", "gone"}],
           endpoint'[b] \notin {"none", "accepting"}, \A z \in Browsers \ {b} : endpoint'[z] = endpoint[z],
           UNCHANGED <<casts, alive>>
    PROVE  /\ b \notin Keys /\ b \notin leaked /\ b \notin channel /\ CastsPlaced'
           /\ Come(endpoint') = Come(endpoint) \cup {b} /\ b \notin Come(endpoint)
           /\ \A i \in DOMAIN casts : b \notin {casts[i].waits} \cup ToSet(casts[i].ahead)
<1>1. GatewayTypeOK /\ ClientsPlaced /\ CastsPlaced BY DEF GatewayInv
<1>2. b \notin Keys /\ b \notin leaked /\ b \notin channel BY <1>1 DEF ClientsPlaced
<1>3. Come(endpoint') = Come(endpoint) \cup {b} /\ b \notin Come(endpoint) BY DEF Come
<1>4. ASSUME NEW i \in DOMAIN casts
      PROVE  CastPlaced(casts[i], endpoint', alive) /\ b \notin {casts[i].waits} \cup ToSet(casts[i].ahead)
  <2>1. CastPlaced(casts[i], endpoint, alive) BY <1>1 DEF CastsPlaced
  <2>2. casts[i] \in Cast BY <1>1 DEF GatewayTypeOK
  <2>3. {casts[i].waits} \cup ToSet(casts[i].ahead) \subseteq Browsers BY <2>2 DEF Cast, ToSet
  <2>4. b \notin {casts[i].waits} \cup ToSet(casts[i].ahead) BY <2>1 DEF CastPlaced
  <2> QED BY <2>1, <2>3, <2>4 DEF CastPlaced
<1>5. CastsPlaced' BY <1>4 DEF CastsPlaced
<1> QED BY <1>2, <1>3, <1>4, <1>5

LEMMA FinishAcceptKeeps ==
    ASSUME GatewayInv, NEW b \in Browsers, FinishAccept(b)
    PROVE  GatewayInv'
<1>1. /\ GatewayTypeOK /\ IsInjective(connections) /\ ClientsPlaced /\ CastsPlaced /\ CastsOrdered
      /\ OwedComes /\ CountsBounded /\ CountsMatchConnections /\ InTurn
  BY DEF GatewayInv
<1>2. /\ endpoint[b] = "accepting"
      /\ ipRead' = [ipRead EXCEPT ![b] = 0]
      /\ UNCHANGED <<alive, full, channel, created, casts, latest, disorder, published,
                     pendingBook, flushers, leaked, owed, jumped>>
  BY DEF FinishAccept
<1>3. /\ endpoint' \in [Browsers -> {"none", "accepting", "refusing", "open", "gone"}]
      /\ endpoint'[b] \in {"open", "refusing", "gone"} /\ \A z \in Browsers \ {b} : endpoint'[z] = endpoint[z]
      /\ b \in alive => endpoint'[b] \in {"open", "refusing"}
      /\ b \notin alive => endpoint'[b] = "gone"
  BY <1>1 DEF FinishAccept, GatewayTypeOK
<1>4. /\ b \notin Keys /\ b \notin leaked /\ b \notin channel /\ CastsPlaced'
      /\ Come(endpoint') = Come(endpoint) \cup {b} /\ b \notin Come(endpoint)
      /\ \A i \in DOMAIN casts : b \notin {casts[i].waits} \cup ToSet(casts[i].ahead)
  BY <1>2, <1>3, Arrives
<1>5. /\ Cardinality(Come(endpoint)) \in Nat /\ Cardinality(Come(endpoint')) \in Nat /\ Cardinality(Browsers) \in Nat
      /\ Cardinality(Come(endpoint')) = Cardinality(Come(endpoint)) + 1
      /\ Cardinality(Come(endpoint')) <= Cardinality(Browsers)
  <2>1. Come(endpoint) \subseteq Come(endpoint') BY <1>4
  <2>2. IsFiniteSet(Come(endpoint)) BY GatewayAssumption, FS_Subset DEF Come
  <2>3. Cardinality(Come(endpoint')) = Cardinality(Come(endpoint)) + 1 BY <2>2, <1>4, FS_AddElement
  <2> QED BY <2>1, <2>3, Grows
<1>6. ipCount \in Nat /\ (\A z \in Browsers : ipRead[z] \in Nat) /\ owed[b] = {}
  <2>1. owed[b] = {} BY <1>1, <1>4 DEF ClientsPlaced
  <2> QED BY <2>1, <1>1, <1>5 DEF GatewayTypeOK
<1>7. ipRead' \in [Browsers -> 0..Cardinality(Browsers)]
  BY <1>1, <1>2, <1>5 DEF GatewayTypeOK
<1>8. \A z \in Browsers : ipRead'[z] <= Cardinality(Come(endpoint'))
  BY <1>1, <1>2, <1>5, <1>6 DEF CountsBounded, GatewayTypeOK
<1>9. NumbersGrow' /\ Distinct(casts)' BY <1>2, GatewayKept
<1>10. CASE b \in alive
  <2>1. /\ connections' = Append(connections, b) /\ ipCount' = ipRead[b] + 1
        /\ raced' = (raced \/ ipCount # ipRead[b])
    BY <1>10 DEF FinishAccept
  <2>2. connections \in Seq(Browsers) BY <1>1 DEF GatewayTypeOK
  <2>3. /\ connections' \in Seq(Browsers)
        /\ DOMAIN connections' = 1..(Len(connections) + 1) /\ DOMAIN connections = 1..Len(connections) /\ Len(connections) \in Nat
        /\ \A i \in 1..Len(connections) : connections'[i] = connections[i]
        /\ connections'[Len(connections) + 1] = b
        /\ Len(connections') = Len(connections) + 1
    BY <2>1, <2>2, AppendedMembers
  <2>4. Keys' = Keys \cup {b}
    <3>1. \A z \in Keys : z \in Keys' BY <2>3 DEF Keys, ToSet
    <3>2. b \in Keys'
      <4>1. Len(connections) + 1 \in DOMAIN connections' BY <2>3
      <4> QED BY <4>1, <2>3 DEF Keys, ToSet
    <3>3. \A z \in Keys' : z \in Keys \/ z = b
      <4> SUFFICES ASSUME NEW k \in DOMAIN connections' PROVE connections'[k] \in Keys \/ connections'[k] = b
        BY DEF Keys, ToSet
      <4>1. k \in 1..Len(connections) \/ k = Len(connections) + 1 BY <2>3
      <4> QED BY <4>1, <2>3 DEF Keys, ToSet
    <3> QED BY <3>1, <3>2, <3>3
  <2>5. IsInjective(connections)'
    <3> SUFFICES ASSUME NEW k \in DOMAIN connections', NEW m \in DOMAIN connections', connections'[k] = connections'[m]
                 PROVE  k = m
      BY DEF IsInjective
    <3>1. /\ k \in 1..Len(connections) \/ k = Len(connections) + 1
          /\ m \in 1..Len(connections) \/ m = Len(connections) + 1
      BY <2>3
    <3>2. \A i \in 1..Len(connections) : connections[i] # b BY <2>3, <1>4 DEF Keys, ToSet
    <3>3. \A i, h \in 1..Len(connections) : connections[i] = connections[h] => i = h BY <2>3, <1>1 DEF IsInjective
    <3> QED BY <3>1, <3>2, <3>3, <2>3
  <2>6. ipCount' <= Cardinality(Come(endpoint')) /\ ipCount' \in 0..Cardinality(Browsers)
    <3>1. ipRead[b] <= Cardinality(Come(endpoint)) BY <1>1 DEF CountsBounded
    <3> QED BY <3>1, <2>1, <1>5, <1>6
  <2>7. GatewayTypeOK'
    <3>1. raced' \in BOOLEAN BY <2>1
    <3> QED BY <3>1, <2>3, <2>6, <1>1, <1>2, <1>3, <1>7 DEF GatewayTypeOK
  <2>8. ClientsPlaced' BY <2>4, <1>1, <1>2, <1>3, <1>4, <1>6, <1>10 DEF ClientsPlaced
  <2>9. CastsOrdered'
    <3> SUFFICES ASSUME NEW i \in DOMAIN casts PROVE CastOrdered(casts[i], connections')
      BY <1>2 DEF CastsOrdered
    <3>1. casts[i] \in Cast /\ CastOrdered(casts[i], connections) BY <1>1 DEF GatewayTypeOK, CastsOrdered
    <3>2. b \notin {casts[i].waits} \cup ToSet(casts[i].ahead) BY <1>4
    <3>3. CastOrdered(casts[i], Append(connections, b)) BY <3>1, <3>2, <2>2, CastOrderedAppend
    <3> QED BY <3>3, <2>1
  <2>10. Reachable' = Reachable \cup {b} BY <2>4, <1>2, <1>10 DEF Reachable
  <2>11. OwedComes'
    <3>1. channel' \cap Reachable' = channel \cap Reachable BY <2>10, <1>2, <1>4
    <3> QED BY <3>1, <1>1, <1>2 DEF OwedComes
  <2>12. CountsBounded' BY <2>6, <1>8 DEF CountsBounded
  <2>13. CountsMatchConnections'
    <3>1. ~ raced' => ipCount' = Len(connections') BY <2>1, <2>3, <1>1 DEF CountsMatchConnections
    <3> QED BY <3>1, <2>3, <2>8, CountsStayMatched
  <2>14. InTurn'
    <3>1. \A i \in DOMAIN casts : ToSet(casts[i].ahead) \cap Reachable' = ToSet(casts[i].ahead) \cap Reachable
      BY <2>10, <1>4
    <3>2. AllFollow(casts, Reachable) => AllFollow(casts, Reachable') BY <3>1 DEF AllFollow, Follows
    <3>3. AllBringNews(casts, latest, Reachable) => AllBringNews(casts, latest, Reachable')
      BY <3>1 DEF AllBringNews, BringsNews
    <3> QED BY <3>2, <3>3, <1>1, <1>2 DEF InTurn
  <2> QED BY <2>5, <2>7, <2>8, <2>9, <2>11, <2>12, <2>13, <2>14, <1>4, <1>9 DEF GatewayInv
<1>11. CASE b \notin alive
  <2>1. UNCHANGED <<connections, ipCount, raced>> BY <1>11 DEF FinishAccept
  <2>2. GatewayTypeOK' BY <2>1, <1>1, <1>2, <1>3, <1>7 DEF GatewayTypeOK
  <2>3. Keys' = Keys BY <2>1 DEF Keys
  <2>4. ClientsPlaced' BY <2>3, <1>1, <1>2, <1>3, <1>4, <1>11 DEF ClientsPlaced
  <2>5. CountsBounded' BY <2>1, <1>1, <1>5, <1>6, <1>8 DEF CountsBounded
  <2>6. CountsMatchConnections'
    <3>1. ~ raced' => ipCount' = Len(connections') BY <2>1, <1>1 DEF CountsMatchConnections
    <3>2. connections' \in Seq(Browsers) BY <2>1, <1>1 DEF GatewayTypeOK
    <3> QED BY <3>1, <3>2, <2>4, CountsStayMatched
  <2>7. IsInjective(connections)' /\ CastsOrdered' /\ OwedComes' /\ InTurn' BY <2>1, <1>2, GatewayKept
  <2> QED BY <2>2, <2>4, <2>5, <2>6, <2>7, <1>4, <1>9 DEF GatewayInv
<1> QED BY <1>10, <1>11

\* Clients of R' are fewer.
LEMMA FewerFollow ==
    ASSUME NEW cs, NEW lt, NEW R, NEW S \in SUBSET R
    PROVE  /\ AllFollow(cs, R) => AllFollow(cs, S)
           /\ AllBringNews(cs, lt, R) => AllBringNews(cs, lt, S)
<1>1. AllFollow(cs, R) => AllFollow(cs, S) BY DEF AllFollow, Follows
<1>2. AllBringNews(cs, lt, R) => AllBringNews(cs, lt, S) BY DEF AllBringNews, BringsNews
<1> QED BY <1>1, <1>2

\* A client goes: one whose socket is dead, or one that was refused.
LEMMA GoneKeeps ==
    ASSUME GatewayInv, NEW b \in Browsers, endpoint[b] \in {"open", "refusing"}, b \notin channel \cap alive,
           endpoint' = [endpoint EXCEPT ![b] = "gone"],
           \/ DropClients({b}) /\ UNCHANGED leaked
           \/ leaked' = leaked \cup {b} /\ b \notin alive /\ endpoint[b] = "refusing" /\ UNCHANGED <<connections, ipCount>>,
           UNCHANGED <<alive, full, channel, ipRead, created, casts, latest, disorder, published,
                       pendingBook, flushers, raced, owed, jumped>>
    PROVE  GatewayInv'
<1>1. /\ GatewayTypeOK /\ IsInjective(connections) /\ ClientsPlaced /\ CastsPlaced /\ CastsOrdered
      /\ OwedComes /\ CountsBounded /\ CountsMatchConnections /\ InTurn
  BY DEF GatewayInv
<1>2. connections \in Seq(Browsers) /\ ipCount \in 0..Cardinality(Browsers) /\ Cardinality(Browsers) \in Nat
  BY <1>1, GatewayAssumption, FS_CardinalityType DEF GatewayTypeOK
<1>3. /\ endpoint' \in [Browsers -> {"none", "accepting", "refusing", "open", "gone"}]
      /\ endpoint'[b] = "gone" /\ \A z \in Browsers \ {b} : endpoint'[z] = endpoint[z]
  BY <1>1 DEF GatewayTypeOK
<1>4. /\ connections' \in Seq(Browsers) /\ IsInjective(connections')
      /\ ipCount' \in Nat /\ ipCount' <= ipCount /\ (ipCount = Len(connections) => ipCount' = Len(connections'))
      /\ \A c : CastOrdered(c, connections) => CastOrdered(c, connections')
      /\ leaked' \subseteq Browsers
      /\ \/ Keys' = Keys \ {b} /\ leaked' = leaked
         \/ Keys' = Keys /\ leaked' = leaked \cup {b} /\ b \notin alive /\ endpoint[b] = "refusing"
  <2>1. CASE DropClients({b}) /\ UNCHANGED leaked
    <3>1. {b} \in SUBSET Browsers /\ ipCount \in Nat BY <1>2
    <3> QED BY <3>1, <2>1, <1>1, <1>2, DropFacts DEF GatewayTypeOK
  <2>2. CASE leaked' = leaked \cup {b} /\ b \notin alive /\ endpoint[b] = "refusing" /\ UNCHANGED <<connections, ipCount>>
    <3>1. Keys' = Keys BY <2>2 DEF Keys
    <3> QED BY <3>1, <2>2, <1>1, <1>2 DEF GatewayTypeOK
  <2> QED BY <2>1, <2>2
<1>5. GatewayTypeOK' BY <1>1, <1>2, <1>3, <1>4 DEF GatewayTypeOK
<1>6. ClientsPlaced' BY <1>1, <1>3, <1>4 DEF ClientsPlaced
<1>7. CastsPlaced'
  <2> SUFFICES ASSUME NEW i \in DOMAIN casts PROVE CastPlaced(casts[i], endpoint', alive)
    BY DEF CastsPlaced
  <2>1. CastPlaced(casts[i], endpoint, alive) BY <1>1 DEF CastsPlaced
  <2>2. casts[i] \in Cast BY <1>1 DEF GatewayTypeOK
  <2>3. {casts[i].waits} \cup ToSet(casts[i].ahead) \subseteq Browsers BY <2>2 DEF Cast, ToSet
  <2> QED BY <2>1, <2>3, <1>3 DEF CastPlaced
<1>8. CastsOrdered' BY <1>1, <1>4 DEF CastsOrdered
<1>9. Reachable' \subseteq Reachable /\ channel \cap Reachable' = channel \cap Reachable
  BY <1>4 DEF Reachable
<1>10. OwedComes' BY <1>1, <1>9 DEF OwedComes
<1>11. CountsBounded'
  <2>1. Come(endpoint) \subseteq Come(endpoint') BY <1>3 DEF Come
  <2> QED BY <2>1, <1>1, <1>4, CountsStayBounded
<1>12. CountsMatchConnections'
  <2>1. ~ raced' => ipCount' = Len(connections') BY <1>1, <1>4 DEF CountsMatchConnections
  <2> QED BY <2>1, <1>4, <1>6, CountsStayMatched
<1>13. InTurn'
  <2>1. /\ AllFollow(casts, Reachable) => AllFollow(casts, Reachable')
        /\ AllBringNews(casts, latest, Reachable) => AllBringNews(casts, latest, Reachable')
    BY <1>9, FewerFollow
  <2> QED BY <2>1, <1>1 DEF InTurn
<1>14. NumbersGrow' /\ Distinct(casts)' BY GatewayKept
<1> QED BY <1>4, <1>5, <1>6, <1>7, <1>8, <1>10, <1>11, <1>12, <1>13, <1>14 DEF GatewayInv

LEMMA JoinChannelKeeps ==
    ASSUME GatewayInv, NEW b \in Browsers, JoinChannel(b)
    PROVE  GatewayInv'
<1>1. GatewayTypeOK /\ ClientsPlaced /\ OwedComes /\ InTurn BY DEF GatewayInv
<1>2. /\ endpoint[b] = "open" /\ b \in Keys /\ channel' = channel \cup {b}
      /\ UNCHANGED <<endpoint, alive, full, connections, ipCount, ipRead, created, casts, latest,
                     disorder, published, pendingBook, flushers, raced, leaked, owed, jumped>>
  BY DEF JoinChannel
<1>3. Keys' = Keys /\ Reachable' = Reachable BY <1>2 DEF Keys, Reachable
<1>4. GatewayTypeOK' BY <1>1, <1>2 DEF GatewayTypeOK
<1>5. ClientsPlaced' BY <1>1, <1>2, <1>3 DEF ClientsPlaced
<1>6. OwedComes'
  <2>1. \A z \in channel' \cap Reachable : owed[z] # {} => z \in channel
    <3>1. channel' \subseteq Browsers BY <1>4 DEF GatewayTypeOK
    <3> QED BY <3>1, <1>1 DEF ClientsPlaced
  <2> QED BY <2>1, <1>1, <1>2, <1>3 DEF OwedComes
<1>7. InTurn'
  <2>1. WaitsOnSubscribers(casts, channel \cap alive) => WaitsOnSubscribers(casts, channel' \cap alive)
    BY <1>2 DEF WaitsOnSubscribers
  <2> QED BY <2>1, <1>1, <1>2, <1>3 DEF InTurn
<1> QED BY <1>2, <1>4, <1>5, <1>6, <1>7, GatewayKept DEF GatewayInv

\* A client leaves the channel, or its socket dies.
LEMMA LeavesKeeps ==
    ASSUME GatewayInv, NEW b \in Browsers, endpoint[b] \in {"accepting", "refusing", "open"},
           \/ channel' = channel \ {b} /\ alive' = alive
           \/ channel' = channel /\ alive' = alive \ {b},
           owed' = [owed EXCEPT ![b] = {}], 
           jumped' = (jumped \/ \E i \in DOMAIN casts : casts[i].waits = b),
           UNCHANGED <<endpoint, full, connections, ipCount, ipRead, created, casts, latest,
                       disorder, published, pendingBook, flushers, raced, leaked>>
    PROVE  GatewayInv'
<1>1. GatewayTypeOK /\ ClientsPlaced /\ CastsPlaced /\ OwedComes /\ InTurn BY DEF GatewayInv
<1>2. Keys' = Keys /\ Reachable' \subseteq Reachable BY DEF Keys, Reachable
<1>3. channel' \subseteq channel /\ alive' \subseteq alive /\ b \notin channel' \cap alive' OBVIOUS
<1>4. /\ owed' \in [Browsers -> SUBSET Event] /\ owed'[b] = {}
      /\ \A z \in Browsers \ {b} : owed'[z] = owed[z]
  BY <1>1 DEF GatewayTypeOK
<1>5. jumped' \in BOOLEAN OBVIOUS
<1>6. GatewayTypeOK' BY <1>1, <1>3, <1>4, <1>5 DEF GatewayTypeOK
<1>7. \A z \in Browsers \ {b} : z \in channel => z \in channel' OBVIOUS
<1>8. ClientsPlaced' BY <1>1, <1>2, <1>3, <1>4, <1>7 DEF ClientsPlaced
<1>9. CastsPlaced' BY <1>1, <1>3 DEF CastsPlaced, CastPlaced
<1>10. OwedComes'
  <2> SUFFICES ASSUME NEW z \in channel' \cap Reachable', NEW e \in owed'[z]
               PROVE  \E i \in DOMAIN casts : casts[i].event = e /\ z \in ToSet(casts[i].ahead)
    BY DEF OwedComes
  <2>1. z \in Browsers /\ z # b BY <1>3, <1>6 DEF GatewayTypeOK, Reachable
  <2>2. z \in channel \cap Reachable /\ e \in owed[z] BY <2>1, <1>2, <1>3, <1>4
  <2> QED BY <2>2, <1>1 DEF OwedComes
<1>11. InTurn'
  <2> SUFFICES ASSUME ~ jumped'
               PROVE  /\ ~ disorder /\ WaitsOnSubscribers(casts, channel' \cap alive')
                      /\ AllFollow(casts, Reachable') /\ AllBringNews(casts, latest, Reachable')
    BY DEF InTurn
  <2>1. /\ ~ disorder /\ WaitsOnSubscribers(casts, channel \cap alive)
        /\ AllFollow(casts, Reachable) /\ AllBringNews(casts, latest, Reachable)
    BY <1>1 DEF InTurn
  <2>2. WaitsOnSubscribers(casts, channel' \cap alive') BY <2>1 DEF WaitsOnSubscribers
  <2>3. Reachable' \in SUBSET Reachable BY <1>2
  <2> QED BY <2>1, <2>2, <2>3, FewerFollow
<1>12. /\ IsInjective(connections)' /\ CastsOrdered' /\ CountsBounded' /\ CountsMatchConnections'
       /\ NumbersGrow' /\ Distinct(casts)'
  BY GatewayKept
<1> QED BY <1>6, <1>8, <1>9, <1>10, <1>11, <1>12 DEF GatewayInv

LEMMA NewerStill ==
    ASSUME GatewayTypeOK, NEW kind \in Kinds, NEW number \in Nat, NewTo(casts, latest, kind, number)
    PROVE  NewTo(casts, latest, kind, number + 1)
<1>1. \A i \in DOMAIN casts : casts[i].event.number \in Nat
  <2>1. \A i \in DOMAIN casts : casts[i] \in Cast BY DEF GatewayTypeOK
  <2> QED BY <2>1, GatewayAssumption DEF Cast, Event
<1>2. \A b \in Browsers : latest[b][kind] \in Nat BY DEF GatewayTypeOK
<1> QED BY <1>1, <1>2 DEF NewTo

\* An event is created: a ticker, or the book that waited.
LEMMA CreatesInOrder ==
    ASSUME GatewayInv, NEW event \in Event, created' = Append(created, event),
           UNCHANGED <<casts, latest>>, published' \in [Kinds -> Nat],
           \A k \in Kinds : published'[k] = published[k] \/ published'[k] = published[k] + 1,
           NewTo(casts, latest, event.kind, event.number), event.number <= published'[event.kind],
           \A m \in DOMAIN created : created[m].kind = event.kind => created[m].number < event.number,
           \/ pendingBook' = pendingBook /\ event.kind # "depth"
           \/ pendingBook' = 0
    PROVE  created' \in Seq(Event) /\ NumbersGrow'
<1>1. GatewayTypeOK /\ NumbersGrow BY DEF GatewayInv
<1>2. created \in Seq(Event) /\ published \in [Kinds -> Nat] BY <1>1 DEF GatewayTypeOK
<1>3. /\ created' \in Seq(Event)
      /\ DOMAIN created' = 1..(Len(created) + 1) /\ DOMAIN created = 1..Len(created) /\ Len(created) \in Nat
      /\ \A i \in 1..Len(created) : created'[i] = created[i]
      /\ created'[Len(created) + 1] = event
  BY <1>2, AppendedMembers
<1>4. \A m \in DOMAIN created' : \/ m \in DOMAIN created /\ created'[m] = created[m]
                                 \/ m = Len(created) + 1 /\ created'[m] = event
  BY <1>3
<1>5. "depth" \in Kinds /\ event.kind \in Kinds /\ \A m \in DOMAIN created : created[m].kind \in Kinds /\ created[m].number \in Nat
  <2>1. \A m \in DOMAIN created : created[m] \in Event BY <1>2
  <2> QED BY <2>1, GatewayAssumption DEF Event, Kinds
<1>6. ASSUME NEW k \in Kinds PROVE NewTo(casts, latest, k, published'[k] + 1)
  <2>1. NewTo(casts, latest, k, published[k] + 1) BY <1>1 DEF NumbersGrow
  <2>2. published[k] + 1 \in Nat BY <1>2
  <2>3. NewTo(casts, latest, k, published[k] + 1 + 1) BY <2>1, <2>2, <1>1, NewerStill
  <2> QED BY <2>1, <2>3
<1>7. pendingBook' # 0 => NewTo(casts, latest, "depth", pendingBook) /\ pendingBook <= published'["depth"] /\ pendingBook' = pendingBook
  <2> SUFFICES ASSUME pendingBook' # 0
               PROVE  NewTo(casts, latest, "depth", pendingBook) /\ pendingBook <= published'["depth"] /\ pendingBook' = pendingBook
    OBVIOUS
  <2>1. NewTo(casts, latest, "depth", pendingBook) /\ pendingBook <= published["depth"] BY <1>1 DEF NumbersGrow
  <2>2. pendingBook \in Nat
    <3>1. pendingBook \in 0..MaxBooks BY <1>1 DEF GatewayTypeOK
    <3> QED BY <3>1
  <2>3. published["depth"] \in Nat /\ published["depth"] <= published'["depth"] BY <1>2, <1>5
  <2>4. published'["depth"] \in Nat BY <1>5
  <2> QED BY <2>1, <2>2, <2>3, <2>4
<1>8. ASSUME NEW m \in DOMAIN created'
      PROVE  /\ NewTo(casts, latest, created'[m].kind, created'[m].number)
             /\ created'[m].number <= published'[created'[m].kind]
             /\ pendingBook' # 0 /\ created'[m].kind = "depth" => created'[m].number < pendingBook'
  <2>1. CASE m \in DOMAIN created /\ created'[m] = created[m]
    <3>1. /\ NewTo(casts, latest, created[m].kind, created[m].number)
          /\ created[m].number <= published[created[m].kind]
          /\ pendingBook # 0 /\ created[m].kind = "depth" => created[m].number < pendingBook
      BY <2>1, <1>1 DEF NumbersGrow
    <3>2. created[m].number <= published'[created[m].kind]
      <4>1. created[m].number \in Nat /\ created[m].kind \in Kinds BY <2>1, <1>5
      <4>2. published[created[m].kind] \in Nat BY <4>1, <1>2
      <4>3. \/ published'[created[m].kind] = published[created[m].kind]
            \/ published'[created[m].kind] = published[created[m].kind] + 1
        BY <4>1
      <4> QED BY <3>1, <4>1, <4>2, <4>3
    <3> QED BY <3>1, <3>2, <2>1, <1>7
  <2>2. CASE created'[m] = event
    BY <2>2
  <2> QED BY <2>1, <2>2, <1>4
<1>9. ASSUME NEW m \in DOMAIN created', NEW n \in DOMAIN created', m < n, created'[m].kind = created'[n].kind
      PROVE  created'[m].number < created'[n].number
  <2>1. m \in DOMAIN created BY <1>3, <1>9
  <2>2. CASE n \in DOMAIN created BY <2>1, <2>2, <1>1, <1>3, <1>9 DEF NumbersGrow
  <2>3. CASE n = Len(created) + 1 /\ created'[n] = event
    <3>1. created'[m] = created[m] BY <2>1, <1>3
    <3> QED BY <3>1, <2>1, <2>3, <1>9
  <2> QED BY <2>2, <2>3, <1>4
<1>10. NumbersGrow' BY <1>6, <1>7, <1>8, <1>9 DEF NumbersGrow
<1> QED BY <1>3, <1>10

LEMMA TickerKeeps ==
    ASSUME GatewayInv, Ticker
    PROVE  GatewayInv'
<1>1. GatewayTypeOK /\ NumbersGrow BY DEF GatewayInv
<1>2. /\ published["ticker"] < MaxTicks /\ published' = [published EXCEPT !["ticker"] = @ + 1]
      /\ created' = IF connections = <<>> THEN created
                  ELSE Append(created, [kind |-> "ticker", number |-> published'["ticker"]])
      /\ UNCHANGED <<endpoint, alive, full, connections, channel, ipCount, ipRead, casts, latest,
                     disorder, pendingBook, flushers, raced, leaked, owed, jumped>>
  BY DEF Ticker
<1>3. /\ published \in [Kinds -> Nat] /\ published' \in [Kinds -> Nat]
      /\ published'["ticker"] = published["ticker"] + 1 /\ published'["depth"] = published["depth"]
      /\ "ticker" \in Kinds /\ "depth" \in Kinds
  <2>1. published \in [Kinds -> Nat] BY <1>1 DEF GatewayTypeOK
  <2> QED BY <2>1, <1>2 DEF Kinds
<1>4. \A k \in Kinds : published'[k] = published[k] \/ published'[k] = published[k] + 1
  BY <1>3 DEF Kinds
<1>5. created' \in Seq(Event) /\ NumbersGrow'
  <2>1. CASE connections = <<>>
    <3>1. created' = created BY <2>1, <1>2
    <3>2. created' \in Seq(Event) BY <3>1, <1>1 DEF GatewayTypeOK
    <3>3. ASSUME NEW k \in Kinds PROVE NewTo(casts, latest, k, published'[k] + 1)
      <4>1. NewTo(casts, latest, k, published[k] + 1) BY <1>1 DEF NumbersGrow
      <4>2. published[k] + 1 \in Nat BY <1>3
      <4>3. NewTo(casts, latest, k, published[k] + 1 + 1) BY <4>1, <4>2, <1>1, NewerStill
      <4> QED BY <4>1, <4>3, <1>4
    <3>4. \A m \in DOMAIN created : created[m].number <= published'[created[m].kind]
      <4> SUFFICES ASSUME NEW m \in DOMAIN created PROVE created[m].number <= published'[created[m].kind]
        OBVIOUS
      <4>1. created[m] \in Event BY <1>1 DEF GatewayTypeOK
      <4>2. created[m].number \in Nat /\ created[m].kind \in Kinds BY <4>1, GatewayAssumption DEF Event
      <4>3. created[m].number <= published[created[m].kind] BY <1>1 DEF NumbersGrow
      <4>4. published[created[m].kind] \in Nat BY <4>2, <1>3
      <4> QED BY <4>2, <4>3, <4>4, <1>4
    <3>5. NumbersGrow' BY <3>1, <3>3, <3>4, <1>1, <1>2, <1>3 DEF NumbersGrow
    <3> QED BY <3>2, <3>5
  <2>2. CASE connections # <<>>
    <3> DEFINE event == [kind |-> "ticker", number |-> published["ticker"] + 1]
    <3>1. created' = Append(created, event) BY <2>2, <1>2, <1>3
    <3>2. event \in Event
      <4>1. published["ticker"] + 1 \in 1..(MaxTicks + MaxBooks) BY <1>2, <1>3, GatewayAssumption
      <4> QED BY <4>1, <1>3 DEF Event
    <3>3. event.kind = "ticker" /\ event.number = published["ticker"] + 1 OBVIOUS
    <3> HIDE DEF event
    <3>4. NewTo(casts, latest, event.kind, event.number) BY <3>3, <1>1, <1>3 DEF NumbersGrow
    <3>5. ASSUME NEW m \in DOMAIN created, created[m].kind = event.kind PROVE created[m].number < event.number
      <4>1. created[m] \in Event BY <1>1 DEF GatewayTypeOK
      <4>2. created[m].number \in Nat BY <4>1, GatewayAssumption DEF Event
      <4>3. created[m].number <= published["ticker"] BY <3>3, <3>5, <1>1 DEF NumbersGrow
      <4> QED BY <4>2, <4>3, <3>3, <1>3
    <3>6. event.number <= published'[event.kind] BY <3>3, <1>3
    <3>7. pendingBook' = pendingBook /\ event.kind # "depth" BY <3>3, <1>2
    <3> QED BY <3>1, <3>2, <3>4, <3>5, <3>6, <3>7, <1>2, <1>3, <1>4, CreatesInOrder
  <2> QED BY <2>1, <2>2
<1>6. GatewayTypeOK' BY <1>1, <1>2, <1>3, <1>5 DEF GatewayTypeOK
<1> QED BY <1>2, <1>5, <1>6, GatewayKept DEF GatewayInv

LEMMA OrderBookKeeps ==
    ASSUME GatewayInv, OrderBook
    PROVE  GatewayInv'
<1>1. GatewayTypeOK /\ NumbersGrow BY DEF GatewayInv
<1>2. /\ published["depth"] < MaxBooks /\ published' = [published EXCEPT !["depth"] = @ + 1]
      /\ \/ UNCHANGED <<pendingBook, flushers>>
         \/ /\ pendingBook' = published'["depth"]
            /\ flushers.begun = 0 => flushers.created < MaxFlushers
            /\ flushers' = IF flushers.begun = 0 THEN [flushers EXCEPT !.created = @ + 1] ELSE flushers
      /\ UNCHANGED <<endpoint, alive, full, connections, channel, ipCount, ipRead, created, casts,
                     latest, disorder, raced, leaked, owed, jumped>>
  BY DEF OrderBook
<1>3. /\ published \in [Kinds -> Nat] /\ published' \in [Kinds -> Nat]
      /\ published'["depth"] = published["depth"] + 1 /\ published'["ticker"] = published["ticker"]
      /\ "depth" \in Kinds /\ created \in Seq(Event)
  <2>1. published \in [Kinds -> Nat] /\ created \in Seq(Event) BY <1>1 DEF GatewayTypeOK
  <2> QED BY <2>1, <1>2 DEF Kinds
<1>4. \A k \in Kinds : published'[k] = published[k] \/ published'[k] = published[k] + 1
  BY <1>3 DEF Kinds
<1>5. flushers' \in [created: 0..MaxFlushers, begun: 0..MaxFlushers]
  <2>1. flushers \in [created: 0..MaxFlushers, begun: 0..MaxFlushers] /\ MaxFlushers \in Nat
    BY <1>1, GatewayAssumption DEF GatewayTypeOK
  <2>2. CASE flushers' = flushers BY <2>1, <2>2
  <2>3. CASE flushers.created < MaxFlushers /\ flushers' = [flushers EXCEPT !.created = @ + 1] BY <2>1, <2>3
  <2> QED BY <2>2, <2>3, <1>2
<1>6. pendingBook \in 0..MaxBooks /\ pendingBook' \in 0..MaxBooks
      /\ (pendingBook' = pendingBook \/ pendingBook' = published["depth"] + 1)
  <2>1. pendingBook \in 0..MaxBooks /\ MaxBooks \in Nat BY <1>1, GatewayAssumption DEF GatewayTypeOK
  <2>2. published["depth"] + 1 \in 0..MaxBooks BY <2>1, <1>2, <1>3
  <2>3. pendingBook' = pendingBook \/ pendingBook' = published["depth"] + 1 BY <1>2, <1>3
  <2> QED BY <2>1, <2>2, <2>3
<1>7. GatewayTypeOK' BY <1>1, <1>2, <1>3, <1>5, <1>6 DEF GatewayTypeOK
<1>8. \A m \in DOMAIN created : created[m].number \in Nat /\ created[m].kind \in Kinds
  <2>1. \A m \in DOMAIN created : created[m] \in Event BY <1>3
  <2> QED BY <2>1, GatewayAssumption DEF Event
<1>9. NumbersGrow'
  <2>1. ASSUME NEW k \in Kinds PROVE NewTo(casts, latest, k, published'[k] + 1)
    <3>1. NewTo(casts, latest, k, published[k] + 1) BY <1>1 DEF NumbersGrow
    <3>2. published[k] + 1 \in Nat BY <1>3
    <3>3. NewTo(casts, latest, k, published[k] + 1 + 1) BY <3>1, <3>2, <1>1, NewerStill
    <3> QED BY <3>1, <3>3, <1>4
  <2>2. pendingBook' # 0 => NewTo(casts, latest, "depth", pendingBook') /\ pendingBook' <= published'["depth"]
    <3>1. CASE pendingBook' = pendingBook
      <4>1. pendingBook # 0 => NewTo(casts, latest, "depth", pendingBook) /\ pendingBook <= published["depth"]
        BY <1>1 DEF NumbersGrow
      <4>2. pendingBook \in Nat /\ published["depth"] \in Nat BY <1>3, <1>6
      <4> QED BY <3>1, <4>1, <4>2, <1>3
    <3>2. CASE pendingBook' = published["depth"] + 1
      <4>1. NewTo(casts, latest, "depth", published["depth"] + 1) BY <1>1, <1>3 DEF NumbersGrow
      <4>2. published["depth"] + 1 <= published'["depth"] BY <1>3
      <4> QED BY <3>2, <4>1, <4>2
    <3> QED BY <3>1, <3>2, <1>6
  <2>3. ASSUME NEW m \in DOMAIN created
        PROVE  /\ created[m].number <= published'[created[m].kind]
               /\ pendingBook' # 0 /\ created[m].kind = "depth" => created[m].number < pendingBook'
    <3>1. /\ created[m].number <= published[created[m].kind]
          /\ pendingBook # 0 /\ created[m].kind = "depth" => created[m].number < pendingBook
      BY <1>1 DEF NumbersGrow
    <3>2. created[m].number \in Nat /\ created[m].kind \in Kinds BY <1>8
    <3>3. published[created[m].kind] \in Nat BY <3>2, <1>3
    <3>4. created[m].number <= published'[created[m].kind] BY <3>1, <3>2, <3>3, <1>4
    <3>5. pendingBook' = published["depth"] + 1 /\ created[m].kind = "depth" => created[m].number < pendingBook'
      BY <3>1, <3>2, <3>3
    <3> QED BY <3>1, <3>4, <3>5, <1>6
  <2>4. /\ \A m \in DOMAIN created : NewTo(casts, latest, created[m].kind, created[m].number)
        /\ \A m, n \in DOMAIN created :
              m < n /\ created[m].kind = created[n].kind => created[m].number < created[n].number
    BY <1>1 DEF NumbersGrow
  <2>5. created' = created /\ casts' = casts /\ latest' = latest BY <1>2
  <2> QED BY <2>1, <2>2, <2>3, <2>4, <2>5 DEF NumbersGrow
<1> QED BY <1>2, <1>7, <1>9, GatewayKept DEF GatewayInv

LEMMA FlushKeeps ==
    ASSUME GatewayInv, Flush
    PROVE  GatewayInv'
<1>1. GatewayTypeOK /\ NumbersGrow BY DEF GatewayInv
<1>2. /\ flushers.begun > 0 /\ pendingBook # 0 /\ pendingBook' = 0
      /\ created' = IF connections = <<>> THEN created
                  ELSE Append(created, [kind |-> "depth", number |-> pendingBook])
      /\ UNCHANGED <<endpoint, alive, full, connections, channel, ipCount, ipRead, casts, latest,
                     disorder, published, flushers, raced, leaked, owed, jumped>>
  BY DEF Flush
<1>3. published \in [Kinds -> Nat] /\ "depth" \in Kinds /\ pendingBook \in 0..MaxBooks /\ MaxBooks \in Nat /\ MaxTicks \in Nat
  BY <1>1, GatewayAssumption DEF GatewayTypeOK, Kinds
<1>4. created' \in Seq(Event) /\ NumbersGrow'
  <2>1. CASE connections = <<>>
    <3>1. created' = created BY <2>1, <1>2
    <3>2. created' \in Seq(Event) BY <3>1, <1>1 DEF GatewayTypeOK
    <3>3. NumbersGrow' BY <3>1, <1>1, <1>2 DEF NumbersGrow
    <3> QED BY <3>2, <3>3
  <2>2. CASE connections # <<>>
    <3> DEFINE event == [kind |-> "depth", number |-> pendingBook]
    <3>1. created' = Append(created, event) BY <2>2, <1>2
    <3>2. event \in Event
      <4>1. pendingBook \in 1..(MaxTicks + MaxBooks) BY <1>2, <1>3
      <4> QED BY <4>1, <1>3 DEF Event
    <3>3. event.kind = "depth" /\ event.number = pendingBook OBVIOUS
    <3> HIDE DEF event
    <3>4. NewTo(casts, latest, event.kind, event.number) /\ event.number <= published[event.kind]
      BY <3>3, <1>1, <1>2 DEF NumbersGrow
    <3>5. \A m \in DOMAIN created : created[m].kind = event.kind => created[m].number < event.number
      BY <3>3, <1>1, <1>2 DEF NumbersGrow
    <3>6. /\ published' \in [Kinds -> Nat] /\ event.number <= published'[event.kind]
          /\ \A k \in Kinds : published'[k] = published[k] \/ published'[k] = published[k] + 1
      BY <3>4, <1>2, <1>3
    <3> QED BY <3>1, <3>2, <3>4, <3>5, <3>6, <1>2, CreatesInOrder
  <2> QED BY <2>1, <2>2
<1>5. GatewayTypeOK' BY <1>1, <1>2, <1>3, <1>4 DEF GatewayTypeOK
<1> QED BY <1>2, <1>4, <1>5, GatewayKept DEF GatewayInv

LEMMA QuietKeeps ==
    ASSUME GatewayInv,
           \/ \E b \in Browsers : BufferFills(b) \/ BufferDrains(b)
           \/ FlusherBegins
           \/ UNCHANGED gatewayVars
    PROVE  GatewayInv'
<1>1. GatewayTypeOK BY DEF GatewayInv
<1>2. UNCHANGED <<endpoint, alive, connections, channel, ipCount, ipRead, created, casts, latest, disorder,
                  published, pendingBook, raced, leaked, owed, jumped>>
  BY DEF BufferFills, BufferDrains, FlusherBegins, gatewayVars
<1>3. full' \subseteq Browsers
  <2>1. \/ \E b \in Browsers : full' = full \cup {b} \/ full' = full \ {b}
        \/ full' = full
    BY DEF BufferFills, BufferDrains, FlusherBegins, gatewayVars
  <2> QED BY <2>1, <1>1 DEF GatewayTypeOK
<1>4. flushers' \in [created: 0..MaxFlushers, begun: 0..MaxFlushers]
  <2>1. flushers \in [created: 0..MaxFlushers, begun: 0..MaxFlushers] /\ MaxFlushers \in Nat
    BY <1>1, GatewayAssumption DEF GatewayTypeOK
  <2>2. \/ flushers' = flushers
        \/ flushers.begun < flushers.created /\ flushers' = [flushers EXCEPT !.begun = @ + 1]
    BY DEF BufferFills, BufferDrains, FlusherBegins, gatewayVars
  <2> QED BY <2>1, <2>2
<1>5. GatewayTypeOK' BY <1>1, <1>2, <1>3, <1>4 DEF GatewayTypeOK
<1> QED BY <1>2, <1>5, GatewayKept DEF GatewayInv

LEMMA EndsKeep ==
    ASSUME GatewayInv, NEW b \in Browsers, EndpointEnds(b) \/ Refuse(b)
    PROVE  GatewayInv'
<1>1. CASE EndpointEnds(b)
  <2>1. /\ endpoint[b] = "open" /\ b \notin alive /\ endpoint' = [endpoint EXCEPT ![b] = "gone"] /\ DropClients({b})
        /\ UNCHANGED <<alive, full, channel, ipRead, created, casts, latest, disorder, published,
                       pendingBook, flushers, raced, leaked, owed, jumped>>
    BY <1>1 DEF EndpointEnds
  <2> QED BY <2>1, GoneKeeps
<1>2. CASE Refuse(b)
  <2>1. /\ endpoint[b] = "refusing" /\ endpoint' = [endpoint EXCEPT ![b] = "gone"]
        /\ \/ DropClients({b}) /\ UNCHANGED leaked
           \/ leaked' = leaked \cup {b} /\ b \notin alive /\ UNCHANGED <<connections, ipCount>>
        /\ UNCHANGED <<alive, full, channel, ipRead, created, casts, latest, disorder, published,
                       pendingBook, flushers, raced, owed, jumped>>
    BY <1>2 DEF Refuse
  <2>2. b \notin channel BY <2>1 DEF GatewayInv, ClientsPlaced
  <2> QED BY <2>1, <2>2, GoneKeeps
<1> QED BY <1>1, <1>2

LEMMA LeavesOrDies ==
    ASSUME GatewayInv, NEW b \in Browsers, LeaveChannel(b) \/ SocketDies(b)
    PROVE  GatewayInv'
<1>1. WaitingOn(b) # {} <=> \E i \in DOMAIN casts : casts[i].waits = b BY DEF WaitingOn
<1>2. /\ endpoint[b] \in {"accepting", "refusing", "open"}
      /\ \/ channel' = channel \ {b} /\ alive' = alive
         \/ channel' = channel /\ alive' = alive \ {b}
      /\ owed' = [owed EXCEPT ![b] = {}]
      /\ jumped' = (jumped \/ \E i \in DOMAIN casts : casts[i].waits = b)
      /\ UNCHANGED <<endpoint, full, connections, ipCount, ipRead, created, casts, latest,
                     disorder, published, pendingBook, flushers, raced, leaked>>
  BY <1>1 DEF LeaveChannel, SocketDies
<1> QED BY <1>2, LeavesKeeps

LEMMA GatewayStarts == GatewayInit => GatewayInv
<1> SUFFICES ASSUME GatewayInit PROVE GatewayInv
  OBVIOUS
<1>1. /\ endpoint = [b \in Browsers |-> "none"]
      /\ alive = Browsers /\ full = {} /\ connections = <<>> /\ channel = {}
      /\ ipCount = 0 /\ ipRead = [b \in Browsers |-> 0]
      /\ created = <<>> /\ casts = <<>>
      /\ latest = [b \in Browsers |-> [k \in Kinds |-> 0]] /\ disorder = FALSE
      /\ published = [k \in Kinds |-> 0]
      /\ pendingBook = 0
      /\ flushers = [created |-> 0, begun |-> 0]
      /\ raced = FALSE /\ leaked = {} /\ jumped = FALSE
      /\ owed = [b \in Browsers |-> {}]
  BY DEF GatewayInit
<1>2. Cardinality(Browsers) \in Nat /\ MaxFlushers \in Nat /\ MaxBooks \in Nat
  BY GatewayAssumption, FS_CardinalityType
<1>3. Keys = {} /\ Reachable = {} BY <1>1 DEF Keys, Reachable, ToSet
<1>4. GatewayTypeOK
  <2>1. latest \in [Browsers -> [Kinds -> Nat]]
    <3>1. [k \in Kinds |-> 0] \in [Kinds -> Nat] OBVIOUS
    <3> QED BY <3>1, <1>1
  <2>2. connections \in Seq(Browsers) /\ created \in Seq(Event) /\ casts \in Seq(Cast) BY <1>1
  <2>3. /\ endpoint \in [Browsers -> {"none", "accepting", "refusing", "open", "gone"}]
        /\ ipRead \in [Browsers -> 0..Cardinality(Browsers)] /\ published \in [Kinds -> Nat]
        /\ owed \in [Browsers -> SUBSET Event]
    BY <1>1, <1>2
  <2>4. flushers \in [created: 0..MaxFlushers, begun: 0..MaxFlushers] BY <1>1, <1>2
  <2>5. {raced, jumped, disorder} \subseteq BOOLEAN BY <1>1
  <2>6. /\ alive \subseteq Browsers /\ full \subseteq Browsers /\ channel \subseteq Browsers /\ leaked \subseteq Browsers
        /\ ipCount \in 0..Cardinality(Browsers) /\ pendingBook \in 0..MaxBooks
    BY <1>1, <1>2
  <2> QED BY <2>1, <2>2, <2>3, <2>4, <2>5, <2>6 DEF GatewayTypeOK
<1>5. IsInjective(connections) BY <1>1 DEF IsInjective
<1>6. ClientsPlaced BY <1>1, <1>3 DEF ClientsPlaced
<1>7. CastsPlaced /\ CastsOrdered /\ Distinct(casts) BY <1>1 DEF CastsPlaced, CastsOrdered, Distinct
<1>8. OwedComes BY <1>1 DEF OwedComes
<1>9. CountsBounded
  <2>1. Come(endpoint) = {} BY <1>1 DEF Come
  <2>2. Cardinality(Come(endpoint)) = 0 BY <2>1, FS_EmptySet
  <2> QED BY <2>2, <1>1 DEF CountsBounded
<1>10. CountsMatchConnections BY <1>1, <1>3 DEF CountsMatchConnections
<1>11. NumbersGrow
  <2>1. \A k \in Kinds : published[k] = 0 /\ \A b \in Browsers : latest[b][k] = 0 BY <1>1
  <2>2. DOMAIN casts = {} /\ DOMAIN created = {} BY <1>1
  <2>3. \A k \in Kinds : NewTo(casts, latest, k, published[k] + 1) BY <2>1, <2>2 DEF NewTo
  <2> QED BY <2>2, <2>3, <1>1 DEF NumbersGrow
<1>12. InTurn BY <1>1 DEF InTurn, WaitsOnSubscribers, AllFollow, AllBringNews
<1> QED BY <1>4, <1>5, <1>6, <1>7, <1>8, <1>9, <1>10, <1>11, <1>12 DEF GatewayInv

LEMMA GatewayHolds == GatewaySpec => []GatewayInv
<1>1. GatewayInit => GatewayInv BY GatewayStarts
<1>2. GatewayInv /\ [GatewayNext]_gatewayVars => GatewayInv'
  <2> SUFFICES ASSUME GatewayInv, [GatewayNext]_gatewayVars PROVE GatewayInv'
    OBVIOUS
  <2>1. CASE \E b \in Browsers : BeginAccept(b) BY <2>1, BeginAcceptKeeps
  <2>2. CASE \E b \in Browsers : FinishAccept(b) BY <2>2, FinishAcceptKeeps
  <2>3. CASE \E b \in Browsers : EndpointEnds(b) \/ Refuse(b) BY <2>3, EndsKeep
  <2>4. CASE \E b \in Browsers : JoinChannel(b) BY <2>4, JoinChannelKeeps
  <2>5. CASE \E b \in Browsers : LeaveChannel(b) \/ SocketDies(b) BY <2>5, LeavesOrDies
  <2>6. CASE \E b \in Browsers : ResumeCast(b) BY <2>6, ResumeCastKeeps
  <2>7. CASE BeginCast BY <2>7, BeginCastKeeps
  <2>8. CASE Ticker BY <2>8, TickerKeeps
  <2>9. CASE OrderBook BY <2>9, OrderBookKeeps
  <2>10. CASE Flush BY <2>10, FlushKeeps
  <2>11. CASE \/ \E b \in Browsers : BufferFills(b) \/ BufferDrains(b)
              \/ FlusherBegins
              \/ UNCHANGED gatewayVars
    BY <2>11, QuietKeeps
  <2> QED
    BY <2>1, <2>2, <2>3, <2>4, <2>5, <2>6, <2>7, <2>8, <2>9, <2>10, <2>11 DEF GatewayNext
<1> QED BY <1>1, <1>2, PTL DEF GatewaySpec

-------------------------------------------------------------------------------

\* The state of the WebSocket endpoints, of their broadcasts and of the throttle
\* stays of its type, for any browsers; the count of the IP never goes beyond the
\* number of clients that came.
THEOREM GatewayTypes == GatewaySpec => []GatewayTypeOK
<1>1. GatewayInv => GatewayTypeOK BY DEF GatewayInv
<1> QED BY <1>1, GatewayHolds, PTL

\* BroadcastsReachSubscribers, for any browsers, slow or mortal, and any number of
\* events: a broadcast reaches whoever stays subscribed, and events of a kind come
\* in their order and once until somebody leaves on whom a broadcast waits.
THEOREM SubscribersReached == GatewaySpec => []BroadcastsReachSubscribers
<1>1. GatewayInv => BroadcastsReachSubscribers
  <2> SUFFICES ASSUME GatewayInv PROVE BroadcastsReachSubscribers
    OBVIOUS
  <2>1. \A b \in channel \cap alive \cap Keys : owed[b] \subseteq {casts[i].event : i \in DOMAIN casts}
    <3> SUFFICES ASSUME NEW b \in channel \cap alive \cap Keys, NEW e \in owed[b]
                 PROVE  \E i \in DOMAIN casts : e = casts[i].event
      OBVIOUS
    <3>1. b \in channel \cap Reachable BY DEF Reachable
    <3>2. PICK i \in DOMAIN casts : casts[i].event = e BY <3>1 DEF GatewayInv, OwedComes
    <3> QED BY <3>2
  <2>2. ~ jumped => ~ disorder BY DEF GatewayInv, InTurn
  <2> QED BY <2>1, <2>2 DEF BroadcastsReachSubscribers
<1> QED BY <1>1, GatewayHolds, PTL

\* CountsMatchConnections, for any browsers and any limit: the count of an IP is the
\* number of its connections unless a connect or a disconnect met another's accept,
\* and every entry has its endpoint unless a refusal raised.
THEOREM CountsMatch == GatewaySpec => []CountsMatchConnections
<1>1. GatewayInv => CountsMatchConnections BY DEF GatewayInv
<1> QED BY <1>1, GatewayHolds, PTL

-------------------------------------------------------------------------------
(***************************************************************************)
(* Edits and deployments of strategies, for any strategies, any number of  *)
(* requests that overlap in any way, and any number of restarts.           *)
(*                                                                         *)
(* Deployments: whoever deploys through the endpoint holds the lock, and   *)
(* nobody else records a deployment, so none is recorded during a warm-up. *)
(* Edits: the foreign key never refuses the snapshot of an edit, because a *)
(* strategy somebody could edit has its row, or the save of one is in the  *)
(* queue of writes before the snapshot.                                    *)
(***************************************************************************)

RequestRecords == [op: Operations \cup {"none"}, strategy: Strategies \cup {Absent}, pc: Progress,
                   config: Configs \cup {Absent}]

Deploys == {"deploy", "agentDeploy"}

\* How far requests of an operation get, and what they then know.
Shape(q) ==
    /\ q.pc = "idle" <=> q.op = "none"
    /\ q.op # "none" => q.strategy \in Strategies
    /\ q.op \notin {"none", "create"} => q.strategy \in known
    /\ q.op = "create" => q.pc \in {"snapshot", "done", "gone"}
    /\ q.op \in Deploys => q.pc \in {"reading", "read", "warming", "done", "gone"}
    /\ q.op \in {"update", "confirm"} => q.pc \in {"reading", "read", "snapshot", "done", "gone"}
    /\ q.op = "agentSave" => q.pc \in {"reading", "read", "save", "saved", "snapshot", "done", "gone"}
    /\ q.op \in {"get", "stop"} => q.pc \in {"reading", "read", "done", "gone"}
    /\ q.op \in {"agentStop", "delete"} => q.pc \in {"done", "gone"}
    /\ q.pc \in {"warming", "saved"} => q.config # Absent
    /\ q.op = "agentSave" /\ q.pc = "save" => q.config # Absent

RequestsShape == \A r \in Requests : Shape(requests[r])

-------------------------------------------------------------------------------
(* Deployments *)

SlotsShape ==
    \A r \in runnerSlots : /\ requests[r].op \in Deploys
                           /\ requests[r].pc \in {"warming", "done", "gone"}
RecordsShape == \A r \in Requests : records[r] # "none" => Does(r, "deploy", "done")

UnderLock(r) == requests[r].op = "deploy" /\ requests[r].pc \in {"reading", "read", "warming"}

OneUnderLock ==
    /\ \A r \in Requests : UnderLock(r) => deployLock
    /\ \A q, r \in Requests : UnderLock(q) /\ UnderLock(r) => q = r

\* While a deployment warms up under the lock, none of its strategy is recorded.
WarmsAlone ==
    \A q, r \in Requests :
        Does(r, "deploy", "warming") /\ Of(q) = Of(r) => records[q] # "running"

DInv == SlotsShape /\ RecordsShape /\ OneUnderLock /\ WarmsAlone /\ DeploymentsAreRecorded

-------------------------------------------------------------------------------
(* Edits *)

\* Only edits are in a configuration.
HoldsEdits(R, c) == \A r \in c.edits : R[r].op \in Edits

SaveOf(w, s) == w.kind = "save" /\ w.strategy = s

\* The strategy has a row, or a save of one waits.
Saved(table, queue, s) == table[s] # Absent \/ \E n \in 1..Len(queue) : SaveOf(queue[n], s)

\* A write is of the strategy of its request.
WriteShape(R, gone, w) ==
    /\ R[w.by].pc # "idle"
    /\ w.strategy = R[w.by].strategy
    /\ w.kind \in {"save", "snapshot"} => w.config # Absent
    /\ w.kind = "delete" => w.strategy \in gone
    /\ w.config # Absent => HoldsEdits(R, w.config)

WritesShape ==
    /\ \A n \in 1..Len(writes) : WriteShape(requests, deleted, writes[n])
    /\ \A n \in 1..Len(tasks) : WriteShape(requests, deleted, tasks[n]) /\ tasks[n].kind # "snapshot"

ConfigsHoldEdits ==
    /\ \A s \in Strategies : /\ configs[s] # Absent => HoldsEdits(requests, configs[s])
                             /\ rows[s] # Absent => HoldsEdits(requests, rows[s])
    /\ \A r \in Requests : requests[r].config # Absent => HoldsEdits(requests, requests[r].config)

\* What a client knows, or a handler has read, is saved.
KnownIsSaved ==
    /\ \A s \in known \ deleted : configs[s] # Absent => Saved(rows, writes, s)
    /\ \A r \in Requests :
          /\ Of(r) \notin deleted /\ requests[r].config # Absent
          /\ requests[r].pc \notin {"idle", "done", "gone"}
          => Saved(rows, writes, Of(r))

\* The save of a strategy being created is a task, at least.
CreationsAreSaved ==
    \A r \in Requests :
        Does(r, "create", "snapshot") /\ Of(r) \notin deleted
            => Saved(rows, writes, Of(r)) \/ \E n \in 1..Len(tasks) : SaveOf(tasks[n], Of(r))

\* No snapshot of an edit reaches the table before the row.
SnapshotsComeAfter ==
    \A n \in 1..Len(writes) :
        /\ writes[n].kind = "snapshot"
        /\ requests[writes[n].by].op \in Edits
        /\ writes[n].strategy \notin deleted
        => \/ rows[writes[n].strategy] # Absent
           \/ \E m \in 1..(n - 1) : SaveOf(writes[m], writes[n].strategy)

HInv ==
    /\ WritesShape /\ ConfigsHoldEdits /\ KnownIsSaved /\ CreationsAreSaved /\ SnapshotsComeAfter
    /\ AnsweredEditsAreInHistory

StoreInv == StoreTypeOK /\ RequestsShape /\ DInv /\ HInv

-------------------------------------------------------------------------------
(* How a request moves *)

\* Request r goes on; the others stay.
Moves(r, pc, config) ==
    /\ requests' \in [Requests -> RequestRecords]
    /\ \A q \in Requests \ {r} : requests'[q] = requests[q]
    /\ requests'[r].op = requests[r].op /\ requests'[r].strategy = requests[r].strategy
    /\ requests'[r].pc = pc /\ requests'[r].config = config

\* Request r begins.
Begins(r, op, s, pc) ==
    /\ requests[r].pc = "idle"
    /\ requests' \in [Requests -> RequestRecords]
    /\ \A q \in Requests \ {r} : requests'[q] = requests[q]
    /\ requests'[r] = [op |-> op, strategy |-> s, pc |-> pc, config |-> Absent]

LEMMA AdvanceMoves ==
    ASSUME StoreTypeOK, NEW r \in Requests, NEW pc \in Progress, NEW config \in Configs \cup {Absent},
           \/ requests' = [requests EXCEPT ![r].pc = pc, ![r].config = config]
           \/ config = requests[r].config /\ requests' = [requests EXCEPT ![r].pc = pc]
    PROVE  Moves(r, pc, config)
<1>1. requests \in [Requests -> RequestRecords]
      BY DEF StoreTypeOK, RequestRecords
<1>2. requests[r] \in RequestRecords
      BY <1>1
<1>3. requests' = [requests EXCEPT ![r] = [requests[r] EXCEPT !.pc = pc, !.config = config]]
  <2>1. CASE requests' = [requests EXCEPT ![r].pc = pc, ![r].config = config]
        BY <1>1, <2>1
  <2>2. CASE config = requests[r].config /\ requests' = [requests EXCEPT ![r].pc = pc]
    <3>1. [requests[r] EXCEPT !.pc = pc, !.config = config] = [requests[r] EXCEPT !.pc = pc]
          BY <1>2, <2>2 DEF RequestRecords
    <3> QED
        BY <1>1, <2>2, <3>1
  <2> QED
      BY <2>1, <2>2
<1>4. [requests[r] EXCEPT !.pc = pc, !.config = config] \in RequestRecords
      BY <1>2 DEF RequestRecords
<1> QED
    BY <1>1, <1>2, <1>3, <1>4 DEF Moves, RequestRecords

LEMMA BeginBegins ==
    ASSUME StoreTypeOK, NEW r \in Requests, NEW op \in Operations, NEW s \in Strategies,
           NEW pc \in Progress, Begin(r, op, s, pc)
    PROVE  Begins(r, op, s, pc)
<1>1. requests \in [Requests -> RequestRecords]
      BY DEF StoreTypeOK, RequestRecords
<1>2. [op |-> op, strategy |-> s, pc |-> pc, config |-> Absent] \in RequestRecords
      BY DEF RequestRecords
<1> QED
    BY <1>1, <1>2 DEF Begin, Begins

LEMMA MovesKeepShape ==
    ASSUME RequestsShape, NEW r \in Requests, NEW pc, NEW config, Moves(r, pc, config),
           pc # "idle", requests[r].pc # "idle", known \subseteq known',
           requests[r].op = "create" => pc \in {"snapshot", "done", "gone"},
           requests[r].op \in Deploys => pc \in {"reading", "read", "warming", "done", "gone"},
           requests[r].op \in {"update", "confirm"} => pc \in {"reading", "read", "snapshot", "done", "gone"},
           requests[r].op = "agentSave" =>
             pc \in {"reading", "read", "save", "saved", "snapshot", "done", "gone"},
           requests[r].op \in {"get", "stop"} => pc \in {"reading", "read", "done", "gone"},
           requests[r].op \in {"agentStop", "delete"} => pc \in {"done", "gone"},
           pc \in {"warming", "saved"} => config # Absent,
           requests[r].op = "agentSave" /\ pc = "save" => config # Absent
    PROVE  RequestsShape'
BY DEF RequestsShape, Shape, Moves

LEMMA BeginsKeepShape ==
    ASSUME RequestsShape, NEW r \in Requests, NEW op \in Operations, NEW s \in Strategies, NEW pc,
           Begins(r, op, s, pc), known \subseteq known',
           \/ op = "create" /\ pc = "snapshot"
           \/ op \in {"agentStop", "delete"} /\ s \in known /\ pc = "done"
           \/ op \notin {"create", "agentStop", "delete"} /\ s \in known /\ pc = "reading"
    PROVE  RequestsShape'
BY DEF RequestsShape, Shape, Begins, Operations, Edits, Deploys

-------------------------------------------------------------------------------
(* Deployments, step by step *)

LEMMA OneRecordOf ==
    ASSUME RequestsShape, RecordsShape, DeploymentsAreRecorded,
           NEW p \in Requests, NEW q \in Requests,
           requests[p].strategy = requests[q].strategy,
           records[p] = "running", records[q] = "running"
    PROVE  p = q
<1>1. requests[p].strategy \in Strategies
      BY DEF RequestsShape, Shape, RecordsShape, Does
<1> QED
    BY <1>1 DEF DeploymentsAreRecorded, RecordedAsRunning, Of

\* A request moves outside the warm-up, or the agent's out of it.
LEMMA PlainMove ==
    ASSUME StoreTypeOK, RequestsShape, DInv, NEW r \in Requests, NEW pc, NEW config, Moves(r, pc, config),
           UNCHANGED <<runnerSlots, records>>,
           deployLock' \in BOOLEAN,
           \/ deployLock' = deployLock
           \/ requests[r].op = "deploy" /\ requests[r].pc \in {"reading", "read"} /\ pc = "done",
           \/ requests[r].op \notin Deploys
           \/ requests[r].op \in Deploys /\ requests[r].pc \in {"reading", "read"} /\ pc \in {"read", "done"}
           \/ requests[r].op = "agentDeploy" /\ requests[r].pc = "warming" /\ pc = "done"
    PROVE  DInv'
<1>1. \A q \in Requests : requests'[q].op = requests[q].op /\ requests'[q].strategy = requests[q].strategy
                          /\ (q # r => requests'[q].pc = requests[q].pc)
      BY DEF Moves
<1>2. requests'[r].pc = pc
      BY DEF Moves
<1>3. SlotsShape' /\ RecordsShape'
  <2>1. runnerSlots' = runnerSlots /\ records' = records /\ runnerSlots \subseteq Requests
        BY DEF StoreTypeOK
  <2>2. SlotsShape'
        BY <1>1, <1>2, <2>1 DEF DInv, SlotsShape, Deploys
  <2>3. records[r] = "none" \/ requests'[r].pc = "done"
        BY <1>2 DEF DInv, RecordsShape, Does, Deploys
  <2>4. RecordsShape'
        BY <1>1, <2>1, <2>3 DEF DInv, RecordsShape, Does
  <2> QED
      BY <2>2, <2>4
<1>4. OneUnderLock'
      BY <1>1, <1>2 DEF DInv, OneUnderLock, UnderLock, Deploys
<1>5. WarmsAlone'
      BY <1>1, <1>2 DEF DInv, WarmsAlone, Does, Of, Deploys
<1>6. DeploymentsAreRecorded'
  <2>1. \A q \in runnerSlots :
           requests'[q].op = "deploy" /\ requests'[q].pc = "done" => records[q] = "running"
        BY <1>1, <1>2 DEF DInv, SlotsShape, DeploymentsAreRecorded, Does, StoreTypeOK, Deploys
  <2> QED
      BY <1>1, <2>1 DEF DInv, DeploymentsAreRecorded, RecordedAsRunning, Does, Of
<1> QED
    BY <1>3, <1>4, <1>5, <1>6 DEF DInv

\* A request begins that deploys nothing; a stop may come with it.
LEMMA PlainBegin ==
    ASSUME StoreTypeOK, RequestsShape, DInv, NEW r \in Requests, NEW op, NEW s, NEW pc,
           Begins(r, op, s, pc), op \notin Deploys, deployLock' = deployLock,
           UNCHANGED <<runnerSlots, records>> \/ StopDeployments(s)
    PROVE  DInv'
<1>1. \A q \in Requests \ {r} : requests'[q] = requests[q]
      BY DEF Begins
<1>2. /\ requests'[r].op = op /\ requests'[r].pc = pc
      /\ requests[r].op = "none" /\ requests[r].pc = "idle"
      BY DEF Begins, RequestsShape, Shape
<1>3. r \notin runnerSlots /\ records[r] = "none"
      BY <1>2 DEF DInv, SlotsShape, RecordsShape, Does, Deploys
<1>4. /\ runnerSlots' \subseteq runnerSlots
      /\ \A q \in Requests : records'[q] = records[q] \/ (records[q] = "running" /\ records'[q] = "stopped")
      /\ \A q \in runnerSlots' : records'[q] = records[q]
      /\ records'[r] = "none"
  <2>1. CASE UNCHANGED <<runnerSlots, records>>
    <3>1. runnerSlots' = runnerSlots /\ records' = records
          BY <2>1
    <3> QED
        BY <1>3, <3>1
  <2>2. CASE StopDeployments(s)
    <3>1. /\ runnerSlots' = runnerSlots \ SlotsFor(s)
          /\ \A q \in Requests : records'[q] = IF q \in RecordedAsRunning(s) THEN "stopped" ELSE records[q]
          BY <2>2 DEF StopDeployments
    <3>2. runnerSlots \subseteq Requests
          BY DEF StoreTypeOK
    <3>3. \A q \in Requests : q \in RecordedAsRunning(s) <=> Of(q) = s /\ records[q] = "running"
          BY DEF RecordedAsRunning
    <3>4. \A q \in runnerSlots' : q \in runnerSlots /\ Of(q) # s
          BY <3>1 DEF SlotsFor
    <3> QED
        BY <1>3, <3>1, <3>2, <3>3, <3>4
  <2> QED
      BY <2>1, <2>2
<1>5. SlotsShape' /\ RecordsShape'
  <2>1. SlotsShape'
        BY <1>1, <1>3, <1>4 DEF DInv, SlotsShape, StoreTypeOK
  <2>2. \A q \in Requests : records'[q] # "none" => q # r /\ records[q] # "none"
        BY <1>4
  <2>3. RecordsShape'
        BY <1>1, <2>2 DEF DInv, RecordsShape, Does
  <2> QED
      BY <2>1, <2>3
<1>6. OneUnderLock'
      BY <1>1, <1>2 DEF DInv, OneUnderLock, UnderLock, Deploys
<1>7. WarmsAlone'
      BY <1>1, <1>2, <1>4 DEF DInv, WarmsAlone, Does, Of, Deploys
<1>8. DeploymentsAreRecorded'
  <2>1. \A q \in runnerSlots' : q \in Requests \ {r} /\ q \in runnerSlots /\ records'[q] = records[q]
        BY <1>3, <1>4 DEF StoreTypeOK
  <2>2. \A q \in runnerSlots' :
           requests'[q].op = "deploy" /\ requests'[q].pc = "done" => records'[q] = "running"
        BY <1>1, <2>1 DEF DInv, DeploymentsAreRecorded, Does
  <2>3. \A q \in Requests : records'[q] = "running" => q # r /\ records[q] = "running"
        BY <1>3, <1>4
  <2>4. \A q \in Requests : records'[q] = "running" => requests'[q] = requests[q] /\ records[q] = "running"
        BY <1>1, <2>3
  <2>5. \A p, q \in Requests :
           /\ requests'[p].strategy = requests'[q].strategy
           /\ records'[p] = "running" /\ records'[q] = "running"
           => p = q
        BY <2>4, OneRecordOf DEF DInv
  <2>6. \A s1 \in Strategies : \A p, q \in RecordedAsRunning(s1)' : p = q
        BY <2>5 DEF RecordedAsRunning, Of
  <2> QED
      BY <2>2, <2>6 DEF DeploymentsAreRecorded, Does
<1> QED
    BY <1>5, <1>6, <1>7, <1>8 DEF DInv

\* The four steps of a deployment that change slots or records.
LEMMA DeployBegins ==
    ASSUME StoreTypeOK, RequestsShape, DInv, NEW r \in Requests, NEW op \in Deploys, NEW s,
           Begins(r, op, s, "reading"), UNCHANGED <<runnerSlots, records>>,
           op = "deploy" => ~ deployLock,
           deployLock' = (deployLock \/ op = "deploy")
    PROVE  DInv'
<1>1. \A q \in Requests \ {r} : requests'[q] = requests[q]
      BY DEF Begins
<1>2. /\ requests'[r].op = op /\ requests'[r].pc = "reading"
      /\ requests[r].op = "none" /\ requests[r].pc = "idle"
      BY DEF Begins, RequestsShape, Shape
<1>3. r \notin runnerSlots /\ records[r] = "none" /\ runnerSlots \subseteq Requests
      BY <1>2 DEF DInv, SlotsShape, RecordsShape, Does, Deploys, StoreTypeOK
<1>4. runnerSlots' = runnerSlots /\ records' = records
      OBVIOUS
<1>5. SlotsShape' /\ RecordsShape'
      BY <1>1, <1>3, <1>4 DEF DInv, SlotsShape, RecordsShape, Does
<1>6. OneUnderLock'
  <2>1. CASE op = "deploy"
    <3>1. \A q \in Requests : ~ UnderLock(q)
          BY <2>1 DEF DInv, OneUnderLock
    <3>2. deployLock' /\ \A q \in Requests : UnderLock(q)' => q = r
          BY <1>1, <2>1, <3>1 DEF UnderLock
    <3> QED
        BY <3>2 DEF OneUnderLock
  <2>2. CASE op # "deploy"
    <3>1. deployLock <=> deployLock'
          BY <2>2
    <3>2. \A q \in Requests : UnderLock(q)' => UnderLock(q)
          BY <1>1, <1>2, <2>2 DEF UnderLock
    <3> QED
        BY <3>1, <3>2 DEF DInv, OneUnderLock
  <2> QED
      BY <2>1, <2>2
<1>7. WarmsAlone'
      BY <1>1, <1>2, <1>3, <1>4 DEF DInv, WarmsAlone, Does, Of
<1>8. DeploymentsAreRecorded'
      BY <1>1, <1>2, <1>3, <1>4 DEF DInv, DeploymentsAreRecorded, RecordedAsRunning, Does, Of
<1> QED
    BY <1>5, <1>6, <1>7, <1>8 DEF DInv

LEMMA SlotTaken ==
    ASSUME StoreTypeOK, RequestsShape, DInv, NEW r \in Requests, RunnerDeploys(r),
           Moves(r, "warming", Found(r))
    PROVE  DInv'
<1>1. /\ requests[r].op \in Deploys /\ requests[r].pc = "read"
      /\ RecordedAsRunning(Of(r)) = {}
      /\ runnerSlots' = runnerSlots \cup {r} /\ records' = records /\ deployLock' = deployLock
      BY DEF RunnerDeploys, Deploys
<1>2. \A q \in Requests \ {r} : requests'[q] = requests[q]
      BY DEF Moves
<1>3. /\ requests'[r].op = requests[r].op /\ requests'[r].strategy = requests[r].strategy
      /\ requests'[r].pc = "warming"
      BY DEF Moves
<1>4. r \notin runnerSlots /\ records[r] = "none" /\ runnerSlots \subseteq Requests
      BY <1>1 DEF DInv, SlotsShape, RecordsShape, Does, StoreTypeOK
<1>5. SlotsShape' /\ RecordsShape'
      BY <1>1, <1>2, <1>3, <1>4 DEF DInv, SlotsShape, RecordsShape, Does
<1>6. OneUnderLock'
      BY <1>1, <1>2, <1>3 DEF DInv, OneUnderLock, UnderLock
<1>7. WarmsAlone'
      BY <1>1, <1>2, <1>3, <1>4 DEF DInv, WarmsAlone, Does, Of, RecordedAsRunning
<1>8. DeploymentsAreRecorded'
      BY <1>1, <1>2, <1>3, <1>4 DEF DInv, DeploymentsAreRecorded, RecordedAsRunning, Does, Of
<1> QED
    BY <1>5, <1>6, <1>7, <1>8 DEF DInv

LEMMA DeploymentRecorded ==
    ASSUME StoreTypeOK, RequestsShape, DInv, NEW r \in Requests, NEW config,
           Moves(r, "done", config), Does(r, "deploy", "warming"),
           runnerSlots' = runnerSlots, records' = [records EXCEPT ![r] = "running"],
           deployLock' = FALSE
    PROVE  DInv'
<1>1. \A q \in Requests \ {r} : requests'[q] = requests[q] /\ records'[q] = records[q]
      BY DEF Moves, StoreTypeOK
<1>2. /\ requests'[r].op = "deploy" /\ requests'[r].strategy = requests[r].strategy
      /\ requests'[r].pc = "done" /\ records'[r] = "running"
      BY DEF Moves, StoreTypeOK, Does
<1>3. runnerSlots \subseteq Requests
      BY DEF StoreTypeOK
<1>4. SlotsShape' /\ RecordsShape'
      BY <1>1, <1>2, <1>3 DEF DInv, SlotsShape, RecordsShape, Does, Deploys
<1>5. \A q \in Requests : ~ UnderLock(q)'
  <2>1. \A q \in Requests : UnderLock(q)' => UnderLock(q) /\ q # r
        BY <1>1, <1>2 DEF UnderLock
  <2>2. UnderLock(r)
        BY DEF UnderLock, Does
  <2> QED
      BY <2>1, <2>2 DEF DInv, OneUnderLock
<1>6. OneUnderLock' /\ WarmsAlone'
      BY <1>5 DEF OneUnderLock, WarmsAlone, UnderLock, Does
<1>7. DeploymentsAreRecorded'
  <2>1. \A q \in runnerSlots' :
           requests'[q].op = "deploy" /\ requests'[q].pc = "done" => records'[q] = "running"
        BY <1>1, <1>2, <1>3 DEF DInv, DeploymentsAreRecorded, Does
  <2>2. \A q \in Requests \ {r} :
           requests[q].strategy = requests[r].strategy => records[q] # "running"
        BY DEF DInv, WarmsAlone, Of
  <2>3. \A p, q \in Requests :
           /\ requests'[p].strategy = requests'[q].strategy
           /\ records'[p] = "running" /\ records'[q] = "running"
           => p = q
        BY <1>1, <1>2, <2>2, OneRecordOf DEF DInv
  <2>4. \A s \in Strategies : \A p, q \in RecordedAsRunning(s)' : p = q
        BY <2>3 DEF RecordedAsRunning, Of
  <2> QED
      BY <2>1, <2>4 DEF DeploymentsAreRecorded, Does
<1> QED
    BY <1>4, <1>6, <1>7 DEF DInv

-------------------------------------------------------------------------------
(* Edits: a handler goes on *)

\* Queue Q is q with members of N behind it.
Lengthened(q, Q, N) ==
    /\ Len(q) \in Nat /\ Len(Q) \in Nat /\ Len(q) <= Len(Q)
    /\ \A n \in 1..Len(Q) : IF n <= Len(q) THEN Q[n] = q[n] ELSE Q[n] \in N

LEMMA Unchanged ==
    ASSUME NEW S, NEW q \in Seq(S), NEW N
    PROVE  Lengthened(q, q, N)
BY DEF Lengthened

LEMMA Appended ==
    ASSUME NEW S, NEW q \in Seq(S), NEW w \in S, NEW N, w \in N
    PROVE  Append(q, w) \in Seq(S) /\ Lengthened(q, Append(q, w), N)
BY DEF Lengthened

LEMMA AppendedTwo ==
    ASSUME NEW S, NEW q \in Seq(S), NEW v \in S, NEW w \in S, NEW N, v \in N, w \in N
    PROVE  q \o <<v, w>> \in Seq(S) /\ Lengthened(q, q \o <<v, w>>, N)
<1> DEFINE Q == Append(Append(q, v), w)
<1>1. q \o <<v, w>> = Q
      OBVIOUS
<1>2. Append(q, v) \in Seq(S) /\ Q \in Seq(S)
      OBVIOUS
<1>3. Lengthened(q, Append(q, v), N) /\ Lengthened(Append(q, v), Q, N)
      BY <1>2, Appended
<1> HIDE DEF Q
<1>4. Lengthened(q, Q, N)
      BY <1>3 DEF Lengthened
<1> QED
    BY <1>1, <1>2, <1>4

\* Begin and go on alike: request r changes, but not from an operation to
\* another.
Changes(r) ==
    /\ requests' \in [Requests -> RequestRecords]
    /\ \A q \in Requests \ {r} : requests'[q] = requests[q]
    /\ requests[r].pc = "idle" \/ (/\ requests'[r].op = requests[r].op
                                   /\ requests'[r].strategy = requests[r].strategy)
    /\ requests'[r].pc # "idle"

LEMMA BeginsChanges ==
    ASSUME NEW r \in Requests, NEW op, NEW s, NEW pc, pc # "idle", Begins(r, op, s, pc)
    PROVE  Changes(r)
BY DEF Begins, Changes

LEMMA MovesChanges ==
    ASSUME NEW r \in Requests, NEW pc, NEW config, pc # "idle", Moves(r, pc, config)
    PROVE  Changes(r)
BY DEF Moves, Changes

\* What does not depend on r's progress.
LEMMA ChangesKeep ==
    ASSUME StoreTypeOK, RequestsShape, NEW r \in Requests, Changes(r), deleted \subseteq deleted'
    PROVE  /\ \A q \in Requests : requests[q].pc # "idle" =>
                 /\ requests'[q].pc # "idle" /\ requests'[q].op = requests[q].op
                 /\ requests'[q].strategy = requests[q].strategy
           /\ \A c \in Configs : HoldsEdits(requests, c) => HoldsEdits(requests', c)
           /\ \A w \in Writes : WriteShape(requests, deleted, w) => WriteShape(requests', deleted', w)
<1>1. \A q \in Requests : requests[q].pc # "idle" =>
         /\ requests'[q].pc # "idle" /\ requests'[q].op = requests[q].op
         /\ requests'[q].strategy = requests[q].strategy
      BY DEF Changes
<1>2. \A q \in Requests : requests[q].op \in Edits => requests'[q].op \in Edits
      BY <1>1 DEF RequestsShape, Shape, Edits
<1>3. \A c \in Configs : HoldsEdits(requests, c) => HoldsEdits(requests', c)
      BY <1>2 DEF HoldsEdits, Configs
<1>4. ASSUME NEW w \in Writes, WriteShape(requests, deleted, w)
      PROVE  WriteShape(requests', deleted', w)
  <2>1. w.by \in Requests /\ w.config \in Configs \cup {Absent}
        BY DEF Writes
  <2> QED
      BY <1>1, <1>3, <1>4, <2>1 DEF WriteShape, Of
<1> QED
    BY <1>1, <1>3, <1>4

LEMMA HandlerKeeps ==
    ASSUME StoreTypeOK, StoreTypeOK', RequestsShape, HInv, NEW r \in Requests, Changes(r),
           UNCHANGED <<rows, versionRows, known>>, deleted \subseteq deleted',
           NEW N \in SUBSET Writes, Lengthened(writes, writes', N),
           NEW T \in SUBSET Writes, Lengthened(tasks, tasks', T),
           \A w \in N : WriteShape(requests', deleted', w),
           \A w \in T : WriteShape(requests', deleted', w) /\ w.kind # "snapshot",
           \A w \in N : w.kind = "snapshot" /\ requests'[w.by].op \in Edits /\ w.strategy \notin deleted
                          => Saved(rows, writes, w.strategy),
           \A s \in Strategies : configs'[s] # Absent =>
              \/ configs'[s] = configs[s]
              \/ HoldsEdits(requests', configs'[s]) /\ (s \in known \ deleted => Saved(rows, writes, s)),
           requests'[r].config # Absent =>
              /\ HoldsEdits(requests', requests'[r].config)
              /\ requests'[r].strategy \notin deleted => Saved(rows, writes, requests'[r].strategy),
           Does(r, "create", "snapshot")' =>
              \/ Saved(rows, writes, requests'[r].strategy)
              \/ \E n \in 1..Len(tasks') : SaveOf(tasks'[n], requests'[r].strategy),
           ~ Answered(r)'
    PROVE  HInv'
<1>1. /\ \A q \in Requests : requests[q].pc # "idle" =>
            /\ requests'[q].pc # "idle" /\ requests'[q].op = requests[q].op
            /\ requests'[q].strategy = requests[q].strategy
      /\ \A c \in Configs : HoldsEdits(requests, c) => HoldsEdits(requests', c)
      /\ \A w \in Writes : WriteShape(requests, deleted, w) => WriteShape(requests', deleted', w)
      BY ChangesKeep
<1>2. /\ \A n \in 1..Len(writes) : writes[n] \in Writes /\ n \in 1..Len(writes') /\ writes'[n] = writes[n]
      /\ \A n \in 1..Len(tasks) : tasks[n] \in Writes /\ n \in 1..Len(tasks') /\ tasks'[n] = tasks[n]
      /\ \A n \in 1..Len(writes') : n \in 1..Len(writes) \/ writes'[n] \in N
      /\ \A n \in 1..Len(tasks') : n \in 1..Len(tasks) \/ tasks'[n] \in T
      BY DEF Lengthened, StoreTypeOK
<1>3. \A s : Saved(rows, writes, s) => Saved(rows', writes', s)
      BY <1>2 DEF Saved
<1>4. WritesShape'
  <2>1. \A n \in 1..Len(writes') : WriteShape(requests', deleted', writes'[n])
        BY <1>1, <1>2 DEF HInv, WritesShape
  <2>2. \A n \in 1..Len(tasks') : WriteShape(requests', deleted', tasks'[n]) /\ tasks'[n].kind # "snapshot"
        BY <1>1, <1>2 DEF HInv, WritesShape
  <2> QED
      BY <2>1, <2>2 DEF WritesShape
<1>5. ConfigsHoldEdits'
  <2>1. \A s \in Strategies : configs[s] \in Configs \cup {Absent} /\ rows[s] \in Configs \cup {Absent}
        BY DEF StoreTypeOK
  <2>2. \A s \in Strategies : configs'[s] # Absent => HoldsEdits(requests', configs'[s])
        BY <1>1, <2>1 DEF HInv, ConfigsHoldEdits
  <2>3. \A s \in Strategies : rows'[s] # Absent => HoldsEdits(requests', rows'[s])
        BY <1>1, <2>1 DEF HInv, ConfigsHoldEdits
  <2>4. \A q \in Requests : requests'[q].config # Absent => HoldsEdits(requests', requests'[q].config)
    <3> SUFFICES ASSUME NEW q \in Requests, requests'[q].config # Absent
                 PROVE  HoldsEdits(requests', requests'[q].config)
        OBVIOUS
    <3>1. CASE q = r
          BY <3>1
    <3>2. CASE q # r
      <4>1. requests'[q] = requests[q] /\ requests[q].config \in Configs \cup {Absent}
            BY <3>2 DEF Changes, StoreTypeOK
      <4> QED
          BY <1>1, <4>1 DEF HInv, ConfigsHoldEdits
    <3> QED
        BY <3>1, <3>2
  <2> QED
      BY <2>2, <2>3, <2>4 DEF ConfigsHoldEdits
<1>6. KnownIsSaved'
  <2>1. \A s \in known' \ deleted' : configs'[s] # Absent => Saved(rows', writes', s)
        BY <1>3 DEF HInv, KnownIsSaved, StoreTypeOK
  <2>2. \A q \in Requests :
           /\ requests'[q].strategy \notin deleted' /\ requests'[q].config # Absent
           /\ requests'[q].pc \notin {"idle", "done", "gone"}
           => Saved(rows', writes', requests'[q].strategy)
    <3> SUFFICES ASSUME NEW q \in Requests, requests'[q].strategy \notin deleted',
                        requests'[q].config # Absent,
                        requests'[q].pc \notin {"idle", "done", "gone"}
                 PROVE  Saved(rows', writes', requests'[q].strategy)
        OBVIOUS
    <3>1. CASE q = r
          BY <1>3, <3>1
    <3>2. CASE q # r
          BY <1>3, <3>2 DEF Changes, HInv, KnownIsSaved, Of
    <3> QED
        BY <3>1, <3>2
  <2> QED
      BY <2>1, <2>2 DEF KnownIsSaved, Of
<1>7. CreationsAreSaved'
  <2> SUFFICES ASSUME NEW q \in Requests, Does(q, "create", "snapshot")', requests'[q].strategy \notin deleted'
               PROVE  \/ Saved(rows', writes', requests'[q].strategy)
                      \/ \E n \in 1..Len(tasks') : SaveOf(tasks'[n], requests'[q].strategy)
      BY DEF CreationsAreSaved, Of
  <2>1. CASE q = r
        BY <1>3, <2>1
  <2>2. CASE q # r
    <3>1. requests'[q] = requests[q]
          BY <2>2 DEF Changes
    <3>2. Saved(rows, writes, Of(q)) \/ \E n \in 1..Len(tasks) : SaveOf(tasks[n], Of(q))
          BY <3>1 DEF HInv, CreationsAreSaved, Does, Of
    <3> QED
        BY <1>2, <1>3, <3>1, <3>2 DEF Of
  <2> QED
      BY <2>1, <2>2
<1>8. SnapshotsComeAfter'
  <2> SUFFICES ASSUME NEW n \in 1..Len(writes'), writes'[n].kind = "snapshot",
                      requests'[writes'[n].by].op \in Edits, writes'[n].strategy \notin deleted'
               PROVE  \/ rows'[writes'[n].strategy] # Absent
                      \/ \E m \in 1..(n - 1) : SaveOf(writes'[m], writes'[n].strategy)
      BY DEF SnapshotsComeAfter
  <2>1. CASE n \in 1..Len(writes)
    <3>1. /\ writes'[n] = writes[n] /\ writes[n] \in Writes /\ WriteShape(requests, deleted, writes[n])
          /\ Len(writes) \in Nat
          BY <1>2, <2>1 DEF HInv, WritesShape, StoreTypeOK
    <3>2. requests'[writes[n].by].op = requests[writes[n].by].op
          BY <1>1, <3>1 DEF WriteShape, Writes
    <3>3. \/ rows[writes[n].strategy] # Absent
          \/ \E m \in 1..(n - 1) : SaveOf(writes[m], writes[n].strategy)
          BY <2>1, <3>1, <3>2 DEF HInv, SnapshotsComeAfter
    <3>4. \A m \in 1..(n - 1) : m \in 1..Len(writes)
          BY <2>1, <3>1
    <3> QED
        BY <1>2, <3>1, <3>3, <3>4
  <2>2. CASE n \notin 1..Len(writes)
    <3>1. writes'[n] \in N
          BY <1>2, <2>2
    <3>2. Saved(rows, writes, writes'[n].strategy)
          BY <3>1
    <3>3. \A m \in 1..Len(writes) : m \in 1..(n - 1)
          BY <2>2 DEF Lengthened
    <3> QED
        BY <1>2, <3>2, <3>3 DEF Saved
  <2> QED
      BY <2>1, <2>2
<1>9. AnsweredEditsAreInHistory'
  <2> SUFFICES ASSUME NEW q \in Requests, Answered(q)', requests'[q].strategy \notin deleted'
               PROVE  \E v \in versionRows' : v.strategy = requests'[q].strategy /\ v.by = q
      BY DEF AnsweredEditsAreInHistory, Of
  <2>1. requests'[q] = requests[q]
        BY DEF Changes
  <2> QED
      BY <2>1 DEF HInv, AnsweredEditsAreInHistory, Answered, Of
<1> QED
    BY <1>4, <1>5, <1>6, <1>7, <1>8, <1>9 DEF HInv

\* A configuration handler r may put into the cache, or write.
Good(r, c) == /\ c \in Configs /\ HoldsEdits(requests, c)
              /\ Of(r) \notin deleted => Saved(rows, writes, Of(r))

\* A write of handler r.
OwnWrite(r, w) == /\ w \in Writes /\ w.by = r /\ w.strategy = Of(r) /\ w.kind # "delete"
                  /\ w.kind \in {"save", "snapshot"} => w.config # Absent
                  /\ w.config # Absent => Good(r, w.config)

LEMMA WhatWasRead ==
    ASSUME StoreInv, NEW r \in Requests, requests[r].op \notin {"none", "create"},
           requests[r].pc \notin {"idle", "done", "gone"}
    PROVE  /\ Of(r) \in Strategies /\ Of(r) \in known
           /\ requests[r].config # Absent => Good(r, requests[r].config)
           /\ configs[Of(r)] # Absent => Good(r, configs[Of(r)])
           /\ rows[Of(r)] # Absent => Good(r, rows[Of(r)])
           /\ Found(r) # Absent => Good(r, Found(r))
<1>1. Of(r) \in Strategies /\ Of(r) \in known
      BY DEF StoreInv, RequestsShape, Shape, Of
<1>2. requests[r].config \in Configs \cup {Absent}
      BY DEF StoreInv, StoreTypeOK
<1>3. configs[Of(r)] \in Configs \cup {Absent} /\ rows[Of(r)] \in Configs \cup {Absent}
      BY <1>1 DEF StoreInv, StoreTypeOK
<1>4. requests[r].config # Absent => Good(r, requests[r].config)
      BY <1>2 DEF Good, StoreInv, HInv, ConfigsHoldEdits, KnownIsSaved
<1>5. configs[Of(r)] # Absent => Good(r, configs[Of(r)])
      BY <1>1, <1>3 DEF Good, StoreInv, HInv, ConfigsHoldEdits, KnownIsSaved
<1>6. rows[Of(r)] # Absent => Good(r, rows[Of(r)])
      BY <1>1, <1>3 DEF Good, StoreInv, HInv, ConfigsHoldEdits, Saved
<1> QED
    BY <1>1, <1>4, <1>5, <1>6 DEF Found

LEMMA MadeOfGood ==
    ASSUME NEW r \in Requests, NEW c, Good(r, c)
    PROVE  /\ \A x \in {"draft", "confirmed", "running"} : Good(r, [c EXCEPT !.state = x])
           /\ \A x \in {"draft", "confirmed", "running"} : requests[r].op \in Edits =>
                 Good(r, [version |-> c.version + 1, state |-> x, edits |-> c.edits \cup {r}])
BY DEF Good, Configs, HoldsEdits

LEMMA GoesOn ==
    ASSUME StoreInv, StoreTypeOK', NEW r \in Requests, NEW pc \in Progress, NEW config, Moves(r, pc, config),
           requests[r].op \notin {"none", "create"}, pc # "idle", requests[r].pc # "idle",
           UNCHANGED <<rows, versionRows, known, deleted>>,
           NEW N \in SUBSET Writes, Lengthened(writes, writes', N),
           NEW T \in SUBSET Writes, Lengthened(tasks, tasks', T),
           \A w \in N \cup T : OwnWrite(r, w),
           \A w \in T : w.kind # "snapshot",
           config # Absent => Good(r, config),
           \A s \in Strategies : \/ configs'[s] \in {configs[s], Absent}
                                 \/ s = Of(r) /\ Good(r, configs'[s]),
           requests[r].op \in Edits /\ config # Absent => pc # "done"
    PROVE  HInv'
<1>1. StoreTypeOK /\ RequestsShape /\ HInv /\ Changes(r)
      BY MovesChanges DEF StoreInv
<1>2. /\ requests'[r].op = requests[r].op /\ requests'[r].strategy = Of(r)
      /\ requests'[r].pc = pc /\ requests'[r].config = config
      BY DEF Moves, Of
<1>3. \A c \in Configs : HoldsEdits(requests, c) => HoldsEdits(requests', c)
      BY <1>1, ChangesKeep
<1>4. \A w \in N \cup T : WriteShape(requests', deleted', w)
  <2> SUFFICES ASSUME NEW w \in N \cup T
               PROVE  WriteShape(requests', deleted', w)
      OBVIOUS
  <2>1. OwnWrite(r, w)
        OBVIOUS
  <2>2. w.config # Absent => HoldsEdits(requests', w.config)
        BY <1>3, <2>1 DEF OwnWrite, Good
  <2> QED
      BY <1>2, <2>1, <2>2 DEF OwnWrite, WriteShape
<1>5. \A w \in N : w.kind = "snapshot" /\ requests'[w.by].op \in Edits /\ w.strategy \notin deleted
                     => Saved(rows, writes, w.strategy)
      BY DEF OwnWrite, Good
<1>6. \A s \in Strategies : configs'[s] # Absent =>
         \/ configs'[s] = configs[s]
         \/ HoldsEdits(requests', configs'[s]) /\ (s \in known \ deleted => Saved(rows, writes, s))
      BY <1>3 DEF Good
<1>7. requests'[r].config # Absent =>
         /\ HoldsEdits(requests', requests'[r].config)
         /\ requests'[r].strategy \notin deleted => Saved(rows, writes, requests'[r].strategy)
      BY <1>2, <1>3 DEF Good
<1>8. ~ Does(r, "create", "snapshot")'
      BY <1>2 DEF Does
<1>9. ~ Answered(r)'
  <2> SUFFICES ASSUME Answered(r)'
               PROVE  FALSE
      OBVIOUS
  <2>1. pc = "done" /\ config # Absent /\ r \in config.edits
        BY <1>2 DEF Answered
  <2>2. requests[r].op \in Edits
        BY <2>1 DEF Good, HoldsEdits
  <2> QED
      BY <2>1, <2>2
<1> QED
    BY <1>1, <1>4, <1>5, <1>6, <1>7, <1>8, <1>9, HandlerKeeps

-------------------------------------------------------------------------------
(* Handlers that write nothing *)

\* What a handler may put into the cache.
LEMMA CacheKept ==
    ASSUME StoreInv, NEW r \in Requests, requests[r].op \notin {"none", "create"},
           requests[r].pc \notin {"idle", "done", "gone"}, CacheWhatWasRead(r)
    PROVE  /\ configs' \in [Strategies -> Configs \cup {Absent}]
           /\ \A s \in Strategies : \/ configs'[s] \in {configs[s], Absent}
                                    \/ s = Of(r) /\ Good(r, configs'[s])
<1>1. Of(r) \in Strategies /\ (requests[r].config # Absent => Good(r, requests[r].config))
      BY WhatWasRead
<1>2. configs \in [Strategies -> Configs \cup {Absent}]
      BY DEF StoreInv, StoreTypeOK
<1>3. requests[r].config # Absent => requests[r].config \in Configs
      BY <1>1 DEF Good
<1> QED
    BY <1>1, <1>2, <1>3 DEF CacheWhatWasRead

\* A step that writes nothing and leaves the cache good.
LEMMA ReadsKeep ==
    ASSUME StoreInv, NEW r \in Requests, NEW pc \in Progress, NEW config \in Configs \cup {Absent},
           Moves(r, pc, config), requests[r].op \notin {"none", "create"},
           requests[r].pc \in {"reading", "read", "warming"}, pc \in {"read", "warming", "done"},
           config # Absent => Good(r, config),
           requests[r].op \in Edits /\ config # Absent => pc = "read",
           pc = "warming" => requests[r].op \in Deploys /\ config # Absent,
           UNCHANGED <<rows, versionRows, deploymentRows, tasks, writes, records, known, deleted, crashes>>,
           deployLock' \in BOOLEAN, runnerSlots' \subseteq Requests,
           UNCHANGED configs \/ CacheWhatWasRead(r),
           DInv'
    PROVE  StoreInv'
<1>1. /\ configs' \in [Strategies -> Configs \cup {Absent}]
      /\ \A s \in Strategies : \/ configs'[s] \in {configs[s], Absent}
                               \/ s = Of(r) /\ Good(r, configs'[s])
  <2>1. CASE UNCHANGED configs
        BY <2>1 DEF StoreInv, StoreTypeOK
  <2>2. CASE CacheWhatWasRead(r)
        BY <2>2, CacheKept
  <2> QED
      BY <2>1, <2>2
<1>2. requests' \in [Requests -> RequestRecords]
      BY DEF Moves
<1>3. StoreTypeOK'
      BY <1>1, <1>2 DEF StoreInv, StoreTypeOK, RequestRecords
<1>4. RequestsShape'
  <2>1. RequestsShape /\ known \subseteq known' /\ pc # "idle" /\ requests[r].pc # "idle"
        BY DEF StoreInv
  <2>2. requests[r].op \in {"agentStop", "delete"} => FALSE
        BY <2>1 DEF RequestsShape, Shape
  <2> QED
      BY <2>1, <2>2, MovesKeepShape DEF Deploys
<1>5. HInv'
  <2>1. Lengthened(writes, writes', {}) /\ Lengthened(tasks, tasks', {})
        BY Unchanged DEF StoreInv, StoreTypeOK
  <2>2. pc # "idle" /\ requests[r].pc # "idle"
        OBVIOUS
  <2>3. requests[r].op \in Edits /\ config # Absent => pc # "done"
        OBVIOUS
  <2> QED
      BY <1>1, <1>3, <2>1, <2>2, <2>3, GoesOn
<1> QED
    BY <1>3, <1>4, <1>5 DEF StoreInv

LEMMA ReadRowKeeps ==
    ASSUME StoreInv, NEW r \in Requests, ReadRow(r)
    PROVE  StoreInv'
<1>1. /\ requests[r].pc = "reading"
      /\ requests' = [requests EXCEPT ![r].pc = "read", ![r].config = rows[Of(r)]]
      BY DEF ReadRow
<1>2. requests[r].op \notin {"none", "create"}
      BY <1>1 DEF StoreInv, RequestsShape, Shape
<1>3. Of(r) \in Strategies /\ (rows[Of(r)] # Absent => Good(r, rows[Of(r)]))
      BY <1>1, <1>2, WhatWasRead
<1>4. rows[Of(r)] \in Configs \cup {Absent}
      BY <1>3 DEF StoreInv, StoreTypeOK
<1>5. Moves(r, "read", rows[Of(r)])
      BY <1>1, <1>4, AdvanceMoves DEF StoreInv, Progress
<1>6. /\ UNCHANGED <<rows, versionRows, deploymentRows, tasks, writes, records, known, deleted, crashes>>
      /\ UNCHANGED <<runnerSlots, configs, deployLock>>
      BY DEF ReadRow
<1>7. deployLock' \in BOOLEAN /\ runnerSlots' \subseteq Requests
      BY <1>6 DEF StoreInv, StoreTypeOK
<1>8. DInv'
  <2>1. \/ requests[r].op \notin Deploys
        \/ requests[r].op \in Deploys /\ requests[r].pc \in {"reading", "read"} /\ "read" \in {"read", "done"}
        BY <1>1
  <2> QED
      BY <1>5, <1>6, <1>7, <2>1, PlainMove DEF StoreInv
<1> QED
    BY <1>1, <1>2, <1>3, <1>4, <1>5, <1>6, <1>7, <1>8, ReadsKeep DEF Progress

LEMMA NotFoundKeeps ==
    ASSUME StoreInv, NEW r \in Requests, NotFound(r)
    PROVE  StoreInv'
<1>1. /\ requests[r].pc = "read" /\ requests[r].config = Absent
      /\ requests' = [requests EXCEPT ![r].pc = "done"]
      /\ deployLock' = (deployLock /\ requests[r].op # "deploy")
      BY DEF NotFound, Found, Advance
<1>2. requests[r].op \notin {"none", "create"}
      BY <1>1 DEF StoreInv, RequestsShape, Shape
<1>3. Moves(r, "done", Absent)
      BY <1>1, AdvanceMoves DEF StoreInv, Progress
<1>4. /\ UNCHANGED <<rows, versionRows, deploymentRows, tasks, writes, records, known, deleted, crashes>>
      /\ UNCHANGED <<runnerSlots, configs>>
      BY DEF NotFound
<1>5. deployLock \in BOOLEAN /\ runnerSlots' \subseteq Requests
      BY <1>4 DEF StoreInv, StoreTypeOK
<1>6. deployLock' \in BOOLEAN
      BY <1>1
<1>7. DInv'
  <2>1. \/ deployLock' = deployLock
        \/ requests[r].op = "deploy" /\ requests[r].pc \in {"reading", "read"} /\ "done" = "done"
        BY <1>1, <1>5
  <2>2. \/ requests[r].op \notin Deploys
        \/ requests[r].op \in Deploys /\ requests[r].pc \in {"reading", "read"} /\ "done" \in {"read", "done"}
        BY <1>1
  <2> QED
      BY <1>3, <1>4, <1>6, <2>1, <2>2, PlainMove DEF StoreInv
<1> QED
    BY <1>1, <1>2, <1>3, <1>4, <1>5, <1>6, <1>7, ReadsKeep DEF Progress

LEMMA FinishGetKeeps ==
    ASSUME StoreInv, NEW r \in Requests, FinishGet(r)
    PROVE  StoreInv'
<1>1. /\ requests[r].op = "get" /\ requests[r].pc = "read" /\ CacheWhatWasRead(r)
      /\ requests' = [requests EXCEPT ![r].pc = "done"]
      /\ UNCHANGED <<rows, versionRows, deploymentRows, tasks, writes, records, known, deleted, crashes>>
      /\ UNCHANGED <<runnerSlots, deployLock>>
      BY DEF FinishGet, Does, Advance
<1>2. requests[r].config \in Configs \cup {Absent} /\ deployLock' \in BOOLEAN /\ runnerSlots' \subseteq Requests
      BY <1>1 DEF StoreInv, StoreTypeOK
<1>3. Moves(r, "done", requests[r].config)
      BY <1>1, <1>2, AdvanceMoves DEF StoreInv, Progress
<1>4. requests[r].config # Absent => Good(r, requests[r].config)
      BY <1>1, WhatWasRead
<1>5. requests[r].op \notin Deploys
      BY <1>1 DEF Deploys
<1>6. DInv'
      BY <1>1, <1>2, <1>3, <1>5, PlainMove DEF StoreInv
<1> QED
    BY <1>1, <1>2, <1>3, <1>4, <1>6, ReadsKeep DEF Progress, Edits

LEMMA RefuseDeployKeeps ==
    ASSUME StoreInv, NEW r \in Requests, RefuseDeploy(r)
    PROVE  StoreInv'
<1>1. /\ requests[r].op \in Deploys /\ requests[r].pc = "read" /\ CacheWhatWasRead(r)
      /\ requests' = [requests EXCEPT ![r].pc = "done"]
      /\ deployLock' = (deployLock /\ requests[r].op # "deploy")
      /\ UNCHANGED <<rows, versionRows, deploymentRows, tasks, writes, records, known, deleted, crashes>>
      /\ UNCHANGED runnerSlots
      BY DEF RefuseDeploy, Deploys, Advance
<1>2. /\ requests[r].config \in Configs \cup {Absent} /\ deployLock \in BOOLEAN
      /\ runnerSlots' \subseteq Requests
      BY <1>1 DEF StoreInv, StoreTypeOK
<1>3. deployLock' \in BOOLEAN /\ (requests[r].op # "deploy" => deployLock' = deployLock)
      BY <1>1, <1>2
<1>4. Moves(r, "done", requests[r].config)
      BY <1>1, <1>2, AdvanceMoves DEF StoreInv, Progress
<1>5. requests[r].op \notin Edits \cup {"none", "create"}
      BY <1>1 DEF Deploys, Edits
<1>6. requests[r].config # Absent => Good(r, requests[r].config)
      BY <1>1, <1>5, WhatWasRead
<1>7. DInv'
  <2>1. \/ deployLock' = deployLock
        \/ requests[r].op = "deploy" /\ requests[r].pc \in {"reading", "read"} /\ "done" = "done"
        BY <1>1, <1>3
  <2>2. \/ requests[r].op \notin Deploys
        \/ requests[r].op \in Deploys /\ requests[r].pc \in {"reading", "read"} /\ "done" \in {"read", "done"}
        BY <1>1
  <2>3. StoreTypeOK /\ RequestsShape /\ DInv /\ UNCHANGED <<runnerSlots, records>>
        BY <1>1 DEF StoreInv
  <2> QED
      BY <1>3, <1>4, <2>1, <2>2, <2>3, PlainMove
<1> QED
    BY <1>1, <1>2, <1>3, <1>4, <1>5, <1>6, <1>7, ReadsKeep DEF Progress

LEMMA RunnerDeploysKeeps ==
    ASSUME StoreInv, NEW r \in Requests, RunnerDeploys(r)
    PROVE  StoreInv'
<1>1. /\ requests[r].op \in Deploys /\ requests[r].pc = "read" /\ CacheWhatWasRead(r)
      /\ Found(r) # Absent /\ runnerSlots' = runnerSlots \cup {r}
      /\ requests' = [requests EXCEPT ![r].pc = "warming", ![r].config = Found(r)]
      /\ UNCHANGED <<rows, versionRows, deploymentRows, tasks, writes, records, known, deleted, crashes>>
      /\ UNCHANGED deployLock
      BY DEF RunnerDeploys, Deploys
<1>2. deployLock' \in BOOLEAN /\ runnerSlots' \subseteq Requests
      BY <1>1 DEF StoreInv, StoreTypeOK
<1>3. requests[r].op \notin Edits \cup {"none", "create"}
      BY <1>1 DEF Deploys, Edits
<1>4. Good(r, Found(r)) /\ Found(r) \in Configs
      BY <1>1, <1>3, WhatWasRead DEF Good
<1>5. Moves(r, "warming", Found(r))
      BY <1>1, <1>4, AdvanceMoves DEF StoreInv, Progress
<1>6. DInv'
      BY <1>5, SlotTaken DEF StoreInv
<1> QED
    BY <1>1, <1>2, <1>3, <1>4, <1>5, <1>6, ReadsKeep DEF Progress

-------------------------------------------------------------------------------
(* Handlers that write *)

LEMMA WritingKeeps ==
    ASSUME StoreInv, NEW r \in Requests, NEW pc \in Progress, NEW config \in Configs \cup {Absent},
           Moves(r, pc, config), requests[r].op \notin {"none", "create"},
           requests[r].pc \notin {"idle", "done", "gone"}, pc # "idle",
           config # Absent => Good(r, config),
           requests[r].op \in Edits /\ config # Absent => pc # "done",
           UNCHANGED <<rows, versionRows, deploymentRows, known, deleted, crashes>>,
           NEW N \in SUBSET Writes, writes' \in Seq(Writes), Lengthened(writes, writes', N),
           NEW T \in SUBSET Writes, tasks' \in Seq(Writes), Lengthened(tasks, tasks', T),
           \A w \in N \cup T : OwnWrite(r, w),
           \A w \in T : w.kind # "snapshot",
           deployLock' \in BOOLEAN, UNCHANGED runnerSlots,
           UNCHANGED records \/ records' = [records EXCEPT ![r] = "running"],
           \/ UNCHANGED configs
           \/ CacheWhatWasRead(r)
           \/ \E c : Good(r, c) /\ configs' = [configs EXCEPT ![Of(r)] = c],
           RequestsShape', DInv'
    PROVE  StoreInv'
<1>1. /\ configs' \in [Strategies -> Configs \cup {Absent}]
      /\ \A s \in Strategies : \/ configs'[s] \in {configs[s], Absent}
                               \/ s = Of(r) /\ Good(r, configs'[s])
  <2>1. CASE UNCHANGED configs
        BY <2>1 DEF StoreInv, StoreTypeOK
  <2>2. CASE CacheWhatWasRead(r)
        BY <2>2, CacheKept
  <2>3. CASE \E c : Good(r, c) /\ configs' = [configs EXCEPT ![Of(r)] = c]
    <3>1. PICK c : Good(r, c) /\ configs' = [configs EXCEPT ![Of(r)] = c]
          BY <2>3
    <3>2. c \in Configs /\ Of(r) \in Strategies /\ configs \in [Strategies -> Configs \cup {Absent}]
          BY <3>1, WhatWasRead DEF Good, StoreInv, StoreTypeOK
    <3> QED
        BY <3>1, <3>2
  <2> QED
      BY <2>1, <2>2, <2>3
<1>2. requests' \in [Requests -> RequestRecords]
      BY DEF Moves
<1>3. StoreTypeOK'
  <2>1. records' \in [Requests -> {"none", "running", "stopped"}]
        BY DEF StoreInv, StoreTypeOK
  <2> QED
      BY <1>1, <1>2, <2>1 DEF StoreInv, StoreTypeOK, RequestRecords
<1>4. HInv'
      BY <1>1, <1>3, GoesOn
<1> QED
    BY <1>3, <1>4 DEF StoreInv

LEMMA OwnWritten ==
    ASSUME NEW r \in Requests, Of(r) \in Strategies
    PROVE  /\ \A c : \A k \in {"save", "snapshot"} : Good(r, c) =>
                 OwnWrite(r, WriteOf(k, r, c)) /\ WriteOf(k, r, c).kind = k
           /\ OwnWrite(r, WriteOf("deployment", r, Absent))
           /\ WriteOf("deployment", r, Absent).kind = "deployment"
<1>1. ASSUME NEW c, NEW k \in {"save", "snapshot"}, Good(r, c)
      PROVE  OwnWrite(r, WriteOf(k, r, c)) /\ WriteOf(k, r, c).kind = k
  <2>1. c \in Configs /\ c # Absent
        BY <1>1, StoreAssumption DEF Good
  <2>2. WriteOf(k, r, c) = [kind |-> k, strategy |-> Of(r), config |-> c, by |-> r]
        BY DEF WriteOf, Write
  <2>3. WriteOf(k, r, c) \in Writes
        BY <2>1, <2>2 DEF Writes
  <2> QED
      BY <1>1, <2>1, <2>2, <2>3 DEF OwnWrite
<1>2. OwnWrite(r, WriteOf("deployment", r, Absent)) /\ WriteOf("deployment", r, Absent).kind = "deployment"
      BY DEF OwnWrite, WriteOf, Write, Writes
<1> QED
    BY <1>1, <1>2

LEMMA FinishUpdateKeeps ==
    ASSUME StoreInv, NEW r \in Requests, FinishUpdate(r)
    PROVE  StoreInv'
<1> DEFINE saves == WriteOf("save", r, Edited(r))
           snapshots == WriteOf("snapshot", r, Edited(r))
<1>1. /\ requests[r].op \in {"update", "confirm"} /\ requests[r].pc = "read" /\ Found(r) # Absent
      /\ configs' = [configs EXCEPT ![Of(r)] = Edited(r)]
      /\ tasks' = Append(tasks, saves) /\ writes' = Append(writes, snapshots)
      /\ requests' = [requests EXCEPT ![r].pc = "snapshot", ![r].config = Edited(r)]
      /\ UNCHANGED <<rows, versionRows, deploymentRows, known, deleted, crashes>>
      /\ UNCHANGED <<runnerSlots, records, deployLock>>
      BY DEF FinishUpdate
<1>2. requests[r].op \in Edits /\ requests[r].op \notin {"none", "create"} \cup Deploys
      BY <1>1 DEF Edits, Deploys
<1>3. Of(r) \in Strategies /\ Good(r, Found(r))
      BY <1>1, <1>2, WhatWasRead
<1>4. Good(r, Edited(r)) /\ Edited(r) \in Configs
  <2>1. Found(r).state \in {"draft", "confirmed", "running"}
        BY <1>3 DEF Good, Configs
  <2> QED
      BY <1>2, <1>3, <2>1, MadeOfGood DEF Edited, Good
<1>5. Moves(r, "snapshot", Edited(r))
      BY <1>1, <1>4, AdvanceMoves DEF StoreInv, Progress
<1>6. /\ saves \in Writes /\ OwnWrite(r, saves) /\ saves.kind = "save"
      /\ snapshots \in Writes /\ OwnWrite(r, snapshots)
      BY <1>3, <1>4, OwnWritten DEF OwnWrite
<1>7. /\ writes' \in Seq(Writes) /\ Lengthened(writes, writes', {snapshots})
      /\ tasks' \in Seq(Writes) /\ Lengthened(tasks, tasks', {saves})
      BY <1>1, <1>6, Appended DEF StoreInv, StoreTypeOK
<1>8. deployLock' \in BOOLEAN
      BY <1>1 DEF StoreInv, StoreTypeOK
<1>9. RequestsShape'
      BY <1>1, <1>2, <1>5, MovesKeepShape DEF StoreInv, Deploys
<1>10. DInv'
      BY <1>1, <1>2, <1>5, <1>8, PlainMove DEF StoreInv
<1>11. \E c : Good(r, c) /\ configs' = [configs EXCEPT ![Of(r)] = c]
      BY <1>1, <1>4
<1>12. /\ \A w \in {snapshots} \cup {saves} : OwnWrite(r, w)
       /\ \A w \in {saves} : w.kind # "snapshot"
       /\ {snapshots} \in SUBSET Writes /\ {saves} \in SUBSET Writes
      BY <1>6
<1>13. UNCHANGED runnerSlots /\ UNCHANGED records
      BY <1>1
<1> HIDE DEF saves, snapshots
<1> QED
    BY <1>1, <1>2, <1>4, <1>5, <1>7, <1>8, <1>9, <1>10, <1>11, <1>12, <1>13, WritingKeeps DEF Progress

LEMMA FinishAgentSaveKeeps ==
    ASSUME StoreInv, NEW r \in Requests, FinishAgentSave(r)
    PROVE  StoreInv'
<1> DEFINE saves == WriteOf("save", r, Edited(r))
<1>1. /\ requests[r].op = "agentSave" /\ requests[r].pc = "read" /\ Found(r) # Absent
      /\ configs' = [configs EXCEPT ![Of(r)] = Edited(r)]
      /\ writes' = Append(writes, saves)
      /\ requests' = [requests EXCEPT ![r].pc = "save", ![r].config = Edited(r)]
      /\ UNCHANGED <<rows, versionRows, deploymentRows, known, deleted, crashes>>
      /\ UNCHANGED <<tasks, runnerSlots, records, deployLock>>
      BY DEF FinishAgentSave, Does
<1>2. requests[r].op \in Edits /\ requests[r].op \notin {"none", "create"} \cup Deploys
      BY <1>1 DEF Edits, Deploys
<1>3. Of(r) \in Strategies /\ Good(r, Found(r))
      BY <1>1, <1>2, WhatWasRead
<1>4. Good(r, Edited(r)) /\ Edited(r) \in Configs
  <2>1. Found(r).state \in {"draft", "confirmed", "running"}
        BY <1>3 DEF Good, Configs
  <2> QED
      BY <1>2, <1>3, <2>1, MadeOfGood DEF Edited, Good
<1>5. Moves(r, "save", Edited(r))
      BY <1>1, <1>4, AdvanceMoves DEF StoreInv, Progress
<1>6. saves \in Writes /\ OwnWrite(r, saves)
      BY <1>3, <1>4, OwnWritten DEF OwnWrite
<1>7. /\ writes' \in Seq(Writes) /\ Lengthened(writes, writes', {saves})
      /\ tasks' \in Seq(Writes) /\ Lengthened(tasks, tasks', {})
      BY <1>1, <1>6, Appended, Unchanged DEF StoreInv, StoreTypeOK
<1>8. deployLock' \in BOOLEAN
      BY <1>1 DEF StoreInv, StoreTypeOK
<1>9. RequestsShape'
      BY <1>1, <1>2, <1>4, <1>5, MovesKeepShape, StoreAssumption DEF StoreInv, Deploys
<1>10. DInv'
      BY <1>1, <1>2, <1>5, <1>8, PlainMove DEF StoreInv
<1>11. \E c : Good(r, c) /\ configs' = [configs EXCEPT ![Of(r)] = c]
      BY <1>1, <1>4
<1>12. /\ \A w \in {saves} \cup {} : OwnWrite(r, w)
       /\ \A w \in {} : w.kind # "snapshot"
       /\ {saves} \in SUBSET Writes /\ {} \in SUBSET Writes
      BY <1>6
<1>13. UNCHANGED runnerSlots /\ UNCHANGED records
      BY <1>1
<1> HIDE DEF saves
<1> QED
    BY <1>1, <1>2, <1>4, <1>5, <1>7, <1>8, <1>9, <1>10, <1>11, <1>12, <1>13, WritingKeeps DEF Progress

LEMMA AgentSnapshotKeeps ==
    ASSUME StoreInv, NEW r \in Requests, AgentSnapshot(r)
    PROVE  StoreInv'
<1> DEFINE config == requests[r].config
           snapshots == WriteOf("snapshot", r, config)
<1>1. /\ requests[r].op = "agentSave" /\ requests[r].pc = "saved"
      /\ writes' = Append(writes, snapshots)
      /\ requests' = [requests EXCEPT ![r].pc = "snapshot"]
      /\ UNCHANGED <<rows, versionRows, deploymentRows, known, deleted, crashes>>
      /\ UNCHANGED <<configs, tasks, runnerSlots, records, deployLock>>
      BY DEF AgentSnapshot, Does, Advance
<1>2. requests[r].op \in Edits /\ requests[r].op \notin {"none", "create"} \cup Deploys
      BY <1>1 DEF Edits, Deploys
<1>3. config # Absent /\ config \in Configs \cup {Absent}
      BY <1>1 DEF StoreInv, StoreTypeOK, RequestsShape, Shape
<1>4. Of(r) \in Strategies /\ Good(r, config)
      BY <1>1, <1>2, <1>3, WhatWasRead
<1>5. Moves(r, "snapshot", config)
      BY <1>1, <1>3, AdvanceMoves DEF StoreInv, Progress
<1>6. snapshots \in Writes /\ OwnWrite(r, snapshots)
      BY <1>4, OwnWritten DEF OwnWrite
<1>7. /\ writes' \in Seq(Writes) /\ Lengthened(writes, writes', {snapshots})
      /\ tasks' \in Seq(Writes) /\ Lengthened(tasks, tasks', {})
      BY <1>1, <1>6, Appended, Unchanged DEF StoreInv, StoreTypeOK
<1>8. deployLock' \in BOOLEAN
      BY <1>1 DEF StoreInv, StoreTypeOK
<1>9. RequestsShape'
      BY <1>1, <1>2, <1>5, MovesKeepShape DEF StoreInv, Deploys
<1>10. DInv'
      BY <1>1, <1>2, <1>5, <1>8, PlainMove DEF StoreInv
<1>11. /\ \A w \in {snapshots} \cup {} : OwnWrite(r, w)
       /\ \A w \in {} : w.kind # "snapshot"
       /\ {snapshots} \in SUBSET Writes /\ {} \in SUBSET Writes
      BY <1>6
<1>12. UNCHANGED runnerSlots /\ UNCHANGED records /\ UNCHANGED configs
      BY <1>1
<1> HIDE DEF snapshots, config
<1> QED
    BY <1>1, <1>2, <1>3, <1>4, <1>5, <1>7, <1>8, <1>9, <1>10, <1>11, <1>12, WritingKeeps DEF Progress

LEMMA FinishStopKeeps ==
    ASSUME StoreInv, NEW r \in Requests, FinishStop(r)
    PROVE  StoreInv'
<1> DEFINE config == requests[r].config
           c == [Found(r) EXCEPT !.state = "confirmed"]
           saves == WriteOf("save", r, c)
<1>1. /\ requests[r].op = "stop" /\ requests[r].pc = "read" /\ Found(r) # Absent
      /\ requests' = [requests EXCEPT ![r].pc = "done"]
      /\ UNCHANGED <<rows, versionRows, deploymentRows, known, deleted, crashes>>
      /\ UNCHANGED <<writes, runnerSlots, records, deployLock>>
      /\ \/ configs' = [configs EXCEPT ![Of(r)] = c] /\ tasks' = Append(tasks, saves)
         \/ CacheWhatWasRead(r) /\ UNCHANGED tasks
      BY DEF FinishStop, Does, Advance
<1>2. requests[r].op \notin Edits /\ requests[r].op \notin {"none", "create"} \cup Deploys
      BY <1>1 DEF Edits, Deploys
<1>3. Of(r) \in Strategies /\ Good(r, Found(r)) /\ (config # Absent => Good(r, config))
      BY <1>1, <1>2, WhatWasRead
<1>4. Good(r, c)
      BY <1>3, MadeOfGood
<1>5. config \in Configs \cup {Absent}
      BY DEF StoreInv, StoreTypeOK
<1>6. Moves(r, "done", config)
      BY <1>1, <1>5, AdvanceMoves DEF StoreInv, Progress
<1>7. saves \in Writes /\ OwnWrite(r, saves) /\ saves.kind = "save"
      BY <1>3, <1>4, OwnWritten DEF OwnWrite
<1>8. /\ writes' \in Seq(Writes) /\ Lengthened(writes, writes', {})
      /\ tasks' \in Seq(Writes) /\ Lengthened(tasks, tasks', {saves})
  <2> HIDE DEF saves
  <2>1. tasks \in Seq(Writes) /\ writes \in Seq(Writes)
        BY DEF StoreInv, StoreTypeOK
  <2>2. writes' \in Seq(Writes) /\ Lengthened(writes, writes', {})
        BY <1>1, <2>1, Unchanged
  <2>3. tasks' = Append(tasks, saves) \/ tasks' = tasks
        BY <1>1
  <2>4. CASE tasks' = Append(tasks, saves)
        BY <1>7, <2>1, <2>2, <2>4, Appended
  <2>5. CASE tasks' = tasks
        BY <2>1, <2>2, <2>5, Unchanged
  <2> QED
      BY <2>3, <2>4, <2>5
<1>9. deployLock' \in BOOLEAN
      BY <1>1 DEF StoreInv, StoreTypeOK
<1>10. RequestsShape'
      BY <1>1, <1>2, <1>6, MovesKeepShape DEF StoreInv, Deploys
<1>11. DInv'
      BY <1>1, <1>2, <1>6, <1>9, PlainMove DEF StoreInv
<1>12. \/ CacheWhatWasRead(r)
       \/ \E x : Good(r, x) /\ configs' = [configs EXCEPT ![Of(r)] = x]
      BY <1>1, <1>4
<1>13. /\ \A w \in {} \cup {saves} : OwnWrite(r, w)
       /\ \A w \in {saves} : w.kind # "snapshot"
       /\ {saves} \in SUBSET Writes /\ {} \in SUBSET Writes
      BY <1>7
<1>14. UNCHANGED runnerSlots /\ UNCHANGED records
      BY <1>1
<1> HIDE DEF saves, config, c
<1> QED
    BY <1>1, <1>2, <1>3, <1>5, <1>6, <1>8, <1>9, <1>10, <1>11, <1>12, <1>13, <1>14, WritingKeeps DEF Progress

LEMMA FinishDeployKeeps ==
    ASSUME StoreInv, NEW r \in Requests, FinishDeploy(r)
    PROVE  StoreInv'
<1> DEFINE config == requests[r].config
           deploys == WriteOf("deployment", r, Absent)
           saves == WriteOf("save", r, Running(r))
<1>1. /\ requests[r].op = "deploy" /\ requests[r].pc = "warming"
      /\ records' = [records EXCEPT ![r] = "running"] /\ deployLock' = FALSE
      /\ requests' = [requests EXCEPT ![r].pc = "done"]
      /\ UNCHANGED <<rows, versionRows, deploymentRows, known, deleted, crashes>>
      /\ UNCHANGED <<writes, runnerSlots>>
      /\ \/ UNCHANGED configs /\ tasks' = Append(tasks, deploys)
         \/ configs' = [configs EXCEPT ![Of(r)] = Running(r)] /\ tasks' = tasks \o <<deploys, saves>>
      BY DEF FinishDeploy, Does, Advance
<1>2. requests[r].op \notin Edits /\ requests[r].op \notin {"none", "create"}
      BY <1>1 DEF Edits
<1>3. config # Absent /\ config \in Configs \cup {Absent}
      BY <1>1 DEF StoreInv, StoreTypeOK, RequestsShape, Shape
<1>4. Of(r) \in Strategies /\ Good(r, config)
      BY <1>1, <1>2, <1>3, WhatWasRead
<1>5. Good(r, Running(r))
      BY <1>4, MadeOfGood DEF Running
<1>6. Moves(r, "done", config)
      BY <1>1, <1>3, AdvanceMoves DEF StoreInv, Progress
<1>7. /\ saves \in Writes /\ OwnWrite(r, saves) /\ saves.kind = "save"
      /\ deploys \in Writes /\ OwnWrite(r, deploys) /\ deploys.kind = "deployment"
      BY <1>4, <1>5, OwnWritten DEF OwnWrite
<1>8. /\ writes' \in Seq(Writes) /\ Lengthened(writes, writes', {})
      /\ tasks' \in Seq(Writes) /\ Lengthened(tasks, tasks', {deploys, saves})
  <2>1. tasks \in Seq(Writes) /\ writes \in Seq(Writes)
        BY DEF StoreInv, StoreTypeOK
  <2>2. writes' \in Seq(Writes) /\ Lengthened(writes, writes', {})
        BY <1>1, <2>1, Unchanged
  <2> HIDE DEF deploys, saves
  <2>3. CASE tasks' = Append(tasks, deploys)
        BY <1>7, <2>1, <2>2, <2>3, Appended
  <2>4. CASE tasks' = tasks \o <<deploys, saves>>
        BY <1>7, <2>1, <2>2, <2>4, AppendedTwo
  <2> QED
      BY <1>1, <2>2, <2>3, <2>4
<1>9. RequestsShape'
      BY <1>1, <1>2, <1>6, MovesKeepShape DEF StoreInv, Deploys
<1>10. DInv'
      BY <1>1, <1>6, DeploymentRecorded DEF StoreInv, Does
<1>11. \/ UNCHANGED configs
       \/ \E x : Good(r, x) /\ configs' = [configs EXCEPT ![Of(r)] = x]
      BY <1>1, <1>5
<1>12. /\ \A w \in {} \cup {deploys, saves} : OwnWrite(r, w)
       /\ \A w \in {deploys, saves} : w.kind # "snapshot"
       /\ {deploys, saves} \in SUBSET Writes /\ {} \in SUBSET Writes
      BY <1>7
<1>13. UNCHANGED runnerSlots /\ deployLock' \in BOOLEAN
      BY <1>1
<1> HIDE DEF saves, deploys, config
<1> QED
    BY <1>1, <1>2, <1>3, <1>4, <1>6, <1>8, <1>9, <1>10, <1>11, <1>12, <1>13, WritingKeeps DEF Progress

LEMMA FinishAgentDeployKeeps ==
    ASSUME StoreInv, NEW r \in Requests, FinishAgentDeploy(r)
    PROVE  StoreInv'
<1>1. /\ requests[r].op = "agentDeploy" /\ requests[r].pc = "warming"
      /\ requests' = [requests EXCEPT ![r].pc = "done"]
      /\ UNCHANGED <<rows, versionRows, deploymentRows, tasks, writes, records, known, deleted, crashes>>
      /\ UNCHANGED runnerSlots /\ UNCHANGED deployLock /\ UNCHANGED configs
      BY DEF FinishAgentDeploy, Does, Advance
<1>2. /\ requests[r].config \in Configs \cup {Absent} /\ deployLock' \in BOOLEAN
      /\ runnerSlots' \subseteq Requests
      BY <1>1 DEF StoreInv, StoreTypeOK
<1>3. Moves(r, "done", requests[r].config)
      BY <1>1, <1>2, AdvanceMoves DEF StoreInv, Progress
<1>4. requests[r].op \notin Edits \cup {"none", "create"}
      BY <1>1 DEF Edits
<1>5. requests[r].config # Absent => Good(r, requests[r].config)
      BY <1>1, <1>4, WhatWasRead
<1>6. DInv'
      BY <1>1, <1>2, <1>3, PlainMove DEF StoreInv, Deploys
<1> QED
    BY <1>1, <1>2, <1>3, <1>4, <1>5, <1>6, ReadsKeep DEF Progress

-------------------------------------------------------------------------------
(* Requests arrive *)

\* A request that changes no configuration begins.
LEMMA BeginKeeps ==
    ASSUME StoreInv, NEW r \in Requests, NEW op \in Operations, NEW s \in Strategies, NEW pc \in Progress,
           Begin(r, op, s, pc), op # "create", s \in known,
           IF op \in {"agentStop", "delete"} THEN pc = "done" ELSE pc = "reading",
           UNCHANGED <<configs, rows, versionRows, deploymentRows, tasks, writes, known, deleted, crashes>>,
           deployLock' \in BOOLEAN, runnerSlots' \subseteq Requests,
           records' \in [Requests -> {"none", "running", "stopped"}],
           DInv'
    PROVE  StoreInv'
<1>1. Begins(r, op, s, pc) /\ requests[r].pc = "idle"
      BY BeginBegins DEF StoreInv, Begin
<1>2. requests' \in [Requests -> RequestRecords]
      BY <1>1 DEF Begins
<1>3. StoreTypeOK'
      BY <1>2 DEF StoreInv, StoreTypeOK, RequestRecords
<1>4. RequestsShape'
      BY <1>1, BeginsKeepShape DEF StoreInv
<1>5. HInv'
  <2>1. Lengthened(writes, writes', {}) /\ Lengthened(tasks, tasks', {})
        BY Unchanged DEF StoreInv, StoreTypeOK
  <2>2. Changes(r)
        BY <1>1, BeginsChanges
  <2>3. requests'[r] = [op |-> op, strategy |-> s, pc |-> pc, config |-> Absent]
        BY <1>1 DEF Begins
  <2>4. ~ Does(r, "create", "snapshot")' /\ ~ Answered(r)' /\ requests'[r].config = Absent
        BY <2>3 DEF Does, Answered
  <2>5. \A x \in Strategies : configs'[x] = configs[x]
        OBVIOUS
  <2>6. StoreTypeOK /\ RequestsShape /\ HInv
        BY DEF StoreInv
  <2> QED
      BY <1>3, <2>1, <2>2, <2>4, <2>5, <2>6, HandlerKeeps
<1> QED
    BY <1>3, <1>4, <1>5 DEF StoreInv

LEMMA BeginReadKeeps ==
    ASSUME StoreInv, NEW r \in Requests, NEW op \in Operations, NEW s \in Strategies, BeginRead(r, op, s)
    PROVE  StoreInv'
<1>1. /\ Begin(r, op, s, "reading") /\ s \in known /\ op \in Edits \cup {"get", "deploy", "agentDeploy"}
      /\ op = "deploy" => ~ deployLock
      /\ deployLock' = (deployLock \/ op = "deploy")
      /\ UNCHANGED <<configs, rows, versionRows, deploymentRows, tasks, writes, known, deleted, crashes>>
      /\ UNCHANGED <<runnerSlots, records>>
      BY DEF BeginRead
<1>2. StoreTypeOK /\ RequestsShape /\ DInv
      BY DEF StoreInv
<1>3. Begins(r, op, s, "reading")
      BY <1>1, <1>2, BeginBegins DEF Progress
<1>4. deployLock \in BOOLEAN
      BY <1>2 DEF StoreTypeOK
<1>5. DInv'
  <2>1. CASE op \in Deploys
        BY <1>1, <1>2, <1>3, <2>1, DeployBegins
  <2>2. CASE op \notin Deploys
    <3>1. deployLock' = deployLock
          BY <1>1, <1>4, <2>2 DEF Deploys
    <3> QED
        BY <1>1, <1>2, <1>3, <2>2, <3>1, PlainBegin
  <2> QED
      BY <2>1, <2>2
<1>6. /\ deployLock' \in BOOLEAN /\ runnerSlots' \subseteq Requests
      /\ records' \in [Requests -> {"none", "running", "stopped"}]
      BY <1>1, <1>2, <1>4 DEF StoreTypeOK
<1>7. op \notin {"create", "agentStop", "delete"}
      BY <1>1 DEF Edits
<1> QED
    BY <1>1, <1>5, <1>6, <1>7, BeginKeeps DEF Progress

LEMMA StopTypes ==
    ASSUME StoreTypeOK, NEW s, StopDeployments(s)
    PROVE  /\ runnerSlots' \subseteq Requests
           /\ records' \in [Requests -> {"none", "running", "stopped"}]
BY DEF StoreTypeOK, StopDeployments

LEMMA BeginStopKeeps ==
    ASSUME StoreInv, NEW r \in Requests, NEW s \in Strategies, BeginStop(r, s)
    PROVE  StoreInv'
<1>1. /\ Begin(r, "stop", s, "reading") /\ s \in known /\ StopDeployments(s)
      /\ UNCHANGED <<configs, rows, versionRows, deploymentRows, tasks, writes, known, deleted, crashes>>
      /\ UNCHANGED deployLock
      BY DEF BeginStop
<1>2. StoreTypeOK /\ RequestsShape /\ DInv
      BY DEF StoreInv
<1>3. "stop" \in Operations /\ "reading" \in Progress /\ "stop" \notin Deploys
      BY DEF Operations, Progress, Deploys
<1>4. Begins(r, "stop", s, "reading")
      BY <1>1, <1>2, <1>3, BeginBegins
<1>5. DInv'
      BY <1>1, <1>2, <1>3, <1>4, PlainBegin
<1>6. deployLock' \in BOOLEAN
      BY <1>1, <1>2 DEF StoreTypeOK
<1>7. runnerSlots' \subseteq Requests /\ records' \in [Requests -> {"none", "running", "stopped"}]
      BY <1>1, <1>2, StopTypes
<1> QED
    BY <1>1, <1>3, <1>5, <1>6, <1>7, BeginKeeps

LEMMA AgentStopKeeps ==
    ASSUME StoreInv, NEW r \in Requests, NEW s \in Strategies, AgentStop(r, s)
    PROVE  StoreInv'
<1>1. /\ Begin(r, "agentStop", s, "done") /\ s \in known /\ StopDeployments(s)
      /\ UNCHANGED <<configs, rows, versionRows, deploymentRows, tasks, writes, known, deleted, crashes>>
      /\ UNCHANGED deployLock
      BY DEF AgentStop
<1>2. StoreTypeOK /\ RequestsShape /\ DInv
      BY DEF StoreInv
<1>3. "agentStop" \in Operations /\ "done" \in Progress /\ "agentStop" \notin Deploys
      BY DEF Operations, Progress, Deploys
<1>4. Begins(r, "agentStop", s, "done")
      BY <1>1, <1>2, <1>3, BeginBegins
<1>5. DInv'
      BY <1>1, <1>2, <1>3, <1>4, PlainBegin
<1>6. deployLock' \in BOOLEAN
      BY <1>1, <1>2 DEF StoreTypeOK
<1>7. runnerSlots' \subseteq Requests /\ records' \in [Requests -> {"none", "running", "stopped"}]
      BY <1>1, <1>2, StopTypes
<1> QED
    BY <1>1, <1>3, <1>5, <1>6, <1>7, BeginKeeps

LEMMA DeleteKeeps ==
    ASSUME StoreInv, NEW r \in Requests, NEW s \in Strategies, Delete(r, s)
    PROVE  StoreInv'
<1> DEFINE write == Write("delete", s, Absent, r)
<1>1. /\ Begin(r, "delete", s, "done") /\ s \in known
      /\ configs' = [configs EXCEPT ![s] = Absent]
      /\ tasks' = Append(tasks, write) /\ deleted' = deleted \cup {s}
      /\ UNCHANGED <<rows, versionRows, deploymentRows, known, crashes>>
      /\ UNCHANGED <<writes, runnerSlots, records, deployLock>>
      BY DEF Delete
<1>2. StoreTypeOK /\ RequestsShape /\ DInv /\ HInv
      BY DEF StoreInv
<1>3. "delete" \in Operations /\ "done" \in Progress /\ "delete" \notin Deploys
      BY DEF Operations, Progress, Deploys
<1>4. Begins(r, "delete", s, "done")
      BY <1>1, <1>2, <1>3, BeginBegins
<1>5. requests'[r] = [op |-> "delete", strategy |-> s, pc |-> "done", config |-> Absent]
      BY <1>4 DEF Begins
<1>6. write \in Writes /\ WriteShape(requests', deleted', write) /\ write.kind = "delete"
      BY <1>1, <1>5 DEF Write, Writes, WriteShape
<1> HIDE DEF write
<1>7. tasks' \in Seq(Writes) /\ Lengthened(tasks, tasks', {write}) /\ Lengthened(writes, writes', {})
      BY <1>1, <1>2, <1>6, Appended, Unchanged DEF StoreTypeOK
<1>8. StoreTypeOK'
  <2>1. requests' \in [Requests -> RequestRecords]
        BY <1>4 DEF Begins
  <2> QED
      BY <1>1, <1>2, <1>7, <2>1 DEF StoreTypeOK, RequestRecords
<1>9. RequestsShape'
      BY <1>1, <1>2, <1>3, <1>4, BeginsKeepShape
<1>10. DInv'
      BY <1>1, <1>2, <1>3, <1>4, PlainBegin
<1>11. HInv'
  <2>1. Changes(r)
        BY <1>4, BeginsChanges
  <2>2. ~ Does(r, "create", "snapshot")' /\ ~ Answered(r)' /\ requests'[r].config = Absent
        BY <1>5 DEF Does, Answered
  <2>3. \A x \in Strategies : configs'[x] # Absent => configs'[x] = configs[x]
        BY <1>1, <1>2 DEF StoreTypeOK
  <2>4. deleted \subseteq deleted' /\ {write} \in SUBSET Writes /\ {} \in SUBSET Writes
        BY <1>1, <1>6
  <2> QED
      BY <1>1, <1>2, <1>6, <1>7, <1>8, <2>1, <2>2, <2>3, <2>4, HandlerKeeps
<1> QED
    BY <1>8, <1>9, <1>10, <1>11 DEF StoreInv

LEMMA CreateKeeps ==
    ASSUME StoreInv, NEW r \in Requests, NEW s \in Strategies, Create(r, s)
    PROVE  StoreInv'
<1> DEFINE saves == Write("save", s, NewConfig, r)
           snapshots == Write("snapshot", s, NewConfig, r)
<1>1. /\ Begin(r, "create", s, "snapshot") /\ s \notin known
      /\ configs' = [configs EXCEPT ![s] = NewConfig]
      /\ tasks' = Append(tasks, saves) /\ writes' = Append(writes, snapshots)
      /\ UNCHANGED <<rows, versionRows, deploymentRows, known, deleted, crashes>>
      /\ UNCHANGED <<runnerSlots, records, deployLock>>
      BY DEF Create
<1>2. StoreTypeOK /\ RequestsShape /\ DInv /\ HInv
      BY DEF StoreInv
<1>3. "create" \in Operations /\ "snapshot" \in Progress /\ "create" \notin Deploys /\ "create" \notin Edits
      BY DEF Operations, Progress, Deploys, Edits
<1>4. Begins(r, "create", s, "snapshot")
      BY <1>1, <1>2, <1>3, BeginBegins
<1>5. requests'[r] = [op |-> "create", strategy |-> s, pc |-> "snapshot", config |-> Absent]
      BY <1>4 DEF Begins
<1>6. NewConfig \in Configs /\ NewConfig # Absent /\ HoldsEdits(requests', NewConfig)
      BY StoreAssumption DEF NewConfig, Configs, HoldsEdits
<1>7. /\ saves \in Writes /\ WriteShape(requests', deleted', saves) /\ saves.kind = "save"
      /\ snapshots \in Writes /\ WriteShape(requests', deleted', snapshots)
      /\ SaveOf(saves, s) /\ snapshots.by = r
      BY <1>5, <1>6 DEF Write, Writes, WriteShape, SaveOf
<1> HIDE DEF saves, snapshots
<1>8. /\ tasks' \in Seq(Writes) /\ Lengthened(tasks, tasks', {saves})
      /\ writes' \in Seq(Writes) /\ Lengthened(writes, writes', {snapshots})
      BY <1>1, <1>2, <1>7, Appended DEF StoreTypeOK
<1>9. StoreTypeOK'
  <2>1. requests' \in [Requests -> RequestRecords]
        BY <1>4 DEF Begins
  <2>2. configs' \in [Strategies -> Configs \cup {Absent}]
        BY <1>1, <1>2, <1>6 DEF StoreTypeOK
  <2> QED
      BY <1>1, <1>2, <1>8, <2>1, <2>2 DEF StoreTypeOK, RequestRecords
<1>10. RequestsShape'
      BY <1>1, <1>2, <1>3, <1>4, BeginsKeepShape
<1>11. DInv'
      BY <1>1, <1>2, <1>3, <1>4, PlainBegin
<1>12. HInv'
  <2>1. Changes(r)
        BY <1>4, BeginsChanges
  <2>2. ~ Answered(r)' /\ requests'[r].config = Absent /\ requests'[r].op \notin Edits
        BY <1>3, <1>5 DEF Answered
  <2>3. \A x \in Strategies : configs'[x] # Absent =>
           \/ configs'[x] = configs[x]
           \/ HoldsEdits(requests', configs'[x]) /\ (x \in known \ deleted => Saved(rows, writes, x))
        BY <1>1, <1>2, <1>6 DEF StoreTypeOK
  <2>4. \E n \in 1..Len(tasks') : SaveOf(tasks'[n], requests'[r].strategy)
    <3>1. Len(tasks') \in 1..Len(tasks') /\ tasks'[Len(tasks')] = saves
          BY <1>1, <1>2, <1>7 DEF StoreTypeOK
    <3> QED
        BY <1>5, <1>7, <3>1
  <2>5. \A w \in {snapshots} : requests'[w.by].op \notin Edits
        BY <1>7, <2>2
  <2>6. deleted \subseteq deleted' /\ {saves} \in SUBSET Writes /\ {snapshots} \in SUBSET Writes
        BY <1>1, <1>7
  <2>7. UNCHANGED <<rows, versionRows, known>>
        BY <1>1
  <2>8. /\ \A w \in {snapshots} : WriteShape(requests', deleted', w)
        /\ \A w \in {saves} : WriteShape(requests', deleted', w) /\ w.kind # "snapshot"
        /\ \A w \in {snapshots} : w.kind = "snapshot" /\ requests'[w.by].op \in Edits /\ w.strategy \notin deleted
                                     => Saved(rows, writes, w.strategy)
        BY <1>7, <2>5
  <2> QED
      BY <1>2, <1>8, <1>9, <2>1, <2>2, <2>3, <2>4, <2>6, <2>7, <2>8, HandlerKeeps
<1> QED
    BY <1>9, <1>10, <1>11, <1>12 DEF StoreInv

-------------------------------------------------------------------------------
(* The queue of writes *)

LEMMA StartTaskKeeps ==
    ASSUME StoreInv, StartTask
    PROVE  StoreInv'
<1> DEFINE w == Head(tasks)
<1>1. /\ tasks' = Tail(tasks) /\ writes' = Append(writes, w) /\ tasks # <<>>
      /\ UNCHANGED <<configs, rows, versionRows, deploymentRows, requests, runnerSlots, records>>
      /\ UNCHANGED <<deployLock, known, deleted, crashes>>
      BY DEF StartTask
<1>2. StoreTypeOK /\ RequestsShape /\ DInv /\ HInv
      BY DEF StoreInv
<1>3. tasks \in Seq(Writes) /\ writes \in Seq(Writes)
      BY <1>2 DEF StoreTypeOK
<1>4. w = tasks[1] /\ 1 \in 1..Len(tasks) /\ w \in Writes
      BY <1>1, <1>3
<1>5. /\ Len(writes') = Len(writes) + 1 /\ writes'[Len(writes) + 1] = w
      /\ \A n \in 1..Len(writes) : writes'[n] = writes[n]
      /\ Len(writes) \in Nat /\ writes' \in Seq(Writes)
      BY <1>1, <1>3, <1>4
<1>6. /\ Len(tasks') = Len(tasks) - 1 /\ Len(tasks) \in Nat /\ tasks' \in Seq(Writes)
      /\ \A n \in 1..Len(tasks') : n + 1 \in 1..Len(tasks) /\ tasks'[n] = tasks[n + 1]
      BY <1>1, <1>3
<1> HIDE DEF w
<1>7. StoreTypeOK'
      BY <1>1, <1>2, <1>5, <1>6 DEF StoreTypeOK
<1>8. RequestsShape' /\ DInv'
      BY <1>1, <1>2 DEF RequestsShape, Shape, DInv, SlotsShape, RecordsShape, OneUnderLock, UnderLock,
                        WarmsAlone, DeploymentsAreRecorded, RecordedAsRunning, Does, Of
<1>9. \A s : Saved(rows, writes, s) => Saved(rows', writes', s)
      BY <1>1, <1>5 DEF Saved
<1>10. WritesShape'
  <2>1. WriteShape(requests, deleted, w) /\ w.kind # "snapshot"
        BY <1>2, <1>4 DEF HInv, WritesShape
  <2>2. \A n \in 1..Len(writes') : WriteShape(requests, deleted, writes'[n])
        BY <1>2, <1>5, <2>1 DEF HInv, WritesShape
  <2>3. \A n \in 1..Len(tasks') : WriteShape(requests, deleted, tasks'[n]) /\ tasks'[n].kind # "snapshot"
        BY <1>2, <1>6 DEF HInv, WritesShape
  <2> QED
      BY <1>1, <2>2, <2>3 DEF WritesShape
<1>11. ConfigsHoldEdits'
      BY <1>1, <1>2 DEF HInv, ConfigsHoldEdits
<1>12. KnownIsSaved'
      BY <1>1, <1>2, <1>9 DEF HInv, KnownIsSaved, Of
<1>13. CreationsAreSaved'
  <2> SUFFICES ASSUME NEW q \in Requests, Does(q, "create", "snapshot"), Of(q) \notin deleted
               PROVE  \/ Saved(rows', writes', Of(q))
                      \/ \E n \in 1..Len(tasks') : SaveOf(tasks'[n], Of(q))
      BY <1>1 DEF CreationsAreSaved, Of, Does
  <2>1. CASE Saved(rows, writes, Of(q))
        BY <1>9, <2>1
  <2>2. CASE \E n \in 1..Len(tasks) : SaveOf(tasks[n], Of(q))
    <3>1. PICK n \in 1..Len(tasks) : SaveOf(tasks[n], Of(q))
          BY <2>2
    <3>2. CASE n = 1
          BY <1>4, <1>5, <3>1, <3>2 DEF Saved
    <3>3. CASE n # 1
      <4>1. n - 1 \in 1..Len(tasks') /\ tasks'[n - 1] = tasks[n]
            BY <1>6, <3>3
      <4> QED
          BY <3>1, <4>1
    <3> QED
        BY <3>2, <3>3
  <2> QED
      BY <1>2, <2>1, <2>2 DEF HInv, CreationsAreSaved
<1>14. SnapshotsComeAfter'
  <2> SUFFICES ASSUME NEW n \in 1..Len(writes'), writes'[n].kind = "snapshot",
                      requests[writes'[n].by].op \in Edits, writes'[n].strategy \notin deleted
               PROVE  \/ rows[writes'[n].strategy] # Absent
                      \/ \E m \in 1..(n - 1) : SaveOf(writes'[m], writes'[n].strategy)
      BY <1>1 DEF SnapshotsComeAfter
  <2>1. n \in 1..Len(writes) /\ writes'[n] = writes[n]
    <3>1. w.kind # "snapshot"
          BY <1>2, <1>4 DEF HInv, WritesShape
    <3> QED
        BY <1>5, <3>1
  <2>2. \A m \in 1..(n - 1) : writes'[m] = writes[m]
        BY <1>5, <2>1
  <2> QED
      BY <1>2, <2>1, <2>2 DEF HInv, SnapshotsComeAfter
<1>15. AnsweredEditsAreInHistory'
      BY <1>1, <1>2 DEF HInv, AnsweredEditsAreInHistory, Answered, Of
<1> QED
    BY <1>7, <1>8, <1>10, <1>11, <1>12, <1>13, <1>14, <1>15 DEF StoreInv, HInv

\* What the commit of any write does to requests and deployments.
LEMMA CommitWakes ==
    ASSUME StoreInv, NEW kind, Commit(kind), NEW w, w = Head(writes)
    PROVE  /\ tasks = <<>> /\ writes # <<>> /\ writes' = Tail(writes) /\ w.kind = kind
           /\ w \in Writes /\ WriteShape(requests, deleted, w) /\ w.by \in Requests
           /\ UNCHANGED <<configs, tasks, runnerSlots, records, deployLock, deleted, crashes>>
           /\ requests' \in [Requests -> RequestRecords]
           /\ Changes(w.by)
           /\ requests'[w.by].config = requests[w.by].config
           /\ \/ UNCHANGED <<requests, known>>
              \/ /\ requests[w.by].pc = kind /\ requests'[w.by].pc = AfterWrite(w.by)
                 /\ known' = IF requests[w.by].op = "create" THEN known \cup {Of(w.by)} ELSE known
           /\ known' \in SUBSET Strategies /\ known \subseteq known'
           /\ RequestsShape' /\ DInv'
<1>1. /\ tasks = <<>> /\ writes # <<>> /\ writes' = Tail(writes) /\ w.kind = kind
      /\ UNCHANGED <<configs, tasks, runnerSlots, records, deployLock, deleted, crashes>>
      BY DEF Commit, LoopHasTurned
<1>2. StoreTypeOK /\ RequestsShape /\ DInv /\ HInv
      BY DEF StoreInv
<1>3. w \in Writes /\ WriteShape(requests, deleted, w)
  <2>1. writes \in Seq(Writes)
        BY <1>2 DEF StoreTypeOK
  <2>2. w = writes[1] /\ 1 \in 1..Len(writes) /\ writes[1] \in Writes
        BY <1>1, <2>1
  <2> QED
      BY <1>2, <2>2 DEF HInv, WritesShape
<1>4. w.by \in Requests /\ requests[w.by].pc # "idle" /\ requests \in [Requests -> RequestRecords]
      BY <1>2, <1>3 DEF Writes, WriteShape, StoreTypeOK, RequestRecords
<1>5. CASE requests[w.by].pc # kind
  <2>1. UNCHANGED <<requests, known>>
        BY <1>5 DEF Commit
  <2>2. requests' = requests /\ known' = known
        BY <2>1
  <2>3. RequestsShape' /\ DInv'
        BY <1>1, <1>2, <2>2 DEF RequestsShape, Shape, DInv, SlotsShape, RecordsShape, OneUnderLock, UnderLock,
                          WarmsAlone, DeploymentsAreRecorded, RecordedAsRunning, Does, Of
  <2>4. Changes(w.by)
        BY <1>4, <2>2 DEF Changes
  <2> QED
      BY <1>1, <1>2, <1>3, <1>4, <2>2, <2>3, <2>4 DEF StoreTypeOK
<1>6. CASE requests[w.by].pc = kind
  <2> DEFINE r == w.by
             next == AfterWrite(w.by)
  <2>1. /\ requests' = [requests EXCEPT ![r].pc = next]
        /\ known' = IF requests[r].op = "create" THEN known \cup {Of(r)} ELSE known
        BY <1>6 DEF Commit, Advance
  <2>2. kind \in {"save", "snapshot", "deployment", "delete"} /\ r \in Requests
        BY <1>1, <1>3, <1>4 DEF Writes
  <2>3. requests[r].config \in Configs \cup {Absent} /\ requests[r].op \in Operations \cup {"none"}
        BY <1>4 DEF RequestRecords
  <2>4. next \in {"saved", "done"}
        BY DEF AfterWrite
  <2>5. Shape(requests[r])
        BY <1>2, <2>2 DEF RequestsShape
  <2>6. /\ \/ requests[r].op \in {"create", "update", "confirm"} /\ kind = "snapshot" /\ next = "done"
           \/ requests[r].op = "agentSave" /\ kind = "save" /\ next = "saved"
           \/ requests[r].op = "agentSave" /\ kind = "snapshot" /\ next = "done"
    <3>1. kind \notin {"deployment", "delete"}
          BY <1>4, <1>6 DEF RequestRecords, Progress
    <3> QED
        BY <1>6, <2>2, <2>3, <2>5, <3>1 DEF Shape, AfterWrite, Operations, Edits, Deploys
  <2> HIDE DEF next
  <2>7. Moves(r, next, requests[r].config)
    <3>1. next \in Progress
          BY <2>4 DEF Progress
    <3> QED
        BY <1>2, <2>1, <2>2, <2>3, <3>1, AdvanceMoves
  <2>8. next = "saved" => requests[r].config # Absent
        BY <1>6, <2>5, <2>6 DEF Shape
  <2>9. requests[r].pc # "idle" /\ next # "idle" /\ requests[r].op # "none"
        BY <1>4, <2>4, <2>6
  <2>10. known' \in SUBSET Strategies /\ known \subseteq known'
    <3>1. Of(r) \in Strategies /\ known \subseteq Strategies
          BY <1>2, <2>5, <2>9 DEF Shape, Of, StoreTypeOK
    <3> QED
        BY <2>1, <3>1
  <2>11. Changes(r) /\ requests'[r].pc = next /\ requests'[r].config = requests[r].config
        BY <2>2, <2>7, <2>9, MovesChanges DEF Moves
  <2>12. RequestsShape'
        BY <1>2, <2>2, <2>4, <2>6, <2>7, <2>8, <2>9, <2>10, MovesKeepShape DEF Deploys
  <2>13. DInv'
    <3>1. requests[r].op \notin Deploys
          BY <1>6, <2>6 DEF Deploys
    <3>2. UNCHANGED <<runnerSlots, records>> /\ deployLock' = deployLock /\ deployLock' \in BOOLEAN
          BY <1>1, <1>2 DEF StoreTypeOK
    <3> QED
        BY <1>2, <2>2, <2>7, <3>1, <3>2, PlainMove
  <2>14. requests' \in [Requests -> RequestRecords]
        BY <2>7 DEF Moves
  <2> QED
      BY <1>1, <1>3, <1>4, <1>6, <2>1, <2>10, <2>11, <2>12, <2>13, <2>14 DEF next
<1> QED
    BY <1>5, <1>6

\* A commit that keeps the rows of strategies not deleted keeps the history.
LEMMA CommitKeeps ==
    ASSUME StoreInv, NEW kind, Commit(kind), NEW w, w = Head(writes),
           rows' \in [Strategies -> Configs \cup {Absent}],
           versionRows' \subseteq [strategy: Strategies, version: Nat, by: Requests],
           deploymentRows' \subseteq [strategy: Strategies, by: Requests],
           \A s \in Strategies : rows'[s] # Absent => HoldsEdits(requests, rows'[s]),
           \A s \in Strategies \ deleted : rows[s] # Absent \/ SaveOf(w, s) => rows'[s] # Absent,
           \A v \in versionRows : v.strategy \notin deleted => v \in versionRows',
           /\ w.kind = "snapshot" /\ requests[w.by].op \in Edits /\ w.strategy \notin deleted
           /\ rows[w.strategy] # Absent
           => \E v \in versionRows' : v.strategy = w.strategy /\ v.by = w.by
    PROVE  StoreInv'
<1> DEFINE r == w.by
<1>1. /\ tasks = <<>> /\ writes # <<>> /\ writes' = Tail(writes) /\ w.kind = kind
      /\ w \in Writes /\ WriteShape(requests, deleted, w) /\ r \in Requests
      /\ configs' = configs /\ tasks' = tasks /\ deleted' = deleted
      /\ UNCHANGED <<runnerSlots, records, deployLock, crashes>>
      /\ requests' \in [Requests -> RequestRecords]
      /\ Changes(r)
      /\ requests'[r].config = requests[r].config
      /\ \/ UNCHANGED <<requests, known>>
         \/ /\ requests[r].pc = kind /\ requests'[r].pc = AfterWrite(r)
            /\ known' = IF requests[r].op = "create" THEN known \cup {Of(r)} ELSE known
      /\ known' \in SUBSET Strategies /\ known \subseteq known'
      /\ RequestsShape' /\ DInv'
      BY CommitWakes
<1>2. StoreTypeOK /\ RequestsShape /\ HInv
      BY DEF StoreInv
<1>3. /\ Len(writes) \in Nat /\ writes[1] = w /\ 1 \in 1..Len(writes)
      /\ writes' \in Seq(Writes) /\ Len(writes') = Len(writes) - 1
      /\ \A n \in 1..Len(writes') : n + 1 \in 1..Len(writes) /\ writes'[n] = writes[n + 1]
      /\ Len(tasks) = 0
  <2>1. writes \in Seq(Writes)
        BY <1>2 DEF StoreTypeOK
  <2> QED
      BY <1>1, <2>1
<1>4. StoreTypeOK'
      BY <1>1, <1>2, <1>3 DEF StoreTypeOK, RequestRecords
<1>5. /\ \A q \in Requests : requests[q].pc # "idle" =>
            /\ requests'[q].pc # "idle" /\ requests'[q].op = requests[q].op
            /\ requests'[q].strategy = requests[q].strategy
      /\ \A c \in Configs : HoldsEdits(requests, c) => HoldsEdits(requests', c)
      /\ \A x \in Writes : WriteShape(requests, deleted, x) => WriteShape(requests', deleted', x)
      BY <1>1, <1>2, ChangesKeep
<1>6. \A q \in Requests : /\ requests'[q].config = requests[q].config
                          /\ requests'[q].op = requests[q].op /\ requests'[q].strategy = requests[q].strategy
                          /\ q # r => requests'[q] = requests[q]
      BY <1>1, <1>5 DEF Changes, WriteShape
<1>7. \A s \in Strategies \ deleted : Saved(rows, writes, s) => Saved(rows', writes', s)
  <2> SUFFICES ASSUME NEW s \in Strategies \ deleted, rows[s] = Absent,
                      NEW n \in 1..Len(writes), SaveOf(writes[n], s)
               PROVE  Saved(rows', writes', s)
      BY DEF Saved
  <2>1. CASE n = 1
        BY <1>3, <2>1 DEF Saved
  <2>2. CASE n # 1
    <3>1. n - 1 \in 1..Len(writes') /\ writes'[n - 1] = writes[n]
          BY <1>3, <2>2
    <3> QED
        BY <3>1 DEF Saved
  <2> QED
      BY <2>1, <2>2
<1>8. WritesShape'
  <2>1. \A n \in 1..Len(writes') : WriteShape(requests', deleted', writes'[n])
    <3> SUFFICES ASSUME NEW n \in 1..Len(writes')
                 PROVE  WriteShape(requests', deleted', writes'[n])
        OBVIOUS
    <3>1. writes'[n] \in Writes /\ n + 1 \in 1..Len(writes) /\ writes'[n] = writes[n + 1]
          BY <1>3
    <3>2. WriteShape(requests, deleted, writes[n + 1])
          BY <1>2, <3>1 DEF HInv, WritesShape
    <3> QED
        BY <1>5, <3>1, <3>2
  <2>2. \A n \in 1..Len(tasks') : FALSE
        BY <1>1, <1>3
  <2> QED
      BY <2>1, <2>2 DEF WritesShape
<1>9. ConfigsHoldEdits'
  <2>1. \A s \in Strategies : configs[s] \in Configs \cup {Absent} /\ rows'[s] \in Configs \cup {Absent}
        BY <1>2 DEF StoreTypeOK
  <2>2. \A s \in Strategies : configs'[s] # Absent => HoldsEdits(requests', configs'[s])
        BY <1>1, <1>2, <1>5, <2>1 DEF HInv, ConfigsHoldEdits
  <2>3. \A s \in Strategies : rows'[s] # Absent => HoldsEdits(requests', rows'[s])
        BY <1>5, <2>1
  <2>4. \A q \in Requests : requests'[q].config # Absent => HoldsEdits(requests', requests'[q].config)
        BY <1>2, <1>5, <1>6 DEF HInv, ConfigsHoldEdits, StoreTypeOK
  <2> QED
      BY <2>2, <2>3, <2>4 DEF ConfigsHoldEdits
<1>10. kind \in {"save", "snapshot", "deployment", "delete"}
       /\ \A q \in Requests : requests'[q].pc \notin {"idle", "done", "gone"} =>
             requests[q].pc \notin {"idle", "done", "gone"}
  <2>1. kind \in {"save", "snapshot", "deployment", "delete"}
        BY <1>1 DEF Writes
  <2>2. requests'[r].pc = requests[r].pc \/ requests[r].pc \notin {"idle", "done", "gone"}
        BY <1>1, <2>1
  <2> QED
      BY <1>6, <2>1, <2>2
<1>11. \A q \in Requests : Does(q, "create", "snapshot") /\ Of(q) \notin deleted => Saved(rows, writes, Of(q))
      BY <1>2, <1>3 DEF HInv, CreationsAreSaved
<1>12. \A q \in Requests : requests[q].op # "none" => Of(q) \in Strategies
      BY <1>2 DEF RequestsShape, Shape, Of
<1>13. KnownIsSaved'
  <2>1. ASSUME NEW s \in known' \ deleted', configs'[s] # Absent
        PROVE  Saved(rows', writes', s)
    <3>1. s \in Strategies \ deleted
          BY <1>1, <2>1
    <3>2. CASE s \in known
          BY <1>1, <1>2, <1>7, <2>1, <3>1, <3>2 DEF HInv, KnownIsSaved
    <3>3. CASE s \notin known
      <4>1. requests[r].op = "create" /\ s = Of(r) /\ requests[r].pc = kind
            BY <1>1, <2>1, <3>3
      <4>2. Does(r, "create", "snapshot")
            BY <1>1, <1>2, <1>10, <4>1 DEF RequestsShape, Shape, Does
      <4> QED
          BY <1>1, <1>7, <1>11, <3>1, <4>1, <4>2
    <3> QED
        BY <3>2, <3>3
  <2>2. ASSUME NEW q \in Requests, requests'[q].strategy \notin deleted', requests'[q].config # Absent,
               requests'[q].pc \notin {"idle", "done", "gone"}
        PROVE  Saved(rows', writes', requests'[q].strategy)
    <3>1. /\ Of(q) \notin deleted /\ requests[q].config # Absent /\ requests'[q].strategy = Of(q)
          /\ requests[q].pc \notin {"idle", "done", "gone"}
          BY <1>1, <1>6, <1>10, <2>2 DEF Of
    <3>2. Saved(rows, writes, Of(q))
          BY <1>2, <3>1 DEF HInv, KnownIsSaved
    <3>3. Of(q) \in Strategies
          BY <1>2, <1>12, <3>1 DEF RequestsShape, Shape
    <3> QED
        BY <1>7, <3>1, <3>2, <3>3
  <2>3. \A s \in known' \ deleted' : configs'[s] # Absent => Saved(rows', writes', s)
        BY <2>1
  <2>4. \A q \in Requests :
           /\ requests'[q].strategy \notin deleted' /\ requests'[q].config # Absent
           /\ requests'[q].pc \notin {"idle", "done", "gone"}
           => Saved(rows', writes', requests'[q].strategy)
        BY <2>2
  <2> QED
      BY <2>3, <2>4 DEF KnownIsSaved, Of
<1>14. CreationsAreSaved'
  <2> SUFFICES ASSUME NEW q \in Requests, Does(q, "create", "snapshot")', requests'[q].strategy \notin deleted'
               PROVE  Saved(rows', writes', requests'[q].strategy)
      BY DEF CreationsAreSaved, Of
  <2>1. requests'[q].pc = requests[q].pc
    <3>1. CASE q = r
      <4>1. AfterWrite(r) # "snapshot"
            BY DEF AfterWrite
      <4> QED
          BY <1>1, <3>1, <4>1 DEF Does
    <3> QED
        BY <1>6, <3>1
  <2>2. Does(q, "create", "snapshot") /\ requests'[q].strategy = Of(q) /\ Of(q) \notin deleted
        BY <1>1, <1>6, <2>1 DEF Does, Of
  <2>3. Of(q) \in Strategies
        BY <1>12, <2>2 DEF Does
  <2> QED
      BY <1>7, <1>11, <2>2, <2>3
<1>15. SnapshotsComeAfter'
  <2> SUFFICES ASSUME NEW n \in 1..Len(writes'), writes'[n].kind = "snapshot",
                      requests'[writes'[n].by].op \in Edits, writes'[n].strategy \notin deleted'
               PROVE  \/ rows'[writes'[n].strategy] # Absent
                      \/ \E m \in 1..(n - 1) : SaveOf(writes'[m], writes'[n].strategy)
      BY DEF SnapshotsComeAfter
  <2>1. n + 1 \in 1..Len(writes) /\ writes'[n] = writes[n + 1] /\ writes[n + 1] \in Writes
        BY <1>2, <1>3 DEF StoreTypeOK
  <2>2. writes[n + 1].by \in Requests /\ writes[n + 1].strategy \in Strategies \ deleted
        BY <1>1, <2>1 DEF Writes
  <2>3. requests[writes[n + 1].by].op \in Edits
        BY <1>6, <2>1, <2>2
  <2>4. \/ rows[writes[n + 1].strategy] # Absent
        \/ \E m \in 1..n : SaveOf(writes[m], writes[n + 1].strategy)
        BY <1>2, <2>1, <2>2, <2>3 DEF HInv, SnapshotsComeAfter
  <2>5. CASE rows[writes[n + 1].strategy] # Absent
        BY <2>1, <2>2, <2>5
  <2>6. CASE \E m \in 1..n : SaveOf(writes[m], writes[n + 1].strategy)
    <3>1. PICK m \in 1..n : SaveOf(writes[m], writes[n + 1].strategy)
          BY <2>6
    <3>2. CASE m = 1
          BY <1>3, <2>1, <2>2, <3>1, <3>2
    <3>3. CASE m # 1
      <4>1. m - 1 \in 1..(n - 1) /\ m - 1 \in 1..Len(writes') /\ writes'[m - 1] = writes[m]
            BY <1>3, <3>3
      <4> QED
          BY <2>1, <3>1, <4>1
    <3> QED
        BY <3>2, <3>3
  <2> QED
      BY <2>4, <2>5, <2>6
<1>16. AnsweredEditsAreInHistory'
  <2> SUFFICES ASSUME NEW q \in Requests, Answered(q)', requests'[q].strategy \notin deleted'
               PROVE  \E v \in versionRows' : v.strategy = requests'[q].strategy /\ v.by = q
      BY DEF AnsweredEditsAreInHistory, Of
  <2>1. requests'[q].strategy = Of(q) /\ Of(q) \notin deleted
        BY <1>1, <1>6 DEF Of
  <2>2. CASE requests'[q].pc = requests[q].pc
    <3>1. Answered(q)
          BY <1>6, <2>2 DEF Answered
    <3>2. PICK v \in versionRows : v.strategy = Of(q) /\ v.by = q
          BY <1>2, <2>1, <3>1 DEF HInv, AnsweredEditsAreInHistory
    <3> QED
        BY <2>1, <3>2
  <2>3. CASE requests'[q].pc # requests[q].pc
    <3>1. q = r /\ requests[r].pc = kind /\ AfterWrite(r) = "done"
          BY <1>1, <1>6, <2>3 DEF Answered
    <3>2. r \in requests[r].config.edits /\ requests[r].config # Absent
          BY <1>6, <3>1 DEF Answered
    <3>3. requests[r].config \in Configs /\ HoldsEdits(requests, requests[r].config)
          BY <1>1, <1>2, <3>2 DEF HInv, ConfigsHoldEdits, StoreTypeOK
    <3>4. requests[r].op \in Edits
          BY <3>2, <3>3 DEF HoldsEdits
    <3>5. kind = "snapshot"
      <4>1. Shape(requests[r])
            BY <1>1, <1>2 DEF RequestsShape
      <4>2. requests[r].op = "agentSave" => kind # "save"
            BY <3>1 DEF AfterWrite
      <4> QED
          BY <1>10, <3>1, <3>4, <4>1, <4>2 DEF Shape, Edits
    <3>6. w.strategy = Of(q) /\ w.strategy \in Strategies \ deleted
          BY <1>1, <2>1, <3>1 DEF WriteShape, Of, Writes
    <3>7. rows[w.strategy] # Absent
      <4>1. \/ rows[writes[1].strategy] # Absent
            \/ \E m \in 1..0 : SaveOf(writes[m], writes[1].strategy)
            BY <1>1, <1>2, <1>3, <3>4, <3>5, <3>6 DEF HInv, SnapshotsComeAfter
      <4> QED
          BY <1>3, <4>1
    <3>8. PICK v \in versionRows' : v.strategy = w.strategy /\ v.by = w.by
          BY <1>1, <3>4, <3>5, <3>6, <3>7
    <3> QED
        BY <2>1, <3>1, <3>6, <3>8
  <2> QED
      BY <2>2, <2>3
<1> QED
    BY <1>1, <1>4, <1>8, <1>9, <1>13, <1>14, <1>15, <1>16 DEF StoreInv, HInv

LEMMA HeadIsWrite ==
    ASSUME StoreInv, writes # <<>>
    PROVE  /\ Head(writes) \in Writes /\ WriteShape(requests, deleted, Head(writes))
           /\ Head(writes).strategy \in Strategies
<1>1. writes \in Seq(Writes)
      BY DEF StoreInv, StoreTypeOK
<1>2. Head(writes) = writes[1] /\ 1 \in 1..Len(writes) /\ writes[1] \in Writes
      BY <1>1
<1> QED
    BY <1>2 DEF StoreInv, HInv, WritesShape, Writes

LEMMA CommitSaveKeeps ==
    ASSUME StoreInv, CommitSave
    PROVE  StoreInv'
<1> DEFINE w == Head(writes)
<1>1. /\ Commit("save") /\ writes # <<>> /\ w.kind = "save"
      /\ rows' = [rows EXCEPT ![w.strategy] = w.config]
      /\ versionRows' = versionRows /\ deploymentRows' = deploymentRows
      BY DEF CommitSave, Commit
<1>2. /\ w \in Writes /\ w.strategy \in Strategies /\ w.config \in Configs
      /\ HoldsEdits(requests, w.config)
  <2>1. w.config # Absent
        BY <1>1, HeadIsWrite DEF WriteShape
  <2> QED
      BY <1>1, <2>1, HeadIsWrite DEF WriteShape, Writes
<1>3. w.config # Absent /\ rows \in [Strategies -> Configs \cup {Absent}]
      BY <1>2, StoreAssumption DEF StoreInv, StoreTypeOK
<1>4. /\ versionRows' \subseteq [strategy: Strategies, version: Nat, by: Requests]
      /\ deploymentRows' \subseteq [strategy: Strategies, by: Requests]
      BY <1>1 DEF StoreInv, StoreTypeOK
<1>5. rows' \in [Strategies -> Configs \cup {Absent}]
      BY <1>1, <1>2, <1>3
<1>6. \A s \in Strategies : rows'[s] # Absent => HoldsEdits(requests, rows'[s])
      BY <1>1, <1>2, <1>3 DEF StoreInv, HInv, ConfigsHoldEdits
<1>7. \A s \in Strategies \ deleted : rows[s] # Absent \/ SaveOf(w, s) => rows'[s] # Absent
      BY <1>1, <1>2, <1>3 DEF SaveOf
<1> QED
    BY <1>1, <1>4, <1>5, <1>6, <1>7, CommitKeeps

LEMMA CommitSnapshotKeeps ==
    ASSUME StoreInv, CommitSnapshot
    PROVE  StoreInv'
<1> DEFINE w == Head(writes)
           row == [strategy |-> w.strategy, version |-> w.config.version, by |-> w.by]
<1>1. /\ Commit("snapshot") /\ writes # <<>> /\ w.kind = "snapshot"
      /\ rows' = rows /\ deploymentRows' = deploymentRows
      /\ versionRows' = IF rows[w.strategy] # Absent THEN versionRows \cup {row} ELSE versionRows
      BY DEF CommitSnapshot, Commit
<1>2. w \in Writes /\ w.strategy \in Strategies /\ w.config \in Configs /\ w.by \in Requests
  <2>1. w.config # Absent
        BY <1>1, HeadIsWrite DEF WriteShape
  <2> QED
      BY <1>1, <2>1, HeadIsWrite DEF WriteShape, Writes
<1>3. row \in [strategy: Strategies, version: Nat, by: Requests]
      BY <1>2 DEF Configs
<1>4. row.strategy = w.strategy /\ row.by = w.by
      OBVIOUS
<1> HIDE DEF w, row
<1>5. StoreTypeOK
      BY DEF StoreInv
<1>6. versionRows' \subseteq [strategy: Strategies, version: Nat, by: Requests]
      BY <1>1, <1>3, <1>5 DEF StoreTypeOK
<1>7. /\ deploymentRows' \subseteq [strategy: Strategies, by: Requests]
      /\ rows' \in [Strategies -> Configs \cup {Absent}]
      BY <1>1, <1>5 DEF StoreTypeOK
<1>8. \A s \in Strategies : rows'[s] # Absent => HoldsEdits(requests, rows'[s])
      BY <1>1 DEF StoreInv, HInv, ConfigsHoldEdits
<1>9. \A s \in Strategies \ deleted : rows[s] # Absent \/ SaveOf(w, s) => rows'[s] # Absent
      BY <1>1 DEF SaveOf
<1>10. \A v \in versionRows : v \in versionRows'
      BY <1>1
<1>11. rows[w.strategy] # Absent => \E v \in versionRows' : v.strategy = w.strategy /\ v.by = w.by
      BY <1>1, <1>4
<1> QED
    BY <1>1, <1>6, <1>7, <1>8, <1>9, <1>10, <1>11, CommitKeeps DEF w

LEMMA CommitDeploymentKeeps ==
    ASSUME StoreInv, CommitDeployment
    PROVE  StoreInv'
<1> DEFINE w == Head(writes)
           row == [strategy |-> w.strategy, by |-> w.by]
<1>1. /\ Commit("deployment") /\ writes # <<>> /\ w.kind = "deployment"
      /\ rows' = rows /\ versionRows' = versionRows
      /\ deploymentRows' \subseteq deploymentRows \cup {row}
      BY DEF CommitDeployment, Commit
<1>2. w \in Writes /\ w.strategy \in Strategies /\ w.by \in Requests
      BY <1>1, HeadIsWrite DEF Writes
<1>3. row \in [strategy: Strategies, by: Requests]
      BY <1>2
<1> HIDE DEF w, row
<1>4. StoreTypeOK
      BY DEF StoreInv
<1>5. /\ deploymentRows' \subseteq [strategy: Strategies, by: Requests]
      /\ versionRows' \subseteq [strategy: Strategies, version: Nat, by: Requests]
      /\ rows' \in [Strategies -> Configs \cup {Absent}]
      BY <1>1, <1>3, <1>4 DEF StoreTypeOK
<1>6. \A s \in Strategies : rows'[s] # Absent => HoldsEdits(requests, rows'[s])
      BY <1>1 DEF StoreInv, HInv, ConfigsHoldEdits
<1>7. \A s \in Strategies \ deleted : rows[s] # Absent \/ SaveOf(w, s) => rows'[s] # Absent
      BY <1>1 DEF SaveOf
<1> QED
    BY <1>1, <1>5, <1>6, <1>7, CommitKeeps DEF w

LEMMA CommitDeleteKeeps ==
    ASSUME StoreInv, CommitDelete
    PROVE  StoreInv'
<1> DEFINE w == Head(writes)
<1>1. /\ Commit("delete") /\ writes # <<>> /\ w.kind = "delete"
      /\ rows' = [rows EXCEPT ![w.strategy] = Absent]
      /\ versionRows' = {v \in versionRows : v.strategy # w.strategy}
      /\ deploymentRows' \subseteq deploymentRows
      BY DEF CommitDelete, Commit
<1>2. w \in Writes /\ w.strategy \in Strategies /\ w.strategy \in deleted
      BY <1>1, HeadIsWrite DEF WriteShape
<1>3. rows \in [Strategies -> Configs \cup {Absent}]
      BY DEF StoreInv, StoreTypeOK
<1>4. /\ deploymentRows' \subseteq [strategy: Strategies, by: Requests]
      /\ versionRows' \subseteq [strategy: Strategies, version: Nat, by: Requests]
      BY <1>1 DEF StoreInv, StoreTypeOK
<1>5. rows' \in [Strategies -> Configs \cup {Absent}]
      BY <1>1, <1>2, <1>3
<1>6. \A s \in Strategies : rows'[s] # Absent => HoldsEdits(requests, rows'[s])
      BY <1>1, <1>2, <1>3 DEF StoreInv, HInv, ConfigsHoldEdits
<1>7. \A s \in Strategies \ deleted : rows[s] # Absent \/ SaveOf(w, s) => rows'[s] # Absent
      BY <1>1, <1>2, <1>3 DEF SaveOf
<1>8. \A v \in versionRows : v.strategy \notin deleted => v \in versionRows'
      BY <1>1, <1>2
<1> QED
    BY <1>1, <1>4, <1>5, <1>6, <1>7, <1>8, CommitKeeps

-------------------------------------------------------------------------------
(* Restarts *)

LEMMA RestartKeeps ==
    ASSUME StoreInv, RestartService
    PROVE  StoreInv'
<1>1. /\ crashes < MaxCrashes /\ crashes' = crashes + 1 /\ configs' = rows
      /\ tasks' = <<>> /\ writes' = <<>>
      /\ requests' = [r \in Requests |-> IF StaysAnswered(r) THEN requests[r]
                                         ELSE [requests[r] EXCEPT !.pc = "gone"]]
      /\ runnerSlots' \subseteq runnerSlots /\ deployLock' = FALSE
      /\ records' = [r \in Requests |-> "none"]
      /\ rows' = rows /\ versionRows' = versionRows /\ deploymentRows' = deploymentRows
      /\ known' = known /\ deleted' = deleted
      BY DEF RestartService
<1>2. StoreTypeOK /\ RequestsShape /\ DInv /\ HInv
      BY DEF StoreInv
<1>3. requests \in [Requests -> RequestRecords]
      BY <1>2 DEF StoreTypeOK, RequestRecords
<1>4. \A r \in Requests :
         /\ requests'[r] \in RequestRecords /\ requests'[r].op = requests[r].op
         /\ requests'[r].strategy = requests[r].strategy /\ requests'[r].config = requests[r].config
         /\ IF StaysAnswered(r) THEN requests'[r].pc = requests[r].pc ELSE requests'[r].pc = "gone"
      BY <1>1, <1>3 DEF RequestRecords, Progress
<1>5. requests' \in [Requests -> RequestRecords]
      BY <1>1, <1>4
<1>6. StoreTypeOK'
  <2>1. crashes' \in 0..MaxCrashes
        BY <1>1, <1>2, StoreAssumption DEF StoreTypeOK
  <2>2. tasks' \in Seq(Writes) /\ writes' \in Seq(Writes)
        BY <1>1
  <2> QED
      BY <1>1, <1>2, <1>5, <2>1, <2>2 DEF StoreTypeOK, RequestRecords
<1>7. RequestsShape'
  <2> SUFFICES ASSUME NEW r \in Requests
               PROVE  Shape(requests[r])'
      BY DEF RequestsShape
  <2>1. Shape(requests[r])
        BY <1>2 DEF RequestsShape
  <2>2. CASE StaysAnswered(r)
        BY <1>1, <1>4, <2>1, <2>2 DEF Shape
  <2>3. CASE ~ StaysAnswered(r)
    <3>1. requests'[r].pc = "gone" /\ requests[r].op # "none"
          BY <1>4, <2>1, <2>3 DEF StaysAnswered, Shape
    <3> QED
        BY <1>1, <1>4, <2>1, <3>1 DEF Shape
  <2> QED
      BY <2>2, <2>3
<1>8. DInv'
  <2>1. \A r \in runnerSlots' : r \in runnerSlots /\ r \in Requests /\ requests'[r].pc = "gone"
    <3>1. \A r \in runnerSlots : ~ StaysAnswered(r)
          BY <1>2 DEF DInv, SlotsShape, StaysAnswered
    <3> QED
        BY <1>1, <1>2, <1>4, <3>1 DEF StoreTypeOK
  <2>2. SlotsShape'
        BY <1>2, <1>4, <2>1 DEF DInv, SlotsShape
  <2>3. \A r \in Requests : records'[r] = "none"
        BY <1>1
  <2>6. RecordsShape' /\ WarmsAlone'
        BY <2>3 DEF RecordsShape, WarmsAlone
  <2>4. OneUnderLock'
    <3>1. \A r \in Requests : requests'[r].pc \in {"idle", "done", "gone"}
          BY <1>4 DEF StaysAnswered
    <3> QED
        BY <3>1 DEF OneUnderLock, UnderLock
  <2>5. DeploymentsAreRecorded'
        BY <2>1, <2>3 DEF DeploymentsAreRecorded, RecordedAsRunning, Does
  <2> QED
      BY <2>2, <2>4, <2>5, <2>6 DEF DInv
<1>9. \A c : HoldsEdits(requests, c) /\ c \in Configs => HoldsEdits(requests', c)
      BY <1>4 DEF HoldsEdits, Configs
<1>10. WritesShape' /\ SnapshotsComeAfter'
      BY <1>1 DEF WritesShape, SnapshotsComeAfter
<1>11. ConfigsHoldEdits'
      BY <1>1, <1>2, <1>4, <1>9 DEF HInv, ConfigsHoldEdits, StoreTypeOK
<1>12. \A r \in Requests : requests'[r].pc \in {"idle", "done", "gone"}
      BY <1>4 DEF StaysAnswered
<1>13. KnownIsSaved' /\ CreationsAreSaved'
      BY <1>1, <1>12 DEF KnownIsSaved, CreationsAreSaved, Saved, Does
<1>14. AnsweredEditsAreInHistory'
  <2>1. \A r \in Requests : Answered(r)' => Answered(r)
        BY <1>4 DEF Answered
  <2> QED
      BY <1>1, <1>2, <1>4, <2>1 DEF HInv, AnsweredEditsAreInHistory, Of
<1> QED
    BY <1>6, <1>7, <1>8, <1>10, <1>11, <1>13, <1>14 DEF StoreInv, HInv

-------------------------------------------------------------------------------
(* The invariant *)

LEMMA StoreInitInv == StoreInit => StoreInv
<1> SUFFICES ASSUME StoreInit
             PROVE  StoreInv
    OBVIOUS
<1>1. PICK old \in SUBSET Strategies :
         configs = [s \in Strategies |-> IF s \in old THEN NewConfig ELSE Absent] /\ known = old
      BY DEF StoreInit
<1>2. /\ rows = configs /\ versionRows = {} /\ deploymentRows = {} /\ tasks = <<>> /\ writes = <<>>
      /\ requests = [r \in Requests |->
                       [op |-> "none", strategy |-> Absent, pc |-> "idle", config |-> Absent]]
      /\ runnerSlots = {} /\ records = [r \in Requests |-> "none"] /\ deployLock = FALSE
      /\ deleted = {} /\ crashes = 0
      BY DEF StoreInit
<1>3. NewConfig \in Configs /\ NewConfig.edits = {} /\ NewConfig # Absent
      BY StoreAssumption DEF NewConfig, Configs
<1>4. configs \in [Strategies -> Configs \cup {Absent}]
      BY <1>1, <1>3
<1>5. \A s \in Strategies : configs[s] \in {NewConfig, Absent}
      BY <1>1
<1>6. StoreTypeOK
  <2>1. requests \in [Requests -> RequestRecords]
        BY <1>2 DEF RequestRecords, Progress
  <2>2. crashes \in 0..MaxCrashes
        BY <1>2, StoreAssumption
  <2>3. tasks \in Seq(Writes) /\ writes \in Seq(Writes)
        BY <1>2
  <2>4. records \in [Requests -> {"none", "running", "stopped"}]
        BY <1>2
  <2> QED
      BY <1>1, <1>2, <1>4, <2>1, <2>2, <2>3, <2>4 DEF StoreTypeOK, RequestRecords
<1>7. \A r \in Requests : /\ requests[r].op = "none" /\ requests[r].pc = "idle"
                          /\ requests[r].config = Absent /\ records[r] = "none"
      BY <1>2
<1>8. RequestsShape /\ DInv
      BY <1>2, <1>7 DEF RequestsShape, Shape, Deploys, DInv, SlotsShape, RecordsShape, OneUnderLock,
                        UnderLock, WarmsAlone, DeploymentsAreRecorded, RecordedAsRunning, Does
<1>9. HoldsEdits(requests, NewConfig)
      BY <1>3 DEF HoldsEdits
<1>10. WritesShape /\ SnapshotsComeAfter
      BY <1>2 DEF WritesShape, SnapshotsComeAfter
<1>11. ConfigsHoldEdits
      BY <1>2, <1>5, <1>7, <1>9 DEF ConfigsHoldEdits
<1>12. KnownIsSaved /\ CreationsAreSaved /\ AnsweredEditsAreInHistory
      BY <1>2, <1>7 DEF KnownIsSaved, Saved, CreationsAreSaved, Does, AnsweredEditsAreInHistory, Answered
<1> QED
    BY <1>6, <1>8, <1>10, <1>11, <1>12 DEF StoreInv, HInv

LEMMA StoreNextInv == StoreInv /\ [StoreNext]_storeVars => StoreInv'
<1> SUFFICES ASSUME StoreInv, [StoreNext]_storeVars
             PROVE  StoreInv'
    OBVIOUS
<1>1. CASE UNCHANGED storeVars
      BY <1>1 DEF storeVars, StoreInv, StoreTypeOK, RequestsShape, Shape, DInv, SlotsShape, RecordsShape,
                  OneUnderLock, UnderLock, WarmsAlone, DeploymentsAreRecorded, RecordedAsRunning, HInv,
                  WritesShape,
                  ConfigsHoldEdits, KnownIsSaved, CreationsAreSaved, SnapshotsComeAfter,
                  AnsweredEditsAreInHistory, Answered, Does, Of
<1>2. ASSUME NEW r \in Requests, NEW s \in Strategies,
             Create(r, s) \/ BeginStop(r, s) \/ AgentStop(r, s) \/ Delete(r, s)
      PROVE  StoreInv'
      BY <1>2, CreateKeeps, BeginStopKeeps, AgentStopKeeps, DeleteKeeps
<1>3. ASSUME NEW r \in Requests, NEW s \in Strategies, NEW op \in Operations, BeginRead(r, op, s)
      PROVE  StoreInv'
      BY <1>3, BeginReadKeeps
<1>4. ASSUME NEW r \in Requests,
             \/ ReadRow(r) \/ NotFound(r) \/ FinishGet(r) \/ FinishUpdate(r) \/ FinishAgentSave(r)
             \/ AgentSnapshot(r) \/ FinishStop(r)
      PROVE  StoreInv'
      BY <1>4, ReadRowKeeps, NotFoundKeeps, FinishGetKeeps, FinishUpdateKeeps, FinishAgentSaveKeeps,
         AgentSnapshotKeeps, FinishStopKeeps
<1>5. ASSUME NEW r \in Requests,
             \/ RefuseDeploy(r) \/ RunnerDeploys(r) \/ FinishDeploy(r) \/ FinishAgentDeploy(r)
      PROVE  StoreInv'
      BY <1>5, RefuseDeployKeeps, RunnerDeploysKeeps, FinishDeployKeeps, FinishAgentDeployKeeps
<1>6. CASE StartTask \/ CommitSave \/ CommitSnapshot \/ CommitDeployment \/ CommitDelete
      BY <1>6, StartTaskKeeps, CommitSaveKeeps, CommitSnapshotKeeps, CommitDeploymentKeeps,
         CommitDeleteKeeps
<1>7. CASE RestartService
      BY <1>7, RestartKeeps
<1> QED
    BY <1>1, <1>2, <1>3, <1>4, <1>5, <1>6, <1>7 DEF StoreNext

LEMMA StoreHolds == StoreSpec => []StoreInv
BY StoreInitInv, StoreNextInv, PTL DEF StoreSpec

\* Cache, tables, queues, requests and records are what they are declared to be.
THEOREM StoreTypes == StoreSpec => []StoreTypeOK
<1>1. StoreInv => StoreTypeOK
      BY DEF StoreInv
<1> QED
    BY <1>1, StoreHolds, PTL

\* Whatever edits overlap, and whenever the service restarts: the snapshot of an
\* edit that _save_version_snapshot has awaited, and the client has the answer to,
\* is in strategy_versions until the strategy is deleted.
THEOREM AnsweredEditsStay == StoreSpec => []AnsweredEditsAreInHistory
<1>1. StoreInv => AnsweredEditsAreInHistory
      BY DEF StoreInv, HInv
<1> QED
    BY <1>1, StoreHolds, PTL

\* Whatever deploys, stops and agents overlap: a deployment of the endpoint that
\* has a slot and whose request is answered is recorded as running, and no strategy
\* has two running records, as _deploy_lock, the slots and the records keep them
\* apart.  The agent's deployments are recorded nowhere.
THEOREM RunningIsRecorded == StoreSpec => []DeploymentsAreRecorded
<1>1. StoreInv => DeploymentsAreRecorded
      BY DEF StoreInv, DInv
<1> QED
    BY <1>1, StoreHolds, PTL

=============================================================================

------------------------------ MODULE JobQueue ------------------------------
(***************************************************************************)
(* The durable job queue (services/jobs.rs, table jobs) and the workers    *)
(* that drain it (tasks/job_worker.rs).                                    *)
(*                                                                         *)
(* Every SQL statement is one atomic action.  A worker step that spans an  *)
(* await is split at it, so a reap, another worker, a crash or SIGTERM may *)
(* come between a claim, the dispatch, the handler's return and the UPDATE *)
(* that records the outcome.                                               *)
(*                                                                         *)
(* Time.  Locks age in ticks: locked_at < now() - STUCK_LOCK_SECS is       *)
(* lockAge >= LockTicks.  next_run_at <= now() is the flag due, which      *)
(* passes from FALSE to TRUE at an arbitrary later moment.                 *)
(***************************************************************************)
EXTENDS Integers, FiniteSets

CONSTANTS
  NumJobs,       \* rows that are ever inserted, with ids 1..NumJobs
  Workers,       \* worker tasks of all replicas
  BatchSize,     \* BATCH_SIZE of claim_batch
  MaxAttempts,   \* column max_attempts (8 by default)
  AttemptCap,    \* bound: attempts saturates here, above MaxAttempts
  LockTicks,     \* STUCK_LOCK_SECS in ticks
  RunTicks,      \* ticks the handling of one claimed job takes at most
  MaxFaults,     \* bound: crashes, signals and failed statements in a run
  NULL           \* SQL NULL in locked_by

ASSUME JobQueueAssumption ==
  /\ NumJobs \in Nat
  /\ BatchSize \in Nat \ {0}
  /\ MaxAttempts \in Nat \ {0}
  /\ AttemptCap \in Nat /\ AttemptCap > MaxAttempts
  /\ LockTicks \in Nat \ {0}
  /\ RunTicks \in Nat
  /\ MaxFaults \in Nat
  /\ NULL \notin Workers

Jobs     == 1..NumJobs
NoJob    == 0
Statuses == {"absent", "pending", "in_progress", "completed", "dead"}
Terminal == {"completed", "dead"}
Outcomes == {"ok", "terminal", "retry"}
Phases   == {"top", "reap", "claim", "idle", "batch", "run", "report",
             "stopped", "down"}

VARIABLES
  status, attempts, due, lockedBy, lockAge,   \* the jobs table
  phase,      \* where each worker stands in run()
  batch,      \* claimed jobs it has not looked at yet
  job,        \* the job it handles, or NoJob
  seen,       \* the attempts value claim_batch returned, per held job
  outcome,    \* what dispatch returned for job, once it has
  spent,      \* ticks since it took up the job (or claimed the batch)
  signal,     \* its shutdown receiver: no message, unread, read
  returned,   \* history: the outcomes handlers have returned, per job
  faults      \* how many faults have happened

rows     == <<status, attempts, due, lockedBy, lockAge>>
hands    == <<batch, job, seen, outcome, spent>>
vars     == <<rows, phase, hands, signal, returned, faults>>

-----------------------------------------------------------------------------
(* The jobs a worker has claimed and not reported yet. *)
Held(w) == batch[w] \cup ({job[w]} \ {NoJob})

Due == {j \in Jobs : status[j] = "pending" /\ due[j]}

(* ORDER BY id LIMIT BatchSize over the due rows. *)
IsNextBatch(S) ==
  /\ Cardinality(S) = IF Cardinality(Due) < BatchSize THEN Cardinality(Due)
                                                      ELSE BatchSize
  /\ \A j \in S, k \in Due \ S : j < k

Bump(n) == IF n < AttemptCap THEN n + 1 ELSE AttemptCap

(* The outcome UPDATEs.  None of them tests status or locked_by. *)
SetRow(j, st, isDue) ==
  /\ status'   = [status EXCEPT ![j] = st]
  /\ due'      = [due EXCEPT ![j] = isDue]
  /\ lockedBy' = [lockedBy EXCEPT ![j] = NULL]
  /\ lockAge'  = [lockAge EXCEPT ![j] = 0]
  /\ UNCHANGED attempts

Complete(j)  == SetRow(j, "completed", due[j])
FailDead(j)  == SetRow(j, "dead", due[j])

FailRetry(j) == SetRow(j, "pending", FALSE)

Fault == faults < MaxFaults /\ faults' = faults + 1

-----------------------------------------------------------------------------
(* The table on its own: inserts, and the passing of time. *)

Enqueue(j) ==
  /\ status[j] = "absent"
  /\ status' = [status EXCEPT ![j] = "pending"]
  /\ \E now \in BOOLEAN : due' = [due EXCEPT ![j] = now]
  /\ UNCHANGED <<attempts, lockedBy, lockAge, phase, hands, signal, returned,
                 faults>>

Ripen(j) ==
  /\ status[j] = "pending" /\ ~due[j]
  /\ due' = [due EXCEPT ![j] = TRUE]
  /\ UNCHANGED <<status, attempts, lockedBy, lockAge, phase, hands, signal,
                 returned, faults>>

Busy(w) == phase[w] \in {"batch", "run", "report"}

(* One tick passes.  RunTicks bounds the handling of one job, so the tick  *)
(* waits for a worker that has used up its time.                           *)
Tick ==
  /\ \A w \in Workers : Busy(w) => spent[w] < RunTicks
  /\ lockAge' = [j \in Jobs |->
                   IF status[j] = "in_progress" /\ lockAge[j] < LockTicks
                   THEN lockAge[j] + 1 ELSE lockAge[j]]
  /\ spent' = [w \in Workers |-> IF Busy(w) THEN spent[w] + 1 ELSE spent[w]]
  /\ UNCHANGED <<status, attempts, due, lockedBy, phase, batch, job, seen,
                 outcome, signal, returned, faults>>

-----------------------------------------------------------------------------
(* The worker loop. *)

(* Loop top: is_triggered() consumes the message and the loop breaks. *)
StopAtTop(w) ==
  /\ phase[w] = "top" /\ signal[w] = "unread"
  /\ phase' = [phase EXCEPT ![w] = "stopped"]
  /\ signal' = [signal EXCEPT ![w] = "read"]
  /\ UNCHANGED <<rows, hands, returned, faults>>

(* No message: on to the reap, if 120s have passed since the last, or to   *)
(* the claim.                                                              *)
PassTop(w) ==
  /\ phase[w] = "top" /\ signal[w] # "unread"
  /\ \E p \in {"reap", "claim"} : phase' = [phase EXCEPT ![w] = p]
  /\ UNCHANGED <<rows, hands, signal, returned, faults>>

(* Mutants: the reaper takes any row in progress, takes it a tick early,   *)
(* or spares the rows that name an owner.                                  *)
StuckAny   == {j \in Jobs : status[j] = "in_progress"}
StuckEarly == {j \in StuckAny : lockAge[j] + 1 >= LockTicks}
StuckUnowned == {j \in StuckAny : lockAge[j] >= LockTicks /\ lockedBy[j] = NULL}

Stuck == {j \in Jobs : status[j] = "in_progress" /\ lockAge[j] >= LockTicks}

ReapStuck(w) ==
  /\ phase[w] = "reap"
  /\ status'   = [j \in Jobs |-> IF j \in Stuck THEN "pending" ELSE status[j]]
  /\ due'      = [j \in Jobs |-> IF j \in Stuck THEN TRUE ELSE due[j]]
  /\ lockedBy' = [j \in Jobs |-> IF j \in Stuck THEN NULL ELSE lockedBy[j]]
  /\ lockAge'  = [j \in Jobs |-> IF j \in Stuck THEN 0 ELSE lockAge[j]]
  /\ phase' = [phase EXCEPT ![w] = "claim"]
  /\ UNCHANGED <<attempts, hands, signal, returned, faults>>

ClaimBatch(w) ==
  /\ phase[w] = "claim"
  /\ \E S \in SUBSET Due :
       /\ IsNextBatch(S)
       /\ status'   = [j \in Jobs |-> IF j \in S THEN "in_progress"
                                                 ELSE status[j]]
       /\ attempts' = [j \in Jobs |-> IF j \in S THEN Bump(attempts[j])
                                                 ELSE attempts[j]]
       /\ lockedBy' = [j \in Jobs |-> IF j \in S THEN w ELSE lockedBy[j]]
       /\ lockAge'  = [j \in Jobs |-> IF j \in S THEN 0 ELSE lockAge[j]]
       /\ seen'  = [seen EXCEPT ![w] = [j \in Jobs |->
                      IF j \in S THEN Bump(attempts[j]) ELSE 0]]
       /\ batch' = [batch EXCEPT ![w] = S]
       /\ spent' = [spent EXCEPT ![w] = 0]
       /\ phase' = [phase EXCEPT ![w] = IF S = {} THEN "idle" ELSE "batch"]
  /\ UNCHANGED <<due, job, outcome, signal, returned, faults>>

(* claim_batch returned Err: the worker sleeps a poll interval. *)
ClaimFails(w) ==
  /\ phase[w] = "claim" /\ Fault
  /\ phase' = [phase EXCEPT ![w] = "idle"]
  /\ UNCHANGED <<rows, hands, signal, returned>>

(* The poll timer fires, or a notification does.  A lost NOTIFY only       *)
(* delays this, so it needs no action of its own.                          *)
Wake(w) ==
  /\ phase[w] = "idle"
  /\ phase' = [phase EXCEPT ![w] = "top"]
  /\ UNCHANGED <<rows, hands, signal, returned, faults>>

(* shutdown.wait() wins the select!. *)
StopIdle(w) ==
  /\ phase[w] = "idle" /\ signal[w] = "unread"
  /\ phase' = [phase EXCEPT ![w] = "stopped"]
  /\ signal' = [signal EXCEPT ![w] = "read"]
  /\ UNCHANGED <<rows, hands, returned, faults>>

(* The UPDATE's RETURNING promises no order, so any claimed job is next. *)
StartJob(w) ==
  /\ phase[w] = "batch" /\ signal[w] # "unread"
  /\ \E j \in batch[w] :
       /\ job'   = [job EXCEPT ![w] = j]
       /\ batch' = [batch EXCEPT ![w] = @ \ {j}]
  /\ phase' = [phase EXCEPT ![w] = "run"]
  /\ UNCHANGED <<rows, seen, outcome, spent, signal, returned, faults>>

(* dispatch() returns; its writes have happened, the row is not updated. *)
Finish(w) ==
  /\ phase[w] = "run"
  /\ \E o \in Outcomes :
       /\ outcome'  = [outcome EXCEPT ![w] = o]
       /\ returned' = [returned EXCEPT ![job[w]] = @ \cup {o}]
  /\ phase' = [phase EXCEPT ![w] = "report"]
  /\ UNCHANGED <<rows, batch, job, seen, spent, signal, faults>>

(* On to the next job of the batch, or back to the loop top. *)
NextJob(w, rest) ==
  /\ batch' = [batch EXCEPT ![w] = rest]
  /\ job'   = [job EXCEPT ![w] = NoJob]
  /\ spent' = [spent EXCEPT ![w] = 0]
  /\ phase' = [phase EXCEPT ![w] = IF rest = {} THEN "top" ELSE "batch"]
  /\ seen'    = [seen EXCEPT ![w] = [j \in Jobs |->
                   IF j \in rest THEN seen[w][j] ELSE 0]]
  /\ outcome' = [outcome EXCEPT ![w] = "none"]

(* Mutant: the last attempt is never made. *)
ExhaustedEarly(w) == seen[w][job[w]] + 1 >= MaxAttempts

Exhausted(w) == seen[w][job[w]] >= MaxAttempts

Report(w) ==
  /\ phase[w] = "report"
  /\ \/ outcome[w] = "ok" /\ Complete(job[w])
     \/ outcome[w] = "terminal" /\ FailDead(job[w])
     \/ outcome[w] = "retry" /\ Exhausted(w) /\ FailDead(job[w])
     \/ outcome[w] = "retry" /\ ~Exhausted(w) /\ FailRetry(job[w])
  /\ NextJob(w, batch[w])
  /\ UNCHANGED <<signal, returned, faults>>

(* The outcome UPDATE failed; it is logged and the row stays in progress. *)
ReportLost(w) ==
  /\ phase[w] = "report" /\ Fault
  /\ NextJob(w, batch[w])
  /\ UNCHANGED <<rows, signal, returned>>

(* is_triggered() between two jobs of a batch: this job is released, and   *)
(* the message is gone, so the rest of the batch is dispatched.            *)
ReleaseJob(w) ==
  /\ phase[w] = "batch" /\ signal[w] = "unread"
  /\ signal' = [signal EXCEPT ![w] = "read"]
  /\ \E j \in batch[w] :
       /\ NextJob(w, batch[w] \ {j})
       /\ \/ FailRetry(j) /\ UNCHANGED faults
          \/ UNCHANGED rows /\ Fault
  /\ UNCHANGED returned

-----------------------------------------------------------------------------
(* The environment of a worker: SIGTERM, the death of its process, and the *)
(* orchestrator starting a new one.                                        *)

Signal(w) ==
  /\ phase[w] \notin {"stopped", "down"} /\ signal[w] = "none" /\ Fault
  /\ signal' = [signal EXCEPT ![w] = "unread"]
  /\ UNCHANGED <<rows, phase, hands, returned>>

Crash(w) ==
  /\ phase[w] \notin {"stopped", "down"} /\ Fault
  /\ phase' = [phase EXCEPT ![w] = "down"]
  /\ batch' = [batch EXCEPT ![w] = {}]
  /\ job'   = [job EXCEPT ![w] = NoJob]
  /\ spent' = [spent EXCEPT ![w] = 0]
  /\ seen'  = [seen EXCEPT ![w] = [j \in Jobs |-> 0]]
  /\ outcome' = [outcome EXCEPT ![w] = "none"]
  /\ UNCHANGED <<rows, signal, returned>>

Restart(w) ==
  /\ phase[w] \in {"stopped", "down"}
  /\ phase'  = [phase EXCEPT ![w] = "top"]
  /\ signal' = [signal EXCEPT ![w] = "none"]
  /\ UNCHANGED <<rows, hands, returned, faults>>

-----------------------------------------------------------------------------
Init ==
  /\ status   = [j \in Jobs |-> "absent"]
  /\ attempts = [j \in Jobs |-> 0]
  /\ due      = [j \in Jobs |-> FALSE]
  /\ lockedBy = [j \in Jobs |-> NULL]
  /\ lockAge  = [j \in Jobs |-> 0]
  /\ phase    = [w \in Workers |-> "top"]
  /\ batch    = [w \in Workers |-> {}]
  /\ job      = [w \in Workers |-> NoJob]
  /\ seen     = [w \in Workers |-> [j \in Jobs |-> 0]]
  /\ outcome  = [w \in Workers |-> "none"]
  /\ spent    = [w \in Workers |-> 0]
  /\ signal   = [w \in Workers |-> "none"]
  /\ returned = [j \in Jobs |-> {}]
  /\ faults   = 0

(* What a live worker does on its own. *)
WorkerStep(w) ==
  \/ StopAtTop(w) \/ PassTop(w) \/ ReapStuck(w) \/ ClaimBatch(w)
  \/ Wake(w) \/ StopIdle(w) \/ StartJob(w) \/ Finish(w) \/ Report(w)
  \/ ReleaseJob(w)

Next ==
  \/ \E j \in Jobs : Enqueue(j) \/ Ripen(j)
  \/ Tick
  \/ \E w \in Workers :
       \/ WorkerStep(w) \/ ClaimFails(w) \/ ReportLost(w)
       \/ Signal(w) \/ Crash(w) \/ Restart(w)

Spec == Init /\ [][Next]_vars

(* Time passes, a live worker keeps taking steps, reaps every so often,    *)
(* and the orchestrator replaces a worker that is gone.                    *)
Fairness ==
  /\ WF_vars(Tick)
  /\ \A j \in Jobs : WF_vars(Ripen(j))
  /\ \A w \in Workers :
       /\ WF_vars(WorkerStep(w))
       /\ WF_vars(Restart(w))
       /\ SF_vars(phase[w] = "top" /\ PassTop(w) /\ phase'[w] = "reap")

FairSpec == Spec /\ Fairness

-----------------------------------------------------------------------------
(* Type invariant. *)
TypeOK ==
  /\ status   \in [Jobs -> Statuses]
  /\ attempts \in [Jobs -> 0..AttemptCap]
  /\ due      \in [Jobs -> BOOLEAN]
  /\ lockedBy \in [Jobs -> Workers \cup {NULL}]
  /\ lockAge  \in [Jobs -> 0..LockTicks]
  /\ phase    \in [Workers -> Phases]
  /\ batch    \in [Workers -> SUBSET Jobs]
  /\ job      \in [Workers -> Jobs \cup {NoJob}]
  /\ seen     \in [Workers -> [Jobs -> 0..AttemptCap]]
  /\ outcome  \in [Workers -> Outcomes \cup {"none"}]
  /\ spent    \in [Workers -> 0..RunTicks]
  /\ signal   \in [Workers -> {"none", "unread", "read"}]
  /\ returned \in [Jobs -> SUBSET Outcomes]
  /\ faults   \in 0..MaxFaults

(* The condition under which the reaper cannot take a job from a live      *)
(* worker: one lock has to outlast a whole batch, handled one by one.      *)
LockOutlivesBatch == BatchSize * RunTicks < LockTicks

(* No two workers process one job at a time: "N replicas drain in parallel *)
(* without double-processing" (migrations/006_jobs.sql).                   *)
Processing(w) == {job[w]} \ {NoJob}
NoDoubleProcessing ==
  \A v, w \in Workers : v # w => Processing(v) \cap Processing(w) = {}

(* Ticks since w claimed its batch, at most. *)
Elapsed(w) == (BatchSize - Cardinality(Held(w))) * RunTicks + spent[w]

(* Every claimed, unreported job is still locked by the worker that holds  *)
(* it: its unconditional outcome UPDATE cannot hit another worker's claim  *)
(* or a settled row.                                                       *)
LeaseHeld ==
  \A w \in Workers : \A j \in Held(w) :
    status[j] = "in_progress" /\ lockedBy[j] = w

(* LeaseHeld made inductive: a held job's lock is no older than its batch, *)
(* and what a worker holds fits where it stands in the loop.               *)
LeaseInv ==
  /\ LeaseHeld
  /\ \A w \in Workers :
       /\ \A j \in Held(w) : lockAge[j] <= Elapsed(w)
       /\ Cardinality(Held(w)) <= BatchSize
       /\ job[w] \notin batch[w]
       /\ job[w] # NoJob <=> phase[w] \in {"run", "report"}
       /\ batch[w] # {} => Busy(w)

(* A job counts as completed only after a handler returned Ok for it, and  *)
(* is dead-lettered only after a terminal error or after MaxAttempts       *)
(* claims, whatever was reaped, stolen or lost in between.                 *)
VerdictsEarned ==
  \A j \in Jobs :
    /\ status[j] = "completed" => "ok" \in returned[j]
    /\ status[j] = "dead" => \/ "terminal" \in returned[j]
                             \/ "retry" \in returned[j]
                                /\ attempts[j] >= MaxAttempts

(* A settled job stays settled (the lifecycle migrations/006_jobs.sql      *)
(* gives: pending, in_progress, then completed, pending again or dead).    *)
SettledStep == \A j \in Jobs : status[j] \in Terminal => status'[j] = status[j]
TerminalIsFinal == [][SettledStep]_vars

(* The queue implements JobLifecycle: as long as one lock outlasts a whole *)
(* batch, claims are exclusive and only the holder settles a job.          *)
HolderOf(j) ==
  IF lockedBy[j] # NULL /\ j \in Held(lockedBy[j]) THEN lockedBy[j] ELSE NULL

Lifecycle == INSTANCE JobLifecycle WITH
  Jobs <- Jobs, holder <- [j \in Jobs |-> HolderOf(j)]

LifecycleSpec == Lifecycle!Spec

(* With finitely many faults every enqueued job is settled for good, even  *)
(* when locks expire under live workers.                                   *)
EventuallySettled ==
  \A j \in Jobs : status[j] = "pending" ~> [](status[j] \in Terminal)
=============================================================================

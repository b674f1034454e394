--------------------------- MODULE JobQueueProofs ---------------------------
(***************************************************************************)
(* Theorems about JobQueue: type correctness, and that while one lock      *)
(* outlasts a batch no job is processed twice at a time, a settled job     *)
(* stays settled and the queue implements JobLifecycle; and that, with or  *)
(* without that condition, every verdict on a job is earned.               *)
(*                                                                         *)
(* The last section is about the workers of one replica at its shutdown    *)
(* (GracefulShutdown).                                                     *)
(***************************************************************************)
EXTENDS JobQueue, GracefulShutdown, FiniteSetTheorems, TLAPS

-----------------------------------------------------------------------------
(* Lemmas about the operators. *)

(* A saturating increment stays within the cap. *)
LEMMA BumpType == \A n \in 0..AttemptCap : Bump(n) \in 0..AttemptCap
  BY JobQueueAssumption DEF Bump

(* An outcome UPDATE writes well-typed columns. *)
LEMMA SetRowType ==
  ASSUME TypeOK, NEW j \in Jobs, NEW st \in Statuses, NEW b \in BOOLEAN,
         SetRow(j, st, b)
  PROVE  /\ status' \in [Jobs -> Statuses] /\ due' \in [Jobs -> BOOLEAN]
         /\ lockedBy' \in [Jobs -> Workers \cup {NULL}]
         /\ lockAge' \in [Jobs -> 0..LockTicks]
         /\ attempts' \in [Jobs -> 0..AttemptCap]
  BY JobQueueAssumption DEF TypeOK, SetRow

(* Moving on to the next job keeps the worker's variables well typed. *)
LEMMA NextJobType ==
  ASSUME TypeOK, NEW w \in Workers, NEW rest \in SUBSET Jobs, NextJob(w, rest)
  PROVE  /\ phase' \in [Workers -> Phases]
         /\ batch' \in [Workers -> SUBSET Jobs]
         /\ job' \in [Workers -> Jobs \cup {NoJob}]
         /\ seen' \in [Workers -> [Jobs -> 0..AttemptCap]]
         /\ outcome' \in [Workers -> Outcomes \cup {"none"}]
         /\ spent' \in [Workers -> 0..RunTicks]
  <1>1. [j \in Jobs |-> IF j \in rest THEN seen[w][j] ELSE 0]
          \in [Jobs -> 0..AttemptCap]
    BY JobQueueAssumption DEF TypeOK
  <1>2. 0 \in 0..RunTicks
    BY JobQueueAssumption
  <1> QED BY <1>1, <1>2 DEF TypeOK, NextJob, Phases

-----------------------------------------------------------------------------
(* Type correctness. *)

LEMMA TypeInit == Init => TypeOK
  BY JobQueueAssumption DEF Init, TypeOK, Statuses, Phases

LEMMA TypeStep == TypeOK /\ [Next]_vars => TypeOK'
<1> SUFFICES ASSUME TypeOK, [Next]_vars PROVE TypeOK'
  OBVIOUS
<1> USE DEF rows, hands, Terminal
<1>1. ASSUME NEW j \in Jobs, Enqueue(j) PROVE TypeOK'
  BY <1>1 DEF TypeOK, Enqueue, Statuses
<1>2. ASSUME NEW j \in Jobs, Ripen(j) PROVE TypeOK'
  BY <1>2 DEF TypeOK, Ripen
<1>3. CASE Tick
  <2>1. lockAge' \in [Jobs -> 0..LockTicks]
    BY <1>3, JobQueueAssumption DEF TypeOK, Tick
  <2>2. spent' \in [Workers -> 0..RunTicks]
    BY <1>3, JobQueueAssumption DEF TypeOK, Tick
  <2> QED BY <1>3, <2>1, <2>2 DEF TypeOK, Tick
<1>4. ASSUME NEW w \in Workers, StopAtTop(w) PROVE TypeOK'
  BY <1>4 DEF TypeOK, StopAtTop, Phases
<1>5. ASSUME NEW w \in Workers, PassTop(w) PROVE TypeOK'
  BY <1>5 DEF TypeOK, PassTop, Phases
<1>6. ASSUME NEW w \in Workers, ReapStuck(w) PROVE TypeOK'
  <2>1. status' \in [Jobs -> Statuses]
    BY <1>6 DEF TypeOK, ReapStuck, Statuses
  <2>2. due' \in [Jobs -> BOOLEAN]
    BY <1>6 DEF TypeOK, ReapStuck
  <2>3. lockedBy' \in [Jobs -> Workers \cup {NULL}]
    BY <1>6 DEF TypeOK, ReapStuck
  <2>4. lockAge' \in [Jobs -> 0..LockTicks]
    BY <1>6, JobQueueAssumption DEF TypeOK, ReapStuck
  <2>5. phase' \in [Workers -> Phases]
    BY <1>6 DEF TypeOK, ReapStuck, Phases
  <2> QED
    BY <1>6, <2>1, <2>2, <2>3, <2>4, <2>5 DEF TypeOK, ReapStuck
<1>7. ASSUME NEW w \in Workers, ClaimBatch(w) PROVE TypeOK'
  <2> PICK S \in SUBSET Due :
        /\ status'   = [j \in Jobs |-> IF j \in S THEN "in_progress"
                                                  ELSE status[j]]
        /\ attempts' = [j \in Jobs |-> IF j \in S THEN Bump(attempts[j])
                                                  ELSE attempts[j]]
        /\ lockedBy' = [j \in Jobs |-> IF j \in S THEN w ELSE lockedBy[j]]
        /\ lockAge'  = [j \in Jobs |-> IF j \in S THEN 0 ELSE lockAge[j]]
        /\ seen'  = [seen EXCEPT ![w] = [j \in Jobs |->
                       IF j \in S THEN Bump(attempts[j]) ELSE 0]]
        /\ batch' = [batch EXCEPT ![w] = S]
        /\ spent' = [spent EXCEPT ![w] = 0]
        /\ phase' = [phase EXCEPT ![w] = IF S = {} THEN "idle" ELSE "batch"]
    BY <1>7 DEF ClaimBatch
  <2>1. S \subseteq Jobs
    BY DEF Due
  <2>2. status' \in [Jobs -> Statuses]
    BY DEF TypeOK, Statuses
  <2>3. /\ attempts' \in [Jobs -> 0..AttemptCap]
        /\ seen' \in [Workers -> [Jobs -> 0..AttemptCap]]
    BY BumpType, JobQueueAssumption DEF TypeOK
  <2>4. lockedBy' \in [Jobs -> Workers \cup {NULL}]
    BY DEF TypeOK
  <2>5. lockAge' \in [Jobs -> 0..LockTicks] /\ spent' \in [Workers -> 0..RunTicks]
    BY JobQueueAssumption DEF TypeOK
  <2>6. batch' \in [Workers -> SUBSET Jobs] /\ phase' \in [Workers -> Phases]
    BY <2>1 DEF TypeOK, Phases
  <2> QED
    BY <1>7, <2>2, <2>3, <2>4, <2>5, <2>6 DEF TypeOK, ClaimBatch
<1>8. ASSUME NEW w \in Workers, ClaimFails(w) PROVE TypeOK'
  BY <1>8, JobQueueAssumption DEF TypeOK, ClaimFails, Fault, Phases
<1>9. ASSUME NEW w \in Workers, Wake(w) PROVE TypeOK'
  BY <1>9 DEF TypeOK, Wake, Phases
<1>10. ASSUME NEW w \in Workers, StopIdle(w) PROVE TypeOK'
  BY <1>10 DEF TypeOK, StopIdle, Phases
<1>11. ASSUME NEW w \in Workers, StartJob(w) PROVE TypeOK'
  BY <1>11 DEF TypeOK, StartJob, Phases
<1>12. ASSUME NEW w \in Workers, Finish(w) PROVE TypeOK'
  <2> PICK o \in Outcomes :
        /\ outcome'  = [outcome EXCEPT ![w] = o]
        /\ returned' = [returned EXCEPT ![job[w]] = @ \cup {o}]
    BY <1>12 DEF Finish
  <2>1. outcome' \in [Workers -> Outcomes \cup {"none"}]
    BY DEF TypeOK
  <2>2. returned' \in [Jobs -> SUBSET Outcomes]
    <3>1. CASE job[w] \in Jobs
      <4>1. returned[job[w]] \cup {o} \in SUBSET Outcomes
        BY <3>1 DEF TypeOK
      <4> QED BY <4>1 DEF TypeOK
    <3>2. CASE job[w] \notin Jobs
      BY <3>2 DEF TypeOK
    <3> QED BY <3>1, <3>2
  <2>3. phase' \in [Workers -> Phases]
    BY <1>12 DEF TypeOK, Finish, Phases
  <2> QED
    BY <1>12, <2>1, <2>2, <2>3 DEF TypeOK, Finish
<1>13. ASSUME NEW w \in Workers, Report(w) PROVE TypeOK'
  <2>1. \E st \in Statuses, b \in {FALSE, due[job[w]]} : SetRow(job[w], st, b)
    BY <1>13 DEF Report, Complete, FailDead, FailRetry, Statuses
  <2>2. PICK st \in Statuses, b \in {FALSE, due[job[w]]} : SetRow(job[w], st, b)
    BY <2>1
  <2>3. CASE job[w] \in Jobs
    <3>1. b \in BOOLEAN
      BY <2>2, <2>3 DEF TypeOK
    <3> QED
      BY <1>13, <2>2, <2>3, <3>1, SetRowType, NextJobType DEF TypeOK, Report
  <2>4. CASE job[w] \notin Jobs
    <3>1. UNCHANGED rows
      BY <2>2, <2>4 DEF SetRow, TypeOK
    <3> QED
      BY <1>13, <3>1, NextJobType DEF TypeOK, Report
  <2> QED BY <2>3, <2>4
<1>14. ASSUME NEW w \in Workers, ReportLost(w) PROVE TypeOK'
  BY <1>14, NextJobType, JobQueueAssumption DEF TypeOK, ReportLost, Fault
<1>15. ASSUME NEW w \in Workers, ReleaseJob(w) PROVE TypeOK'
  <2> PICK j \in batch[w] : /\ NextJob(w, batch[w] \ {j})
                            /\ \/ FailRetry(j) /\ UNCHANGED faults
                               \/ UNCHANGED rows /\ Fault
    BY <1>15 DEF ReleaseJob
  <2>1. j \in Jobs /\ batch[w] \ {j} \in SUBSET Jobs
    BY DEF TypeOK
  <2>2. signal' \in [Workers -> {"none", "unread", "read"}] /\ UNCHANGED returned
    BY <1>15 DEF TypeOK, ReleaseJob
  <2>3. CASE FailRetry(j) /\ UNCHANGED faults
    BY <2>1, <2>2, <2>3, SetRowType, NextJobType DEF TypeOK, FailRetry, Statuses
  <2>4. CASE UNCHANGED rows /\ Fault
    BY <2>1, <2>2, <2>4, NextJobType, JobQueueAssumption DEF TypeOK, Fault
  <2> QED BY <2>3, <2>4
<1>16. ASSUME NEW w \in Workers, Signal(w) PROVE TypeOK'
  BY <1>16, JobQueueAssumption DEF TypeOK, Signal, Fault
<1>17. ASSUME NEW w \in Workers, Crash(w) PROVE TypeOK'
  BY <1>17, JobQueueAssumption DEF TypeOK, Crash, Fault, Phases
<1>18. ASSUME NEW w \in Workers, Restart(w) PROVE TypeOK'
  BY <1>18 DEF TypeOK, Restart, Phases
<1>19. CASE UNCHANGED vars
  BY <1>19 DEF TypeOK, vars
<1> QED
  BY <1>1, <1>2, <1>3, <1>4, <1>5, <1>6, <1>7, <1>8, <1>9, <1>10, <1>11, <1>12,
     <1>13, <1>14, <1>15, <1>16, <1>17, <1>18, <1>19 DEF Next, WorkerStep

(* Every reachable state is well typed. *)
THEOREM TypeCorrect == Spec => []TypeOK
  BY TypeInit, TypeStep, PTL DEF Spec

-----------------------------------------------------------------------------
(* The lease of one worker: LeaseInv, worker by worker. *)

LeaseOf(v) ==
  /\ \A j \in Held(v) : /\ status[j] = "in_progress" /\ lockedBy[j] = v
                        /\ lockAge[j] <= Elapsed(v)
  /\ Cardinality(Held(v)) <= BatchSize
  /\ job[v] \notin batch[v]
  /\ job[v] # NoJob <=> phase[v] \in {"run", "report"}
  /\ batch[v] # {} => Busy(v)

LEMMA LeaseSplit == LeaseInv <=> \A v \in Workers : LeaseOf(v)
  BY DEF LeaseInv, LeaseHeld, LeaseOf

LEMMA HeldFinite ==
  ASSUME TypeOK, NEW v \in Workers
  PROVE  /\ Held(v) \subseteq Jobs
         /\ IsFiniteSet(Held(v))
         /\ Cardinality(Held(v)) \in Nat
         /\ Held(v) # {} => Cardinality(Held(v)) >= 1
<1>1. Held(v) \subseteq Jobs
  BY DEF Held, TypeOK
<1>2. IsFiniteSet(Jobs)
  BY FS_Interval, JobQueueAssumption DEF Jobs
<1>3. IsFiniteSet(Held(v))
  BY <1>1, <1>2, FS_Subset
<1>4. Cardinality(Held(v)) \in Nat
  BY <1>3, FS_CardinalityType
<1>5. Held(v) # {} => Cardinality(Held(v)) # 0
  BY <1>3, FS_EmptySet
<1> QED BY <1>1, <1>3, <1>4, <1>5

(* Two workers' leases are disjoint: a row has one locked_by. *)
LEMMA Disjoint ==
  ASSUME NEW v \in Workers, NEW w \in Workers, v # w, LeaseOf(v), LeaseOf(w)
  PROVE  Held(v) \cap Held(w) = {}
  BY DEF LeaseOf

LEMMA MulMono ==
  ASSUME NEW a \in Int, NEW b \in Int, NEW r \in Nat, a <= b
  PROVE  a * r <= b * r
<1>1. (b - a) * r >= 0
  OBVIOUS
<1>2. (b - a) * r = b * r - a * r
  OBVIOUS
<1> QED BY <1>1, <1>2

(* A held job's lock is younger than the reaper's limit. *)
LEMMA Fresh ==
  ASSUME TypeOK, LockOutlivesBatch, NEW v \in Workers, LeaseOf(v),
         NEW j \in Held(v)
  PROVE  lockAge[j] < LockTicks
<1> DEFINE c == Cardinality(Held(v))
<1>1. c \in Nat /\ c >= 1 /\ j \in Jobs
  BY HeldFinite
<1>2. /\ lockAge[j] \in Int /\ spent[v] \in 0..RunTicks
      /\ BatchSize \in Nat /\ RunTicks \in Nat /\ LockTicks \in Nat
  BY <1>1, JobQueueAssumption DEF TypeOK
<1> HIDE DEF c
<1>3. (BatchSize - c) * RunTicks <= (BatchSize - 1) * RunTicks
  BY <1>1, <1>2, MulMono
<1>4. (BatchSize - 1) * RunTicks = BatchSize * RunTicks - RunTicks
  BY <1>2
<1>5. lockAge[j] <= (BatchSize - c) * RunTicks + spent[v]
  BY DEF LeaseOf, Elapsed, c
<1>6. (BatchSize - c) * RunTicks \in Int /\ BatchSize * RunTicks \in Int
  BY <1>1, <1>2
<1> QED
  BY <1>2, <1>3, <1>4, <1>5, <1>6 DEF LockOutlivesBatch

(* A step that leaves a worker's hands, clock and rows alone keeps its     *)
(* lease, if the worker stays on the same side of a dispatch.              *)
LEMMA Keep ==
  ASSUME NEW v \in Workers, LeaseOf(v),
         batch'[v] = batch[v], job'[v] = job[v], spent'[v] = spent[v],
         phase'[v] \in {"run", "report"} <=> phase[v] \in {"run", "report"},
         Busy(v) => Busy(v)',
         \A j \in Held(v) : /\ status'[j] = status[j]
                            /\ lockedBy'[j] = lockedBy[j]
                            /\ lockAge'[j] = lockAge[j]
  PROVE  LeaseOf(v)'
<1>1. Held(v)' = Held(v)
  BY DEF Held
<1>2. Elapsed(v)' = Elapsed(v)
  BY <1>1 DEF Elapsed
<1> QED BY <1>1, <1>2 DEF LeaseOf

(* Moving on from job j keeps the lease on the rest of the batch: the      *)
(* ticks spent on j are at most RunTicks.                                  *)
LEMMA Advance ==
  ASSUME TypeOK, NEW w \in Workers, LeaseOf(w), NEW j \in Held(w),
         NextJob(w, Held(w) \ {j}),
         \A k \in Held(w) \ {j} : /\ status'[k] = status[k]
                                  /\ lockedBy'[k] = lockedBy[k]
                                  /\ lockAge'[k] = lockAge[k]
  PROVE  LeaseOf(w)'
<1> DEFINE rest == Held(w) \ {j}
           c == Cardinality(Held(w))
<1>1. /\ Held(w) \subseteq Jobs /\ IsFiniteSet(Held(w)) /\ c \in Nat
      /\ NoJob \notin Jobs
  BY HeldFinite, JobQueueAssumption DEF Jobs, NoJob
<1>2. Cardinality(rest) = c - 1
  BY <1>1, FS_RemoveElement
<1>3. /\ batch'[w] = rest /\ job'[w] = NoJob /\ spent'[w] = 0
      /\ phase'[w] = IF rest = {} THEN "top" ELSE "batch"
  BY DEF NextJob, TypeOK
<1>4. Held(w)' = rest
  BY <1>3 DEF Held
<1>5. /\ spent[w] \in 0..RunTicks /\ BatchSize \in Nat /\ RunTicks \in Nat
      /\ \A k \in Held(w) : lockAge[k] \in Int
  BY <1>1, JobQueueAssumption DEF TypeOK
<1>6. Elapsed(w)' = (BatchSize - (c - 1)) * RunTicks + 0
  BY <1>2, <1>3, <1>4 DEF Elapsed
<1>7. Elapsed(w) = (BatchSize - c) * RunTicks + spent[w]
  BY DEF Elapsed
<1> HIDE DEF c
<1>8. (BatchSize - (c - 1)) * RunTicks = (BatchSize - c) * RunTicks + RunTicks
  BY <1>1, <1>5
<1>9. /\ Elapsed(w) <= Elapsed(w)' /\ Elapsed(w) \in Int /\ Elapsed(w)' \in Int
  <2>1. (BatchSize - c) * RunTicks \in Int
    BY <1>1, <1>5
  <2> QED BY <2>1, <1>5, <1>6, <1>7, <1>8
<1>10. \A k \in rest : /\ status'[k] = "in_progress" /\ lockedBy'[k] = w
                       /\ lockAge'[k] <= Elapsed(w)'
  BY <1>5, <1>9 DEF LeaseOf
<1>11. Cardinality(rest) <= BatchSize
  BY <1>1, <1>2, <1>5 DEF LeaseOf, c
<1> QED
  BY <1>1, <1>3, <1>4, <1>10, <1>11 DEF LeaseOf, Busy

-----------------------------------------------------------------------------
(* The lease invariant. *)

LEMMA LeaseInit == Init => LeaseInv
<1> SUFFICES ASSUME Init PROVE LeaseInv
  OBVIOUS
<1>1. \A w \in Workers : Held(w) = {}
  BY DEF Init, Held
<1>2. Cardinality({}) = 0
  BY FS_EmptySet
<1>3. ASSUME NEW w \in Workers PROVE LeaseOf(w)
  <2>1. phase[w] = "top" /\ job[w] = NoJob /\ batch[w] = {}
    BY DEF Init
  <2> QED BY <1>1, <1>2, <2>1, JobQueueAssumption DEF LeaseOf
<1> QED BY <1>3, LeaseSplit

LEMMA LeaseStep ==
  TypeOK /\ LeaseInv /\ LockOutlivesBatch /\ [Next]_vars => LeaseInv'
<1> SUFFICES ASSUME TypeOK, LeaseInv, LockOutlivesBatch, [Next]_vars,
                    NEW v \in Workers
             PROVE  LeaseOf(v)'
  <2>1. (\A w \in Workers : LeaseOf(w)') => LeaseInv'
    BY DEF LeaseInv, LeaseHeld, LeaseOf
  <2> QED BY <2>1
<1>a. \A w \in Workers : LeaseOf(w)
  BY LeaseSplit
<1>b. Held(v) \subseteq Jobs
  BY HeldFinite
<1>c. \A j \in Held(v) : status[j] = "in_progress"
  BY <1>a DEF LeaseOf
<1> USE DEF rows, hands
<1>1. ASSUME NEW j \in Jobs, Enqueue(j) PROVE LeaseOf(v)'
  <2>1. \A k \in Held(v) : status'[k] = status[k]
    BY <1>1, <1>b, <1>c DEF Enqueue, TypeOK
  <2> QED BY <1>1, <1>a, <2>1, Keep DEF Enqueue, Busy
<1>2. ASSUME NEW j \in Jobs, Ripen(j) PROVE LeaseOf(v)'
  BY <1>2, <1>a, Keep DEF Ripen, Busy
<1>3. CASE Tick
  <2>1. Held(v)' = Held(v) /\ Busy(v)' = Busy(v)
    BY <1>3 DEF Tick, Held, Busy
  <2>2. Held(v) # {} => Busy(v)
    BY <1>a DEF LeaseOf, Held, Busy
  <2>3. ASSUME NEW j \in Held(v) PROVE lockAge'[j] <= Elapsed(v)'
    <3> DEFINE m == (BatchSize - Cardinality(Held(v))) * RunTicks
    <3>1. spent'[v] = spent[v] + 1 /\ spent[v] \in Int
      BY <1>3, <2>2, <2>3, JobQueueAssumption DEF Tick, TypeOK
    <3>2. lockAge[j] \in Int /\ lockAge'[j] <= lockAge[j] + 1
      BY <1>3, <1>b, JobQueueAssumption DEF Tick, TypeOK
    <3>3. lockAge[j] <= m + spent[v]
      BY <1>a DEF LeaseOf, Elapsed
    <3>4. m \in Int
      BY HeldFinite, JobQueueAssumption
    <3>5. Elapsed(v)' = m + spent'[v]
      BY <2>1 DEF Elapsed
    <3> HIDE DEF m
    <3>6. lockAge'[j] \in Int
      BY <1>3, <1>b, JobQueueAssumption DEF Tick, TypeOK
    <3> QED BY <3>1, <3>2, <3>3, <3>4, <3>5, <3>6
  <2> QED BY <1>3, <1>a, <2>1, <2>3 DEF Tick, LeaseOf
<1>4. ASSUME NEW w \in Workers, StopAtTop(w) PROVE LeaseOf(v)'
  BY <1>4, <1>a, Keep DEF StopAtTop, Busy, TypeOK
<1>5. ASSUME NEW w \in Workers, PassTop(w) PROVE LeaseOf(v)'
  BY <1>5, <1>a, Keep DEF PassTop, Busy, TypeOK
<1>6. ASSUME NEW w \in Workers, ReapStuck(w) PROVE LeaseOf(v)'
  <2>1. \A j \in Held(v) : lockAge[j] < LockTicks
    BY <1>a, Fresh
  <2>2. \A j \in Held(v) : j \notin Stuck
    BY <2>1, <1>b, JobQueueAssumption DEF Stuck, TypeOK
  <2>3. \A j \in Held(v) : /\ status'[j] = status[j]
                           /\ lockedBy'[j] = lockedBy[j]
                           /\ lockAge'[j] = lockAge[j]
    BY <1>6, <2>2, <1>b DEF ReapStuck
  <2>4. /\ phase'[v] \in {"run", "report"} <=> phase[v] \in {"run", "report"}
        /\ Busy(v) => Busy(v)'
    BY <1>6 DEF ReapStuck, TypeOK, Busy
  <2> QED BY <1>6, <1>a, <2>3, <2>4, Keep DEF ReapStuck
<1>7. ASSUME NEW w \in Workers, ClaimBatch(w) PROVE LeaseOf(v)'
  <2> PICK S \in SUBSET Due :
        /\ IsNextBatch(S)
        /\ status'   = [j \in Jobs |-> IF j \in S THEN "in_progress"
                                                  ELSE status[j]]
        /\ lockedBy' = [j \in Jobs |-> IF j \in S THEN w ELSE lockedBy[j]]
        /\ lockAge'  = [j \in Jobs |-> IF j \in S THEN 0 ELSE lockAge[j]]
        /\ batch' = [batch EXCEPT ![w] = S]
        /\ spent' = [spent EXCEPT ![w] = 0]
        /\ phase' = [phase EXCEPT ![w] = IF S = {} THEN "idle" ELSE "batch"]
    BY <1>7 DEF ClaimBatch
  <2>1. S \subseteq Jobs /\ \A j \in S : status[j] = "pending"
    BY DEF Due
  <2>2. CASE v # w
    <3>1. \A j \in Held(v) : j \notin S
      BY <2>1, <1>c
    <3>2. \A j \in Held(v) : /\ status'[j] = status[j]
                             /\ lockedBy'[j] = lockedBy[j]
                             /\ lockAge'[j] = lockAge[j]
      BY <3>1, <1>b
    <3> QED
      BY <1>7, <2>2, <1>a, <3>2, Keep DEF ClaimBatch, TypeOK, Busy
  <2>3. CASE v = w
    <3>1. job[w] = NoJob /\ job' = job
      BY <1>7, <1>a DEF ClaimBatch, LeaseOf
    <3>2. batch'[w] = S /\ spent'[w] = 0
      BY DEF TypeOK
    <3>3. phase'[w] = IF S = {} THEN "idle" ELSE "batch"
      BY DEF TypeOK
    <3>4. Held(w)' = S
      BY <3>1, <3>2 DEF Held
    <3>5. Cardinality(S) <= BatchSize /\ Cardinality(S) \in Nat
      <4>1. IsFiniteSet(Due)
        BY FS_Interval, FS_Subset, JobQueueAssumption DEF Due, Jobs
      <4>2. Cardinality(Due) \in Nat
        BY <4>1, FS_CardinalityType
      <4> QED
        BY <4>2, JobQueueAssumption DEF IsNextBatch
    <3>6. Elapsed(w)' >= 0
      <4> DEFINE room == BatchSize - Cardinality(S)
      <4>1. Elapsed(w)' = room * RunTicks + 0
        BY <3>2, <3>4 DEF Elapsed
      <4>2. room \in Nat /\ RunTicks \in Nat
        BY <3>5, JobQueueAssumption
      <4> HIDE DEF room
      <4>3. room * RunTicks \in Nat
        BY <4>2
      <4> QED BY <4>1, <4>3
    <3>7. \A j \in S : /\ status'[j] = "in_progress" /\ lockedBy'[j] = w
                       /\ lockAge'[j] = 0
      BY <2>1
    <3>8. NoJob \notin Jobs
      BY DEF Jobs, NoJob
    <3> QED
      BY <2>3, <2>1, <3>1, <3>2, <3>3, <3>4, <3>5, <3>6, <3>7, <3>8
         DEF LeaseOf, Busy
  <2> QED BY <2>2, <2>3
<1>8. ASSUME NEW w \in Workers, ClaimFails(w) PROVE LeaseOf(v)'
  BY <1>8, <1>a, Keep DEF ClaimFails, Busy, TypeOK
<1>9. ASSUME NEW w \in Workers, Wake(w) PROVE LeaseOf(v)'
  BY <1>9, <1>a, Keep DEF Wake, Busy, TypeOK
<1>10. ASSUME NEW w \in Workers, StopIdle(w) PROVE LeaseOf(v)'
  BY <1>10, <1>a, Keep DEF StopIdle, Busy, TypeOK
<1>11. ASSUME NEW w \in Workers, StartJob(w) PROVE LeaseOf(v)'
  <2>1. CASE v # w
    BY <1>11, <2>1, <1>a, Keep DEF StartJob, Busy, TypeOK
  <2>2. CASE v = w
    <3> PICK j \in batch[w] : /\ job'   = [job EXCEPT ![w] = j]
                              /\ batch' = [batch EXCEPT ![w] = @ \ {j}]
      BY <1>11 DEF StartJob
    <3>1. job[w] = NoJob
      BY <1>11, <1>a DEF StartJob, LeaseOf
    <3>2. j # NoJob
      BY DEF TypeOK, Jobs, NoJob
    <3>3. job'[w] = j /\ batch'[w] = batch[w] \ {j} /\ phase'[w] = "run"
      BY <1>11 DEF TypeOK, StartJob
    <3>4. Held(w)' = Held(w)
      BY <3>1, <3>2, <3>3 DEF Held
    <3>5. Elapsed(w)' = Elapsed(w)
      BY <1>11, <3>4 DEF Elapsed, StartJob
    <3> QED
      BY <1>11, <2>2, <1>a, <3>2, <3>3, <3>4, <3>5 DEF LeaseOf, StartJob, Busy
  <2> QED BY <2>1, <2>2
<1>12. ASSUME NEW w \in Workers, Finish(w) PROVE LeaseOf(v)'
  BY <1>12, <1>a, Keep DEF Finish, Busy, TypeOK
<1>13. ASSUME NEW w \in Workers, NEW j \in Held(w),
              NextJob(w, Held(w) \ {j}),
              (\E st, b : SetRow(j, st, b)) \/ UNCHANGED rows
       PROVE  LeaseOf(v)'
  <2>1. \A k \in Jobs \ {j} : /\ status'[k] = status[k]
                              /\ lockedBy'[k] = lockedBy[k]
                              /\ lockAge'[k] = lockAge[k]
    BY <1>13 DEF SetRow, TypeOK
  <2>2. CASE v = w
    BY <1>13, <1>a, <1>b, <2>1, <2>2, Advance
  <2>3. CASE v # w
    <3>1. j \notin Held(v)
      BY <1>13, <1>a, <2>3, Disjoint
    <3> QED
      BY <1>13, <1>a, <1>b, <2>1, <2>3, <3>1, Keep DEF NextJob, TypeOK, Busy
  <2> QED BY <2>2, <2>3
<1>14. ASSUME NEW w \in Workers, phase[w] = "report", NextJob(w, batch[w]),
              (\E st, b : SetRow(job[w], st, b)) \/ UNCHANGED rows
       PROVE  LeaseOf(v)'
  <2>1. job[w] \in Held(w) /\ batch[w] = Held(w) \ {job[w]}
    BY <1>14, <1>a DEF LeaseOf, Held
  <2> QED BY <1>13, <1>14, <2>1
<1>15. ASSUME NEW w \in Workers, Report(w) PROVE LeaseOf(v)'
  BY <1>14, <1>15 DEF Report, Complete, FailDead, FailRetry
<1>16. ASSUME NEW w \in Workers, ReportLost(w) PROVE LeaseOf(v)'
  BY <1>14, <1>16 DEF ReportLost
<1>17. ASSUME NEW w \in Workers, ReleaseJob(w) PROVE LeaseOf(v)'
  <2> PICK j \in batch[w] : /\ NextJob(w, batch[w] \ {j})
                            /\ FailRetry(j) \/ UNCHANGED rows
    BY <1>17 DEF ReleaseJob
  <2>1. j \in Held(w) /\ batch[w] = Held(w)
    BY <1>17, <1>a DEF ReleaseJob, LeaseOf, Held
  <2> QED BY <1>13, <2>1 DEF FailRetry
<1>18. ASSUME NEW w \in Workers, Signal(w) PROVE LeaseOf(v)'
  BY <1>18, <1>a, Keep DEF Signal, Busy
<1>19. ASSUME NEW w \in Workers, Crash(w) PROVE LeaseOf(v)'
  <2>1. CASE v # w
    BY <1>19, <2>1, <1>a, Keep DEF Crash, Busy, TypeOK
  <2>2. CASE v = w
    <3>1. batch'[w] = {} /\ job'[w] = NoJob /\ phase'[w] = "down"
      BY <1>19 DEF Crash, TypeOK
    <3>2. Held(w)' = {}
      BY <3>1 DEF Held
    <3>3. Cardinality({}) = 0
      BY FS_EmptySet
    <3> QED BY <2>2, <3>1, <3>2, <3>3, JobQueueAssumption DEF LeaseOf
  <2> QED BY <2>1, <2>2
<1>20. ASSUME NEW w \in Workers, Restart(w) PROVE LeaseOf(v)'
  BY <1>20, <1>a, Keep DEF Restart, Busy, TypeOK
<1>21. CASE UNCHANGED vars
  BY <1>21, <1>a, Keep DEF vars, Busy
<1> QED
  BY <1>1, <1>2, <1>3, <1>4, <1>5, <1>6, <1>7, <1>8, <1>9, <1>10, <1>11, <1>12,
     <1>15, <1>16, <1>17, <1>18, <1>19, <1>20, <1>21 DEF Next, WorkerStep

-----------------------------------------------------------------------------
(* What the lease gives: exclusive processing, final verdicts. *)

(* A worker's claimed jobs stay locked by it, whatever the other workers,  *)
(* the reaper, crashes and signals do, while a lock outlasts a batch.      *)
THEOREM LeaseCorrect == LockOutlivesBatch => (Spec => []LeaseInv)
<1> SUFFICES ASSUME LockOutlivesBatch PROVE Spec => []LeaseInv
  OBVIOUS
<1>1. TypeOK /\ LeaseInv /\ [Next]_vars => LeaseInv'
  BY LeaseStep
<1> QED BY <1>1, LeaseInit, TypeCorrect, PTL DEF Spec

(* No two workers process one job at a time, while a lock outlasts a       *)
(* batch: SKIP LOCKED alone does not give it, the reaper's limit must.     *)
THEOREM ExclusiveProcessing ==
  LockOutlivesBatch => (Spec => []NoDoubleProcessing)
<1> SUFFICES ASSUME LockOutlivesBatch PROVE Spec => []NoDoubleProcessing
  OBVIOUS
<1>1. LeaseInv => NoDoubleProcessing
  <2> SUFFICES ASSUME LeaseInv, NEW v \in Workers, NEW w \in Workers, v # w
               PROVE  Processing(v) \cap Processing(w) = {}
    BY DEF NoDoubleProcessing
  <2>1. Held(v) \cap Held(w) = {}
    BY LeaseSplit, Disjoint
  <2> QED BY <2>1 DEF Processing, Held
<1> QED BY <1>1, LeaseCorrect, PTL

(* Only rows in progress are reported, so a settled job stays settled. *)
LEMMA SettledLemma == TypeOK /\ LeaseInv /\ [Next]_vars => SettledStep
<1> SUFFICES ASSUME TypeOK, LeaseInv, [Next]_vars,
                    NEW i \in Jobs, status[i] \in Terminal
             PROVE  status'[i] = status[i]
  BY DEF SettledStep
<1> USE DEF Terminal, rows
<1>1. ASSUME NEW j \in Jobs, status[j] = "in_progress",
             \E st, b : SetRow(j, st, b)
      PROVE  status'[i] = status[i]
  BY <1>1 DEF SetRow, TypeOK
<1>2. ASSUME NEW w \in Workers, Report(w) PROVE status'[i] = status[i]
  <2>1. job[w] \in Jobs /\ status[job[w]] = "in_progress"
    <3>1. phase[w] = "report"
      BY <1>2 DEF Report
    <3>2. job[w] # NoJob
      BY <3>1 DEF LeaseInv
    <3>3. job[w] \in Held(w) /\ job[w] \in Jobs
      BY <3>2 DEF Held, TypeOK
    <3> QED BY <3>3 DEF LeaseInv, LeaseHeld
  <2> QED BY <1>1, <1>2, <2>1 DEF Report, Complete, FailDead, FailRetry
<1>3. ASSUME NEW w \in Workers, ReleaseJob(w) PROVE status'[i] = status[i]
  <2> PICK j \in batch[w] : FailRetry(j) \/ UNCHANGED rows
    BY <1>3 DEF ReleaseJob
  <2>1. j \in Jobs /\ status[j] = "in_progress"
    BY DEF LeaseInv, LeaseHeld, Held, TypeOK
  <2> QED BY <1>1, <2>1 DEF FailRetry
<1>4. ASSUME NEW j \in Jobs, Enqueue(j) PROVE status'[i] = status[i]
  BY <1>4 DEF Enqueue, TypeOK
<1>5. ASSUME NEW w \in Workers, ReapStuck(w) PROVE status'[i] = status[i]
  BY <1>5 DEF ReapStuck, Stuck
<1>6. ASSUME NEW w \in Workers, ClaimBatch(w) PROVE status'[i] = status[i]
  BY <1>6 DEF ClaimBatch, Due
<1>7. CASE UNCHANGED status
  BY <1>7
<1> QED
  BY <1>2, <1>3, <1>4, <1>5, <1>6, <1>7
     DEF Next, WorkerStep, Ripen, Tick, StopAtTop, PassTop, ClaimFails, Wake,
         StopIdle, StartJob, Finish, ReportLost, Signal, Crash, Restart, vars

(* A completed or dead job is never pending or run again, while a lock     *)
(* outlasts a batch.                                                       *)
THEOREM VerdictsFinal == LockOutlivesBatch => (Spec => TerminalIsFinal)
<1> SUFFICES ASSUME LockOutlivesBatch PROVE Spec => TerminalIsFinal
  OBVIOUS
<1>1. TypeOK /\ LeaseInv /\ [Next]_vars => [SettledStep]_vars
  BY SettledLemma
<1> QED BY <1>1, LeaseCorrect, TypeCorrect, PTL DEF Spec, TerminalIsFinal

-----------------------------------------------------------------------------
(* The queue implements JobLifecycle. *)

HolderIs ==
  \A j \in Jobs :
    /\ HolderOf(j) \in Workers \cup {NULL}
    /\ \A w \in Workers : HolderOf(j) = w <=> j \in Held(w)

LEMMA HolderLemma == TypeOK /\ LeaseInv => HolderIs
  BY JobQueueAssumption DEF HolderIs, HolderOf, TypeOK, LeaseInv, LeaseHeld

(* The holders of the jobs, as the refinement mapping gives them. *)
LEMMA RefinementStep ==
  ASSUME TypeOK, LeaseInv, HolderIs, HolderIs', [Next]_vars
  PROVE  [Lifecycle!Next]_(Lifecycle!vars)
<1> USE DEF rows, hands
<1>a. \A v \in Workers : \A j \in Held(v) :
        j \in Jobs /\ status[j] = "in_progress"
  BY HeldFinite DEF LeaseInv, LeaseHeld
(* Steps that leave the status column and every worker's hands alone. *)
<1>b. ASSUME UNCHANGED status, \A v \in Workers : Held(v)' = Held(v)
      PROVE  UNCHANGED Lifecycle!vars
  <2>1. \A j \in Jobs : HolderOf(j)' = HolderOf(j)
    BY <1>b DEF HolderIs
  <2> QED BY <1>b, <2>1 DEF Lifecycle!vars
<1>c. ASSUME NEW w \in Workers, NEW j \in Held(w), NextJob(w, Held(w) \ {j})
      PROVE  /\ \A v \in Workers : Held(v)' = Held(v) \ {j}
             /\ [i \in Jobs |-> HolderOf(i)]'
                  = [i \in Jobs |-> IF i \in {j} THEN NULL ELSE HolderOf(i)]
             /\ j \in Jobs /\ HolderOf(j) # NULL
  <2>1. Held(w)' = Held(w) \ {j}
    BY <1>c DEF NextJob, Held, TypeOK
  <2>2. ASSUME NEW v \in Workers, v # w PROVE Held(v)' = Held(v)
    BY <1>c, <2>2 DEF NextJob, Held, TypeOK
  <2>3. ASSUME NEW v \in Workers, v # w PROVE j \notin Held(v)
    BY <1>c, <2>3, <1>a DEF HolderIs
  <2>4. \A v \in Workers : Held(v)' = Held(v) \ {j}
    BY <2>1, <2>2, <2>3
  <2>5. ASSUME NEW i \in Jobs
        PROVE  HolderOf(i)' = IF i \in {j} THEN NULL ELSE HolderOf(i)
    BY <2>4, <2>5 DEF HolderIs
  <2> QED BY <1>c, <1>a, <2>4, <2>5, JobQueueAssumption DEF HolderIs
(* An outcome recorded for a held job, or lost. *)
<1>d. ASSUME NEW w \in Workers, NEW j \in Held(w), NextJob(w, Held(w) \ {j}),
             NEW st \in {"completed", "dead", "pending"}, NEW b,
             SetRow(j, st, b)
      PROVE  Lifecycle!Next
  <2>1. status' = [status EXCEPT ![j] = st]
    BY <1>d DEF SetRow
  <2>2. [i \in Jobs |-> HolderOf(i)]'
          = [[i \in Jobs |-> HolderOf(i)] EXCEPT ![j] = NULL]
    BY <1>c, <1>d
  <2>3. Lifecycle!Settle(j, st)
    BY <1>a, <1>c, <1>d, <2>1, <2>2 DEF Lifecycle!Settle
  <2> QED BY <1>a, <1>d, <2>3 DEF Lifecycle!Next
<1>e. ASSUME NEW w \in Workers, NEW j \in Held(w), NextJob(w, Held(w) \ {j}),
             UNCHANGED rows
      PROVE  Lifecycle!Next
  <2>1. [i \in Jobs |-> HolderOf(i)]'
          = [i \in Jobs |-> IF i \in {j} THEN NULL
                            ELSE [k \in Jobs |-> HolderOf(k)][i]]
    BY <1>c, <1>e
  <2>2. Lifecycle!Drop({j})
    BY <1>a, <1>e, <2>1 DEF Lifecycle!Drop
  <2>3. {j} \in SUBSET Jobs
    BY <1>a, <1>e
  <2> QED BY <2>2, <2>3 DEF Lifecycle!Next
<1>1. ASSUME NEW j \in Jobs, Enqueue(j) PROVE Lifecycle!Next
  <2>1. \A i \in Jobs : HolderOf(i)' = HolderOf(i)
    BY <1>1 DEF Enqueue, HolderOf, Held
  <2>2. Lifecycle!Insert(j)
    BY <1>1, <2>1 DEF Enqueue, Lifecycle!Insert
  <2> QED BY <2>2 DEF Lifecycle!Next
<1>2. ASSUME NEW w \in Workers, ReapStuck(w) PROVE [Lifecycle!Next]_(Lifecycle!vars)
  <2>1. \A v \in Workers : Held(v)' = Held(v)
    BY <1>2 DEF ReapStuck, Held
  <2>2. \A i \in Jobs : HolderOf(i)' = HolderOf(i)
    BY <2>1 DEF HolderIs
  <2>3. ASSUME NEW i \in Stuck PROVE HolderOf(i) = NULL
    <3>1. i \in Jobs /\ lockedBy'[i] = NULL
      BY <1>2, <2>3 DEF ReapStuck, Stuck
    <3>2. HolderOf(i)' = NULL
      BY <3>1 DEF HolderOf
    <3> QED BY <2>2, <3>1, <3>2
  <2>4. Lifecycle!Reclaim(Stuck)
    BY <1>2, <2>2, <2>3 DEF ReapStuck, Lifecycle!Reclaim, Stuck
  <2>5. Stuck \in SUBSET Jobs
    BY DEF Stuck
  <2> QED BY <2>4, <2>5 DEF Lifecycle!Next
<1>3. ASSUME NEW w \in Workers, ClaimBatch(w) PROVE Lifecycle!Next
  <2> PICK S \in SUBSET Due :
        /\ status'   = [j \in Jobs |-> IF j \in S THEN "in_progress"
                                                  ELSE status[j]]
        /\ batch' = [batch EXCEPT ![w] = S]
    BY <1>3 DEF ClaimBatch
  <2>1. S \in SUBSET Jobs /\ \A j \in S : status[j] = "pending"
    BY DEF Due
  <2>2. Held(w) = {} /\ Held(w)' = S
    <3>1. job[w] = NoJob /\ batch[w] = {}
      BY <1>3 DEF ClaimBatch, LeaseInv, Busy
    <3> QED BY <1>3, <3>1 DEF ClaimBatch, Held, TypeOK
  <2>3. \A v \in Workers \ {w} : Held(v)' = Held(v)
    BY <1>3 DEF ClaimBatch, Held, TypeOK
  <2>4. ASSUME NEW i \in Jobs
        PROVE  HolderOf(i)' = IF i \in S THEN w ELSE HolderOf(i)
    BY <2>2, <2>3, <2>4 DEF HolderIs
  <2>5. Lifecycle!Claim(w, S)
    BY <2>1, <2>4 DEF Lifecycle!Claim
  <2> QED BY <2>1, <2>5 DEF Lifecycle!Next
<1>4. ASSUME NEW w \in Workers, StartJob(w) PROVE UNCHANGED Lifecycle!vars
  <2> PICK j \in batch[w] : /\ job'   = [job EXCEPT ![w] = j]
                            /\ batch' = [batch EXCEPT ![w] = @ \ {j}]
    BY <1>4 DEF StartJob
  <2>1. job[w] = NoJob /\ j # NoJob
    <3>1. job[w] = NoJob
      BY <1>4 DEF StartJob, LeaseInv
    <3>2. j \in Jobs
      BY DEF TypeOK
    <3> QED BY <3>1, <3>2 DEF Jobs, NoJob
  <2>2. \A v \in Workers : Held(v)' = Held(v)
    BY <2>1 DEF Held, TypeOK
  <2> QED BY <1>4, <1>b, <2>2 DEF StartJob
<1>5. ASSUME NEW w \in Workers, phase[w] = "report"
      PROVE  job[w] \in Held(w) /\ batch[w] = Held(w) \ {job[w]}
  BY <1>5 DEF Held, LeaseInv
<1>6. ASSUME NEW w \in Workers, Report(w) PROVE Lifecycle!Next
  <2>1. \E st \in {"completed", "dead", "pending"} : \E b :
          SetRow(job[w], st, b)
    BY <1>6 DEF Report, Complete, FailDead, FailRetry
  <2> QED BY <1>5, <1>6, <2>1, <1>d DEF Report
<1>7. ASSUME NEW w \in Workers, ReportLost(w) PROVE Lifecycle!Next
  BY <1>5, <1>7, <1>e DEF ReportLost
<1>8. ASSUME NEW w \in Workers, ReleaseJob(w) PROVE Lifecycle!Next
  <2> PICK j \in batch[w] : /\ NextJob(w, batch[w] \ {j})
                            /\ FailRetry(j) \/ UNCHANGED rows
    BY <1>8 DEF ReleaseJob
  <2>1. j \in Held(w) /\ batch[w] = Held(w)
    BY <1>8 DEF ReleaseJob, LeaseInv, Held
  <2> QED BY <2>1, <1>d, <1>e DEF FailRetry
<1>9. ASSUME NEW w \in Workers, Crash(w) PROVE Lifecycle!Next
  <2>1. Held(w)' = {}
    BY <1>9 DEF Crash, Held, TypeOK
  <2>2. \A v \in Workers \ {w} : Held(v)' = Held(v)
    BY <1>9 DEF Crash, Held, TypeOK
  <2>3. ASSUME NEW i \in Jobs
        PROVE  HolderOf(i)' = IF i \in Held(w) THEN NULL ELSE HolderOf(i)
    BY <2>1, <2>2, <2>3 DEF HolderIs
  <2>4. Lifecycle!Drop(Held(w))
    BY <1>9, <1>a, <2>3 DEF Crash, Lifecycle!Drop
  <2>5. Held(w) \in SUBSET Jobs
    BY <1>a
  <2> QED BY <2>4, <2>5 DEF Lifecycle!Next
<1>10. CASE UNCHANGED <<status, batch, job>>
  BY <1>10, <1>b DEF Held
<1> QED
  BY <1>1, <1>2, <1>3, <1>4, <1>6, <1>7, <1>8, <1>9, <1>10
     DEF Next, WorkerStep, Ripen, Tick, StopAtTop, PassTop, ClaimFails, Wake,
         StopIdle, Finish, Signal, Restart, vars

(* While a lock outlasts a batch the queue implements JobLifecycle: claims *)
(* are exclusive, and only the holder settles a job or puts it back.       *)
THEOREM QueueImplementsLifecycle ==
  LockOutlivesBatch => (Spec => LifecycleSpec)
<1> SUFFICES ASSUME LockOutlivesBatch PROVE Spec => Lifecycle!Spec
  BY DEF LifecycleSpec
<1>1. Init => Lifecycle!Init
  BY DEF Init, Lifecycle!Init, HolderOf
<1>2. TypeOK /\ LeaseInv /\ TypeOK' /\ LeaseInv' /\ [Next]_vars
        => [Lifecycle!Next]_(Lifecycle!vars)
  <2>1. TypeOK' /\ LeaseInv' => HolderIs'
    BY HolderLemma, PTL
  <2> QED BY <2>1, HolderLemma, RefinementStep
<1> QED
  BY <1>1, <1>2, LeaseCorrect, TypeCorrect, PTL DEF Spec, Lifecycle!Spec

-----------------------------------------------------------------------------
(* Verdicts are earned, whether or not a lock outlasts a batch. *)

EarnedAt(i) ==
  /\ status[i] = "completed" => "ok" \in returned[i]
  /\ status[i] = "dead" => \/ "terminal" \in returned[i]
                           \/ "retry" \in returned[i]
                              /\ attempts[i] >= MaxAttempts

(* What a worker is about to report, it was told; the attempts it has seen *)
(* are never ahead of the row, although a thief may have moved the row on. *)
HandOf(w) ==
  /\ phase[w] \in {"run", "report"} => job[w] \in Jobs
  /\ phase[w] = "report" => outcome[w] \in returned[job[w]]
  /\ \A i \in Jobs : seen[w][i] <= attempts[i]

VerdictInv == VerdictsEarned /\ \A w \in Workers : HandOf(w)

(* A saturating increment never goes down. *)
LEMMA BumpGrows == \A n \in 0..AttemptCap : n <= Bump(n)
  BY JobQueueAssumption DEF Bump

(* Neither the attempts of a row nor what handlers returned is ever taken  *)
(* back.                                                                   *)
LEMMA CluesGrow ==
  ASSUME TypeOK, VerdictInv, [Next]_vars, NEW i \in Jobs
  PROVE  attempts[i] <= attempts'[i] /\ returned[i] \subseteq returned'[i]
<1> USE DEF rows, hands
<1>0. attempts[i] \in 0..AttemptCap
  BY DEF TypeOK
<1>1. ASSUME NEW w \in Workers, ClaimBatch(w)
      PROVE  attempts[i] <= attempts'[i] /\ returned' = returned
  <2>1. PICK S \in SUBSET Due :
          attempts' = [j \in Jobs |-> IF j \in S THEN Bump(attempts[j])
                                                 ELSE attempts[j]]
    BY <1>1 DEF ClaimBatch
  <2>2. attempts'[i] = Bump(attempts[i]) \/ attempts'[i] = attempts[i]
    BY <2>1
  <2> QED BY <1>0, <1>1, <2>2, BumpGrows, JobQueueAssumption DEF ClaimBatch
<1>2. ASSUME NEW w \in Workers, Finish(w)
      PROVE  attempts' = attempts /\ returned[i] \subseteq returned'[i]
  BY <1>2 DEF Finish, TypeOK
<1>3. ASSUME NEW w \in Workers, Report(w) \/ ReleaseJob(w)
      PROVE  attempts' = attempts /\ returned' = returned
  BY <1>3 DEF Report, ReleaseJob, Complete, FailDead, FailRetry, SetRow
<1>4. CASE attempts' = attempts /\ returned' = returned
  BY <1>0, <1>4
<1>5. ASSUME NEW w \in Workers,
             \/ StopAtTop(w) \/ PassTop(w) \/ ReapStuck(w) \/ ClaimFails(w)
             \/ Wake(w) \/ StopIdle(w) \/ StartJob(w) \/ ReportLost(w)
             \/ Signal(w) \/ Crash(w) \/ Restart(w)
      PROVE  attempts' = attempts /\ returned' = returned
  BY <1>5 DEF StopAtTop, PassTop, ReapStuck, ClaimFails, Wake, StopIdle,
              StartJob, ReportLost, Signal, Crash, Restart
<1>6. CASE Tick \/ (\E j \in Jobs : Enqueue(j) \/ Ripen(j)) \/ UNCHANGED vars
  BY <1>4, <1>6 DEF Tick, Enqueue, Ripen, vars
<1>7. CASE \E w \in Workers : \/ WorkerStep(w) \/ ClaimFails(w) \/ ReportLost(w)
                             \/ Signal(w) \/ Crash(w) \/ Restart(w)
  <2>1. PICK w \in Workers : \/ WorkerStep(w) \/ ClaimFails(w) \/ ReportLost(w)
                             \/ Signal(w) \/ Crash(w) \/ Restart(w)
    BY <1>7
  <2>2. CASE ClaimBatch(w)
    BY <1>1, <2>2
  <2>3. CASE Finish(w)
    BY <1>0, <1>2, <2>3
  <2> QED BY <1>3, <1>4, <1>5, <2>1, <2>2, <2>3 DEF WorkerStep
<1> QED BY <1>6, <1>7 DEF Next

(* Only a report settles a job, and it has been told the verdict. *)
LEMMA EarnedStep ==
  ASSUME TypeOK, VerdictInv, [Next]_vars, NEW i \in Jobs
  PROVE  EarnedAt(i)'
<1> USE DEF rows, hands
<1>0. /\ attempts[i] <= attempts'[i] /\ returned[i] \subseteq returned'[i]
      /\ attempts[i] \in Nat /\ attempts'[i] \in Nat /\ MaxAttempts \in Nat
  <2>1. TypeOK'
    BY TypeStep
  <2> QED BY <2>1, CluesGrow, JobQueueAssumption DEF TypeOK
<1>1. ASSUME status'[i] \in Terminal => status'[i] = status[i]
      PROVE  EarnedAt(i)'
  BY <1>0, <1>1 DEF EarnedAt, VerdictInv, VerdictsEarned, Terminal
<1>2. ASSUME NEW w \in Workers, Report(w) PROVE EarnedAt(i)'
  <2>1. /\ HandOf(w) /\ phase[w] = "report" /\ job[w] \in Jobs
        /\ outcome[w] \in returned[job[w]]
        /\ seen[w][job[w]] <= attempts[job[w]]
    BY <1>2 DEF Report, VerdictInv, HandOf
  <2>2. CASE i # job[w]
    BY <1>1, <1>2, <2>1, <2>2
       DEF Report, Complete, FailDead, FailRetry, SetRow, TypeOK
  <2>3. CASE i = job[w]
    <3>1. seen[w][i] \in Nat
      BY JobQueueAssumption DEF TypeOK
    <3>2. CASE outcome[w] = "ok" /\ Complete(i)
      <4>1. status'[i] = "completed"
        BY <3>2 DEF Complete, SetRow, TypeOK
      <4> QED BY <1>0, <2>1, <2>3, <3>2, <4>1 DEF EarnedAt
    <3>3. CASE outcome[w] = "terminal" /\ FailDead(i)
      <4>1. status'[i] = "dead"
        BY <3>3 DEF FailDead, SetRow, TypeOK
      <4> QED BY <1>0, <2>1, <2>3, <3>3, <4>1 DEF EarnedAt
    <3>4. CASE outcome[w] = "retry" /\ Exhausted(w) /\ FailDead(i)
      <4>1. status'[i] = "dead"
        BY <3>4 DEF FailDead, SetRow, TypeOK
      <4>2. attempts'[i] >= MaxAttempts
        BY <1>0, <2>1, <2>3, <3>1, <3>4 DEF Exhausted
      <4> QED BY <1>0, <2>1, <2>3, <3>4, <4>1, <4>2 DEF EarnedAt
    <3>5. CASE FailRetry(i)
      BY <1>1, <3>5 DEF FailRetry, SetRow, TypeOK, Terminal
    <3> QED BY <1>2, <2>3, <3>2, <3>3, <3>4, <3>5 DEF Report
  <2> QED BY <2>2, <2>3
<1>3. ASSUME NEW w \in Workers, ReleaseJob(w) PROVE EarnedAt(i)'
  <2>1. PICK j \in batch[w] : FailRetry(j) \/ UNCHANGED rows
    BY <1>3 DEF ReleaseJob
  <2> QED BY <1>1, <2>1 DEF FailRetry, SetRow, TypeOK, Terminal
<1>4. ASSUME NEW j \in Jobs, Enqueue(j) PROVE EarnedAt(i)'
  BY <1>1, <1>4 DEF Enqueue, TypeOK, Terminal
<1>5. ASSUME NEW w \in Workers, ReapStuck(w) PROVE EarnedAt(i)'
  BY <1>1, <1>5 DEF ReapStuck, Terminal
<1>6. ASSUME NEW w \in Workers, ClaimBatch(w) PROVE EarnedAt(i)'
  BY <1>1, <1>6 DEF ClaimBatch, Terminal
<1>7. CASE UNCHANGED status
  BY <1>1, <1>7
<1> QED
  BY <1>2, <1>3, <1>4, <1>5, <1>6, <1>7
     DEF Next, WorkerStep, Ripen, Tick, StopAtTop, PassTop, ClaimFails, Wake,
         StopIdle, StartJob, Finish, ReportLost, Signal, Crash, Restart, vars

(* What a worker has been told stays true: it is alone in its own hands,   *)
(* and a thief only raises the attempts of the row.                        *)
LEMMA HandStep ==
  ASSUME TypeOK, VerdictInv, [Next]_vars, NEW v \in Workers
  PROVE  HandOf(v)'
<1> USE DEF rows, hands
<1>a. HandOf(v)
  BY DEF VerdictInv
<1>b. /\ attempts' \in [Jobs -> Nat] /\ attempts \in [Jobs -> Nat]
      /\ seen[v] \in [Jobs -> Nat] /\ seen \in [Workers -> [Jobs -> Nat]]
      /\ \A i \in Jobs : /\ attempts[i] <= attempts'[i]
                         /\ returned[i] \subseteq returned'[i]
  <2>1. TypeOK'
    BY TypeStep
  <2> QED BY <2>1, CluesGrow, JobQueueAssumption DEF TypeOK
<1>0. ASSUME phase'[v] = phase[v] \/ phase'[v] \notin {"run", "report"},
             job'[v] = job[v] \/ phase'[v] \notin {"run", "report"},
             outcome'[v] = outcome[v] \/ phase'[v] # "report",
             seen'[v] = seen[v] \/ \A i \in Jobs : seen'[v][i] <= attempts'[i]
      PROVE  HandOf(v)'
  <2>1. \A i \in Jobs : seen'[v][i] <= attempts'[i]
    BY <1>0, <1>a, <1>b DEF HandOf
  <2>2. phase'[v] \in {"run", "report"} => job'[v] \in Jobs
    BY <1>0, <1>a DEF HandOf
  <2>3. phase'[v] = "report" => outcome'[v] \in returned'[job'[v]]
    BY <1>0, <1>a, <1>b DEF HandOf
  <2> QED BY <2>1, <2>2, <2>3 DEF HandOf
<1>1. ASSUME NEW w \in Workers, ClaimBatch(w) PROVE HandOf(v)'
  <2>1. PICK S \in SUBSET Due :
        /\ attempts' = [j \in Jobs |-> IF j \in S THEN Bump(attempts[j])
                                                  ELSE attempts[j]]
        /\ seen'  = [seen EXCEPT ![w] = [j \in Jobs |->
                       IF j \in S THEN Bump(attempts[j]) ELSE 0]]
        /\ phase' = [phase EXCEPT ![w] = IF S = {} THEN "idle" ELSE "batch"]
    BY <1>1 DEF ClaimBatch
  <2>2. UNCHANGED <<job, outcome>>
    BY <1>1 DEF ClaimBatch
  <2>3. CASE v = w
    <3>1. \A i \in Jobs : seen'[v][i] \in {attempts'[i], 0}
      BY <2>1, <2>3, <1>b
    <3>2. \A i \in Jobs : seen'[v][i] <= attempts'[i]
      BY <3>1, <1>b
    <3> QED BY <1>0, <2>1, <2>2, <2>3, <3>2 DEF TypeOK
  <2>4. CASE v # w
    BY <1>0, <2>1, <2>2, <2>4 DEF TypeOK
  <2> QED BY <2>3, <2>4
<1>2. ASSUME NEW w \in Workers, StartJob(w) PROVE HandOf(v)'
  <2>1. PICK j \in batch[w] : job' = [job EXCEPT ![w] = j]
    BY <1>2 DEF StartJob
  <2>2. j \in Jobs
    BY DEF TypeOK
  <2>3. CASE v = w
    <3>1. phase'[v] = "run" /\ job'[v] = j /\ seen' = seen /\ attempts' = attempts
      BY <1>2, <2>1, <2>3 DEF StartJob, TypeOK
    <3> QED BY <1>a, <2>2, <3>1 DEF HandOf
  <2>4. CASE v # w
    BY <1>0, <1>2, <2>1, <2>4 DEF StartJob, TypeOK
  <2> QED BY <2>3, <2>4
<1>3. ASSUME NEW w \in Workers, Finish(w) PROVE HandOf(v)'
  <2>1. PICK o \in Outcomes :
          /\ outcome'  = [outcome EXCEPT ![w] = o]
          /\ returned' = [returned EXCEPT ![job[w]] = @ \cup {o}]
    BY <1>3 DEF Finish
  <2>2. CASE v = w
    <3>1. job[w] \in Jobs
      BY <1>3, <1>a, <2>2 DEF Finish, HandOf
    <3>2. outcome'[v] \in returned'[job[v]]
      BY <2>1, <2>2, <3>1 DEF TypeOK
    <3>3. job' = job /\ seen' = seen /\ attempts' = attempts
      BY <1>3 DEF Finish
    <3> QED BY <1>a, <2>2, <3>1, <3>2, <3>3 DEF HandOf
  <2>3. CASE v # w
    BY <1>0, <1>3, <2>1, <2>3 DEF Finish, TypeOK
  <2> QED BY <2>2, <2>3
<1>4. ASSUME NEW w \in Workers, NEW rest \in SUBSET Jobs, NextJob(w, rest)
      PROVE  HandOf(v)'
  <2>1. CASE v = w
    <3>1. phase'[v] \notin {"run", "report"}
      BY <1>4, <2>1 DEF NextJob, TypeOK
    <3>2. \A i \in Jobs : seen'[v][i] \in {seen[v][i], 0}
      BY <1>4, <1>b, <2>1 DEF NextJob
    <3>3. \A i \in Jobs : seen'[v][i] <= attempts'[i]
      BY <3>2, <1>a, <1>b DEF HandOf
    <3> QED BY <1>0, <3>1, <3>3
  <2>2. CASE v # w
    BY <1>0, <1>4, <2>2 DEF NextJob, TypeOK
  <2> QED BY <2>1, <2>2
<1>5. ASSUME NEW w \in Workers, Report(w) \/ ReportLost(w) \/ ReleaseJob(w)
      PROVE  HandOf(v)'
  <2>1. \E rest \in SUBSET Jobs : NextJob(w, rest)
    BY <1>5 DEF Report, ReportLost, ReleaseJob, TypeOK
  <2> QED BY <1>4, <2>1
<1>6. ASSUME NEW w \in Workers, Crash(w) PROVE HandOf(v)'
  <2>1. CASE v = w
    <3>1. phase'[v] = "down" /\ \A i \in Jobs : seen'[v][i] = 0
      BY <1>6, <2>1, <1>b DEF Crash, TypeOK
    <3>2. \A i \in Jobs : seen'[v][i] <= attempts'[i]
      BY <3>1, <1>b
    <3> QED BY <1>0, <3>1, <3>2
  <2>2. CASE v # w
    BY <1>0, <1>6, <2>2 DEF Crash, TypeOK
  <2> QED BY <2>1, <2>2
<1>7. ASSUME NEW w \in Workers,
             \/ StopAtTop(w) \/ PassTop(w) \/ ReapStuck(w) \/ ClaimFails(w)
             \/ Wake(w) \/ StopIdle(w) \/ Restart(w)
      PROVE  HandOf(v)'
  <2>1. UNCHANGED <<job, outcome, seen>>
    BY <1>7 DEF StopAtTop, PassTop, ReapStuck, ClaimFails, Wake, StopIdle, Restart
  <2>2. \E p \in Phases \ {"run", "report"} : phase' = [phase EXCEPT ![w] = p]
    BY <1>7 DEF StopAtTop, PassTop, ReapStuck, ClaimFails, Wake, StopIdle,
                Restart, Phases
  <2> QED BY <1>0, <2>1, <2>2 DEF TypeOK
<1>8. CASE UNCHANGED <<phase, job, outcome, seen>>
  BY <1>0, <1>8
<1> QED
  BY <1>1, <1>2, <1>3, <1>5, <1>6, <1>7, <1>8
     DEF Next, WorkerStep, Enqueue, Ripen, Tick, Signal, vars

(* Whatever was stolen, reaped, lost or retried, a job counts as completed *)
(* only after a handler returned Ok for it, and is dead-lettered only      *)
(* after a terminal error or after MaxAttempts claims; the lock need not   *)
(* outlast the batch.                                                      *)
THEOREM VerdictsHold == Spec => []VerdictsEarned
<1>1. Init => VerdictInv
  BY JobQueueAssumption DEF Init, VerdictInv, VerdictsEarned, HandOf
<1>2. TypeOK /\ VerdictInv /\ [Next]_vars => VerdictInv'
  BY EarnedStep, HandStep DEF VerdictInv, VerdictsEarned, EarnedAt
<1>3. VerdictInv => VerdictsEarned
  BY DEF VerdictInv
<1> QED BY <1>1, <1>2, <1>3, TypeCorrect, PTL DEF Spec

-----------------------------------------------------------------------------
(* The shutdown of one replica (GracefulShutdown).  *)

(* A worker outside its batch has no job in hand, the server that stopped  *)
(* has answered every request, and main gets past a join only when the     *)
(* task it waits for has stopped.                                          *)
ShutdownInv ==
  /\ at \in [Tasks -> Places] /\ left \in [Tasks -> Int]
  /\ \A w \in OwnWorkers : at[w] \notin {"batch", "run"} => left[w] = 0
  /\ at["http"] = "stopped" => open = 0
  /\ main # "serving" => at["http"] = "stopped"
  /\ main = "exited" => \A t \in Tasks : at[t] = "stopped"

LEMMA TasksApart ==
  /\ OwnWorkers \cap {"listener", "reconcile", "http"} = {}
  /\ MaxClaim \in Nat /\ NumChannels \in Nat
  /\ Tasks = OwnWorkers \cup {"listener", "reconcile", "http"}
BY ShutdownAssumption DEF Tasks, Others

LEMMA InitShutdown == ShutdownInit => ShutdownInv
<1> SUFFICES ASSUME ShutdownInit PROVE ShutdownInv
  OBVIOUS
<1>1. at \in [Tasks -> Places] /\ left \in [Tasks -> Int]
  BY DEF ShutdownInit, Places, AfterTop
<1>2. at["http"] = "accept" /\ main = "serving" /\ \A w \in OwnWorkers : left[w] = 0
  BY TasksApart DEF ShutdownInit
<1> QED  BY <1>1, <1>2 DEF ShutdownInv

(* A task that moves goes from one place to another, and its last step is  *)
(* to stop; only the server's own steps touch the requests.                *)
LEMMA MovesKeep ==
  ASSUME ShutdownInv,
         NEW t \in Tasks \ {"http"}, NEW from, NEW to \in Places,
         from # "stopped", Move(t, from, to),
         left' \in [Tasks -> Int],
         \A u \in Tasks \ {t} : left'[u] = left[u],
         t \in OwnWorkers /\ to \notin {"batch", "run"} => left'[t] = 0,
         UNCHANGED <<open, main>>
  PROVE  ShutdownInv'
<1>1. at' = [at EXCEPT ![t] = to] /\ at[t] = from
  BY DEF Move
<1>2. at' \in [Tasks -> Places]
  BY <1>1 DEF ShutdownInv
<1>3. \A w \in OwnWorkers : at'[w] \notin {"batch", "run"} => left'[w] = 0
  BY <1>1, TasksApart DEF ShutdownInv
<1>4. main # "exited"
  BY <1>1 DEF ShutdownInv
<1>5. at'["http"] = at["http"]
  BY <1>1, TasksApart DEF ShutdownInv
<1> QED  BY <1>2, <1>3, <1>4, <1>5 DEF ShutdownInv

(* A step of a task keeps the invariant.  *)
LEMMA StopKeeps ==
  ASSUME ShutdownInv,
         NEW t \in Tasks \ {"http"}, NEW from, from \notin {"stopped", "batch", "run"},
         StopFrom(t, from)
  PROVE  ShutdownInv'
<1>1. Move(t, from, "stopped") /\ UNCHANGED <<left, open, main>>
  BY DEF StopFrom
<1>2. t \in OwnWorkers => left'[t] = 0
  BY <1>1 DEF ShutdownInv, Move
<1> QED  BY <1>1, <1>2, MovesKeep DEF ShutdownInv, Places

LEMMA PlainKeeps ==
  ASSUME ShutdownInv,
         NEW t \in Tasks \ {"http"}, NEW from, NEW to \in Places,
         from # "stopped", from = "batch" => left[t] = 0,
         from = "run" => to = "batch",
         t \in OwnWorkers => to # "run" /\ (to = "batch" => from = "run"),
         Plain(t, from, to)
  PROVE  ShutdownInv'
<1>1. Move(t, from, to) /\ UNCHANGED <<left, open, main>>
  BY DEF Plain
<1>2. t \in OwnWorkers /\ to \notin {"batch", "run"} => left'[t] = 0
  BY <1>1 DEF ShutdownInv, Move
<1> QED  BY <1>1, <1>2, MovesKeep DEF ShutdownInv

LEMMA WorkerKeeps ==
  ASSUME ShutdownInv, NEW w \in OwnWorkers, WorkerMoves(w)
  PROVE  ShutdownInv'
<1>1. w \in Tasks \ {"http"}
  BY TasksApart
<1>2. CASE WorkerTop(w) \/ WorkerIdle(w)
  BY <1>1, <1>2, StopKeeps, PlainKeeps
     DEF WorkerTop, WorkerIdle, Untriggered, Places, AfterTop
<1>3. CASE Claim(w)
  <2>1. PICK n \in 0..MaxClaim :
          /\ left' = [left EXCEPT ![w] = n]
          /\ Move(w, "claim", IF n = 0 THEN "idle" ELSE "batch")
    BY <1>3 DEF Claim
  <2>2. UNCHANGED <<open, main>> /\ n \in Int
    BY <1>3, TasksApart DEF Claim
  <2>3. /\ left' \in [Tasks -> Int] /\ left'[w] = n
        /\ \A u \in Tasks \ {w} : left'[u] = left[u]
    BY <1>1, <2>1, <2>2 DEF ShutdownInv
  <2> DEFINE to == IF n = 0 THEN "idle" ELSE "batch"
  <2>4. to \in Places /\ (to \notin {"batch", "run"} => n = 0)
    BY DEF Places, AfterTop
  <2>5. Move(w, "claim", to)
    BY <2>1
  <2> HIDE DEF to
  <2> QED  BY <1>1, <2>2, <2>3, <2>4, <2>5, MovesKeep
<1>4. CASE BeginJob(w) \/ HandBackJob(w)
  <2>1. PICK to \in {"batch", "run"} : Move(w, "batch", to)
    BY <1>4 DEF BeginJob, HandBackJob
  <2>2. left' = [left EXCEPT ![w] = @ - 1] /\ UNCHANGED <<open, main>>
    BY <1>4 DEF BeginJob, HandBackJob
  <2>3. /\ left' \in [Tasks -> Int]
        /\ \A u \in Tasks \ {w} : left'[u] = left[u]
    BY <1>1, <2>2 DEF ShutdownInv
  <2>4. to \in Places
    BY <2>1 DEF Places, AfterTop
  <2> QED  BY <1>1, <2>1, <2>2, <2>3, <2>4, MovesKeep
<1>5. CASE FinishJob(w) \/ BatchDone(w)
  BY <1>1, <1>5, PlainKeeps DEF FinishJob, BatchDone, Places, AfterTop
<1> QED  BY <1>2, <1>3, <1>4, <1>5 DEF WorkerMoves

LEMMA ReconcileKeeps ==
  ASSUME ShutdownInv, ReconcileStep
  PROVE  ShutdownInv'
<1>1. "reconcile" \in Tasks \ {"http"} /\ "reconcile" \notin OwnWorkers
  BY TasksApart
<1>2. CASE ReconcileStop
  BY <1>1, <1>2, StopKeeps DEF ReconcileStop
<1>3. CASE ReconcileTick \/ ChannelsDone
  BY <1>1, <1>3, PlainKeeps DEF ReconcileTick, ChannelsDone, Places
<1>4. CASE ReadChannels \/ ReconcileChannel \/ LeaveChannels
  <2>1. PICK n \in Int : left' = [left EXCEPT !["reconcile"] = n]
    BY <1>1, <1>4, TasksApart
       DEF ReadChannels, ReconcileChannel, LeaveChannels, ShutdownInv
  <2>2. /\ left' \in [Tasks -> Int]
        /\ \A u \in Tasks \ {"reconcile"} : left'[u] = left[u]
    BY <1>1, <2>1 DEF ShutdownInv
  <2>3. PICK from \in {"cycle", "channels"}, to \in {"channels", "sleep"} :
          Move("reconcile", from, to)
    BY <1>4 DEF ReadChannels, ReconcileChannel, LeaveChannels
  <2>4. UNCHANGED <<open, main>> /\ to \in Places
    BY <1>4 DEF ReadChannels, ReconcileChannel, LeaveChannels, Places
  <2> QED  BY <1>1, <2>2, <2>3, <2>4, MovesKeep
<1> QED  BY <1>2, <1>3, <1>4 DEF ReconcileStep

LEMMA StepKeepsShutdown ==
  ASSUME ShutdownInv, [ShutdownNext]_shutdownVars
  PROVE  ShutdownInv'
<1>1. /\ {"listener", "reconcile", "http"} \subseteq Tasks
      /\ "http" \notin OwnWorkers /\ "listener" \notin OwnWorkers
  BY TasksApart
<1>2. CASE \E w \in OwnWorkers : WorkerMoves(w)
  BY <1>2, WorkerKeeps
<1>3. CASE ListenerStop
  BY <1>1, <1>3, StopKeeps DEF ListenerStop
<1>4. CASE ListenerConnect \/ ListenerBroken
  BY <1>1, <1>4, PlainKeeps
     DEF ListenerConnect, ListenerBroken, Untriggered, Places
<1>5. CASE ReconcileStep
  BY <1>5, ReconcileKeeps
<1>6. CASE StopAccepting \/ Drained
  <2>1. PICK to \in {"drain", "stopped"} : at' = [at EXCEPT !["http"] = to]
    BY <1>6 DEF StopAccepting, Drained, Plain, Move
  <2>2. /\ at["http"] # "stopped" /\ UNCHANGED <<left, open, main>>
        /\ to = "stopped" => open = 0
    BY <1>1, <1>6, <2>1
       DEF StopAccepting, Drained, Plain, Move, ShutdownInv
  <2>3. at' \in [Tasks -> Places] /\ at'["http"] = to
    BY <1>1, <2>1 DEF ShutdownInv, Places
  <2>4. \A w \in OwnWorkers : at'[w] = at[w]
    BY <1>1, <2>1, TasksApart DEF ShutdownInv
  <2> QED  BY <1>1, <2>1, <2>2, <2>3, <2>4 DEF ShutdownInv
<1>7. CASE Accept \/ Respond
  BY <1>7 DEF Accept, Respond, ShutdownInv
<1>8. CASE StartJoining \/ Exit
  BY <1>1, <1>8 DEF StartJoining, Exit, ShutdownInv
<1>9. CASE SetDraining \/ Trigger \/ UNCHANGED shutdownVars
  BY <1>9 DEF SetDraining, Trigger, shutdownVars, ShutdownInv
<1> QED  BY <1>2, <1>3, <1>4, <1>5, <1>6, <1>7, <1>8, <1>9 DEF ShutdownNext

(* When main returns, every request has been answered and no worker of the *)
(* replica holds a claimed job (tasks/shutdown.rs, main.rs).               *)
THEOREM NothingIsDropped == ShutdownSpec => []NothingDropped
<1>1. ShutdownInit => ShutdownInv
  BY InitShutdown
<1>2. ShutdownInv /\ [ShutdownNext]_shutdownVars => ShutdownInv'
  BY StepKeepsShutdown
<1>3. ShutdownInv => NothingDropped
  BY TasksApart DEF ShutdownInv, NothingDropped
<1> QED  BY <1>1, <1>2, <1>3, PTL DEF ShutdownSpec
=============================================================================

---------------------------- MODULE JobLifecycle ----------------------------
(***************************************************************************)
(* What the job queue promises, without batches, locks, clocks or signals: *)
(* a row is pending, in progress, or settled for good; a claimed job is in *)
(* the hands of one worker, and only that worker settles it or puts it     *)
(* back; a job nobody has in hand any more is offered again.               *)
(***************************************************************************)
CONSTANTS Jobs, Workers, NULL

VARIABLES
  status,   \* the status column
  holder    \* the worker that has the job in hand, or NULL

vars == <<status, holder>>

Init ==
  /\ status = [j \in Jobs |-> "absent"]
  /\ holder = [j \in Jobs |-> NULL]

Insert(j) ==
  /\ status[j] = "absent"
  /\ status' = [status EXCEPT ![j] = "pending"]
  /\ UNCHANGED holder

(* One worker takes a batch of pending jobs. *)
Claim(w, S) ==
  /\ \A j \in S : status[j] = "pending"
  /\ status' = [j \in Jobs |-> IF j \in S THEN "in_progress" ELSE status[j]]
  /\ holder' = [j \in Jobs |-> IF j \in S THEN w ELSE holder[j]]

(* The holder completes the job, buries it, or puts it back. *)
Settle(j, st) ==
  /\ status[j] = "in_progress" /\ holder[j] # NULL
  /\ status' = [status EXCEPT ![j] = st]
  /\ holder' = [holder EXCEPT ![j] = NULL]

(* The holder is gone, or forgot the job without recording an outcome. *)
Drop(S) ==
  /\ \A j \in S : status[j] = "in_progress"
  /\ holder' = [j \in Jobs |-> IF j \in S THEN NULL ELSE holder[j]]
  /\ UNCHANGED status

(* Jobs in nobody's hands are pending again. *)
Reclaim(S) ==
  /\ \A j \in S : status[j] = "in_progress" /\ holder[j] = NULL
  /\ status' = [j \in Jobs |-> IF j \in S THEN "pending" ELSE status[j]]
  /\ UNCHANGED holder

Next ==
  \/ \E j \in Jobs : Insert(j)
  \/ \E j \in Jobs, st \in {"completed", "dead", "pending"} : Settle(j, st)
  \/ \E w \in Workers, S \in SUBSET Jobs : Claim(w, S)
  \/ \E S \in SUBSET Jobs : Drop(S) \/ Reclaim(S)

Spec == Init /\ [][Next]_vars
=============================================================================

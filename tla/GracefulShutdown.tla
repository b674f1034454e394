-------------------------- MODULE GracefulShutdown --------------------------
(***************************************************************************)
(* One replica's shutdown: the broadcast signal (tasks/shutdown.rs), the   *)
(* tasks that poll it or wait on it (job_worker, job_listener, reconcile,  *)
(* the HTTP server) and main, which joins them all before it returns.      *)
(*                                                                         *)
(* A task's receiver holds the one message of the channel until            *)
(* is_triggered() or wait() takes it.  main keeps a Sender to its last     *)
(* line, so the channel never closes while main waits and a receiver that  *)
(* has given up its message never reports shutdown again.                  *)
(***************************************************************************)
EXTENDS Naturals, FiniteSets

CONSTANTS
  OwnWorkers,    \* the job-worker tasks of this replica
  MaxClaim,      \* jobs one claim returns at most
  NumChannels,   \* rows of broadcasters at most
  MaxOpen        \* bound: requests in flight

ASSUME ShutdownAssumption ==
  /\ MaxClaim \in Nat \ {0}
  /\ NumChannels \in Nat
  /\ MaxOpen \in Nat
  /\ OwnWorkers \cap {"listener", "reconcile", "http"} = {}

Others == {"listener", "reconcile", "http"}
Tasks  == OwnWorkers \cup Others

VARIABLES
  mail,      \* each task's receiver: "none", "unread", "read"
  at,        \* where each task stands
  left,      \* claimed jobs a worker has not looked at; channels still to do
  open,      \* requests in flight
  draining,  \* AppState.draining, read by /ready
  main,      \* "serving", "joining", "exited"
  missed     \* history: tasks that took the message and carried on

shutdownVars == <<mail, at, left, open, draining, main, missed>>

AfterTop == {"claim", "idle", "batch", "run"}
Places   == AfterTop \cup {"top", "backoff", "listen", "delay", "cycle",
                           "channels", "sleep", "accept", "drain", "stopped"}

-----------------------------------------------------------------------------
Move(t, from, to) == at[t] = from /\ at' = [at EXCEPT ![t] = to]

(* is_triggered() answered true, or wait() resolved: the message is gone.  *)
Take(t) == mail[t] = "unread" /\ mail' = [mail EXCEPT ![t] = "read"]

(* A task stops where the code breaks out of its outer loop. *)
StopFrom(t, from) ==
  /\ Move(t, from, "stopped")
  /\ Take(t)
  /\ UNCHANGED <<left, open, draining, main, missed>>

(* A move that reads nothing but the task's place (no message taken). *)
Plain(t, from, to) ==
  /\ Move(t, from, to)
  /\ UNCHANGED <<mail, left, open, draining, main, missed>>

(* The same after is_triggered() answered false. *)
Untriggered(t, from, to) == mail[t] # "unread" /\ Plain(t, from, to)

-----------------------------------------------------------------------------
(* The signal task: /ready starts to fail, then every receiver is woken.   *)

SetDraining ==
  /\ ~draining
  /\ draining' = TRUE
  /\ UNCHANGED <<mail, at, left, open, main, missed>>

Trigger ==
  /\ draining /\ \A t \in Tasks : mail[t] = "none"
  /\ mail' = [t \in Tasks |-> "unread"]
  /\ UNCHANGED <<at, left, open, draining, main, missed>>

-----------------------------------------------------------------------------
(* A job worker. *)

WorkerTop(w)  == StopFrom(w, "top") \/ Untriggered(w, "top", "claim")
WorkerIdle(w) == StopFrom(w, "idle") \/ Plain(w, "idle", "top")

Claim(w) ==
  /\ \E n \in 0..MaxClaim :
       /\ left' = [left EXCEPT ![w] = n]
       /\ Move(w, "claim", IF n = 0 THEN "idle" ELSE "batch")
  /\ UNCHANGED <<mail, open, draining, main, missed>>

BeginJob(w) ==
  /\ left[w] > 0 /\ mail[w] # "unread"
  /\ left' = [left EXCEPT ![w] = @ - 1]
  /\ Move(w, "batch", "run")
  /\ UNCHANGED <<mail, open, draining, main, missed>>

(* The check inside the batch takes the message, releases one job and goes *)
(* on with the next.                                                       *)
HandBackJob(w) ==
  /\ left[w] > 0 /\ Take(w)
  /\ left' = [left EXCEPT ![w] = @ - 1]
  /\ Move(w, "batch", "batch")
  /\ missed' = missed \cup {w}
  /\ UNCHANGED <<open, draining, main>>

FinishJob(w) == Plain(w, "run", "batch")
BatchDone(w) == left[w] = 0 /\ Plain(w, "batch", "top")

WorkerMoves(w) ==
  \/ WorkerTop(w) \/ WorkerIdle(w) \/ Claim(w) \/ BeginJob(w)
  \/ HandBackJob(w) \/ FinishJob(w) \/ BatchDone(w)

-----------------------------------------------------------------------------
(* The LISTEN task. *)

(* Mutant: the inner loop does not select on wait(). *)
ListenerStopDeaf ==
  StopFrom("listener", "top") \/ StopFrom("listener", "backoff")

ListenerStop ==
  StopFrom("listener", "top") \/ StopFrom("listener", "backoff")
  \/ StopFrom("listener", "listen")

(* Connected, connection refused, back from the backoff. *)
ListenerConnect ==
  \/ Untriggered("listener", "top", "listen")
  \/ Untriggered("listener", "top", "backoff")
  \/ Plain("listener", "backoff", "top")

ListenerBroken == Plain("listener", "listen", "top")

-----------------------------------------------------------------------------
(* The reconcile task. *)

ReconcileStop ==
  StopFrom("reconcile", "delay") \/ StopFrom("reconcile", "sleep")

(* The boot delay or six hours pass, and a cycle starts. *)
ReconcileTick ==
  Plain("reconcile", "delay", "cycle") \/ Plain("reconcile", "sleep", "cycle")

(* gc, recount, backfill and sweep are done; the channel list is read. *)
ReadChannels ==
  /\ \E n \in 0..NumChannels : left' = [left EXCEPT !["reconcile"] = n]
  /\ Move("reconcile", "cycle", "channels")
  /\ UNCHANGED <<mail, open, draining, main, missed>>

ReconcileChannel ==
  /\ left["reconcile"] > 0 /\ mail["reconcile"] # "unread"
  /\ left' = [left EXCEPT !["reconcile"] = @ - 1]
  /\ Move("reconcile", "channels", "channels")
  /\ UNCHANGED <<mail, open, draining, main, missed>>

(* is_triggered() breaks out of the channel loop only; the task goes on to *)
(* wait for a message it has already taken.                                *)
LeaveChannels ==
  /\ left["reconcile"] > 0 /\ Take("reconcile")
  /\ left' = [left EXCEPT !["reconcile"] = 0]
  /\ Move("reconcile", "channels", "sleep")
  /\ missed' = missed \cup {"reconcile"}
  /\ UNCHANGED <<open, draining, main>>

ChannelsDone ==
  left["reconcile"] = 0 /\ Plain("reconcile", "channels", "sleep")

ReconcileStep ==
  \/ ReconcileStop \/ ReconcileTick \/ ReadChannels \/ ReconcileChannel
  \/ LeaveChannels \/ ChannelsDone

-----------------------------------------------------------------------------
(* axum::serve with_graceful_shutdown, and main. *)

Accept ==
  /\ at["http"] = "accept" /\ open < MaxOpen
  /\ open' = open + 1
  /\ UNCHANGED <<mail, at, left, draining, main, missed>>

Respond ==
  /\ open > 0
  /\ open' = open - 1
  /\ UNCHANGED <<mail, at, left, draining, main, missed>>

StopAccepting ==
  /\ Move("http", "accept", "drain") /\ Take("http")
  /\ UNCHANGED <<left, open, draining, main, missed>>

Drained ==
  /\ open = 0 /\ Plain("http", "drain", "stopped")

(* serve() returned: main starts to join. *)
StartJoining ==
  /\ main = "serving" /\ at["http"] = "stopped"
  /\ main' = "joining"
  /\ UNCHANGED <<mail, at, left, open, draining, missed>>

(* Mutant: main joins the workers but not the other tasks. *)
ExitEarly ==
  /\ main = "joining" /\ \A t \in Others : at[t] = "stopped"
  /\ main' = "exited"
  /\ UNCHANGED <<mail, at, left, open, draining, missed>>

(* Every worker handle, the listener's and reconcile's have been awaited.  *)
Exit ==
  /\ main = "joining" /\ \A t \in Tasks : at[t] = "stopped"
  /\ main' = "exited"
  /\ UNCHANGED <<mail, at, left, open, draining, missed>>

-----------------------------------------------------------------------------
ShutdownInit ==
  /\ mail = [t \in Tasks |-> "none"]
  /\ at = [t \in Tasks |-> CASE t = "listener"  -> "top"
                             [] t = "reconcile" -> "delay"
                             [] t = "http"      -> "accept"
                             [] OTHER           -> "top"]
  /\ left = [t \in Tasks |-> 0]
  /\ open = 0 /\ draining = FALSE /\ main = "serving"
  /\ missed = {}

ShutdownNext ==
  \/ SetDraining \/ Trigger
  \/ \E w \in OwnWorkers : WorkerMoves(w)
  \/ ListenerStop \/ ListenerConnect \/ ListenerBroken
  \/ ReconcileStep
  \/ Accept \/ Respond \/ StopAccepting \/ Drained \/ StartJoining \/ Exit

ShutdownSpec == ShutdownInit /\ [][ShutdownNext]_shutdownVars

(* The runtime keeps polling every task; a job, a channel's refresh and a  *)
(* request each end.  Reconcile's waits last hours, so a message that is   *)
(* there ends one of them before the timer does, sooner or later.          *)
ShutdownFairness ==
  /\ WF_shutdownVars(Trigger)
  /\ \A w \in OwnWorkers : WF_shutdownVars(WorkerMoves(w))
  /\ WF_shutdownVars(ListenerStop)
  /\ WF_shutdownVars(ReconcileStep) /\ SF_shutdownVars(ReconcileStop)
  /\ WF_shutdownVars(Respond) /\ WF_shutdownVars(StopAccepting) /\ WF_shutdownVars(Drained)
  /\ WF_shutdownVars(StartJoining) /\ WF_shutdownVars(Exit)

ShutdownFairSpec == ShutdownSpec /\ ShutdownFairness

-----------------------------------------------------------------------------
(* Type invariant. *)
ShutdownTypeOK ==
  /\ mail \in [Tasks -> {"none", "unread", "read"}]
  /\ at \in [Tasks -> Places]
  /\ left \in [Tasks -> 0..(MaxClaim + NumChannels)]
  /\ open \in 0..MaxOpen
  /\ draining \in BOOLEAN
  /\ main \in {"serving", "joining", "exited"}
  /\ missed \subseteq Tasks

(* When main returns, no request is open and no worker still has a claimed *)
(* job in hand (shutdown.rs: "no in-flight job is silently dropped").      *)
NothingDropped ==
  main = "exited" =>
    open = 0 /\ \A w \in OwnWorkers : at[w] = "stopped" /\ left[w] = 0

(* The only way to hang: a task took the message inside a loop and carried *)
(* on.  Unless that happens, the signal is followed by main's exit.        *)
ExitsUnlessMissed ==
  mail["http"] = "unread" ~> (main = "exited" \/ missed # {})

(* The signal is followed by main's exit. *)
ShutdownCompletes == mail["http"] = "unread" ~> main = "exited"
=============================================================================

------------------------------ MODULE Lifecycle ------------------------------
(***************************************************************************)
(* One process that serves a vault, from opening it to the end of main:    *)
(* `vault-cli mcp serve' (start_with_mcp, ApplicationHandle, the signal    *)
(* handler, the nightly scheduler) and `vault-cli daemon' (the accept loop *)
(* and a detached retry worker).  Each tokio task is a variable; a task    *)
(* that is aborted ends at its next await.                                 *)
(*                                                                         *)
(* The outbox is a number of rows.  What a row is, and what the worker     *)
(* does with it, is in CascadingWrites; here it is handled or not.         *)
(***************************************************************************)
EXTENDS Naturals

CONSTANTS
  LMaxWrites,      \* bound: rows clients enqueue
  LMaxLives        \* bound: processes started, one after the other

ASSUME LifeAssumption == LMaxWrites \in Nat /\ LMaxLives \in Nat \ {0}

VARIABLES
  host,            \* "serve" or "daemon"
  proc,            \* "off", "opening", "serving", "stopping", "joining", "leaving"
  worker,          \* the retry worker's task
  late,            \* the drain's deadline has passed
  server,          \* the MCP server's task (serve), or the accept loop (daemon)
  sig,             \* the signal handler's task: waits for the first, the second ...
  sched,           \* the nightly scheduler's task
  cancel,          \* the watch channel: "live", TRUE was sent, or the sender is gone
  selected,        \* the JoinHandle that wait() polled to completion
  vlock,           \* .vault.lock: "absent", "held", "stale"
  outbox,          \* rows of retry_queue
  lives, writes,
  \* history
  before,          \* rows that were queued when the drain began and are still there
  cut              \* the drain ended early: budget, error, or the process left

lifeVars == <<host, proc, worker, late, server, sig, sched, cancel, selected,
              vlock, outbox, lives, writes, before, cut>>

tasks == <<worker, late, server, sig, sched, cancel, selected>>
hist  == <<before, cut>>

Ended == {"none", "done", "aborted"}

LifeTypeOK ==
  /\ host \in {"serve", "daemon"}
  /\ proc \in {"off", "opening", "serving", "stopping", "joining", "leaving"}
  /\ worker \in {"none", "running", "draining", "done"}
  /\ server \in {"none", "up", "aborting", "done", "aborted"}
  /\ sig \in {"none", "first", "second", "aborting", "done", "aborted"}
  /\ sched \in {"none", "asleep", "running", "aborting", "done", "aborted"}
  /\ cancel \in {"live", "sent", "dropped"}
  /\ selected \in {"none", "server", "signal"}
  /\ vlock \in {"absent", "held", "stale"}
  /\ outbox \in 0..LMaxWrites /\ before \in 0..LMaxWrites
  /\ writes \in 0..LMaxWrites
  /\ lives \in 0..LMaxLives
  /\ late \in BOOLEAN /\ cut \in BOOLEAN

NoTasks ==
  /\ worker = "none" /\ late = FALSE /\ server = "none" /\ sig = "none"
  /\ sched = "none" /\ cancel = "live" /\ selected = "none"

LifeInit ==
  /\ host \in {"serve", "daemon"}
  /\ proc = "off" /\ NoTasks
  /\ vlock = "absent"
  /\ outbox = 0 /\ before = 0 /\ lives = 0 /\ writes = 0
  /\ cut = FALSE

\* The process is gone, and every task with it, wherever each was.
ProcessEnds ==
  /\ proc' = "off"
  /\ worker' = "none" /\ late' = FALSE /\ server' = "none" /\ sig' = "none"
  /\ sched' = "none" /\ cancel' = "live" /\ selected' = "none"

-----------------------------------------------------------------------------
\* Opening.

\* The owner lock comes first; a file a dead owner left is reclaimed, or removed
\* by the user (ConsolidatorLock).
StartProcess ==
  /\ proc = "off" /\ lives < LMaxLives
  /\ vlock \in {"absent", "stale"}
  /\ vlock' = "held"
  /\ lives' = lives + 1
  /\ proc' = "opening"
  /\ before' = 0 /\ cut' = FALSE
  /\ UNCHANGED <<host, tasks, outbox, writes>>

\* drain_startup_cascades: steps until nothing is due, an error, or the budget.
StartupDrain ==
  /\ proc = "opening" /\ outbox > 0
  /\ outbox' = outbox - 1
  /\ UNCHANGED <<host, proc, tasks, vlock, lives, writes, hist>>

\* Application::new or the bind fails; main returns an error and drops the lock.
StartFails ==
  /\ proc = "opening"
  /\ ProcessEnds
  /\ vlock' = "absent"
  /\ UNCHANGED <<host, outbox, lives, writes, hist>>

\* start_with_mcp spawns all tasks; the daemon spawns the worker and listens.
StartServing ==
  /\ proc = "opening"
  /\ proc' = "serving"
  /\ worker' = "running"
  /\ server' = "up"
  /\ IF host = "serve"
     THEN sig' = "first" /\ sched' \in {"none", "asleep"}
     ELSE UNCHANGED <<sig, sched>>
  /\ UNCHANGED <<host, late, cancel, selected, vlock, outbox, lives, writes, hist>>

-----------------------------------------------------------------------------
\* The tasks.

\* A client's write is accepted as long as the server's task runs.
Serve ==
  /\ server = "up" /\ writes < LMaxWrites
  /\ writes' = writes + 1
  /\ outbox' = outbox + 1
  /\ UNCHANGED <<host, proc, tasks, vlock, lives, hist>>

\* A step takes a row off the outbox, or puts it off, or finds none due.
WorkerHandles ==
  /\ worker = "running" \/ (worker = "draining" /\ ~ late)
  /\ outbox > 0
  /\ outbox' = outbox - 1
  /\ \/ before < outbox /\ before' = before     \* a row queued since
     \/ before > 0 /\ before' = before - 1
  /\ UNCHANGED <<host, proc, tasks, vlock, lives, writes, cut>>

\* The flag is set, or changed() reports that the sender is gone.
WorkerCancelled ==
  /\ worker = "running" /\ cancel # "live"
  /\ worker' = "draining" /\ late' = FALSE
  /\ before' = outbox
  /\ UNCHANGED <<host, proc, server, sig, sched, cancel, selected, vlock,
                 outbox, lives, writes, cut>>

DrainDeadline ==
  /\ worker = "draining" /\ ~ late
  /\ late' = TRUE
  /\ UNCHANGED <<host, proc, worker, server, sig, sched, cancel, selected,
                 vlock, outbox, lives, writes, hist>>

\* Mutant: the drain has no deadline.
DrainEndsEmpty ==
  /\ worker = "draining" /\ outbox = 0
  /\ worker' = "done"
  /\ UNCHANGED <<host, proc, late, server, sig, sched, cancel, selected,
                 vlock, outbox, lives, writes, hist>>

\* Mutant: the drain stops when nothing is due.
DrainEndsIdle ==
  /\ worker = "draining"
  /\ worker' = "done"
  /\ UNCHANGED <<host, proc, late, server, sig, sched, cancel, selected,
                 vlock, outbox, lives, writes, hist>>

\* The queue is empty, or the deadline has passed.
DrainEnds ==
  /\ worker = "draining"
  /\ outbox = 0 \/ late
  /\ worker' = "done"
  /\ cut' = (cut \/ outbox > 0)
  /\ UNCHANGED <<host, proc, late, server, sig, sched, cancel, selected,
                 vlock, outbox, lives, writes, before>>

\* The queue length cannot be read, or a step fails.
DrainErrs ==
  /\ worker = "draining"
  /\ worker' = "done"
  /\ cut' = TRUE
  /\ UNCHANGED <<host, proc, late, server, sig, sched, cancel, selected,
                 vlock, outbox, lives, writes, before>>

\* stdin reaches its end: the client has gone.
Disconnect ==
  /\ host = "serve" /\ server = "up"
  /\ server' = "done"
  /\ UNCHANGED <<host, proc, worker, late, sig, sched, cancel, selected,
                 vlock, outbox, lives, writes, hist>>

\* handle_signals, first Ctrl-C.
FirstCtrlC ==
  /\ sig = "first"
  /\ cancel' = "sent"
  /\ sig' = "second"
  /\ UNCHANGED <<host, proc, worker, late, server, sched, selected,
                 vlock, outbox, lives, writes, hist>>

\* Second Ctrl-C: exit(130) at once, without a destructor.
SecondCtrlC ==
  /\ sig = "second"
  /\ ProcessEnds
  /\ vlock' = "stale"
  /\ UNCHANGED <<host, outbox, lives, writes, hist>>

\* The signal source breaks: the handler's task returns.
SignalsBreak ==
  /\ sig \in {"first", "second"}
  /\ sig' = "done"
  /\ UNCHANGED <<host, proc, worker, late, server, sched, cancel, selected,
                 vlock, outbox, lives, writes, hist>>

\* run_consolidator_schedule: the sleep is cancelled, a run is not.
ScheduledRunBegins ==
  /\ sched = "asleep"
  /\ sched' = "running"
  /\ UNCHANGED <<host, proc, worker, late, server, sig, cancel, selected,
                 vlock, outbox, lives, writes, hist>>

ScheduledRunEnds ==
  /\ sched = "running"
  /\ sched' = IF cancel = "live" THEN "asleep" ELSE "done"
  /\ UNCHANGED <<host, proc, worker, late, server, sig, cancel, selected,
                 vlock, outbox, lives, writes, hist>>

SleepCancelled ==
  /\ sched = "asleep" /\ cancel # "live"
  /\ sched' = "done"
  /\ UNCHANGED <<host, proc, worker, late, server, sig, cancel, selected,
                 vlock, outbox, lives, writes, hist>>

AbortLands ==
  /\ \/ server = "aborting" /\ server' = "aborted" /\ UNCHANGED <<sig, sched>>
     \/ sig = "aborting" /\ sig' = "aborted" /\ UNCHANGED <<server, sched>>
     \/ sched = "aborting" /\ sched' = "aborted" /\ UNCHANGED <<server, sig>>
  /\ UNCHANGED <<host, proc, worker, late, cancel, selected,
                 vlock, outbox, lives, writes, hist>>

-----------------------------------------------------------------------------
\* The end of `mcp serve'.

Abort(task) == IF task \in Ended THEN task ELSE "aborting"

\* wait(): one of the two handles is ready; then shutdown, up to its first await.
WaitSelects ==
  /\ proc = "serving" /\ host = "serve"
  /\ \/ server = "done" /\ selected' = "server"
     \/ sig = "done" /\ selected' = "signal"
  /\ cancel' = "sent"
  /\ sig' = Abort(sig) /\ server' = Abort(server) /\ sched' = Abort(sched)
  /\ proc' = "stopping"
  /\ UNCHANGED <<host, worker, late, vlock, outbox, lives, writes, hist>>

AwaitWorker ==
  /\ proc = "stopping" /\ worker = "done"
  /\ proc' = "joining"
  /\ UNCHANGED <<host, tasks, vlock, outbox, lives, writes, hist>>

\* A handle is awaited unless its task has finished.
AwaitedServer == server \in Ended
AwaitedSignal == sig \in Ended

\* Mutant: main returns with the worker still draining.
LeaveServeEarly ==
  /\ proc = "stopping"
  /\ ProcessEnds
  /\ vlock' = "absent"
  /\ UNCHANGED <<host, outbox, lives, writes, hist>>

\* All handles have been awaited; main returns, and the lock's guard drops.
LeaveServe ==
  /\ proc = "joining"
  /\ AwaitedServer /\ AwaitedSignal /\ sched \in Ended
  /\ ProcessEnds
  /\ vlock' = "absent"
  /\ UNCHANGED <<host, outbox, lives, writes, hist>>

-----------------------------------------------------------------------------
\* The end of `daemon'.

\* Ctrl-C ends the accept loop; dispatch_daemon returns, which drops the worker's
\* sender and then the lock.  The tasks it spawned are still running.
DaemonReturns ==
  /\ proc = "serving" /\ host = "daemon"
  /\ cancel' = "dropped"
  /\ vlock' = "absent"
  /\ proc' = "leaving"
  /\ UNCHANGED <<host, worker, late, server, sig, sched, selected,
                 outbox, lives, writes, hist>>

\* The runtime is dropped: each task ends where it stands.
RuntimeDropped ==
  /\ proc = "leaving"
  /\ ProcessEnds
  /\ cut' = (cut \/ outbox > 0)
  /\ UNCHANGED <<host, vlock, outbox, lives, writes, before>>

\* The process is killed.
Killed ==
  /\ proc \notin {"off", "leaving"}
  /\ ProcessEnds
  /\ vlock' = "stale"
  /\ cut' = TRUE
  /\ UNCHANGED <<host, outbox, lives, writes, before>>

-----------------------------------------------------------------------------
WorkerNext == WorkerHandles \/ WorkerCancelled \/ DrainDeadline \/ DrainEnds \/ DrainErrs
SignalNext == FirstCtrlC \/ SecondCtrlC \/ SignalsBreak
SchedNext  == ScheduledRunBegins \/ ScheduledRunEnds \/ SleepCancelled
StopNext   == WaitSelects \/ AwaitWorker \/ LeaveServe \/ AbortLands
OpenNext   == StartProcess \/ StartupDrain \/ StartFails \/ StartServing

LifeNext ==
  \/ OpenNext
  \/ Serve \/ Disconnect
  \/ WorkerNext \/ SignalNext \/ SchedNext \/ StopNext
  \/ DaemonReturns \/ RuntimeDropped \/ Killed

LifeSpec == LifeInit /\ [][LifeNext]_lifeVars

\* Tokio polls every ready task, and time passes.  No row need ever succeed, no
\* client need leave, no signal need come.
LifeFairness ==
  /\ WF_lifeVars(WorkerCancelled)
  /\ WF_lifeVars(DrainDeadline)
  /\ WF_lifeVars(DrainEnds)
  /\ WF_lifeVars(AbortLands)
  /\ WF_lifeVars(WaitSelects)
  /\ WF_lifeVars(AwaitWorker)
  /\ WF_lifeVars(LeaveServe)
  /\ WF_lifeVars(RuntimeDropped)

LifeFairSpec == LifeSpec /\ LifeFairness

-----------------------------------------------------------------------------
\* Properties.

TasksEnded == /\ worker \in {"none", "done"}
              /\ server \in Ended /\ sig \in Ended /\ sched \in Ended

\* `mcp serve' gives the vault up only when nothing of it runs any more: no
\* drain, no request and no nightly run writes to a vault another process may
\* have opened by then.  And a shutdown that was neither cut short nor
\* killed leaves none of the rows that were queued when it began, due or not.
LeavesClean ==
  [][/\ host = "serve" /\ vlock = "held" /\ vlock' = "absent" /\ proc # "opening" =>
          TasksEnded
     /\ proc = "joining" /\ proc' = "off" /\ ~ cut' => before = 0]_lifeVars

\* The client's leaving ends the process, even when no row ever succeeds, a
\* nightly run is under way or Ctrl-C came first.
DisconnectStops == (proc = "serving" /\ server = "done") ~> (proc = "off")

\* vault-cli's main.rs: serve "[b]locks until the client disconnects (stdio EOF)
\* or the user Ctrl-Cs".
CtrlCStops == (host = "serve" /\ sig = "second") ~> (proc = "off")
=============================================================================

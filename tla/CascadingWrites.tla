-------------------------- MODULE CascadingWrites --------------------------
(***************************************************************************)
(* The cascading write path of vault-storage: SQLite is the record of      *)
(* truth, and every change of a memory reaches the vector store later,     *)
(* through a durable outbox in the same SQLite file.                       *)
(*                                                                         *)
(*   cascading.rs     StorageBackend: the transactions that commit a       *)
(*                    memory row, its audit event and its outbox row       *)
(*                    together, and the pending_sync sweep                 *)
(*   retry_queue.rs   the outbox: due order, backoff, attempts             *)
(*   retry_worker.rs  the loop that replays the outbox into the vector     *)
(*                    store and dead-letters what cannot be replayed       *)
(*   pending_sync.rs  where operations go once the outbox is at its cap    *)
(*                                                                         *)
(* The operating-system processes that share a vault (desktop app, MCP     *)
(* server, daemon, CLI) are the set Processes; each may have a writer, a   *)
(* worker and a sweeper.  A SQLite transaction is one step; everything     *)
(* between two transactions may interleave, fail or be cut by a crash.     *)
(*                                                                         *)
(* An operation is named by the sequence number of its audit event, which  *)
(* is what retry_queue.sequence_id stores.  Payloads are not modelled: a   *)
(* payload is the operation's own, so the number stands for it as well.    *)
(***************************************************************************)
EXTENDS Integers, Sequences, FiniteSets

CONSTANTS
    Memories,       \* memory ids
    Processes,      \* processes that open the vault
    Writers,        \* those whose clients write
    Workers,        \* those that run a RetryWorker
    Sweepers,       \* those that run drain_pending_sync
    Cap,            \* MAX_RETRY_QUEUE_DEPTH (10 000 in the code)
    MaxAttempts,    \* MAX_ATTEMPTS (8 in the code)
    Faults,         \* the kinds of failure this instance explores
    MaxSeq,         \* bound: the last audit sequence number an operation takes
    MaxFaults       \* bound: crashes, failed steps and rolled-back transactions

\* "transient", "permanent": what is_permanent makes of a vector-store error
\* "late":     a vector delete that fails after the row is gone
\* "error":    a SQLite call of the worker fails between two transactions
\* "crash":    the process dies (or is stopped) between two transactions
\* "rollback": a write transaction fails after its closure ran
FaultKinds == {"transient", "permanent", "late", "error", "crash", "rollback"}

ASSUME ProcessesAssumption ==
    Writers \subseteq Processes /\ Workers \subseteq Processes /\ Sweepers \subseteq Processes
ASSUME CapAssumption == Cap \in Nat \ {0}
ASSUME MaxAttemptsAssumption == MaxAttempts \in 1..8
ASSUME BoundsAssumption == MaxSeq \in Nat /\ MaxFaults \in Nat
ASSUME FaultsAssumption == Faults \subseteq FaultKinds

VARIABLES
    audit,      \* the audit log; an event's seq is its index
    row,        \* memory -> seq of the operation its row in memories shows, 0 if never written
    queue,      \* sequence_id of the rows of retry_queue
    retry,      \* seq -> its retry_queue row: id, attempts_made, time to next_attempt_at
    pending,    \* memory -> sequence_id of its pending_sync row, 0 if none
    dead,       \* seq -> dead_letter rows written for the operation
    vector,     \* memory -> the operation the vector store applied last, 0 if none
    inCap,      \* process -> its in_cap_overflow flag (in memory)
    worker,     \* process -> where step_at is, and the entry it polled
    sweep,      \* process -> the pending_sync rows its sweep has still to move
    executed,   \* history: operations the vector store has applied
    spilled,    \* history: operations that went to pending_sync
    lost,       \* history: operations dropped from every table before they ran
    faults      \* how many of MaxFaults have happened

disk    == <<audit, row, queue, retry, pending, dead, vector>>
memory  == <<inCap, worker, sweep>>
history == <<executed, spilled, lost>>
vars    == <<disk, memory, history, faults>>

Seqs     == 1..MaxSeq
NoMemory == "none"
MemoryEvents == {"memory.create", "memory.update", "memory.delete"}
AuditEvents  == MemoryEvents \cup {"cascade.queue_overflow", "cascade.dead_letter"}

\* cascades: the event's transaction changed a row and so owes the vector store
\* an operation (for memory.delete, details.deleted).
AuditEntry == [event : AuditEvents, memory : Memories \cup {NoMemory}, cascades : BOOLEAN]

Entry(event, m, cascades) == [event |-> event, memory |-> m, cascades |-> cascades]
OverflowEntry == Entry("cascade.queue_overflow", NoMemory, FALSE)

\* base_backoff_secs, in seconds; never asked beyond MAX_ATTEMPTS - 1
BaseBackoff == <<1, 2, 4, 8, 16, 30, 60, 120>>
base_backoff_secs(attempts) == BaseBackoff[attempts + 1]

\* compute_next_attempt: the base with a jitter of at most a quarter either way,
\* in whole ticks of the clock, never less than the code's.
Waits(attempts) ==
    LET base == base_backoff_secs(attempts)
    IN  ((3 * base + 3) \div 4) .. ((5 * base + 3) \div 4)

Attempts == 0..(MaxAttempts - 1)   \* what a row's attempts_made may be
NoRow    == [id |-> 0, attempts |-> 0, wait |-> 0]
IdleStep == [pc |-> "idle", seq |-> 0, id |-> 0]

RowExists(m) == row[m] # 0 /\ audit[row[m]].event # "memory.delete"

Init ==
    /\ audit = <<>>
    /\ row = [m \in Memories |-> 0]
    /\ queue = {}
    /\ retry = [s \in Seqs |-> NoRow]
    /\ pending = [m \in Memories |-> 0]
    /\ dead = [s \in Seqs |-> 0]
    /\ vector = [m \in Memories |-> 0]
    /\ inCap = [p \in Processes |-> FALSE]
    /\ worker = [p \in Processes |-> IdleStep]
    /\ sweep = [p \in Processes |-> {}]
    /\ executed = {} /\ spilled = {} /\ lost = {}
    /\ faults = 0

-----------------------------------------------------------------------------
(* The client: write_memory, update_memory, delete_memory.                 *)

\* INSERT needs an absent row, UPDATE and a DELETE that cascades a present one;
\* otherwise the transaction fails, or is DeleteMissing.
Permitted(event, m) == (event = "memory.create") <=> ~RowExists(m)

\* The memories row and its audit event, the first half of every write transaction.
CommitRow(event, m, seq, events) ==
    /\ seq \in Seqs
    /\ Permitted(event, m)
    /\ row' = [row EXCEPT ![m] = seq]
    /\ audit' = audit \o events

\* Mutant: the first attempt jittered, as RetryQueue::enqueue does.
InsertRetryJittered(seq) ==
    /\ queue' = queue \cup {seq}
    /\ \E wait \in Waits(0) :
          retry' = [retry EXCEPT ![seq] = [id |-> @.id + 1, attempts |-> 0, wait |-> wait]]

\* tx_insert_retry_queue: a row of its own id, due one second from now.
InsertRetry(seq) ==
    /\ queue' = queue \cup {seq}
    /\ retry' = [retry EXCEPT ![seq] =
                    [id |-> @.id + 1, attempts |-> 0, wait |-> base_backoff_secs(0)]]

\* DELETE FROM retry_queue; the id stays used up.
DeleteRetry(seq) ==
    /\ queue' = queue \ {seq}
    /\ retry' = [retry EXCEPT ![seq] = [NoRow EXCEPT !.id = retry[seq].id]]

\* Mutant: leaving overflow does not clear the flag.
CommitEnqueueFlagKept(p, event, m) ==
    LET seq == Len(audit) + 1 IN
    /\ Cardinality(queue) < Cap
    /\ CommitRow(event, m, seq, <<Entry(event, m, TRUE)>>)
    /\ InsertRetry(seq)
    /\ UNCHANGED <<pending, dead, vector, memory, history, faults>>

\* A write while the outbox has room.
CommitEnqueue(p, event, m) ==
    LET seq == Len(audit) + 1 IN
    /\ Cardinality(queue) < Cap
    /\ CommitRow(event, m, seq, <<Entry(event, m, TRUE)>>)
    /\ InsertRetry(seq)
    /\ inCap' = [inCap EXCEPT ![p] = FALSE]
    /\ UNCHANGED <<pending, dead, vector, worker, sweep, history, faults>>

\* A write at the cap: the operation replaces the memory's pending_sync row, and
\* the first such write of a process also appends a queue_overflow event.
CommitOverflow(p, event, m) ==
    LET seq == Len(audit) + 1
        overflow == IF inCap[p] THEN <<>> ELSE <<OverflowEntry>> IN
    /\ ~(Cardinality(queue) < Cap)
    /\ CommitRow(event, m, seq, <<Entry(event, m, TRUE)>> \o overflow)
    /\ pending' = [pending EXCEPT ![m] = seq]
    /\ inCap' = [inCap EXCEPT ![p] = TRUE]
    /\ spilled' = spilled \cup {seq}
    /\ UNCHANGED <<queue, retry, dead, vector, worker, sweep, executed, lost, faults>>

\* delete_memory of an id with no row: audited with deleted = false, no cascade.
DeleteMissing(m) ==
    /\ Len(audit) + 1 \in Seqs
    /\ ~RowExists(m)
    /\ audit' = Append(audit, Entry("memory.delete", m, FALSE))
    /\ UNCHANGED <<row, queue, retry, pending, dead, vector, memory, history, faults>>

\* The transaction fails after its closure ran (a statement or the commit):
\* SQLite undoes the rows, nothing undoes the closure's store to in_cap_overflow.
RollBack(p) ==
    /\ "rollback" \in Faults /\ faults < MaxFaults
    /\ \E event \in MemoryEvents, m \in Memories : Permitted(event, m)
    /\ inCap' = [inCap EXCEPT ![p] = ~(Cardinality(queue) < Cap)]
    /\ faults' = faults + 1
    /\ UNCHANGED <<disk, worker, sweep, history>>

-----------------------------------------------------------------------------
(* The worker: RetryWorker::step_at, one action per point where it awaits. *)

At(p, pc) == worker[p].pc = pc
Goto(p, pc) == worker' = [worker EXCEPT ![p].pc = pc]
Finish(p) == worker' = [worker EXCEPT ![p] = IdleStep]

\* The polled row is still in the table (rows are addressed by id).
RowPresent(p) ==
    worker[p].seq \in queue /\ retry[worker[p].seq].id = worker[p].id

Due == {s \in queue : retry[s].wait = 0}

\* Mutants: any due row is taken; the row is claimed by deleting it.
PollAnyDue(p) ==
    /\ At(p, "idle")
    /\ \E s \in Due :
          worker' = [worker EXCEPT ![p] = [pc |-> "polled", seq |-> s, id |-> retry[s].id]]
    /\ UNCHANGED <<disk, inCap, sweep, history, faults>>
PollClaims(p) ==
    /\ At(p, "idle")
    /\ \E s \in Due :
          /\ \A t \in Due : s <= t
          /\ DeleteRetry(s)
          /\ worker' = [worker EXCEPT ![p] =
                            [pc |-> "polled", seq |-> s, id |-> retry[s].id]]
    /\ UNCHANGED <<audit, row, pending, dead, vector, inCap, sweep, history, faults>>

\* poll_due(now, 1): the due row with the least sequence_id.  Nothing marks it
\* as taken.
Poll(p) ==
    /\ At(p, "idle")
    /\ \E s \in Due :
          /\ \A t \in Due : s <= t
          /\ worker' = [worker EXCEPT ![p] =
                            [pc |-> "polled", seq |-> s, id |-> retry[s].id]]
    /\ UNCHANGED <<disk, inCap, sweep, history, faults>>

\* Nothing is due: StepResult::Idle.
PollNothing(p) ==
    /\ At(p, "idle")
    /\ Due = {}
    /\ UNCHANGED vars

\* The vector store performs the entry: VectorStore::upsert or ::delete.
Effect(p) ==
    LET s == worker[p].seq IN
    /\ vector' = [vector EXCEPT ![audit[s].memory] = s]
    /\ executed' = executed \cup {s}

\* run_cascade returns Ok.
Apply(p) ==
    /\ At(p, "polled")
    /\ Effect(p)
    /\ Goto(p, "applied")
    /\ UNCHANGED <<audit, row, queue, retry, pending, dead, inCap, sweep, spilled, lost, faults>>

\* run_cascade fails before the vector store changed; is_permanent classifies it.
ApplyFails(p) ==
    /\ At(p, "polled")
    /\ \/ "transient" \in Faults /\ Goto(p, "failed")
       \/ "permanent" \in Faults /\ Goto(p, "refused")
    /\ UNCHANGED <<disk, inCap, sweep, history, faults>>

\* VectorStore::delete removes the row, then fails to compact or prune.
DeleteFailsLate(p) ==
    /\ At(p, "polled")
    /\ "late" \in Faults
    /\ audit[worker[p].seq].event = "memory.delete"
    /\ Effect(p)
    /\ Goto(p, "failed")
    /\ UNCHANGED <<audit, row, queue, retry, pending, dead, inCap, sweep, spilled, lost, faults>>

\* Mutant: success deletes every row of the memory.
RecordSuccessOfMemory(p) ==
    LET m == audit[worker[p].seq].memory IN
    /\ At(p, "applied")
    /\ queue' = {s \in queue : audit[s].memory # m}
    /\ Finish(p)
    /\ UNCHANGED <<audit, row, retry, pending, dead, vector, inCap, sweep, history, faults>>

\* record_success: idempotent, the row may be gone.
RecordSuccess(p) ==
    /\ At(p, "applied")
    /\ IF RowPresent(p) THEN DeleteRetry(worker[p].seq) ELSE UNCHANGED <<queue, retry>>
    /\ Finish(p)
    /\ UNCHANGED <<audit, row, pending, dead, vector, inCap, sweep, history, faults>>

\* Mutant: one attempt too many.
ExhaustedLate(p) == retry[worker[p].seq].attempts + 1 > MaxAttempts

\* attempts_made in the table now, this failure included, reaches MAX_ATTEMPTS
Exhausted(p) == retry[worker[p].seq].attempts + 1 >= MaxAttempts

\* Mutant: the attempt is not counted.
RescheduleUncounted(p) ==
    LET s == worker[p].seq IN
    /\ At(p, "failed") /\ RowPresent(p) /\ ~Exhausted(p)
    /\ \E wait \in Waits(retry[s].attempts) : retry' = [retry EXCEPT ![s].wait = wait]
    /\ Finish(p)
    /\ UNCHANGED <<audit, row, queue, pending, dead, vector, inCap, sweep, history, faults>>

\* record_failure on a transient error with attempts left.
Reschedule(p) ==
    LET s == worker[p].seq
        attempts == retry[s].attempts + 1 IN
    /\ At(p, "failed") /\ RowPresent(p) /\ ~Exhausted(p)
    /\ \E wait \in Waits(attempts) :
          retry' = [retry EXCEPT ![s].attempts = attempts, ![s].wait = wait]
    /\ Finish(p)
    /\ UNCHANGED <<audit, row, queue, pending, dead, vector, inCap, sweep, history, faults>>

\* Mutant: the polled entry is dead-lettered without looking for its row again.
GiveUpUnread(p) ==
    /\ At(p, "refused") \/ (At(p, "failed") /\ Exhausted(p))
    /\ DeleteRetry(worker[p].seq)
    /\ Goto(p, "deadLettering")
    /\ UNCHANGED <<audit, row, pending, dead, vector, inCap, sweep, history, faults>>

\* record_failure on a permanent error or the last attempt: the row is deleted
\* and handed to write_dead_letter, in a transaction that ends here.
GiveUp(p) ==
    /\ RowPresent(p)
    /\ At(p, "refused") \/ (At(p, "failed") /\ Exhausted(p))
    /\ DeleteRetry(worker[p].seq)
    /\ Goto(p, "deadLettering")
    /\ UNCHANGED <<audit, row, pending, dead, vector, inCap, sweep, history, faults>>

\* record_failure finds no row: NotFound ends the step.
RowGone(p) ==
    /\ At(p, "failed") \/ At(p, "refused")
    /\ ~RowPresent(p)
    /\ Finish(p)
    /\ UNCHANGED <<disk, inCap, sweep, history, faults>>

\* write_dead_letter, first its row, then its audit event.
InsertDeadLetter(p) ==
    /\ At(p, "deadLettering")
    /\ dead' = [dead EXCEPT ![worker[p].seq] = @ + 1]
    /\ Goto(p, "auditing")
    /\ UNCHANGED <<audit, row, queue, retry, pending, vector, inCap, sweep, history, faults>>

AuditDeadLetter(p) ==
    /\ At(p, "auditing")
    /\ audit' = Append(audit,
                  Entry("cascade.dead_letter", audit[worker[p].seq].memory, FALSE))
    /\ Finish(p)
    /\ UNCHANGED <<row, queue, retry, pending, dead, vector, inCap, sweep, history, faults>>

\* What a step cut short leaves nowhere: an entry record_failure has deleted and
\* write_dead_letter has not inserted.
Dropped(p) == IF At(p, "deadLettering") THEN {worker[p].seq} ELSE {}

\* A SQLite call of the step fails: run() logs the error and goes on.
StepError(p) ==
    /\ "error" \in Faults /\ faults < MaxFaults
    /\ ~At(p, "idle") /\ ~At(p, "polled")
    /\ Finish(p)
    /\ lost' = lost \cup Dropped(p)
    /\ faults' = faults + 1
    /\ UNCHANGED <<disk, inCap, sweep, executed, spilled>>

-----------------------------------------------------------------------------
(* The sweep: drain_pending_sync, called by DivergenceDetector::run_with.  *)

PendingSeqs == {pending[m] : m \in Memories} \ {0}

\* oldest_first reads the rows before any of them is moved.
SweepRead(p) ==
    /\ sweep[p] = {}
    /\ PendingSeqs # {}
    /\ sweep' = [sweep EXCEPT ![p] = PendingSeqs]
    /\ UNCHANGED <<disk, inCap, worker, history, faults>>

\* Mutant: the sweep inserts without counting.
SweepMoveUncounted(p) ==
    \E s \in sweep[p] :
        LET m == audit[s].memory IN
        /\ \A t \in sweep[p] : s <= t
        /\ s \notin queue
        /\ InsertRetry(s)
        /\ pending' = [pending EXCEPT ![m] = 0]
        /\ sweep' = [sweep EXCEPT ![p] = @ \ {s}]
        /\ lost' = lost \cup ({pending[m]} \ {0, s})
        /\ UNCHANGED <<audit, row, dead, vector, inCap, worker, executed, spilled, faults>>

\* One entry's transaction.  The pending_sync row goes by memory id, whatever
\* operation it holds by now.
SweepMove(p) ==
    \E s \in sweep[p] :
        LET m == audit[s].memory IN
        /\ \A t \in sweep[p] : s <= t
        /\ Cardinality(queue) < Cap
        /\ s \notin queue
        /\ InsertRetry(s)
        /\ pending' = [pending EXCEPT ![m] = 0]
        /\ sweep' = [sweep EXCEPT ![p] = @ \ {s}]
        /\ lost' = lost \cup ({pending[m]} \ {0, s})
        /\ UNCHANGED <<audit, row, dead, vector, inCap, worker, executed, spilled, faults>>

\* Mutant: the pending_sync row is deleted before the outbox is found full, and
\* the transaction still commits.
SweepStopDeleting(p) ==
    /\ \E s \in sweep[p] :
          /\ \A t \in sweep[p] : s <= t
          /\ Cardinality(queue) >= Cap \/ s \in queue
          /\ pending' = [pending EXCEPT ![audit[s].memory] = 0]
    /\ sweep' = [sweep EXCEPT ![p] = {}]
    /\ UNCHANGED <<audit, row, queue, retry, dead, vector, inCap, worker, history, faults>>

\* The sweep ends early, its last transaction undone: the outbox is at its cap, or
\* holds the entry already (UNIQUE (memory_id, sequence_id)), or limit rows have
\* been moved, or a SQLite call fails.
SweepStop(p) ==
    /\ sweep[p] # {}
    /\ sweep' = [sweep EXCEPT ![p] = {}]
    /\ UNCHANGED <<disk, inCap, worker, history, faults>>

-----------------------------------------------------------------------------
(* The environment.                                                        *)

\* The process dies and is started again: assemble() begins with in_cap = false
\* and a worker with nothing in hand.
Crash(p) ==
    /\ "crash" \in Faults /\ faults < MaxFaults
    /\ inCap' = [inCap EXCEPT ![p] = FALSE]
    /\ worker' = [worker EXCEPT ![p] = IdleStep]
    /\ sweep' = [sweep EXCEPT ![p] = {}]
    /\ lost' = lost \cup Dropped(p)
    /\ faults' = faults + 1
    /\ UNCHANGED <<disk, executed, spilled>>

\* A second passes.
Tick ==
    /\ \E s \in queue : retry[s].wait > 0
    /\ retry' = [s \in Seqs |->
                    IF retry[s].wait > 0 THEN [retry[s] EXCEPT !.wait = @ - 1] ELSE retry[s]]
    /\ UNCHANGED <<audit, row, queue, pending, dead, vector, memory, history, faults>>

WorkerStep(p) ==
    \/ Poll(p) \/ Apply(p) \/ ApplyFails(p) \/ DeleteFailsLate(p)
    \/ RecordSuccess(p) \/ Reschedule(p) \/ GiveUp(p) \/ RowGone(p)
    \/ InsertDeadLetter(p) \/ AuditDeadLetter(p)

SweepStep(p) == SweepRead(p) \/ SweepMove(p) \/ SweepStop(p)

Next ==
    \/ \E p \in Writers, event \in MemoryEvents, m \in Memories :
          CommitEnqueue(p, event, m) \/ CommitOverflow(p, event, m)
    \/ \E m \in Memories : DeleteMissing(m)
    \/ \E p \in Writers : RollBack(p)
    \/ \E p \in Workers : WorkerStep(p) \/ StepError(p) \/ PollNothing(p)
    \/ \E p \in Sweepers : SweepStep(p)
    \/ \E p \in Processes : Crash(p)
    \/ Tick

Spec == Init /\ [][Next]_vars

\* The worker loop keeps stepping and the clock keeps going.  The steps of a
\* worker are fair together: which of them it can take is the store's choice.
\* Nothing is assumed of clients, sweeps or failures.
Fairness == WF_vars(Tick) /\ \A p \in Workers : WF_vars(WorkerStep(p))
FairSpec == Spec /\ Fairness

-----------------------------------------------------------------------------
(* Properties.                                                             *)

WorkerStates == {"idle", "polled", "applied", "failed", "refused",
                 "deadLettering", "auditing"}

\* Every variable has its type.  A row never holds an attempt count for which
\* compute_next_attempt has no delay (record_failure would panic).
TypeOK ==
    /\ audit \in Seq(AuditEntry)
    /\ row \in [Memories -> Seqs \cup {0}]
    /\ queue \subseteq Seqs
    /\ retry \in [Seqs -> [id : Nat, attempts : Attempts, wait : Nat]]
    /\ pending \in [Memories -> Seqs \cup {0}]
    /\ dead \in [Seqs -> Nat]
    /\ vector \in [Memories -> Seqs \cup {0}]
    /\ inCap \in [Processes -> BOOLEAN]
    /\ worker \in [Processes -> [pc : WorkerStates, seq : Seqs \cup {0}, id : Nat]]
    /\ sweep \in [Processes -> SUBSET Seqs]
    /\ executed \subseteq Seqs /\ spilled \subseteq Seqs /\ lost \subseteq Seqs
    /\ faults \in 0..MaxFaults

\* retry_queue never holds more than MAX_RETRY_QUEUE_DEPTH rows, though writers
\* and sweeps of several processes count it and insert into it
\* (cascading_write, delete_memory, drain_pending_sync).
QueueWithinCap == Cardinality(queue) <= Cap

InFlight == {worker[p].seq : p \in {w \in Processes : At(w, "deadLettering")}}
DeadLettered == {s \in Seqs : dead[s] > 0}
Durable == queue \cup PendingSeqs \cup DeadLettered
Accounted == executed \cup Durable \cup InFlight \cup lost

\* No operation a client was told is committed vanishes: it has reached the vector
\* store, or waits in retry_queue or pending_sync, or is a dead letter or about to
\* become one; or it spilled and a later operation of its memory took its place in
\* pending_sync; or it was lost in one of the two windows the code leaves open:
\* dropped between record_failure and write_dead_letter, or deleted from
\* pending_sync by a sweep that was moving an older operation of the memory.
EveryOpAccountedFor ==
    \A s \in DOMAIN audit :
        audit[s].cascades =>
            \/ s \in Accounted
            \/ s \in spilled /\ \E t \in spilled :
                  t > s /\ audit[t].memory = audit[s].memory

\* The worker is told (FailureOutcome::DeadLetter, retry_queue.rs) that it must
\* insert a dead letter for the row it deleted: no operation disappears.
NothingLost == lost = {}

\* One retry_queue row gives at most one dead letter, however many workers
\* polled it: record_failure hands a row to one of them only.
DeadLetterConservation ==
    \A s \in Seqs :
        dead[s] + Cardinality({p \in Processes : At(p, "deadLettering") /\ worker[p].seq = s})
                + (IF s \in queue THEN 1 ELSE 0) <= retry[s].id

\* cascading.rs, in_cap_overflow: a transition into overflow fires one
\* queue_overflow event.  So each operation that spilled follows such an event
\* (or precedes it in its own transaction) with no operation that found room in
\* between.
SpillAudited ==
    \A s \in spilled :
        \E e \in DOMAIN audit :
            /\ audit[e].event = "cascade.queue_overflow" /\ e <= s + 1
            /\ \A t \in e..s : audit[t].cascades => t \in spilled

\* retry_queue.rs, migration 0002: strict FIFO per memory_id.  The vector store
\* never goes back to an older operation of a memory.
FifoPerMemory == [][\A m \in Memories : vector'[m] >= vector[m]]_vars

\* pending_sync.rs: on a conflict the latest overflowing operation wins, so a row
\* leaves the table only by entering retry_queue with what it holds.
LatestOverflowKept ==
    [][\A m \in Memories :
          pending[m] # 0 /\ pending'[m] = 0 => pending[m] \in queue']_vars

Quiet == queue = {} /\ PendingSeqs = {} /\ \A p \in Processes : At(p, "idle")

\* With nothing left to do, the vector store shows what the rows show: the
\* operation applied last is the row's own, unless that one was dead-lettered or
\* lost.
QuietConverged ==
    Quiet => \A m \in Memories :
                vector[m] = row[m] \/ row[m] \in DeadLettered \cup lost

\* A queued operation leaves retry_queue, applied or dead-lettered: no failing
\* row holds the queue or those behind it, because attempts run out.
QueueDrains == \A s \in Seqs : s \in queue ~> s \notin queue
\* The vector store goes back to an older operation of a memory only by applying
\* one that a transient failure had put off: backoff is the one thing that lets a
\* row of a memory pass another (poll_due orders the due rows only).
OnlyRetriesOvertake ==
    [][\A m \in Memories : vector'[m] < vector[m] => retry[vector'[m]].attempts > 0]_vars

\* The promise of the two stores, and the state of this specification it is about:
\* the audit log tells which operations were committed, and on what memory.
Stores == INSTANCE ConvergingStores WITH
    log <- [s \in DOMAIN audit |->
                IF audit[s].cascades THEN audit[s].memory ELSE NoMemory],
    shown <- vector

\* The outbox implements it: each memory's operations reach the vector store in
\* the order SQLite committed them.
StoresFollow == Stores!Spec

\* And, when the worker runs and nothing is dead-lettered or spilled, they all do.
StoresConverge == Stores!FairSpec
=============================================================================

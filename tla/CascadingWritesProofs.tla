------------------------ MODULE CascadingWritesProofs ------------------------
(***************************************************************************)
(* Safety of the cascading write path for any number of memories,          *)
(* processes, failures and operations.                                     *)
(***************************************************************************)
EXTENDS CascadingWrites, SequenceTheorems, FiniteSetTheorems, TLAPS

USE ProcessesAssumption, CapAssumption, MaxAttemptsAssumption, BoundsAssumption
    DEF ProcessesAssumption, CapAssumption, MaxAttemptsAssumption, BoundsAssumption

\* s names an operation that was committed and owes the vector store something.
OpSeq(s) == s \in DOMAIN audit /\ audit[s].cascades /\ audit[s].memory \in Memories

\* Wherever a sequence id is kept, on disk or in a process's hands, it names such
\* an operation; a pending_sync row holds one of its own memory that spilled; an
\* entry the worker reports done was applied.
SeqsInv ==
    /\ \A s \in queue : OpSeq(s)
    /\ \A m \in Memories : pending[m] # 0 =>
          OpSeq(pending[m]) /\ audit[pending[m]].memory = m /\ pending[m] \in spilled
    /\ \A p \in Processes : \A s \in sweep[p] : OpSeq(s)
    /\ \A p \in Processes : ~At(p, "idle") =>
          worker[p].seq \in Seqs /\ OpSeq(worker[p].seq)
    /\ \A p \in Processes : At(p, "applied") => worker[p].seq \in executed
    /\ \A s \in spilled : OpSeq(s)

IInv == TypeOK /\ SeqsInv /\ QueueWithinCap /\ EveryOpAccountedFor

-----------------------------------------------------------------------------
(* Lemmas on the operators the actions are built from.                     *)

\* Every delay between attempts is a whole number of seconds.
LEMMA WaitsAreNat ==
    ASSUME NEW a \in 0..7
    PROVE  base_backoff_secs(a) \in Nat /\ Waits(a) \subseteq Nat
<1>1. base_backoff_secs(a) \in Nat
    BY DEF base_backoff_secs, BaseBackoff
<1>2. \A b \in Nat : (3 * b + 3) \div 4 \in Nat
    OBVIOUS
<1>3. QED  BY <1>1, <1>2 DEF Waits

\* An audit log only grows: what it says of a sequence id stays.
LEMMA AuditGrows ==
    ASSUME NEW log \in Seq(AuditEntry), NEW events \in Seq(AuditEntry)
    PROVE  /\ log \o events \in Seq(AuditEntry)
           /\ Len(log \o events) = Len(log) + Len(events)
           /\ DOMAIN log \subseteq DOMAIN (log \o events)
           /\ \A s \in DOMAIN log : (log \o events)[s] = log[s]
           /\ \A s \in 1..Len(events) : (log \o events)[Len(log) + s] = events[s]
<1>1. /\ log \o events \in Seq(AuditEntry)
      /\ Len(log \o events) = Len(log) + Len(events)
      /\ \A i \in 1..(Len(log) + Len(events)) :
            (log \o events)[i] = IF i <= Len(log) THEN log[i] ELSE events[i - Len(log)]
    BY ConcatProperties
<1>2. DOMAIN log = 1..Len(log) /\ Len(log) \in Nat /\ Len(events) \in Nat
    BY LenProperties
<1>3. DOMAIN (log \o events) = 1..(Len(log) + Len(events))
    BY <1>1, LenProperties
<1>4. QED  BY <1>1, <1>2, <1>3
LEMMA Singleton ==
    ASSUME NEW S, NEW x \in S
    PROVE  <<x>> \in Seq(S) /\ Len(<<x>>) = 1 /\ DOMAIN <<x>> = 1..1 /\ <<x>>[1] = x
OBVIOUS

\* A client's transaction appends its own event and at most one more, which owes
\* nothing to the vector store.
CommitGrows(log, seq, event, m) ==
    /\ log \in Seq(AuditEntry)
    /\ DOMAIN audit \subseteq DOMAIN log /\ seq \in DOMAIN log /\ seq \notin DOMAIN audit
    /\ \A s \in DOMAIN audit : log[s] = audit[s] /\ s < seq
    /\ log[seq] = Entry(event, m, TRUE)
    /\ \A s \in DOMAIN log \ DOMAIN audit : s # seq => ~log[s].cascades

LEMMA CommitAppends ==
    ASSUME TypeOK, NEW event \in MemoryEvents, NEW m \in Memories,
           NEW rest \in {<<>>, <<OverflowEntry>>}
    PROVE  CommitGrows(audit \o (<<Entry(event, m, TRUE)>> \o rest), Len(audit) + 1, event, m)
<1> DEFINE first == <<Entry(event, m, TRUE)>>
           events == first \o rest
<1>a. SUFFICES ASSUME NEW log, NEW seq, log = audit \o events, seq = Len(audit) + 1
               PROVE  CommitGrows(log, seq, event, m)
    OBVIOUS
<1>b. seq = Len(audit) + 1
    BY <1>a
<1>1. audit \in Seq(AuditEntry) /\ Len(audit) \in Nat /\ DOMAIN audit = 1..Len(audit)
    BY LenProperties DEF TypeOK
<1>2. Entry(event, m, TRUE) \in AuditEntry /\ OverflowEntry \in AuditEntry
    BY DEF Entry, OverflowEntry, AuditEntry, AuditEvents, MemoryEvents
<1>3. first \in Seq(AuditEntry) /\ Len(first) = 1 /\ first[1] = Entry(event, m, TRUE)
    BY <1>2, Singleton
<1>4. /\ rest \in Seq(AuditEntry) /\ Len(rest) \in {0, 1}
      /\ \A i \in 1..Len(rest) : rest[i] = OverflowEntry
  <2>1. CASE rest = <<>>
      BY <2>1
  <2>2. CASE rest = <<OverflowEntry>>
      BY <2>2, <1>2, Singleton
  <2>3. QED  BY <2>1, <2>2
<1>5. /\ events \in Seq(AuditEntry)
      /\ Len(events) = 1 + Len(rest)
      /\ events[1] = Entry(event, m, TRUE)
      /\ \A i \in 2..Len(events) : events[i] = OverflowEntry
  <2>1. /\ events \in Seq(AuditEntry)
        /\ Len(events) = Len(first) + Len(rest)
        /\ DOMAIN first \subseteq DOMAIN events
        /\ \A s \in DOMAIN first : events[s] = first[s]
        /\ \A s \in 1..Len(rest) : events[Len(first) + s] = rest[s]
      BY <1>3, <1>4, AuditGrows
  <2>2. 1 \in DOMAIN first
      BY <1>3
  <2>3. \A i \in 2..Len(events) : i - 1 \in 1..Len(rest) /\ events[i] = rest[i - 1]
      BY <2>1, <1>3, <1>4
  <2>4. QED  BY <2>1, <2>2, <2>3, <1>3, <1>4
<1> HIDE DEF events
<1>6. /\ log \in Seq(AuditEntry)
      /\ Len(log) = Len(audit) + Len(events)
      /\ DOMAIN audit \subseteq DOMAIN log
      /\ \A s \in DOMAIN audit : log[s] = audit[s]
      /\ \A s \in 1..Len(events) : log[Len(audit) + s] = events[s]
  <2>1. audit \in Seq(AuditEntry) /\ events \in Seq(AuditEntry)
      BY <1>1, <1>5
  <2>2. /\ audit \o events \in Seq(AuditEntry)
        /\ Len(audit \o events) = Len(audit) + Len(events)
        /\ DOMAIN audit \subseteq DOMAIN (audit \o events)
        /\ \A s \in DOMAIN audit : (audit \o events)[s] = audit[s]
        /\ \A s \in 1..Len(events) : (audit \o events)[Len(audit) + s] = events[s]
      BY <2>1, AuditGrows
  <2>3. QED  BY <1>a, <2>2
<1>7. DOMAIN log = 1..Len(log) /\ Len(events) \in {1, 2}
  <2>1. DOMAIN log = 1..Len(log)
      BY <1>6, LenProperties
  <2>2. QED  BY <2>1, <1>4, <1>5
<1>c. Len(audit) \in Nat /\ DOMAIN audit = 1..Len(audit)
    BY <1>1
<1>d. DOMAIN log = 1..(Len(audit) + Len(events)) /\ Len(events) \in {1, 2}
    BY <1>6, <1>7
<1>8. log[seq] = Entry(event, m, TRUE)
  <2>1. 1 \in 1..Len(events)
      BY <1>7
  <2>2. QED  BY <2>1, <1>b, <1>5, <1>6
<1>9. ASSUME NEW s \in DOMAIN log \ DOMAIN audit, s # seq
      PROVE  ~log[s].cascades
  <2>1. s = Len(audit) + 2 /\ Len(events) = 2
    <3> DEFINE n == Len(audit)
               k == Len(events)
    <3>1. n \in Nat /\ k \in {1, 2} /\ s \in 1..(n + k) /\ s \notin 1..n /\ s # n + 1
        BY <1>9, <1>b, <1>c, <1>d
    <3> HIDE DEF n, k
    <3>2. s = n + 2 /\ k = 2
        BY <3>1
    <3>3. QED  BY <3>2 DEF n, k
  <2>2. log[s] = OverflowEntry
      BY <2>1, <1>5, <1>6
  <2>3. QED  BY <2>2 DEF OverflowEntry, Entry
<1>10. seq \in DOMAIN log /\ seq \notin DOMAIN audit /\ \A s \in DOMAIN audit : s < seq
    BY <1>b, <1>c, <1>d
<1>11. QED  BY <1>6, <1>8, <1>9, <1>10 DEF CommitGrows

\* So does an event that owes nothing.
LEMMA QuietAppends ==
    ASSUME TypeOK, NEW entry \in AuditEntry, ~entry.cascades
    PROVE  LET log == Append(audit, entry) IN
           /\ log \in Seq(AuditEntry)
           /\ DOMAIN audit \subseteq DOMAIN log
           /\ \A s \in DOMAIN audit : log[s] = audit[s]
           /\ \A s \in DOMAIN log \ DOMAIN audit : ~log[s].cascades
<1>1. audit \in Seq(AuditEntry) /\ Len(audit) \in Nat /\ DOMAIN audit = 1..Len(audit)
    BY LenProperties DEF TypeOK
<1>2. /\ Append(audit, entry) \in Seq(AuditEntry)
      /\ Len(Append(audit, entry)) = Len(audit) + 1
      /\ \A i \in 1..Len(audit) : Append(audit, entry)[i] = audit[i]
      /\ Append(audit, entry)[Len(audit) + 1] = entry
    BY <1>1, AppendProperties
<1>3. DOMAIN Append(audit, entry) = 1..(Len(audit) + 1)
    BY <1>2, LenProperties
<1>4. QED  BY <1>1, <1>2, <1>3

-----------------------------------------------------------------------------
(* Types.                                                                  *)

\* Moving a worker on, or ending its step, leaves the other workers where they are.
LEMMA WorkerMoves ==
    ASSUME TypeOK, NEW p \in Processes, NEW pc \in WorkerStates, Goto(p, pc)
    PROVE  /\ worker' \in [Processes -> [pc : WorkerStates, seq : Seqs \cup {0}, id : Nat]]
           /\ worker'[p].pc = pc /\ worker'[p].seq = worker[p].seq
           /\ \A q \in Processes \ {p} : worker'[q] = worker[q]
<1>1. worker \in [Processes -> [pc : WorkerStates, seq : Seqs \cup {0}, id : Nat]]
    BY DEF TypeOK
<1>2. worker' = [worker EXCEPT ![p] = [worker[p] EXCEPT !.pc = pc]]
    BY DEF Goto
<1>3. /\ [worker[p] EXCEPT !.pc = pc] \in [pc : WorkerStates, seq : Seqs \cup {0}, id : Nat]
      /\ [worker[p] EXCEPT !.pc = pc].pc = pc
      /\ [worker[p] EXCEPT !.pc = pc].seq = worker[p].seq
    BY <1>1
<1>4. QED  BY <1>1, <1>2, <1>3

LEMMA WorkerStops ==
    ASSUME TypeOK, NEW p \in Processes, Finish(p)
    PROVE  /\ worker' \in [Processes -> [pc : WorkerStates, seq : Seqs \cup {0}, id : Nat]]
           /\ worker'[p].pc = "idle"
           /\ \A q \in Processes \ {p} : worker'[q] = worker[q]
BY DEF TypeOK, Finish, IdleStep, WorkerStates

\* A row with another attempt count and another wait is a row still.
LEMMA RowChanged ==
    ASSUME NEW r \in [id : Nat, attempts : Attempts, wait : Nat],
           NEW attempts \in Attempts, NEW wait \in Nat
    PROVE  [r EXCEPT !.attempts = attempts, !.wait = wait]
              \in [id : Nat, attempts : Attempts, wait : Nat]
OBVIOUS

LEMMA ZeroAttempts == 0 \in Attempts
BY DEF Attempts

\* The same of the rows of retry_queue.
LEMMA RowInserted ==
    ASSUME TypeOK, NEW s \in Seqs, InsertRetry(s)
    PROVE  /\ queue' = queue \cup {s} /\ queue' \subseteq Seqs
           /\ retry' \in [Seqs -> [id : Nat, attempts : Attempts, wait : Nat]]
<1> DEFINE new == [id |-> retry[s].id + 1, attempts |-> 0, wait |-> base_backoff_secs(0)]
<1>1. retry \in [Seqs -> [id : Nat, attempts : Attempts, wait : Nat]] /\ queue \subseteq Seqs
    BY DEF TypeOK
<1>2. base_backoff_secs(0) \in Nat
    BY WaitsAreNat
<1>3. new \in [id : Nat, attempts : Attempts, wait : Nat]
    BY <1>1, <1>2, ZeroAttempts
<1>4. queue' = queue \cup {s} /\ retry' = [retry EXCEPT ![s] = new]
    BY DEF InsertRetry
<1> HIDE DEF new
<1>5. QED  BY <1>1, <1>3, <1>4

LEMMA RowDeleted ==
    ASSUME TypeOK, NEW s \in Seqs, DeleteRetry(s)
    PROVE  /\ queue' = queue \ {s} /\ queue' \subseteq Seqs
           /\ retry' \in [Seqs -> [id : Nat, attempts : Attempts, wait : Nat]]
<1> DEFINE new == [NoRow EXCEPT !.id = retry[s].id]
<1>1. retry \in [Seqs -> [id : Nat, attempts : Attempts, wait : Nat]] /\ queue \subseteq Seqs
    BY DEF TypeOK
<1>2. new \in [id : Nat, attempts : Attempts, wait : Nat]
    BY <1>1, ZeroAttempts DEF NoRow
<1>3. queue' = queue \ {s} /\ retry' = [retry EXCEPT ![s] = new]
    BY DEF DeleteRetry
<1> HIDE DEF new
<1>4. QED  BY <1>1, <1>2, <1>3

\* The vector store applies the entry in a worker's hands.
LEMMA EffectTyped ==
    ASSUME TypeOK, SeqsInv, NEW p \in Processes, ~At(p, "idle"), Effect(p)
    PROVE  /\ vector' \in [Memories -> Seqs \cup {0}]
           /\ executed' = executed \cup {worker[p].seq}
           /\ executed' \subseteq Seqs
<1>1. worker[p].seq \in Seqs
    BY DEF SeqsInv
<1>2. QED  BY <1>1 DEF Effect, TypeOK

LEMMA TypeInit == Init => TypeOK
BY DEF Init, TypeOK, NoRow, Attempts, IdleStep, Seqs, WorkerStates

LEMMA TypeStep == TypeOK /\ SeqsInv /\ [Next]_vars => TypeOK'
<1> SUFFICES ASSUME TypeOK, SeqsInv, [Next]_vars
             PROVE  TypeOK'
    OBVIOUS
<1> USE DEF TypeOK
<1>1. ASSUME NEW p \in Writers, NEW event \in MemoryEvents, NEW m \in Memories,
             CommitEnqueue(p, event, m)
      PROVE  TypeOK'
  <2>1. audit' = audit \o (<<Entry(event, m, TRUE)>> \o <<>>)
      BY <1>1, ConcatEmptySeq DEF CommitEnqueue, CommitRow
  <2>2. audit' \in Seq(AuditEntry)
      BY <2>1, CommitAppends DEF CommitGrows
  <2>3. Len(audit) + 1 \in Seqs
      BY <1>1 DEF CommitEnqueue, CommitRow
  <2>4. QED  BY <1>1, <2>2, <2>3, RowInserted DEF CommitEnqueue, CommitRow, history
<1>2. ASSUME NEW p \in Writers, NEW event \in MemoryEvents, NEW m \in Memories,
             CommitOverflow(p, event, m)
      PROVE  TypeOK'
  <2>1. audit' \in Seq(AuditEntry)
      BY <1>2, CommitAppends DEF CommitGrows, CommitOverflow, CommitRow
  <2>2. QED  BY <1>2, <2>1 DEF CommitOverflow, CommitRow
<1>3. ASSUME NEW m \in Memories, DeleteMissing(m)
      PROVE  TypeOK'
  <2>1. LET e == Entry("memory.delete", m, FALSE) IN e \in AuditEntry /\ ~e.cascades
      BY DEF Entry, AuditEntry, AuditEvents, MemoryEvents
  <2>2. audit' \in Seq(AuditEntry)
      BY <1>3, <2>1, QuietAppends DEF DeleteMissing
  <2>3. QED  BY <1>3, <2>2 DEF DeleteMissing, memory, history
<1>4. ASSUME NEW p \in Writers, RollBack(p)
      PROVE  TypeOK'
    BY <1>4 DEF RollBack, disk, history
<1>5. ASSUME NEW p \in Workers, WorkerStep(p)
      PROVE  TypeOK'
  <2>1. CASE Poll(p)
      BY <2>1 DEF Poll, Due, disk, history, WorkerStates
  <2>2. CASE Apply(p)
      BY <2>2, WorkerMoves, EffectTyped DEF Apply, At, WorkerStates
  <2>3. CASE ApplyFails(p)
      BY <2>3, WorkerMoves DEF ApplyFails, disk, history, WorkerStates
  <2>4. CASE DeleteFailsLate(p)
      BY <2>4, WorkerMoves, EffectTyped DEF DeleteFailsLate, At, WorkerStates
  <2>5. CASE RecordSuccess(p)
    <3>1. worker[p].seq \in Seqs
        BY <2>5 DEF RecordSuccess, At, SeqsInv
    <3>2. QED  BY <2>5, <3>1, WorkerStops, RowDeleted DEF RecordSuccess, history
  <2>6. CASE Reschedule(p)
    <3> DEFINE s == worker[p].seq
               attempts == retry[s].attempts + 1
    <3>1. s \in Seqs /\ attempts \in 0..7 /\ attempts \in Attempts
      <4>1. s \in Seqs /\ ~Exhausted(p)
          BY <2>6 DEF Reschedule, RowPresent
      <4>2. retry[s].attempts \in Attempts
          BY <4>1
      <4>3. retry[s].attempts \in Nat
          BY <4>2 DEF Attempts
      <4>4. QED  BY <4>1, <4>3 DEF Exhausted, Attempts
    <3>2. Waits(attempts) \subseteq Nat
        BY <3>1, WaitsAreNat
    <3>3. PICK wait \in Waits(attempts) :
              retry' = [retry EXCEPT ![s].attempts = attempts, ![s].wait = wait]
        BY <2>6 DEF Reschedule
    <3>4. wait \in Nat /\ attempts \in Nat
        BY <3>1, <3>2
    <3>5. retry' \in [Seqs -> [id : Nat, attempts : Attempts, wait : Nat]]
      <4> DEFINE new == [retry[s] EXCEPT !.attempts = attempts, !.wait = wait]
      <4>1. new \in [id : Nat, attempts : Attempts, wait : Nat]
        <5>1. retry[s] \in [id : Nat, attempts : Attempts, wait : Nat]
            BY <3>1
        <5>2. QED  BY <5>1, <3>1, <3>4, RowChanged
      <4>2. retry' = [retry EXCEPT ![s] = new]
          BY <3>3
      <4> HIDE DEF new
      <4>3. QED  BY <3>1, <4>1, <4>2
    <3>6. QED  BY <2>6, <3>5, WorkerStops DEF Reschedule, history
  <2>7. CASE GiveUp(p)
      BY <2>7, WorkerMoves, RowDeleted DEF GiveUp, RowPresent, history, WorkerStates
  <2>8. CASE RowGone(p)
      BY <2>8, WorkerStops DEF RowGone, disk, history
  <2>9. CASE InsertDeadLetter(p)
    <3>1. dead' \in [Seqs -> Nat]
        BY <2>9 DEF InsertDeadLetter, At, SeqsInv
    <3>2. QED  BY <2>9, <3>1, WorkerMoves DEF InsertDeadLetter, history, WorkerStates
  <2>10. CASE AuditDeadLetter(p)
    <3> DEFINE e == Entry("cascade.dead_letter", audit[worker[p].seq].memory, FALSE)
    <3>1. OpSeq(worker[p].seq)
        BY <2>10 DEF AuditDeadLetter, At, SeqsInv
    <3>2. e \in AuditEntry /\ ~e.cascades
        BY <3>1 DEF OpSeq, Entry, AuditEntry, AuditEvents
    <3>3. audit' \in Seq(AuditEntry)
        BY <2>10, <3>2, QuietAppends DEF AuditDeadLetter
    <3>4. QED  BY <2>10, <3>3, WorkerStops DEF AuditDeadLetter, history
  <2>11. QED
      BY <1>5, <2>1, <2>2, <2>3, <2>4, <2>5, <2>6, <2>7, <2>8, <2>9, <2>10 DEF WorkerStep
<1>6. ASSUME NEW p \in Workers, StepError(p)
      PROVE  TypeOK'
    BY <1>6, WorkerStops DEF StepError, Dropped, At, SeqsInv, disk
<1>7. ASSUME NEW p \in Sweepers, SweepStep(p)
      PROVE  TypeOK'
  <2>1. CASE SweepRead(p)
      BY <2>1 DEF SweepRead, PendingSeqs, disk, history
  <2>2. CASE SweepMove(p)
    <3>1. PICK s \in sweep[p] :
              /\ InsertRetry(s)
              /\ pending' = [pending EXCEPT ![audit[s].memory] = 0]
              /\ sweep' = [sweep EXCEPT ![p] = @ \ {s}]
              /\ lost' = lost \cup ({pending[audit[s].memory]} \ {0, s})
              /\ UNCHANGED <<audit, row, dead, vector, inCap, worker, executed, spilled, faults>>
        BY <2>2 DEF SweepMove
    <3>2. OpSeq(s) /\ s \in Seqs
        BY <3>1 DEF SeqsInv
    <3>3. lost' \subseteq Seqs
        BY <3>1, <3>2 DEF OpSeq
    <3>4. QED  BY <3>1, <3>2, <3>3, RowInserted
  <2>3. CASE SweepStop(p)
      BY <2>3 DEF SweepStop, disk, history
  <2>4. QED  BY <1>7, <2>1, <2>2, <2>3 DEF SweepStep
<1>8. ASSUME NEW p \in Processes, Crash(p)
      PROVE  TypeOK'
  <2>1. lost' \subseteq Seqs
      BY <1>8 DEF Crash, Dropped, At, SeqsInv
  <2>2. Finish(p)
      BY <1>8 DEF Crash, Finish
  <2>3. QED  BY <1>8, <2>1, <2>2, WorkerStops DEF Crash, disk
<1>9. ASSUME Tick
      PROVE  TypeOK'
  <2>1. ASSUME NEW s \in Seqs
        PROVE  (IF retry[s].wait > 0 THEN [retry[s] EXCEPT !.wait = @ - 1] ELSE retry[s])
                   \in [id : Nat, attempts : Attempts, wait : Nat]
    <3>1. retry[s] \in [id : Nat, attempts : Attempts, wait : Nat]
        OBVIOUS
    <3>2. retry[s].wait \in Nat
        BY <3>1
    <3>3. CASE retry[s].wait > 0
      <4>1. retry[s].wait - 1 \in Nat
          BY <3>2, <3>3
      <4>2. QED  BY <3>1, <3>3, <4>1
    <3>4. CASE ~(retry[s].wait > 0)
        BY <3>1, <3>4
    <3>5. QED  BY <3>3, <3>4
  <2>2. retry' \in [Seqs -> [id : Nat, attempts : Attempts, wait : Nat]]
      BY <1>9, <2>1 DEF Tick
  <2>3. QED  BY <1>9, <2>2 DEF Tick, memory, history
<1>10. ASSUME UNCHANGED vars
       PROVE  TypeOK'
    BY <1>10 DEF vars, disk, memory, history
<1>11. QED
    BY <1>1, <1>2, <1>3, <1>4, <1>5, <1>6, <1>7, <1>8, <1>9, <1>10 DEF Next, PollNothing

-----------------------------------------------------------------------------
(* Sequence ids.                                                           *)

\* What the log says of a sequence id is still said after the step.
Persists == \A s \in DOMAIN audit : s \in DOMAIN audit' /\ audit'[s] = audit[s]

LEMMA OpsPersist ==
    ASSUME Persists
    PROVE  \A s : OpSeq(s) => OpSeq(s)' /\ audit'[s].memory = audit[s].memory
BY DEF Persists, OpSeq

LEMMA CommitPersists ==
    ASSUME TypeOK, NEW event \in MemoryEvents, NEW m \in Memories,
           NEW rest \in {<<>>, <<OverflowEntry>>},
           audit' = audit \o (<<Entry(event, m, TRUE)>> \o rest),
           NEW seq, seq = Len(audit) + 1
    PROVE  /\ Persists
           /\ OpSeq(seq)' /\ audit'[seq].memory = m
           /\ \A s \in DOMAIN audit : s < seq
           /\ \A s \in DOMAIN audit' \ DOMAIN audit : s # seq => ~audit'[s].cascades
<1>1. /\ DOMAIN audit \subseteq DOMAIN audit' /\ seq \in DOMAIN audit'
      /\ \A s \in DOMAIN audit : audit'[s] = audit[s] /\ s < seq
      /\ audit'[seq] = Entry(event, m, TRUE)
      /\ \A s \in DOMAIN audit' \ DOMAIN audit : s # seq => ~audit'[s].cascades
  <2>1. CommitGrows(audit', Len(audit) + 1, event, m)
      BY CommitAppends
  <2>2. QED  BY <2>1 DEF CommitGrows
<1>2. QED
  <2>1. audit'[seq].cascades /\ audit'[seq].memory = m
      BY <1>1 DEF Entry
  <2>2. OpSeq(seq)'
      BY <1>1, <2>1 DEF OpSeq
  <2>3. Persists
      BY <1>1 DEF Persists
  <2>4. QED  BY <1>1, <2>1, <2>2, <2>3

LEMMA SeqsInit == Init => SeqsInv
BY DEF Init, SeqsInv, At, IdleStep

LEMMA SeqsStep == TypeOK /\ SeqsInv /\ [Next]_vars => SeqsInv'
<1> SUFFICES ASSUME TypeOK, SeqsInv, [Next]_vars
             PROVE  SeqsInv'
    OBVIOUS
<1> USE DEF SeqsInv, At
<1>1. ASSUME NEW p \in Writers, NEW event \in MemoryEvents, NEW m \in Memories,
             CommitEnqueue(p, event, m)
      PROVE  SeqsInv'
  <2>0. PICK seq : seq = Len(audit) + 1
      OBVIOUS
  <2>1. audit' = audit \o (<<Entry(event, m, TRUE)>> \o <<>>)
      BY <1>1, ConcatEmptySeq DEF CommitEnqueue, CommitRow
  <2>2. Persists
      BY <2>0, <2>1, CommitPersists
  <2>3. OpSeq(seq)'
      BY <2>0, <2>1, CommitPersists
  <2>4. queue' = queue \cup {seq}
      BY <2>0, <1>1 DEF CommitEnqueue, InsertRetry
  <2>5. UNCHANGED <<pending, spilled, sweep, worker, executed>>
      BY <1>1 DEF CommitEnqueue, history
  <2>6. QED  BY <2>2, <2>3, <2>4, <2>5, OpsPersist
<1>2. ASSUME NEW p \in Writers, NEW event \in MemoryEvents, NEW m \in Memories,
             CommitOverflow(p, event, m)
      PROVE  SeqsInv'
  <2>0. PICK seq : seq = Len(audit) + 1
      OBVIOUS
  <2>1. PICK rest \in {<<>>, <<OverflowEntry>>} :
            audit' = audit \o (<<Entry(event, m, TRUE)>> \o rest)
      BY <1>2 DEF CommitOverflow, CommitRow
  <2>2. Persists
      BY <2>0, <2>1, CommitPersists
  <2>3. OpSeq(seq)' /\ audit'[seq].memory = m
      BY <2>0, <2>1, CommitPersists
  <2>4. /\ pending' = [pending EXCEPT ![m] = seq] /\ spilled' = spilled \cup {seq}
        /\ UNCHANGED <<queue, sweep, worker, executed>>
      BY <2>0, <1>2 DEF CommitOverflow
  <2>5. ASSUME NEW n \in Memories, (pending[n] # 0)'
        PROVE  (/\ OpSeq(pending[n])
                /\ audit[pending[n]].memory = n
                /\ pending[n] \in spilled)'
    <3>1. CASE n = m
      <4>1. pending'[n] = seq
          BY <3>1, <2>4 DEF TypeOK
      <4>2. QED  BY <3>1, <4>1, <2>3, <2>4 DEF OpSeq
    <3>2. CASE n # m
      <4>1. pending'[n] = pending[n]
          BY <3>2, <2>4 DEF TypeOK
      <4>2. QED  BY <4>1, <2>2, <2>4, <2>5, OpsPersist DEF OpSeq
    <3>3. QED  BY <3>1, <3>2
  <2>6. QED  BY <2>2, <2>3, <2>4, <2>5, OpsPersist
<1>3. ASSUME NEW m \in Memories, DeleteMissing(m)
      PROVE  SeqsInv'
  <2>1. LET e == Entry("memory.delete", m, FALSE) IN e \in AuditEntry /\ ~e.cascades
      BY DEF Entry, AuditEntry, AuditEvents, MemoryEvents
  <2>2. Persists
      BY <1>3, <2>1, QuietAppends DEF DeleteMissing, Persists
  <2>3. QED  BY <1>3, <2>2, OpsPersist DEF DeleteMissing, memory, history
<1>4. ASSUME UNCHANGED <<audit, pending, executed, spilled>>,
             NEW p \in Processes,
             \A s \in queue' : s \in queue,
             \A q \in Processes : sweep'[q] \subseteq sweep[q] \/ sweep'[q] = PendingSeqs,
             \A q \in Processes \ {p} : worker'[q] = worker[q],
             \/ worker'[p].pc = "idle"
             \/ worker'[p] = worker[p]
             \/ worker'[p].seq = worker[p].seq /\ ~At(p, "idle") /\ worker'[p].pc # "applied"
             \/ worker'[p].seq \in queue /\ worker'[p].pc = "polled"
      PROVE  SeqsInv'
  <2>1. Persists
      BY <1>4 DEF Persists
  <2>2. \A s \in PendingSeqs : OpSeq(s)
      BY DEF PendingSeqs
  <2>3. queue \subseteq Seqs
      BY DEF TypeOK
  <2>4. \A q \in Processes : worker'[q].pc # "idle" =>
            worker'[q].seq \in Seqs /\ OpSeq(worker'[q].seq)
      BY <1>4, <2>3
  <2>5. \A q \in Processes : worker'[q].pc = "applied" => worker'[q].seq \in executed'
      BY <1>4
  <2>6. QED  BY <1>4, <2>1, <2>2, <2>4, <2>5, OpsPersist
<1>5. ASSUME NEW p \in Workers, WorkerStep(p)
      PROVE  SeqsInv'
  <2>1. CASE Poll(p)
    <3>1. PICK s \in Due : worker' = [worker EXCEPT ![p] =
                                          [pc |-> "polled", seq |-> s, id |-> retry[s].id]]
        BY <2>1 DEF Poll
    <3>2. /\ worker'[p].pc = "polled" /\ worker'[p].seq \in queue
          /\ \A q \in Processes \ {p} : worker'[q] = worker[q]
        BY <3>1 DEF TypeOK, Due
    <3>3. QED  BY <2>1, <3>2, <1>4 DEF Poll, disk, history
  <2>2. ASSUME Effect(p), Goto(p, "applied") \/ Goto(p, "failed"), ~At(p, "idle"),
               UNCHANGED <<audit, queue, pending, spilled, sweep>>
        PROVE  SeqsInv'
    <3>1. Persists
        BY <2>2 DEF Persists
    <3>2. executed' = executed \cup {worker[p].seq}
        BY <2>2 DEF Effect
    <3>3. /\ worker'[p].seq = worker[p].seq
          /\ \A q \in Processes \ {p} : worker'[q] = worker[q]
        BY <2>2, WorkerMoves DEF WorkerStates
    <3>4. QED  BY <2>2, <3>1, <3>2, <3>3, OpsPersist
  <2>3. CASE Apply(p)
      BY <2>2, <2>3 DEF Apply
  <2>4. CASE DeleteFailsLate(p)
      BY <2>2, <2>4 DEF DeleteFailsLate
  <2>5. CASE ApplyFails(p)
      BY <2>5, <1>4, WorkerMoves DEF ApplyFails, disk, history, WorkerStates
  <2>6. CASE RecordSuccess(p)
      BY <2>6, <1>4, WorkerStops DEF RecordSuccess, DeleteRetry, history
  <2>7. CASE Reschedule(p)
      BY <2>7, <1>4, WorkerStops DEF Reschedule, history
  <2>8. CASE GiveUp(p)
      BY <2>8, <1>4, WorkerMoves DEF GiveUp, DeleteRetry, history, WorkerStates
  <2>9. CASE RowGone(p)
      BY <2>9, <1>4, WorkerStops DEF RowGone, disk, history
  <2>10. CASE InsertDeadLetter(p)
      BY <2>10, <1>4, WorkerMoves DEF InsertDeadLetter, history, WorkerStates
  <2>11. CASE AuditDeadLetter(p)
    <3> DEFINE e == Entry("cascade.dead_letter", audit[worker[p].seq].memory, FALSE)
    <3>1. OpSeq(worker[p].seq)
        BY <2>11 DEF AuditDeadLetter
    <3>2. e \in AuditEntry /\ ~e.cascades
        BY <3>1 DEF OpSeq, Entry, AuditEntry, AuditEvents
    <3>3. Persists
        BY <2>11, <3>2, QuietAppends DEF AuditDeadLetter, Persists
    <3>4. UNCHANGED <<queue, pending, sweep, executed, spilled>>
        BY <2>11 DEF AuditDeadLetter, history
    <3>5. worker'[p].pc = "idle" /\ \A q \in Processes \ {p} : worker'[q] = worker[q]
        BY <2>11, WorkerStops DEF AuditDeadLetter
    <3>6. QED  BY <3>3, <3>4, <3>5, OpsPersist
  <2>12. QED
      BY <1>5, <2>1, <2>3, <2>4, <2>5, <2>6, <2>7, <2>8, <2>9, <2>10, <2>11 DEF WorkerStep
<1>6. ASSUME NEW p \in Workers, StepError(p)
      PROVE  SeqsInv'
    BY <1>6, <1>4, WorkerStops DEF StepError, disk
<1>7. ASSUME NEW p \in Sweepers, SweepStep(p)
      PROVE  SeqsInv'
  <2>1. CASE SweepRead(p) \/ SweepStop(p)
    <3>1. \A q \in Processes : sweep'[q] \subseteq sweep[q] \/ sweep'[q] = PendingSeqs
        BY <2>1 DEF SweepRead, SweepStop, TypeOK
    <3>2. QED  BY <2>1, <3>1, <1>4 DEF SweepRead, SweepStop, disk, history
  <2>2. CASE SweepMove(p)
    <3>1. PICK s \in sweep[p] :
              /\ InsertRetry(s)
              /\ pending' = [pending EXCEPT ![audit[s].memory] = 0]
              /\ sweep' = [sweep EXCEPT ![p] = @ \ {s}]
              /\ UNCHANGED <<audit, worker, executed, spilled>>
        BY <2>2 DEF SweepMove
    <3>2. OpSeq(s) /\ queue' = queue \cup {s}
        BY <3>1 DEF InsertRetry
    <3>3. Persists
        BY <3>1 DEF Persists
    <3>4. \A n \in Memories : pending'[n] = 0 \/ pending'[n] = pending[n]
        BY <3>1 DEF TypeOK
    <3>5. \A q \in Processes : sweep'[q] \subseteq sweep[q]
        BY <3>1 DEF TypeOK
    <3>6. QED  BY <3>1, <3>2, <3>3, <3>4, <3>5, OpsPersist
  <2>3. QED  BY <1>7, <2>1, <2>2 DEF SweepStep
<1>8. ASSUME NEW p \in Processes, Crash(p)
      PROVE  SeqsInv'
  <2>1. Finish(p) /\ UNCHANGED <<disk, executed, spilled>>
      BY <1>8 DEF Crash, Finish
  <2>2. \A q \in Processes : sweep'[q] \subseteq sweep[q]
      BY <1>8 DEF Crash, TypeOK
  <2>3. QED  BY <2>1, <2>2, <1>4, WorkerStops DEF disk
<1>9. ASSUME UNCHANGED <<audit, queue, pending, executed, spilled, sweep, worker>>
      PROVE  SeqsInv'
    BY <1>9, OpsPersist DEF Persists
<1>10. CASE Tick
    BY <1>10, <1>9 DEF Tick, memory, history
<1>11. CASE UNCHANGED vars
    BY <1>11, <1>9 DEF vars, disk, memory, history
<1>12. CASE \E p \in Writers : RollBack(p)
    BY <1>12, <1>9 DEF RollBack, disk, history
<1>13. QED
    BY <1>1, <1>2, <1>3, <1>5, <1>6, <1>7, <1>8, <1>10, <1>11, <1>12 DEF Next, PollNothing

-----------------------------------------------------------------------------
(* The cap.                                                                *)

LEMMA QueueFinite == TypeOK => IsFiniteSet(queue)
<1>1. IsFiniteSet(Seqs)
    BY FS_Interval DEF Seqs
<1>2. QED  BY <1>1, FS_Subset DEF TypeOK

LEMMA CapStep == TypeOK /\ QueueWithinCap /\ [Next]_vars => QueueWithinCap'
<1> SUFFICES ASSUME TypeOK, QueueWithinCap, [Next]_vars
             PROVE  QueueWithinCap'
    OBVIOUS
<1>1. IsFiniteSet(queue) /\ Cardinality(queue) \in Nat
    BY QueueFinite, FS_CardinalityType
\* An insertion follows, in its transaction, a count below the cap.
<1>2. ASSUME NEW s, InsertRetry(s), Cardinality(queue) < Cap
      PROVE  QueueWithinCap'
  <2>1. queue' = queue \cup {s}
      BY <1>2 DEF InsertRetry
  <2>2. Cardinality(queue') <= Cardinality(queue) + 1
      BY <1>1, <2>1, FS_AddElement
  <2>3. Cardinality(queue') \in Nat
      BY <1>1, <2>1, FS_AddElement, FS_CardinalityType
  <2>4. QED  BY <1>1, <1>2, <2>2, <2>3 DEF QueueWithinCap
\* Everything else keeps the rows or deletes one.
<1>3. ASSUME queue' \subseteq queue
      PROVE  QueueWithinCap'
  <2>1. Cardinality(queue') <= Cardinality(queue) /\ Cardinality(queue') \in Nat
      BY <1>1, <1>3, FS_Subset, FS_CardinalityType
  <2>2. QED  BY <1>1, <2>1 DEF QueueWithinCap
<1>4. CASE \E p \in Writers, event \in MemoryEvents, m \in Memories :
              CommitEnqueue(p, event, m) \/ CommitOverflow(p, event, m)
    BY <1>4, <1>2, <1>3 DEF CommitEnqueue, CommitOverflow
<1>5. CASE \E m \in Memories : DeleteMissing(m)
    BY <1>5, <1>3 DEF DeleteMissing
<1>6. CASE \E p \in Writers : RollBack(p)
    BY <1>6, <1>3 DEF RollBack, disk
<1>7. CASE \E p \in Workers : WorkerStep(p)
    BY <1>7, <1>3
       DEF WorkerStep, Poll, Apply, ApplyFails, DeleteFailsLate, RecordSuccess, Reschedule,
           GiveUp, RowGone, InsertDeadLetter, AuditDeadLetter, DeleteRetry, disk
<1>8. CASE \E p \in Workers : StepError(p)
    BY <1>8, <1>3 DEF StepError, disk
<1>9. CASE \E p \in Sweepers : SweepStep(p)
    BY <1>9, <1>2, <1>3 DEF SweepStep, SweepRead, SweepMove, SweepStop, disk
<1>10. CASE \E p \in Processes : Crash(p)
    BY <1>10, <1>3 DEF Crash, disk
<1>11. CASE Tick \/ UNCHANGED vars
    BY <1>11, <1>3 DEF Tick, vars, disk
<1>12. QED
    BY <1>4, <1>5, <1>6, <1>7, <1>8, <1>9, <1>10, <1>11 DEF Next, PollNothing

-----------------------------------------------------------------------------
(* No operation vanishes.                                                  *)

\* What replaces an operation in pending_sync, or follows one that was replaced.
Superseded(s) ==
    s \in spilled /\ \E t \in spilled : t > s /\ audit[t].memory = audit[s].memory

\* A step keeps the operations accounted for when it drops none from where they
\* are, unless a later operation has taken its place, and owes nothing unrecorded.
LEMMA OpsKept ==
    ASSUME TypeOK, EveryOpAccountedFor, Persists,
           spilled \subseteq spilled',
           spilled \subseteq DOMAIN audit,
           \A s \in DOMAIN audit : s \in Accounted => s \in Accounted' \/ Superseded(s)',
           \A s \in DOMAIN audit' \ DOMAIN audit : audit'[s].cascades => s \in Accounted'
    PROVE  EveryOpAccountedFor'
<1> SUFFICES ASSUME NEW s \in DOMAIN audit', audit'[s].cascades, s \notin Accounted'
             PROVE  Superseded(s)'
    BY DEF EveryOpAccountedFor, Superseded
<1>1. s \in DOMAIN audit /\ audit[s].cascades
    BY DEF Persists
<1>2. CASE s \in Accounted
    BY <1>1, <1>2
<1>3. CASE s \notin Accounted
  <2>1. s \in spilled /\ \E t \in spilled : t > s /\ audit[t].memory = audit[s].memory
      BY <1>1, <1>3 DEF EveryOpAccountedFor
  <2>2. QED  BY <2>1, <1>1 DEF Superseded, Persists
<1>4. QED  BY <1>2, <1>3

LEMMA AccountedIs ==
    \A s : s \in Accounted <=>
        \/ s \in executed \/ s \in queue \/ s \in lost
        \/ s # 0 /\ \E m \in Memories : pending[m] = s
        \/ s \in Seqs /\ dead[s] > 0
        \/ \E p \in Processes : At(p, "deadLettering") /\ worker[p].seq = s
BY DEF Accounted, Durable, PendingSeqs, DeadLettered, InFlight

LEMMA AccountedWillBe ==
    \A s : s \in Accounted' <=>
        \/ s \in executed' \/ s \in queue' \/ s \in lost'
        \/ s # 0 /\ \E m \in Memories : pending'[m] = s
        \/ s \in Seqs /\ dead'[s] > 0
        \/ \E p \in Processes : worker'[p].pc = "deadLettering" /\ worker'[p].seq = s
BY DEF Accounted, Durable, PendingSeqs, DeadLettered, InFlight, At

LEMMA OpsStep == TypeOK /\ SeqsInv /\ EveryOpAccountedFor /\ [Next]_vars => EveryOpAccountedFor'
<1> SUFFICES ASSUME TypeOK, SeqsInv, EveryOpAccountedFor, [Next]_vars
             PROVE  EveryOpAccountedFor'
    OBVIOUS
<1>0. spilled \subseteq DOMAIN audit
    BY DEF SeqsInv, OpSeq
\* The steps that commit no event.
<1>1. ASSUME UNCHANGED <<audit, spilled>>, Accounted \subseteq Accounted'
      PROVE  EveryOpAccountedFor'
    BY <1>0, <1>1, OpsKept DEF Persists
\* Among them, those of a process that keeps what every table and every other
\* process has, and what it dead-letters itself.
<1>2. ASSUME UNCHANGED <<audit, spilled, pending, dead>>, NEW p \in Processes,
             executed \subseteq executed', lost \subseteq lost',
             queue \subseteq queue' \cup executed',
             \A q \in Processes \ {p} : worker'[q] = worker[q],
             At(p, "deadLettering") =>
                \/ worker[p].seq \in lost'
                \/ worker'[p] = worker[p]
      PROVE  EveryOpAccountedFor'
  <2>1. SUFFICES ASSUME NEW s \in Accounted
                 PROVE  s \in Accounted'
      BY <1>1, <1>2
  <2>2. CASE s \in executed \/ s \in queue \/ s \in lost
      BY <1>2, <2>2, AccountedWillBe
  <2>3. CASE s # 0 /\ \E m \in Memories : pending[m] = s
      BY <1>2, <2>3, AccountedWillBe
  <2>4. CASE s \in Seqs /\ dead[s] > 0
      BY <1>2, <2>4, AccountedWillBe
  <2>5. CASE \E q \in Processes : At(q, "deadLettering") /\ worker[q].seq = s
    <3>1. PICK q \in Processes : At(q, "deadLettering") /\ worker[q].seq = s
        BY <2>5
    <3>2. CASE q = p
        BY <1>2, <3>1, <3>2, AccountedWillBe DEF At
    <3>3. CASE q # p
        BY <1>2, <3>1, <3>3, AccountedWillBe DEF At
    <3>4. QED  BY <3>2, <3>3
  <2>6. QED  BY <2>1, <2>2, <2>3, <2>4, <2>5, AccountedIs
<1>3. ASSUME NEW p \in Writers, NEW event \in MemoryEvents, NEW m \in Memories,
             CommitEnqueue(p, event, m)
      PROVE  EveryOpAccountedFor'
  <2>0. PICK seq : seq = Len(audit) + 1
      OBVIOUS
  <2>1. audit' = audit \o (<<Entry(event, m, TRUE)>> \o <<>>)
      BY <1>3, ConcatEmptySeq DEF CommitEnqueue, CommitRow
  <2>2. Persists /\ \A s \in DOMAIN audit' \ DOMAIN audit : s # seq => ~audit'[s].cascades
      BY <2>0, <2>1, CommitPersists
  <2>3. queue' = queue \cup {seq} /\ UNCHANGED <<executed, spilled, lost, pending, dead, worker>>
      BY <2>0, <1>3 DEF CommitEnqueue, InsertRetry, history
  <2>4. seq \in Accounted' /\ Accounted \subseteq Accounted'
      BY <2>3, AccountedIs, AccountedWillBe DEF At
  <2>5. QED  BY <1>0, <2>2, <2>3, <2>4, OpsKept
\* What the operation replaces in pending_sync is an older one of its memory.
<1>4. ASSUME NEW p \in Writers, NEW event \in MemoryEvents, NEW m \in Memories,
             CommitOverflow(p, event, m)
      PROVE  EveryOpAccountedFor'
  <2>0. PICK seq : seq = Len(audit) + 1
      OBVIOUS
  <2>1. PICK rest \in {<<>>, <<OverflowEntry>>} :
            audit' = audit \o (<<Entry(event, m, TRUE)>> \o rest)
      BY <1>4 DEF CommitOverflow, CommitRow
  <2>2. /\ Persists
        /\ audit'[seq].memory = m /\ seq \in DOMAIN audit'
        /\ \A s \in DOMAIN audit : s < seq
        /\ \A s \in DOMAIN audit' \ DOMAIN audit : s # seq => ~audit'[s].cascades
      BY <2>0, <2>1, CommitPersists DEF OpSeq
  <2>3. /\ pending' = [pending EXCEPT ![m] = seq] /\ spilled' = spilled \cup {seq}
        /\ seq \in Seqs /\ UNCHANGED <<executed, lost, queue, dead, worker>>
      BY <2>0, <1>4 DEF CommitOverflow, CommitRow
  <2>4. /\ pending'[m] = seq /\ seq # 0
        /\ \A n \in Memories \ {m} : pending'[n] = pending[n]
      BY <2>3 DEF TypeOK, Seqs
  <2>5. seq \in Accounted'
      BY <2>4, AccountedWillBe
  <2>6. ASSUME NEW s \in DOMAIN audit, s \in Accounted
        PROVE  s \in Accounted' \/ Superseded(s)'
    <3>1. CASE s = pending[m]
      <4>1. CASE s = 0
          BY <2>6, <3>1, <4>1, <2>3, <2>4, AccountedIs, AccountedWillBe DEF At
      <4>2. CASE s # 0
        <5>1. s \in spilled /\ audit[s].memory = m
            BY <3>1, <4>2 DEF SeqsInv
        <5>2. audit'[s].memory = m /\ seq > s
            BY <5>1, <2>2, <2>6 DEF Persists
        <5>3. QED  BY <5>1, <5>2, <2>2, <2>3 DEF Superseded
      <4>3. QED  BY <4>1, <4>2
    <3>2. CASE s # pending[m]
        BY <2>6, <3>2, <2>3, <2>4, AccountedIs, AccountedWillBe DEF At
    <3>3. QED  BY <3>1, <3>2
  <2>7. QED  BY <1>0, <2>2, <2>3, <2>5, <2>6, OpsKept
<1>5. ASSUME NEW m \in Memories, DeleteMissing(m)
      PROVE  EveryOpAccountedFor'
  <2>1. LET e == Entry("memory.delete", m, FALSE) IN e \in AuditEntry /\ ~e.cascades
      BY DEF Entry, AuditEntry, AuditEvents, MemoryEvents
  <2>2. Persists /\ \A s \in DOMAIN audit' \ DOMAIN audit : ~audit'[s].cascades
      BY <1>5, <2>1, QuietAppends DEF DeleteMissing, Persists
  <2>3. UNCHANGED <<executed, spilled, lost, queue, pending, dead, worker>>
      BY <1>5 DEF DeleteMissing, memory, history
  <2>4. Accounted \subseteq Accounted'
      BY <2>3, AccountedIs, AccountedWillBe DEF At
  <2>5. QED  BY <1>0, <2>2, <2>3, <2>4, OpsKept
<1>6. ASSUME NEW p \in Workers, WorkerStep(p)
      PROVE  EveryOpAccountedFor'
  <2>1. CASE Poll(p)
      BY <2>1, <1>2 DEF Poll, At, TypeOK, disk, history
  <2>2. CASE Apply(p)
      BY <2>2, <1>2, WorkerMoves DEF Apply, Effect, At, WorkerStates
  <2>3. CASE ApplyFails(p)
      BY <2>3, <1>2, WorkerMoves DEF ApplyFails, At, WorkerStates, disk, history
  <2>4. CASE DeleteFailsLate(p)
      BY <2>4, <1>2, WorkerMoves DEF DeleteFailsLate, Effect, At, WorkerStates
  <2>5. CASE RecordSuccess(p)
    <3>1. worker[p].seq \in executed
        BY <2>5 DEF RecordSuccess, SeqsInv
    <3>2. queue \subseteq queue' \cup executed'
        BY <2>5, <3>1 DEF RecordSuccess, DeleteRetry, history
    <3>3. QED  BY <2>5, <3>2, <1>2, WorkerStops DEF RecordSuccess, At, history
  <2>6. CASE Reschedule(p)
      BY <2>6, <1>2, WorkerStops DEF Reschedule, At, history
  <2>7. CASE GiveUp(p)
    <3>1. /\ worker'[p].pc = "deadLettering" /\ worker'[p].seq = worker[p].seq
          /\ \A q \in Processes \ {p} : worker'[q] = worker[q]
        BY <2>7, WorkerMoves DEF GiveUp, WorkerStates
    <3>2. queue \subseteq queue' \cup {worker[p].seq} /\ ~At(p, "deadLettering")
        BY <2>7 DEF GiveUp, DeleteRetry, At
    <3>3. UNCHANGED <<audit, spilled, executed, lost, pending, dead>>
        BY <2>7 DEF GiveUp, history
    <3>4. Accounted \subseteq Accounted'
        BY <3>1, <3>2, <3>3, AccountedIs, AccountedWillBe DEF At
    <3>5. QED  BY <3>3, <3>4, <1>1
  <2>8. CASE RowGone(p)
      BY <2>8, <1>2, WorkerStops DEF RowGone, At, disk, history
  <2>9. CASE InsertDeadLetter(p)
    <3>1. /\ \A q \in Processes \ {p} : worker'[q] = worker[q]
          /\ UNCHANGED <<audit, spilled, executed, lost, pending, queue>>
        BY <2>9, WorkerMoves DEF InsertDeadLetter, WorkerStates, history
    <3>2. worker[p].seq \in Seqs
        BY <2>9 DEF InsertDeadLetter, At, SeqsInv
    <3>3. dead' = [dead EXCEPT ![worker[p].seq] = dead[worker[p].seq] + 1]
        BY <2>9 DEF InsertDeadLetter
    <3>4. dead'[worker[p].seq] > 0 /\ \A s \in Seqs : dead[s] > 0 => dead'[s] > 0
        BY <3>2, <3>3 DEF TypeOK
    <3>5. Accounted \subseteq Accounted'
        BY <3>1, <3>2, <3>4, AccountedIs, AccountedWillBe DEF At
    <3>6. QED  BY <3>1, <3>5, <1>1
  <2>10. CASE AuditDeadLetter(p)
    <3> DEFINE e == Entry("cascade.dead_letter", audit[worker[p].seq].memory, FALSE)
    <3>1. OpSeq(worker[p].seq)
        BY <2>10 DEF AuditDeadLetter, At, SeqsInv
    <3>2. e \in AuditEntry /\ ~e.cascades
        BY <3>1 DEF OpSeq, Entry, AuditEntry, AuditEvents
    <3>3. Persists /\ \A s \in DOMAIN audit' \ DOMAIN audit : ~audit'[s].cascades
        BY <2>10, <3>2, QuietAppends DEF AuditDeadLetter, Persists
    <3>4. UNCHANGED <<executed, spilled, lost, queue, pending, dead>>
        BY <2>10 DEF AuditDeadLetter, history
    <3>5. ~At(p, "deadLettering") /\ \A q \in Processes \ {p} : worker'[q] = worker[q]
        BY <2>10, WorkerStops DEF AuditDeadLetter, At
    <3>6. Accounted \subseteq Accounted'
        BY <3>4, <3>5, AccountedIs, AccountedWillBe DEF At
    <3>7. QED  BY <1>0, <3>3, <3>4, <3>6, OpsKept
  <2>11. QED
      BY <1>6, <2>1, <2>2, <2>3, <2>4, <2>5, <2>6, <2>7, <2>8, <2>9, <2>10 DEF WorkerStep
<1>7. ASSUME NEW p \in Workers, StepError(p)
      PROVE  EveryOpAccountedFor'
    BY <1>7, <1>2, WorkerStops DEF StepError, Dropped, disk
<1>8. ASSUME NEW p \in Sweepers, SweepStep(p)
      PROVE  EveryOpAccountedFor'
  <2>1. CASE SweepRead(p) \/ SweepStop(p)
      BY <2>1, <1>2 DEF SweepRead, SweepStop, disk, history
  <2>2. CASE SweepMove(p)
    <3>1. PICK s \in sweep[p] :
              /\ InsertRetry(s)
              /\ pending' = [pending EXCEPT ![audit[s].memory] = 0]
              /\ lost' = lost \cup ({pending[audit[s].memory]} \ {0, s})
              /\ UNCHANGED <<audit, dead, worker, executed, spilled>>
        BY <2>2 DEF SweepMove
    <3>2. queue' = queue \cup {s}
        BY <3>1 DEF InsertRetry
    <3>3. ASSUME NEW n \in Memories, pending[n] # 0
          PROVE  pending'[n] = pending[n] \/ pending[n] \in lost' \cup queue'
        BY <3>1, <3>2, <3>3 DEF TypeOK
    <3>4. Accounted \subseteq Accounted'
        BY <3>1, <3>2, <3>3, AccountedIs, AccountedWillBe DEF At
    <3>5. QED  BY <3>1, <3>4, <1>1
  <2>3. QED  BY <1>8, <2>1, <2>2 DEF SweepStep
<1>9. ASSUME NEW p \in Processes, Crash(p)
      PROVE  EveryOpAccountedFor'
  <2>1. Finish(p) /\ UNCHANGED <<disk, executed, spilled>> /\ lost' = lost \cup Dropped(p)
      BY <1>9 DEF Crash, Finish
  <2>2. QED  BY <2>1, <1>2, WorkerStops DEF Dropped, disk
<1>10. ASSUME UNCHANGED <<audit, queue, pending, dead, worker, executed, spilled, lost>>
       PROVE  EveryOpAccountedFor'
    BY <1>10, <1>1, AccountedIs, AccountedWillBe DEF At
<1>11. CASE Tick \/ UNCHANGED vars \/ \E p \in Writers : RollBack(p)
    BY <1>11, <1>10 DEF Tick, RollBack, vars, disk, memory, history
<1>12. QED
    BY <1>3, <1>4, <1>5, <1>6, <1>7, <1>8, <1>9, <1>11 DEF Next, PollNothing

LEMMA OpsInit == Init => EveryOpAccountedFor
BY DEF Init, EveryOpAccountedFor

-----------------------------------------------------------------------------
(* A retry_queue row becomes at most one dead letter.                      *)

\* The workers that hold the deleted row of s and have still to dead-letter it.
Handed(s) == {p \in Processes : At(p, "deadLettering") /\ worker[p].seq = s}

Queued(s) == IF s \in queue THEN 1 ELSE 0

\* What has become of the rows s has had: dead letters, rows in a worker's hands,
\* and the row that waits.  Processes need not be finite; few of them hold one.
Books ==
    \A s \in Seqs : /\ IsFiniteSet(Handed(s))
                    /\ dead[s] + Cardinality(Handed(s)) + Queued(s) <= retry[s].id

\* A step that hands no row to a worker and inserts none, and writes no dead letter.
LEMMA BooksShrink ==
    ASSUME TypeOK, Books, TypeOK', UNCHANGED dead, queue' \subseteq queue,
           \A s \in Seqs : retry'[s].id = retry[s].id /\ Handed(s)' \subseteq Handed(s)
    PROVE  Books'
<1> SUFFICES ASSUME NEW s \in Seqs
             PROVE  /\ IsFiniteSet(Handed(s)')
                    /\ dead'[s] + Cardinality(Handed(s)') + Queued(s)' <= retry'[s].id
    BY DEF Books
<1>1. /\ IsFiniteSet(Handed(s))
      /\ dead[s] + Cardinality(Handed(s)) + Queued(s) <= retry[s].id
    BY DEF Books
<1>2. /\ IsFiniteSet(Handed(s)')
      /\ Cardinality(Handed(s)') <= Cardinality(Handed(s))
    BY <1>1, FS_Subset
<1>3. Cardinality(Handed(s)) \in Nat /\ Cardinality(Handed(s)') \in Nat
    BY <1>1, <1>2, FS_CardinalityType
<1>4. dead[s] \in Nat /\ retry[s].id \in Nat
    BY DEF TypeOK
<1>5. Queued(s)' <= Queued(s) /\ Queued(s) \in {0, 1} /\ Queued(s)' \in {0, 1}
    BY DEF Queued
<1>6. dead'[s] = dead[s] /\ retry'[s].id = retry[s].id
    OBVIOUS
<1> HIDE DEF Handed
<1>7. dead[s] + Cardinality(Handed(s)') + Queued(s)' <= retry[s].id
    BY <1>1, <1>2, <1>3, <1>4, <1>5
<1>8. QED  BY <1>2, <1>6, <1>7

\* One whose worker, if one moves, is not handed a row: the others stay.
LEMMA NoneHanded ==
    ASSUME NEW p \in Processes, worker'[p].pc # "deadLettering",
           \A q \in Processes \ {p} : worker'[q] = worker[q]
    PROVE  \A s \in Seqs : Handed(s)' \subseteq Handed(s)
BY DEF Handed, At

LEMMA SameHanded == UNCHANGED worker => \A s \in Seqs : Handed(s)' = Handed(s)
BY DEF Handed, At

\* A row of its own id is inserted where none waits.
LEMMA BooksInsert ==
    ASSUME TypeOK, Books, NEW s0 \in Seqs, s0 \notin queue, InsertRetry(s0),
           UNCHANGED <<dead, worker>>
    PROVE  Books'
<1> SUFFICES ASSUME NEW s \in Seqs
             PROVE  /\ IsFiniteSet(Handed(s)')
                    /\ dead'[s] + Cardinality(Handed(s)') + Queued(s)' <= retry'[s].id
    BY DEF Books
<1>1. /\ IsFiniteSet(Handed(s))
      /\ dead[s] + Cardinality(Handed(s)) + Queued(s) <= retry[s].id
    BY DEF Books
<1>2. Handed(s)' = Handed(s) /\ dead'[s] = dead[s]
    BY SameHanded
<1>3. Cardinality(Handed(s)) \in Nat /\ dead[s] \in Nat /\ retry[s].id \in Nat
    BY <1>1, FS_CardinalityType DEF TypeOK
<1>4. queue' = queue \cup {s0}
    BY DEF InsertRetry
<1>5. CASE s = s0
  <2>1. retry'[s].id = retry[s].id + 1
      BY <1>5 DEF InsertRetry, TypeOK
  <2>2. Queued(s) = 0 /\ Queued(s)' = 1
      BY <1>4, <1>5 DEF Queued
  <2>3. QED  BY <1>1, <1>2, <1>3, <2>1, <2>2
<1>6. CASE s # s0
  <2>1. retry'[s] = retry[s]
      BY <1>6 DEF InsertRetry, TypeOK
  <2>2. Queued(s)' = Queued(s)
      BY <1>4, <1>6 DEF Queued
  <2>3. QED  BY <1>1, <1>2, <2>1, <2>2
<1>7. QED  BY <1>5, <1>6

\* Deleting the row of a sequence id keeps its id.
LEMMA DeleteKeepsIds ==
    ASSUME TypeOK, NEW s0 \in Seqs, DeleteRetry(s0)
    PROVE  \A s \in Seqs : retry'[s].id = retry[s].id
BY DEF TypeOK, DeleteRetry, NoRow

\* record_failure deletes the row and hands it to this worker.
LEMMA BooksGiveUp ==
    ASSUME TypeOK, Books, NEW p \in Processes, GiveUp(p)
    PROVE  Books'
<1> DEFINE s0 == worker[p].seq
<1>0. s0 \in Seqs /\ s0 \in queue /\ queue' = queue \ {s0} /\ UNCHANGED dead
    BY DEF GiveUp, RowPresent, DeleteRetry, TypeOK
<1>a. \A s \in Seqs : retry'[s].id = retry[s].id
    BY <1>0, DeleteKeepsIds DEF GiveUp
<1>b. /\ worker'[p].pc = "deadLettering" /\ worker'[p].seq = s0
      /\ \A q \in Processes \ {p} : worker'[q] = worker[q]
      /\ worker[p].pc # "deadLettering"
    BY WorkerMoves DEF GiveUp, WorkerStates, At
<1> HIDE DEF s0
<1> SUFFICES ASSUME NEW s \in Seqs
             PROVE  /\ IsFiniteSet(Handed(s)')
                    /\ dead'[s] + Cardinality(Handed(s)') + Queued(s)' <= retry'[s].id
    BY DEF Books
<1>1. /\ IsFiniteSet(Handed(s))
      /\ dead[s] + Cardinality(Handed(s)) + Queued(s) <= retry[s].id
    BY DEF Books
<1>2. Cardinality(Handed(s)) \in Nat /\ dead[s] \in Nat /\ retry[s].id \in Nat
    BY <1>1, FS_CardinalityType DEF TypeOK
<1>3. CASE s = s0
  <2>1. Handed(s)' = Handed(s) \cup {p} /\ p \notin Handed(s)
      BY <1>b, <1>3 DEF Handed, At
  <2>2. /\ IsFiniteSet(Handed(s)')
        /\ Cardinality(Handed(s)') = Cardinality(Handed(s)) + 1
      BY <1>1, <2>1, FS_AddElement
  <2>3. Queued(s) = 1 /\ Queued(s)' = 0
      BY <1>0, <1>3 DEF Queued
  <2>4. dead'[s] = dead[s] /\ retry'[s].id = retry[s].id
      BY <1>0, <1>a
  <2>5. QED  BY <1>1, <1>2, <2>2, <2>3, <2>4
<1>4. CASE s # s0
  <2>1. Handed(s)' = Handed(s)
      BY <1>b, <1>4 DEF Handed, At
  <2>2. Queued(s)' = Queued(s)
      BY <1>0, <1>4 DEF Queued
  <2>3. QED  BY <1>0, <1>1, <1>a, <2>1, <2>2
<1>5. QED  BY <1>3, <1>4

\* write_dead_letter turns the row in the worker's hands into a dead letter.
LEMMA BooksDeadLetter ==
    ASSUME TypeOK, SeqsInv, Books, NEW p \in Processes, InsertDeadLetter(p)
    PROVE  Books'
<1> DEFINE s0 == worker[p].seq
<1>0. /\ s0 \in Seqs /\ worker[p].pc = "deadLettering"
      /\ dead' = [dead EXCEPT ![s0] = dead[s0] + 1]
      /\ UNCHANGED <<queue, retry>>
    BY DEF InsertDeadLetter, SeqsInv, At
<1>b. /\ worker'[p].pc = "auditing"
      /\ \A q \in Processes \ {p} : worker'[q] = worker[q]
    BY WorkerMoves DEF InsertDeadLetter, WorkerStates
<1>c. worker[p].seq = s0
    OBVIOUS
<1> HIDE DEF s0
<1> SUFFICES ASSUME NEW s \in Seqs
             PROVE  /\ IsFiniteSet(Handed(s)')
                    /\ dead'[s] + Cardinality(Handed(s)') + Queued(s)' <= retry'[s].id
    BY DEF Books
<1>1. /\ IsFiniteSet(Handed(s))
      /\ dead[s] + Cardinality(Handed(s)) + Queued(s) <= retry[s].id
    BY DEF Books
<1>2. /\ Cardinality(Handed(s)) \in Nat /\ dead[s] \in Nat /\ retry[s].id \in Nat
      /\ Queued(s)' = Queued(s) /\ Queued(s) \in {0, 1} /\ retry'[s].id = retry[s].id
    BY <1>0, <1>1, FS_CardinalityType DEF TypeOK, Queued
<1>3. CASE s = s0
  <2>1. Handed(s)' = Handed(s) \ {p} /\ p \in Handed(s)
      BY <1>0, <1>b, <1>c, <1>3 DEF Handed, At
  <2>2. /\ IsFiniteSet(Handed(s)')
        /\ Cardinality(Handed(s)') = Cardinality(Handed(s)) - 1
      BY <1>1, <2>1, FS_RemoveElement
  <2>3. dead'[s] = dead[s] + 1
      BY <1>0, <1>3 DEF TypeOK
  <2>4. QED  BY <1>1, <1>2, <2>2, <2>3
<1>4. CASE s # s0
  <2>1. Handed(s)' = Handed(s)
      BY <1>b, <1>c, <1>4 DEF Handed, At
  <2>2. dead'[s] = dead[s]
      BY <1>0, <1>4 DEF TypeOK
  <2>3. QED  BY <1>1, <1>2, <2>1, <2>2
<1>5. QED  BY <1>3, <1>4

LEMMA BooksStep == TypeOK /\ SeqsInv /\ Books /\ [Next]_vars => Books'
<1> SUFFICES ASSUME TypeOK, SeqsInv, Books, [Next]_vars
             PROVE  Books'
    OBVIOUS
<1>0. TypeOK'
    BY TypeStep
\* The steps that leave the rows of retry_queue alone and hand none out.
<1>1. ASSUME UNCHANGED <<dead, queue, retry>>,
             \A s \in Seqs : Handed(s)' \subseteq Handed(s)
      PROVE  Books'
    BY <1>0, <1>1, BooksShrink
<1>2. ASSUME UNCHANGED <<dead, queue, retry, worker>>
      PROVE  Books'
  <2>1. \A s \in Seqs : Handed(s)' = Handed(s)
      BY <1>2, SameHanded
  <2>2. QED  BY <1>1, <1>2, <2>1
<1>3. ASSUME NEW p \in Writers, NEW event \in MemoryEvents, NEW m \in Memories,
             CommitEnqueue(p, event, m)
      PROVE  Books'
  <2>1. PICK seq \in Seqs : seq = Len(audit) + 1 /\ InsertRetry(seq)
      BY <1>3 DEF CommitEnqueue, CommitRow
  <2>2. Len(audit) \in Nat /\ DOMAIN audit = 1..Len(audit)
      BY LenProperties DEF TypeOK
  <2>3. seq \notin DOMAIN audit
      BY <2>1, <2>2
  <2>4. seq \notin queue
      BY <2>3 DEF SeqsInv, OpSeq
  <2>5. QED  BY <1>3, <2>1, <2>4, BooksInsert DEF CommitEnqueue
<1>4. ASSUME NEW p \in Writers, NEW event \in MemoryEvents, NEW m \in Memories,
             CommitOverflow(p, event, m)
      PROVE  Books'
    BY <1>2, <1>4 DEF CommitOverflow
<1>5. CASE \/ \E m \in Memories : DeleteMissing(m)
           \/ \E p \in Writers : RollBack(p)
           \/ UNCHANGED vars
    BY <1>2, <1>5 DEF DeleteMissing, RollBack, vars, memory, disk
<1>6. ASSUME NEW p \in Workers, WorkerStep(p)
      PROVE  Books'
  <2>1. CASE Poll(p)
    <3>1. worker'[p].pc # "deadLettering" /\ \A q \in Processes \ {p} : worker'[q] = worker[q]
        BY <2>1 DEF Poll, TypeOK
    <3>2. QED  BY <2>1, <3>1, <1>1, NoneHanded DEF Poll, disk
  <2>2. CASE Apply(p)
    <3>1. worker'[p].pc # "deadLettering" /\ \A q \in Processes \ {p} : worker'[q] = worker[q]
        BY <2>2, WorkerMoves DEF Apply, WorkerStates
    <3>2. QED  BY <2>2, <3>1, <1>1, NoneHanded DEF Apply
  <2>3. CASE ApplyFails(p)
    <3>1. worker'[p].pc # "deadLettering" /\ \A q \in Processes \ {p} : worker'[q] = worker[q]
        BY <2>3, WorkerMoves DEF ApplyFails, WorkerStates
    <3>2. QED  BY <2>3, <3>1, <1>1, NoneHanded DEF ApplyFails, disk
  <2>4. CASE DeleteFailsLate(p)
    <3>1. worker'[p].pc # "deadLettering" /\ \A q \in Processes \ {p} : worker'[q] = worker[q]
        BY <2>4, WorkerMoves DEF DeleteFailsLate, WorkerStates
    <3>2. QED  BY <2>4, <3>1, <1>1, NoneHanded DEF DeleteFailsLate
  <2>5. CASE RecordSuccess(p)
    <3>1. \A s \in Seqs : Handed(s)' \subseteq Handed(s)
        BY <2>5, WorkerStops, NoneHanded DEF RecordSuccess
    <3>2. UNCHANGED dead /\ queue' \subseteq queue
        BY <2>5 DEF RecordSuccess, DeleteRetry
    <3>3. worker[p].seq \in Seqs
        BY <2>5 DEF RecordSuccess, SeqsInv, At
    <3>4. \A s \in Seqs : retry'[s].id = retry[s].id
        BY <2>5, <3>3, DeleteKeepsIds DEF RecordSuccess
    <3>5. QED  BY <3>1, <3>2, <3>4, <1>0, BooksShrink
  <2>6. CASE Reschedule(p)
    <3>1. \A s \in Seqs : Handed(s)' \subseteq Handed(s)
        BY <2>6, WorkerStops, NoneHanded DEF Reschedule
    <3>2. \A s \in Seqs : retry'[s].id = retry[s].id
        BY <2>6 DEF Reschedule, TypeOK
    <3>3. QED  BY <2>6, <3>1, <3>2, <1>0, BooksShrink DEF Reschedule
  <2>7. CASE GiveUp(p)
      BY <2>7, BooksGiveUp
  <2>8. CASE RowGone(p)
      BY <2>8, <1>1, WorkerStops, NoneHanded DEF RowGone, disk
  <2>9. CASE InsertDeadLetter(p)
      BY <2>9, BooksDeadLetter
  <2>10. CASE AuditDeadLetter(p)
      BY <2>10, <1>1, WorkerStops, NoneHanded DEF AuditDeadLetter
  <2>11. QED
      BY <1>6, <2>1, <2>2, <2>3, <2>4, <2>5, <2>6, <2>7, <2>8, <2>9, <2>10 DEF WorkerStep
<1>7. ASSUME NEW p \in Workers, StepError(p)
      PROVE  Books'
    BY <1>7, <1>1, WorkerStops, NoneHanded DEF StepError, disk
<1>8. ASSUME NEW p \in Sweepers, SweepStep(p)
      PROVE  Books'
  <2>1. CASE SweepRead(p) \/ SweepStop(p)
      BY <2>1, <1>2 DEF SweepRead, SweepStop, disk
  <2>2. CASE SweepMove(p)
    <3>1. PICK s \in sweep[p] : s \notin queue /\ InsertRetry(s) /\ UNCHANGED <<dead, worker>>
        BY <2>2 DEF SweepMove
    <3>2. s \in Seqs
        BY DEF TypeOK
    <3>3. QED  BY <3>1, <3>2, BooksInsert
  <2>3. QED  BY <1>8, <2>1, <2>2 DEF SweepStep
<1>9. ASSUME NEW p \in Processes, Crash(p)
      PROVE  Books'
  <2>1. Finish(p) /\ UNCHANGED disk
      BY <1>9 DEF Crash, Finish
  <2>2. QED  BY <2>1, <1>1, WorkerStops, NoneHanded DEF disk
<1>10. CASE Tick
  <2>1. UNCHANGED <<dead, queue, worker>>
      BY <1>10 DEF Tick, memory
  <2>2. \A s \in Seqs : retry'[s].id = retry[s].id
      BY <1>10 DEF Tick, TypeOK
  <2>3. QED  BY <2>1, <2>2, <1>0, SameHanded, BooksShrink
<1>11. QED
    BY <1>3, <1>4, <1>5, <1>6, <1>7, <1>8, <1>9, <1>10 DEF Next, PollNothing

LEMMA BooksInit == Init => Books
<1> SUFFICES ASSUME Init, NEW s \in Seqs
             PROVE  /\ IsFiniteSet(Handed(s))
                    /\ dead[s] + Cardinality(Handed(s)) + Queued(s) <= retry[s].id
    BY DEF Books
<1>1. Handed(s) = {}
    BY DEF Init, Handed, At, IdleStep
<1>2. dead[s] = 0 /\ Queued(s) = 0 /\ retry[s].id = 0
    BY DEF Init, Queued, NoRow
<1>3. QED  BY <1>1, <1>2, FS_EmptySet

-----------------------------------------------------------------------------
(* Order: what one worker does to the operations of a memory.              *)

\* Rows that no attempt has put off yet.
Fresh(s) == s \in queue /\ retry[s].attempts = 0

\* What a memory's row, and the vector store, show is an operation of the memory;
\* its row shows the latest.
ShownInv ==
    \A m \in Memories :
        /\ \A s \in Seqs : s \in {row[m], vector[m]} => OpSeq(s) /\ audit[s].memory = m
        /\ \A s \in DOMAIN audit : audit[s].cascades /\ audit[s].memory = m => s <= row[m]

\* A fresh row is due within a second, and before any row behind it; the vector
\* store has not passed it; and no worker is about to apply one that comes after.
OrderInv ==
    /\ \A s \in queue : Fresh(s) => retry[s].wait <= 1
    /\ \A s, t \in queue : Fresh(s) /\ s < t => retry[s].wait <= retry[t].wait
    /\ \A s \in queue : Fresh(s) => vector[audit[s].memory] <= s
    /\ \A p \in Workers : At(p, "polled") =>
          worker[p].seq \in queue /\ \A s \in queue : Fresh(s) => worker[p].seq <= s

\* Without transient failures every row is fresh, and the vector store shows the
\* operation a row shows once it has applied it.
FifoInv ==
    /\ \A s \in executed : OpSeq(s)
    /\ \A s \in queue : Fresh(s)
    /\ \A p \in Workers : ~At(p, "failed")
    /\ \A m \in Memories : row[m] \in executed => vector[m] = row[m]

LEMMA ShownKept ==
    ASSUME TypeOK, ShownInv, Persists, UNCHANGED row,
           \A s \in DOMAIN audit' \ DOMAIN audit : ~audit'[s].cascades,
           \A m \in Memories : \/ vector'[m] = vector[m]
                               \/ OpSeq(vector'[m]) /\ audit[vector'[m]].memory = m
    PROVE  ShownInv'
<1> SUFFICES ASSUME NEW m \in Memories
             PROVE  /\ \A s \in Seqs : s \in {row'[m], vector'[m]} =>
                          OpSeq(s)' /\ audit'[s].memory = m
                    /\ \A s \in DOMAIN audit' :
                          audit'[s].cascades /\ audit'[s].memory = m => s <= row'[m]
    BY DEF ShownInv
<1>1. \A s : OpSeq(s) => OpSeq(s)' /\ audit'[s].memory = audit[s].memory
    BY OpsPersist
<1>2. \A s \in Seqs : s \in {row'[m], vector'[m]} => OpSeq(s) /\ audit[s].memory = m
    BY DEF ShownInv
<1>3. \A s \in DOMAIN audit' : audit'[s].cascades /\ audit'[s].memory = m => s <= row'[m]
    BY DEF ShownInv, Persists
<1>4. QED  BY <1>1, <1>2, <1>3

\* A commit's operation is the latest of its memory.
LEMMA ShownCommit ==
    ASSUME TypeOK, SeqsInv, ShownInv, NEW event \in MemoryEvents, NEW m \in Memories,
           NEW rest \in {<<>>, <<OverflowEntry>>},
           audit' = audit \o (<<Entry(event, m, TRUE)>> \o rest),
           NEW seq, seq = Len(audit) + 1, seq \in Seqs,
           row' = [row EXCEPT ![m] = seq], UNCHANGED vector
    PROVE  ShownInv'
<1> SUFFICES ASSUME NEW n \in Memories
             PROVE  /\ \A s \in Seqs : s \in {row'[n], vector'[n]} =>
                          OpSeq(s)' /\ audit'[s].memory = n
                    /\ \A s \in DOMAIN audit' :
                          audit'[s].cascades /\ audit'[s].memory = n => s <= row'[n]
    BY DEF ShownInv
<1>1. /\ Persists
      /\ OpSeq(seq)' /\ audit'[seq].memory = m
      /\ \A s \in DOMAIN audit : s < seq
      /\ \A s \in DOMAIN audit' \ DOMAIN audit : s # seq => ~audit'[s].cascades
    BY CommitPersists
<1>2. \A s : OpSeq(s) => OpSeq(s)' /\ audit'[s].memory = audit[s].memory
    BY <1>1, OpsPersist
<1>3. row'[m] = seq /\ (n # m => row'[n] = row[n])
    BY DEF TypeOK
<1>4. \A s \in Seqs : s \in {row'[n], vector'[n]} => OpSeq(s)' /\ audit'[s].memory = n
  <2>1. CASE n = m
    <3>1. OpSeq(seq)' /\ audit'[seq].memory = n
        BY <2>1, <1>1
    <3>2. \A s \in Seqs : s = vector'[n] => OpSeq(s)' /\ audit'[s].memory = n
        BY <1>2 DEF ShownInv
    <3>3. row'[n] = seq
        BY <2>1, <1>3
    <3>4. QED  BY <3>1, <3>2, <3>3
  <2>2. CASE n # m
      BY <2>2, <1>2, <1>3 DEF ShownInv
  <2>3. QED  BY <2>1, <2>2
<1>5. ASSUME NEW s \in DOMAIN audit', audit'[s].cascades, audit'[s].memory = n
      PROVE  s <= row'[n]
  <2>1. CASE s \in DOMAIN audit
    <3>1. audit[s].cascades /\ audit[s].memory = n
        BY <1>1, <1>5, <2>1 DEF Persists
    <3>2. s <= row[n] /\ s < seq
        BY <1>1, <2>1, <3>1 DEF ShownInv
    <3>3. CASE n = m
      <4>1. DOMAIN audit = 1..Len(audit) /\ Len(audit) \in Nat
          BY LenProperties DEF TypeOK
      <4>2. s \in Nat /\ seq \in Nat
          BY <2>1, <4>1
      <4>3. QED  BY <3>2, <3>3, <1>3, <4>2
    <3>4. QED  BY <3>2, <3>3, <1>3
  <2>2. CASE s \notin DOMAIN audit
    <3>1. s = seq /\ n = m
        BY <1>1, <1>5, <2>2
    <3>2. QED  BY <3>1, <1>3 DEF Seqs
  <2>3. QED  BY <2>1, <2>2
<1>6. QED  BY <1>4, <1>5

\* What the vector store performs is an operation of the memory it changes.
LEMMA EffectShows ==
    ASSUME TypeOK, SeqsInv, NEW p \in Processes, ~At(p, "idle"), Effect(p)
    PROVE  /\ OpSeq(worker[p].seq)
           /\ vector' = [vector EXCEPT ![audit[worker[p].seq].memory] = worker[p].seq]
           /\ \A m \in Memories :
                 \/ vector'[m] = vector[m] /\ m # audit[worker[p].seq].memory
                 \/ /\ vector'[m] = worker[p].seq
                    /\ audit[worker[p].seq].memory = m
<1>1. OpSeq(worker[p].seq)
    BY DEF SeqsInv
<1>2. QED  BY <1>1 DEF Effect, TypeOK, OpSeq

LEMMA ShownStep == TypeOK /\ SeqsInv /\ ShownInv /\ [Next]_vars => ShownInv'
<1> SUFFICES ASSUME TypeOK, SeqsInv, ShownInv, [Next]_vars
             PROVE  ShownInv'
    OBVIOUS
<1>1. ASSUME UNCHANGED <<audit, row>>,
             \A m \in Memories : \/ vector'[m] = vector[m]
                                 \/ OpSeq(vector'[m]) /\ audit[vector'[m]].memory = m
      PROVE  ShownInv'
    BY <1>1, ShownKept DEF Persists
<1>2. ASSUME UNCHANGED <<audit, row, vector>>
      PROVE  ShownInv'
    BY <1>1, <1>2
<1>3. ASSUME NEW p \in Writers, NEW event \in MemoryEvents, NEW m \in Memories,
             CommitEnqueue(p, event, m) \/ CommitOverflow(p, event, m)
      PROVE  ShownInv'
  <2>0. PICK seq : seq = Len(audit) + 1
      OBVIOUS
  <2>1. PICK rest \in {<<>>, <<OverflowEntry>>} :
            audit' = audit \o (<<Entry(event, m, TRUE)>> \o rest)
    <3>1. CASE CommitEnqueue(p, event, m)
      <4>1. audit' = audit \o (<<Entry(event, m, TRUE)>> \o <<>>)
          BY <3>1, ConcatEmptySeq DEF CommitEnqueue, CommitRow
      <4>2. QED  BY <4>1
    <3>2. CASE CommitOverflow(p, event, m)
        BY <3>2 DEF CommitOverflow, CommitRow
    <3>3. QED  BY <1>3, <3>1, <3>2
  <2>2. seq \in Seqs /\ row' = [row EXCEPT ![m] = seq] /\ UNCHANGED vector
      BY <1>3, <2>0 DEF CommitEnqueue, CommitOverflow, CommitRow
  <2>3. QED  BY <2>0, <2>1, <2>2, ShownCommit
<1>4. ASSUME NEW e \in AuditEntry, ~e.cascades, audit' = Append(audit, e),
             UNCHANGED <<row, vector>>
      PROVE  ShownInv'
  <2>1. Persists /\ \A s \in DOMAIN audit' \ DOMAIN audit : ~audit'[s].cascades
      BY <1>4, QuietAppends DEF Persists
  <2>2. QED  BY <1>4, <2>1, ShownKept
<1>5. ASSUME NEW m \in Memories, DeleteMissing(m)
      PROVE  ShownInv'
  <2>1. LET e == Entry("memory.delete", m, FALSE) IN e \in AuditEntry /\ ~e.cascades
      BY DEF Entry, AuditEntry, AuditEvents, MemoryEvents
  <2>2. QED  BY <1>4, <1>5, <2>1 DEF DeleteMissing
<1>6. ASSUME NEW p \in Workers, WorkerStep(p)
      PROVE  ShownInv'
  <2>1. CASE Apply(p) \/ DeleteFailsLate(p)
    <3>1. Effect(p) /\ ~At(p, "idle") /\ UNCHANGED <<audit, row>>
        BY <2>1 DEF Apply, DeleteFailsLate, At
    <3>2. QED  BY <3>1, EffectShows, <1>1
  <2>2. CASE AuditDeadLetter(p)
    <3> DEFINE e == Entry("cascade.dead_letter", audit[worker[p].seq].memory, FALSE)
    <3>1. OpSeq(worker[p].seq)
        BY <2>2 DEF AuditDeadLetter, At, SeqsInv
    <3>2. e \in AuditEntry /\ ~e.cascades
        BY <3>1 DEF OpSeq, Entry, AuditEntry, AuditEvents
    <3>3. audit' = Append(audit, e) /\ UNCHANGED <<row, vector>>
        BY <2>2 DEF AuditDeadLetter
    <3> HIDE DEF e
    <3>4. QED  BY <1>4, <3>2, <3>3
  <2>3. CASE Poll(p) \/ ApplyFails(p) \/ RecordSuccess(p) \/ Reschedule(p) \/ GiveUp(p)
              \/ RowGone(p) \/ InsertDeadLetter(p)
      BY <2>3, <1>2
         DEF Poll, ApplyFails, RecordSuccess, Reschedule, GiveUp, RowGone, InsertDeadLetter, disk
  <2>4. QED  BY <1>6, <2>1, <2>2, <2>3 DEF WorkerStep
<1>7. CASE \E p \in Workers : StepError(p)
    BY <1>7, <1>2 DEF StepError, disk
<1>8. CASE \E p \in Sweepers : SweepStep(p)
    BY <1>8, <1>2 DEF SweepStep, SweepRead, SweepMove, SweepStop, disk
<1>9. CASE \E p \in Processes : Crash(p)
    BY <1>9, <1>2 DEF Crash, disk
<1>10. CASE Tick \/ UNCHANGED vars \/ \E p \in Writers : RollBack(p)
    BY <1>10, <1>2 DEF Tick, RollBack, vars, disk
<1>11. QED
    BY <1>3, <1>5, <1>6, <1>7, <1>8, <1>9, <1>10 DEF Next, PollNothing

LEMMA ShownInit == Init => ShownInv
BY DEF Init, ShownInv, Seqs

\* The instance in which order is kept: one worker, and no sweep to move an old
\* operation back into the outbox.
OneWorker == \A p, q \in Workers : p = q
NoSweep == Sweepers = {}

\* A delay between attempts is a second at least.
LEMMA WaitsAreLong ==
    ASSUME NEW a \in 1..7, NEW wait \in Waits(a)
    PROVE  wait \in Nat /\ wait >= 1
<1>1. base_backoff_secs(a) \in Nat /\ base_backoff_secs(a) >= 2
    BY DEF base_backoff_secs, BaseBackoff
<1>2. \A b \in Nat : b >= 2 => (3 * b + 3) \div 4 \in Nat /\ (3 * b + 3) \div 4 >= 1
    OBVIOUS
<1>3. QED  BY <1>1, <1>2 DEF Waits

\* A step that inserts no row, puts none off and applies nothing.
LEMMA OrderKept ==
    ASSUME TypeOK, SeqsInv, OrderInv, Persists, UNCHANGED vector, queue' \subseteq queue,
           \A s \in queue' : /\ retry'[s].attempts = retry[s].attempts
                             /\ retry'[s].wait = retry[s].wait,
           \A p \in Workers :
              worker'[p].pc = "polled" => worker'[p] = worker[p] /\ queue' = queue
    PROVE  OrderInv'
<1>1. \A s \in queue' : s \in queue /\ (Fresh(s)' <=> Fresh(s))
    BY DEF Fresh
<1>2. \A s \in queue' : audit'[s].memory = audit[s].memory
    BY OpsPersist DEF SeqsInv
<1>3. \A s \in queue' : Fresh(s)' => retry'[s].wait <= 1
    BY <1>1 DEF OrderInv
<1>4. \A s, t \in queue' : Fresh(s)' /\ s < t => retry'[s].wait <= retry'[t].wait
    BY <1>1 DEF OrderInv
<1>5. \A s \in queue' : Fresh(s)' => vector'[audit'[s].memory] <= s
    BY <1>1, <1>2 DEF OrderInv
<1>6. \A p \in Workers : worker'[p].pc = "polled" =>
          worker'[p].seq \in queue' /\ \A s \in queue' : Fresh(s)' => worker'[p].seq <= s
    BY <1>1 DEF OrderInv, At
<1>7. QED  BY <1>3, <1>4, <1>5, <1>6 DEF OrderInv, At

\* A new row is behind every other, and its operation is one no store has seen.
LEMMA OrderEnqueue ==
    ASSUME TypeOK, SeqsInv, ShownInv, OrderInv, NEW p \in Writers,
           NEW event \in MemoryEvents, NEW m \in Memories, CommitEnqueue(p, event, m)
    PROVE  OrderInv'
<1>0. PICK seq \in Seqs : seq = Len(audit) + 1 /\ InsertRetry(seq)
    BY DEF CommitEnqueue, CommitRow
<1>a. audit' = audit \o (<<Entry(event, m, TRUE)>> \o <<>>)
    BY ConcatEmptySeq DEF CommitEnqueue, CommitRow
<1>1. Persists /\ audit'[seq].memory = m /\ \A s \in DOMAIN audit : s < seq
    BY <1>0, <1>a, CommitPersists
<1>2. /\ UNCHANGED <<vector, worker>> /\ queue' = queue \cup {seq}
      /\ \A s \in queue : s < seq /\ audit'[s].memory = audit[s].memory
    BY <1>0, <1>1 DEF CommitEnqueue, InsertRetry, SeqsInv, OpSeq, Persists
<1>3. /\ retry'[seq].attempts = 0 /\ retry'[seq].wait = 1
      /\ \A s \in queue : retry'[s] = retry[s]
    BY <1>0, <1>2 DEF InsertRetry, TypeOK, base_backoff_secs, BaseBackoff, Seqs
<1>4. seq \in Nat /\ \A s \in queue' : s \in Nat /\ s <= seq
  <2>1. Seqs \subseteq Nat
      BY DEF Seqs
  <2>2. queue \subseteq Seqs
      BY DEF TypeOK
  <2>3. QED  BY <1>2, <2>1, <2>2
<1>5. \A s \in queue : Fresh(s)' <=> Fresh(s)
    BY <1>2, <1>3 DEF Fresh
<1>6. \A s \in queue' : Fresh(s)' => retry'[s].wait <= 1
    BY <1>2, <1>3, <1>5 DEF OrderInv
<1>7. ASSUME NEW s \in queue', NEW t \in queue', Fresh(s)', s < t
      PROVE  retry'[s].wait <= retry'[t].wait
  <2>1. s \in queue
    <3>1. s \in Nat /\ t \in Nat /\ t <= seq
        BY <1>4
    <3>2. s # seq
        BY <3>1, <1>4, <1>7
    <3>3. QED  BY <3>2, <1>2
  <2>2. CASE t \in queue
      BY <2>1, <2>2, <1>3, <1>5, <1>7 DEF OrderInv
  <2>3. CASE t = seq
      BY <2>1, <2>3, <1>3, <1>6, <1>7
  <2>4. QED  BY <1>2, <2>2, <2>3
<1>8. ASSUME NEW s \in queue', Fresh(s)'
      PROVE  vector'[audit'[s].memory] <= s
  <2>1. CASE s \in queue
      BY <2>1, <1>2, <1>5, <1>8 DEF OrderInv
  <2>2. CASE s = seq
    <3>1. vector[m] \in Seqs \cup {0}
        BY DEF TypeOK
    <3>2. vector[m] \in Seqs => vector[m] < seq
        BY <1>1 DEF ShownInv, OpSeq
    <3>3. vector[m] <= seq
        BY <3>1, <3>2, <1>4 DEF Seqs
    <3>4. QED  BY <3>3, <2>2, <1>1, <1>2
  <2>3. QED  BY <1>2, <2>1, <2>2
<1>9. ASSUME NEW q \in Workers, worker'[q].pc = "polled"
      PROVE  worker'[q].seq \in queue' /\ \A s \in queue' : Fresh(s)' => worker'[q].seq <= s
  <2>1. worker'[q].seq \in queue /\ \A s \in queue : Fresh(s) => worker'[q].seq <= s
      BY <1>2, <1>9 DEF OrderInv, At
  <2>2. worker'[q].seq <= seq
      BY <1>2, <1>4, <2>1
  <2>3. QED  BY <1>2, <1>5, <2>1, <2>2
<1>10. QED  BY <1>6, <1>7, <1>8, <1>9 DEF OrderInv, At

\* The polled row is due and the least that is: no fresh row is ahead of it.
LEMMA OrderPoll ==
    ASSUME TypeOK, OrderInv, OneWorker, NEW p \in Workers, Poll(p)
    PROVE  OrderInv'
<1>1. PICK s0 \in Due :
          /\ \A t \in Due : s0 <= t
          /\ worker' = [worker EXCEPT ![p] =
                            [pc |-> "polled", seq |-> s0, id |-> retry[s0].id]]
    BY DEF Poll
<1>2. UNCHANGED <<audit, queue, retry, vector>>
    BY DEF Poll, disk
<1>3. \A s \in queue : Fresh(s)' <=> Fresh(s)
    BY <1>2 DEF Fresh
<1>4. s0 \in queue /\ retry[s0].wait = 0 /\ \A s \in queue : s \in Nat
    BY <1>1 DEF Due, TypeOK, Seqs
<1>5. ASSUME NEW s \in queue, Fresh(s)
      PROVE  s0 <= s
  <2>1. CASE s < s0
    <3>1. retry[s].wait <= 0
        BY <2>1, <1>4, <1>5 DEF OrderInv
    <3>2. retry[s].wait \in Nat
        BY DEF TypeOK
    <3>3. s \in Due
        BY <3>1, <3>2 DEF Due
    <3>4. QED  BY <3>3, <1>1
  <2>2. s \in Nat /\ s0 \in Nat
      BY <1>4
  <2>3. QED  BY <2>1, <2>2
<1>6. ASSUME NEW q \in Workers
      PROVE  worker'[q].seq \in queue' /\ \A s \in queue' : Fresh(s)' => worker'[q].seq <= s
  <2>1. worker'[q].seq = s0
      BY <1>1 DEF OneWorker, TypeOK
  <2>2. QED  BY <2>1, <1>2, <1>3, <1>4, <1>5
<1>7. \A s \in queue' : Fresh(s)' => retry'[s].wait <= 1
    BY <1>2, <1>3 DEF OrderInv
<1>8. \A s, t \in queue' : Fresh(s)' /\ s < t => retry'[s].wait <= retry'[t].wait
    BY <1>2, <1>3 DEF OrderInv
<1>9. \A s \in queue' : Fresh(s)' => vector'[audit'[s].memory] <= s
    BY <1>2, <1>3 DEF OrderInv
<1>10. QED  BY <1>6, <1>7, <1>8, <1>9 DEF OrderInv, At

\* What the worker applies comes before every fresh row of its memory.
LEMMA OrderApply ==
    ASSUME TypeOK, SeqsInv, OrderInv, OneWorker, NEW p \in Workers,
           Apply(p) \/ DeleteFailsLate(p)
    PROVE  OrderInv'
<1>1. /\ Effect(p) /\ At(p, "polled") /\ UNCHANGED <<audit, queue, retry>>
      /\ worker'[p].pc # "polled"
    BY WorkerMoves DEF Apply, DeleteFailsLate, WorkerStates
<1>2. \A m \in Memories :
          \/ vector'[m] = vector[m] /\ m # audit[worker[p].seq].memory
          \/ vector'[m] = worker[p].seq /\ audit[worker[p].seq].memory = m
  <2>1. ~At(p, "idle")
      BY <1>1 DEF At
  <2>2. p \in Processes /\ Effect(p)
      BY <1>1
  <2>3. QED  BY <2>1, <2>2, EffectShows
<1>3. \A s \in queue : Fresh(s)' <=> Fresh(s)
    BY <1>1 DEF Fresh
<1>4. \A q \in Workers : worker'[q].pc # "polled"
    BY <1>1 DEF OneWorker
<1>5. \A s \in queue' : Fresh(s)' => retry'[s].wait <= 1
    BY <1>1, <1>3 DEF OrderInv
<1>6. \A s, t \in queue' : Fresh(s)' /\ s < t => retry'[s].wait <= retry'[t].wait
    BY <1>1, <1>3 DEF OrderInv
<1>7. ASSUME NEW s \in queue', Fresh(s)'
      PROVE  vector'[audit'[s].memory] <= s
  <2>1. audit[s].memory \in Memories /\ s \in queue /\ Fresh(s)
      BY <1>1, <1>3, <1>7 DEF SeqsInv, OpSeq
  <2>2. vector[audit[s].memory] <= s /\ worker[p].seq <= s
      BY <1>1, <2>1 DEF OrderInv
  <2>3. QED  BY <1>1, <1>2, <2>1, <2>2
<1>8. QED  BY <1>4, <1>5, <1>6, <1>7 DEF OrderInv, At

\* A row put off is not fresh, and is due no earlier than those that are.
LEMMA OrderReschedule ==
    ASSUME TypeOK, SeqsInv, OrderInv, OneWorker, NEW p \in Workers, Reschedule(p)
    PROVE  OrderInv'
<1> DEFINE s0 == worker[p].seq
<1>1. /\ s0 \in queue /\ s0 \in Seqs /\ ~Exhausted(p)
      /\ UNCHANGED <<audit, queue, vector>> /\ Finish(p)
    BY DEF Reschedule, RowPresent, TypeOK
<1>2. retry[s0].attempts + 1 \in 1..7
    BY <1>1 DEF Exhausted, TypeOK, Attempts
<1>3. PICK wait \in Waits(retry[s0].attempts + 1) :
          retry' = [retry EXCEPT ![s0].attempts = retry[s0].attempts + 1, ![s0].wait = wait]
    BY DEF Reschedule
<1>4. wait \in Nat /\ wait >= 1
    BY <1>2, WaitsAreLong
<1>5. /\ retry'[s0].attempts # 0 /\ retry'[s0].wait = wait
      /\ \A s \in queue : s # s0 => retry'[s] = retry[s]
    BY <1>1, <1>2, <1>3 DEF TypeOK
<1> HIDE DEF s0
<1>6. \A s \in queue : Fresh(s)' => Fresh(s) /\ s # s0
    BY <1>1, <1>5 DEF Fresh
<1>7. \A q \in Workers : worker'[q].pc # "polled"
    BY <1>1, WorkerStops DEF OneWorker
<1>8. \A s \in queue' : Fresh(s)' => retry'[s].wait <= 1
    BY <1>1, <1>5, <1>6 DEF OrderInv
<1>9. ASSUME NEW s \in queue', NEW t \in queue', Fresh(s)', s < t
      PROVE  retry'[s].wait <= retry'[t].wait
  <2>1. Fresh(s) /\ retry'[s].wait = retry[s].wait /\ retry[s].wait \in Nat
      BY <1>1, <1>5, <1>6, <1>9 DEF TypeOK
  <2>2. CASE t = s0
      BY <2>1, <2>2, <1>1, <1>4, <1>5 DEF OrderInv
  <2>3. CASE t # s0
      BY <2>1, <2>3, <1>1, <1>5, <1>9 DEF OrderInv
  <2>4. QED  BY <2>2, <2>3
<1>10. \A s \in queue' : Fresh(s)' => vector'[audit'[s].memory] <= s
    BY <1>1, <1>6 DEF OrderInv
<1>11. QED  BY <1>7, <1>8, <1>9, <1>10 DEF OrderInv, At

\* The clock brings every row nearer alike.
LEMMA OrderTick ==
    ASSUME TypeOK, OrderInv, Tick
    PROVE  OrderInv'
<1>1. UNCHANGED <<audit, queue, vector, worker>>
    BY DEF Tick, memory
<1>2. ASSUME NEW s \in queue
      PROVE  /\ retry'[s].attempts = retry[s].attempts /\ retry[s].wait \in Nat
             /\ retry'[s].wait = IF retry[s].wait > 0 THEN retry[s].wait - 1 ELSE 0
  <2>1. s \in Seqs /\ retry[s] \in [id : Nat, attempts : Attempts, wait : Nat]
      BY DEF TypeOK
  <2>2. retry'[s] = IF retry[s].wait > 0 THEN [retry[s] EXCEPT !.wait = retry[s].wait - 1]
                                         ELSE retry[s]
      BY <2>1 DEF Tick
  <2>3. QED  BY <2>1, <2>2
<1>3. \A s \in queue : Fresh(s)' <=> Fresh(s)
    BY <1>1, <1>2 DEF Fresh
<1>4. \A s \in queue' : Fresh(s)' => retry'[s].wait <= 1
    BY <1>1, <1>2, <1>3 DEF OrderInv
<1>5. ASSUME NEW s \in queue', NEW t \in queue', Fresh(s)', s < t
      PROVE  retry'[s].wait <= retry'[t].wait
  <2>1. retry[s].wait <= retry[t].wait
      BY <1>1, <1>3, <1>5 DEF OrderInv
  <2>2. QED  BY <1>1, <1>2, <2>1
<1>6. \A s \in queue' : Fresh(s)' => vector'[audit'[s].memory] <= s
    BY <1>1, <1>3 DEF OrderInv
<1>7. \A q \in Workers : worker'[q].pc = "polled" =>
          worker'[q].seq \in queue' /\ \A s \in queue' : Fresh(s)' => worker'[q].seq <= s
    BY <1>1, <1>3 DEF OrderInv, At
<1>8. QED  BY <1>4, <1>5, <1>6, <1>7 DEF OrderInv, At

LEMMA OrderStep ==
    ASSUME OneWorker, NoSweep, TypeOK, SeqsInv, ShownInv, OrderInv, [Next]_vars
    PROVE  OrderInv'
<1>1. ASSUME UNCHANGED <<audit, queue, retry, vector>>,
             \A p \in Workers : worker'[p].pc = "polled" => worker'[p] = worker[p]
      PROVE  OrderInv'
    BY <1>1, OrderKept DEF Persists
<1>2. ASSUME Persists, UNCHANGED <<queue, retry, vector, worker>>
      PROVE  OrderInv'
    BY <1>2, OrderKept
\* Whatever ends or moves the worker's step leaves no other worker behind it.
<1>3. ASSUME NEW p \in Workers, worker'[p].pc # "polled"
      PROVE  \A q \in Workers : worker'[q].pc # "polled"
    BY <1>3 DEF OneWorker
<1>4. ASSUME NEW p \in Workers, NEW s0 \in Seqs, DeleteRetry(s0), UNCHANGED <<audit, vector>>,
             worker'[p].pc # "polled"
      PROVE  OrderInv'
  <2>1. \A s \in queue' : s # s0 /\ s \in queue /\ s \in Seqs
      BY <1>4 DEF DeleteRetry, TypeOK
  <2>2. \A s \in queue' : retry'[s] = retry[s]
      BY <1>4, <2>1 DEF DeleteRetry, TypeOK
  <2>3. Persists
      BY <1>4 DEF Persists
  <2>4. \A q \in Workers : worker'[q].pc # "polled"
      BY <1>3, <1>4
  <2>5. QED  BY <1>4, <2>1, <2>2, <2>3, <2>4, OrderKept
<1>5. ASSUME NEW p \in Writers, NEW event \in MemoryEvents, NEW m \in Memories,
             CommitEnqueue(p, event, m)
      PROVE  OrderInv'
    BY <1>5, OrderEnqueue
<1>6. ASSUME NEW p \in Writers, NEW event \in MemoryEvents, NEW m \in Memories,
             CommitOverflow(p, event, m)
      PROVE  OrderInv'
  <2>1. PICK rest \in {<<>>, <<OverflowEntry>>} :
            audit' = audit \o (<<Entry(event, m, TRUE)>> \o rest)
      BY <1>6 DEF CommitOverflow, CommitRow
  <2>2. PICK seq : seq = Len(audit) + 1
      OBVIOUS
  <2>3. Persists
      BY <2>1, <2>2, CommitPersists
  <2>4. QED  BY <1>2, <1>6, <2>3 DEF CommitOverflow
<1>7. ASSUME NEW m \in Memories, DeleteMissing(m)
      PROVE  OrderInv'
  <2>1. LET e == Entry("memory.delete", m, FALSE) IN e \in AuditEntry /\ ~e.cascades
      BY DEF Entry, AuditEntry, AuditEvents, MemoryEvents
  <2>2. Persists
      BY <1>7, <2>1, QuietAppends DEF DeleteMissing, Persists
  <2>3. QED  BY <1>2, <1>7, <2>2 DEF DeleteMissing, memory
<1>8. ASSUME NEW p \in Workers, WorkerStep(p)
      PROVE  OrderInv'
  <2>1. CASE Poll(p)
      BY <2>1, OrderPoll
  <2>2. CASE Apply(p) \/ DeleteFailsLate(p)
      BY <2>2, OrderApply
  <2>3. CASE ApplyFails(p) \/ RowGone(p) \/ InsertDeadLetter(p)
    <3>1. worker'[p].pc # "polled"
        BY <2>3, WorkerMoves, WorkerStops
           DEF ApplyFails, RowGone, InsertDeadLetter, WorkerStates
    <3>2. UNCHANGED <<audit, queue, retry, vector>>
        BY <2>3 DEF ApplyFails, RowGone, InsertDeadLetter, disk
    <3>3. QED  BY <1>1, <1>3, <3>1, <3>2
  <2>4. CASE RecordSuccess(p)
    <3>1. worker'[p].pc # "polled" /\ UNCHANGED <<audit, vector>>
        BY <2>4, WorkerStops DEF RecordSuccess
    <3>2. CASE RowPresent(p)
      <4>1. DeleteRetry(worker[p].seq) /\ worker[p].seq \in Seqs
          BY <2>4, <3>2 DEF RecordSuccess, SeqsInv, At
      <4>2. QED  BY <1>4, <3>1, <4>1
    <3>3. CASE ~RowPresent(p)
        BY <1>1, <1>3, <2>4, <3>1, <3>3 DEF RecordSuccess
    <3>4. QED  BY <3>2, <3>3
  <2>5. CASE Reschedule(p)
      BY <2>5, OrderReschedule
  <2>6. CASE GiveUp(p)
    <3>1. worker'[p].pc # "polled"
        BY <2>6, WorkerMoves DEF GiveUp, WorkerStates
    <3>2. DeleteRetry(worker[p].seq) /\ worker[p].seq \in Seqs /\ UNCHANGED <<audit, vector>>
        BY <2>6 DEF GiveUp, RowPresent, TypeOK
    <3>3. QED  BY <1>4, <3>1, <3>2
  <2>7. CASE AuditDeadLetter(p)
    <3> DEFINE e == Entry("cascade.dead_letter", audit[worker[p].seq].memory, FALSE)
    <3>1. OpSeq(worker[p].seq)
        BY <2>7 DEF AuditDeadLetter, At, SeqsInv
    <3>2. e \in AuditEntry /\ ~e.cascades
        BY <3>1 DEF OpSeq, Entry, AuditEntry, AuditEvents
    <3>3. Persists
        BY <2>7, <3>2, QuietAppends DEF AuditDeadLetter, Persists
    <3>4. worker'[p].pc # "polled" /\ UNCHANGED <<queue, retry, vector>>
        BY <2>7, WorkerStops DEF AuditDeadLetter
    <3>5. QED  BY <1>3, <3>3, <3>4, OrderKept
  <2>8. QED
      BY <1>8, <2>1, <2>2, <2>3, <2>4, <2>5, <2>6, <2>7 DEF WorkerStep
<1>9. ASSUME NEW p \in Processes, Crash(p) \/ StepError(p)
      PROVE  OrderInv'
  <2>1. Finish(p) /\ UNCHANGED <<audit, queue, retry, vector>>
      BY <1>9 DEF Crash, StepError, Finish, disk
  <2>2. \A q \in Processes : worker'[q].pc = "polled" => worker'[q] = worker[q]
      BY <2>1, WorkerStops
  <2>3. QED  BY <1>1, <2>1, <2>2
<1>10. CASE UNCHANGED vars \/ \E p \in Writers : RollBack(p)
  <2>1. Persists /\ UNCHANGED <<queue, retry, vector, worker>>
      BY <1>10 DEF RollBack, vars, disk, memory, Persists
  <2>2. QED  BY <1>2, <2>1
<1>11. QED
    BY <1>5, <1>6, <1>7, <1>8, <1>9, <1>10, OrderTick DEF Next, PollNothing, NoSweep

LEMMA OrderInit == Init => OrderInv
BY DEF Init, OrderInv, At, IdleStep

\* The instance in which nothing is put off.
NoRetries == "transient" \notin Faults /\ "late" \notin Faults

\* Applying an operation takes the vector store forward, if nothing put it off.
LEMMA AppliesForward ==
    ASSUME TypeOK, SeqsInv, OrderInv, NEW p \in Workers, Apply(p) \/ DeleteFailsLate(p),
           NEW m \in Memories
    PROVE  \/ vector'[m] = vector[m] /\ m # audit[worker[p].seq].memory
           \/ /\ vector'[m] = worker[p].seq /\ audit[worker[p].seq].memory = m
              /\ worker[p].seq \in queue /\ OpSeq(worker[p].seq)
              /\ Fresh(worker[p].seq) => worker[p].seq >= vector[m]
<1>1. Effect(p) /\ At(p, "polled")
    BY DEF Apply, DeleteFailsLate
<1>2. ~At(p, "idle") /\ p \in Processes
    BY <1>1 DEF At
<1>3. /\ OpSeq(worker[p].seq)
      /\ \/ vector'[m] = vector[m] /\ m # audit[worker[p].seq].memory
         \/ vector'[m] = worker[p].seq /\ audit[worker[p].seq].memory = m
    BY <1>1, <1>2, EffectShows
<1>4. worker[p].seq \in queue
    BY <1>1 DEF OrderInv
<1>5. worker[p].seq \in Nat /\ vector[m] \in Nat
    BY <1>4 DEF TypeOK, Seqs
<1>6. audit[worker[p].seq].memory = m /\ Fresh(worker[p].seq) => vector[m] <= worker[p].seq
    BY <1>4 DEF OrderInv
<1>7. QED  BY <1>3, <1>4, <1>5, <1>6

\* Only those two actions change the vector store.
LEMMA OnlyEffects ==
    ASSUME Next
    PROVE  UNCHANGED vector \/ \E p \in Workers : Apply(p) \/ DeleteFailsLate(p)
<1>1. ASSUME NEW p \in Workers, WorkerStep(p), ~Apply(p), ~DeleteFailsLate(p)
      PROVE  UNCHANGED vector
    BY <1>1 DEF WorkerStep, Poll, ApplyFails, RecordSuccess, Reschedule, GiveUp, RowGone,
                InsertDeadLetter, AuditDeadLetter, disk
<1>2. CASE \/ \E p \in Writers, event \in MemoryEvents, m \in Memories :
                 CommitEnqueue(p, event, m) \/ CommitOverflow(p, event, m)
           \/ \E m \in Memories : DeleteMissing(m)
           \/ \E p \in Writers : RollBack(p)
           \/ \E p \in Workers : StepError(p) \/ PollNothing(p)
    BY <1>2 DEF CommitEnqueue, CommitOverflow, DeleteMissing, RollBack, StepError,
                PollNothing, vars, disk
<1>3. CASE \/ \E p \in Sweepers : SweepStep(p)
           \/ \E p \in Processes : Crash(p)
           \/ Tick
    BY <1>3 DEF SweepStep, SweepRead, SweepMove, SweepStop, Crash, Tick, disk
<1>4. QED  BY <1>1, <1>2, <1>3 DEF Next

LEMMA FifoKept ==
    ASSUME TypeOK, SeqsInv, ShownInv, FifoInv, Persists,
           \A s \in queue' : \/ s \in queue /\ retry'[s].attempts = retry[s].attempts
                             \/ retry'[s].attempts = 0,
           \A p \in Workers : worker'[p].pc = "failed" => worker'[p] = worker[p],
           UNCHANGED <<vector, executed>>,
           \A m \in Memories : row'[m] = row[m] \/ row'[m] \notin DOMAIN audit
    PROVE  FifoInv'
<1>1. \A s \in queue' : Fresh(s)'
    BY DEF FifoInv, Fresh
<1>2. \A p \in Workers : worker'[p].pc # "failed"
    BY DEF FifoInv, At
<1>3. \A s \in executed' : OpSeq(s)'
    BY OpsPersist DEF FifoInv
<1>4. \A m \in Memories : row'[m] \in executed' => vector'[m] = row'[m]
    BY DEF FifoInv, OpSeq
<1>5. QED  BY <1>1, <1>2, <1>3, <1>4 DEF FifoInv, At

\* The operation applied is the row's own, or an earlier one that leaves the row's
\* still to be applied.
LEMMA FifoApply ==
    ASSUME TypeOK, SeqsInv, ShownInv, OrderInv, FifoInv, OneWorker, NEW p \in Workers, Apply(p)
    PROVE  FifoInv'
<1> DEFINE s0 == worker[p].seq
<1>1. /\ executed' = executed \cup {s0}
      /\ UNCHANGED <<audit, row, queue, retry>>
      /\ worker'[p].pc # "failed"
    BY WorkerMoves DEF Apply, Effect, WorkerStates
<1>2. OpSeq(s0)
    BY DEF Apply, At, SeqsInv
<1>3. \A q \in Workers : worker'[q].pc # "failed"
    BY <1>1 DEF OneWorker
<1>4. ASSUME NEW m \in Memories, row[m] \in executed'
      PROVE  vector'[m] = row[m]
  <2>1. \/ vector'[m] = vector[m] /\ m # audit[s0].memory
        \/ /\ vector'[m] = s0 /\ audit[s0].memory = m /\ s0 \in queue
           /\ Fresh(s0) => s0 >= vector[m]
      BY AppliesForward
  <2>2. row[m] \in Seqs
      BY <1>1, <1>2, <1>4 DEF TypeOK, Apply, At, SeqsInv
  <2>3. CASE m # audit[s0].memory
    <3>1. row[m] # s0
        BY <2>2, <2>3 DEF ShownInv
    <3>2. QED  BY <1>1, <1>4, <2>1, <2>3, <3>1 DEF FifoInv
  <2>4. CASE m = audit[s0].memory
    <3>1. s0 \in Nat /\ row[m] \in Nat /\ vector[m] \in Nat
      <4>1. s0 \in Seqs /\ row[m] \in Seqs /\ vector[m] \in Seqs \cup {0}
          BY <2>1, <2>2, <2>4 DEF TypeOK
      <4>2. QED  BY <4>1 DEF Seqs
    <3>2. s0 <= row[m]
        BY <1>2, <2>4 DEF ShownInv, OpSeq
    <3>3. row[m] # s0 => vector[m] = row[m]
        BY <1>1, <1>4 DEF FifoInv
    <3>4. s0 >= vector[m]
        BY <2>1, <2>4 DEF FifoInv
    <3>5. QED  BY <2>1, <2>4, <3>1, <3>2, <3>3, <3>4
  <2>5. QED  BY <2>3, <2>4
<1>5. \A s \in queue' : Fresh(s)'
    BY <1>1 DEF FifoInv, Fresh
<1>6. \A s \in executed' : OpSeq(s)'
    BY <1>1, <1>2 DEF FifoInv, OpSeq
<1>7. QED  BY <1>1, <1>3, <1>4, <1>5, <1>6 DEF FifoInv, At

LEMMA FifoStep ==
    ASSUME OneWorker, NoSweep, NoRetries,
           TypeOK, SeqsInv, ShownInv, OrderInv, FifoInv, [Next]_vars
    PROVE  FifoInv'
<1>1. ASSUME Persists, UNCHANGED <<row, queue, retry, vector, executed>>,
             \A p \in Workers : worker'[p].pc = "failed" => worker'[p] = worker[p]
      PROVE  FifoInv'
    BY <1>1, FifoKept
<1>2. ASSUME UNCHANGED audit
      PROVE  Persists
    BY <1>2 DEF Persists
<1>3. ASSUME NEW p \in Workers, worker'[p].pc # "failed"
      PROVE  \A q \in Workers : worker'[q].pc # "failed"
    BY <1>3 DEF OneWorker
<1>4. ASSUME NEW p \in Workers, NEW s0 \in Seqs, DeleteRetry(s0),
             UNCHANGED <<audit, row, vector, executed>>, worker'[p].pc # "failed"
      PROVE  FifoInv'
  <2>1. \A s \in queue' : s \in queue /\ retry'[s].attempts = retry[s].attempts
      BY <1>4 DEF DeleteRetry, TypeOK
  <2>2. QED  BY <1>2, <1>3, <1>4, <2>1, FifoKept
<1>5. ASSUME NEW p \in Writers, NEW event \in MemoryEvents, NEW m \in Memories,
             CommitEnqueue(p, event, m) \/ CommitOverflow(p, event, m)
      PROVE  FifoInv'
  <2>0. PICK seq : seq = Len(audit) + 1
      OBVIOUS
  <2>1. PICK rest \in {<<>>, <<OverflowEntry>>} :
            audit' = audit \o (<<Entry(event, m, TRUE)>> \o rest)
    <3>1. CASE CommitEnqueue(p, event, m)
      <4>1. audit' = audit \o (<<Entry(event, m, TRUE)>> \o <<>>)
          BY <3>1, ConcatEmptySeq DEF CommitEnqueue, CommitRow
      <4>2. QED  BY <4>1
    <3>2. CASE CommitOverflow(p, event, m)
        BY <3>2 DEF CommitOverflow, CommitRow
    <3>3. QED  BY <1>5, <3>1, <3>2
  <2>2. Persists /\ \A s \in DOMAIN audit : s < seq
      BY <2>0, <2>1, CommitPersists
  <2>3. /\ seq \in Seqs /\ row' = [row EXCEPT ![m] = seq]
        /\ UNCHANGED <<vector, executed, worker>>
        /\ \/ UNCHANGED <<queue, retry>>
           \/ InsertRetry(seq)
      BY <1>5, <2>0 DEF CommitEnqueue, CommitOverflow, CommitRow, history
  <2>4. seq \notin DOMAIN audit
      BY <2>2, <2>3 DEF Seqs
  <2>5. \A n \in Memories : row'[n] = row[n] \/ row'[n] \notin DOMAIN audit
      BY <2>3, <2>4 DEF TypeOK
  <2>6. \A s \in queue' : \/ s \in queue /\ retry'[s].attempts = retry[s].attempts
                          \/ retry'[s].attempts = 0
    <3>1. CASE InsertRetry(seq)
      <4>1. queue' = queue \cup {seq} /\ retry'[seq].attempts = 0
            /\ \A s \in queue : s # seq => retry'[s] = retry[s]
          BY <2>3, <3>1 DEF InsertRetry, TypeOK
      <4>2. QED  BY <4>1
    <3>2. QED  BY <2>3, <3>1
  <2>7. QED  BY <2>2, <2>3, <2>5, <2>6, FifoKept
<1>6. ASSUME NEW m \in Memories, DeleteMissing(m)
      PROVE  FifoInv'
  <2>1. LET e == Entry("memory.delete", m, FALSE) IN e \in AuditEntry /\ ~e.cascades
      BY DEF Entry, AuditEntry, AuditEvents, MemoryEvents
  <2>2. Persists
      BY <1>6, <2>1, QuietAppends DEF DeleteMissing, Persists
  <2>3. QED  BY <1>1, <1>6, <2>2 DEF DeleteMissing, memory, history
<1>7. ASSUME NEW p \in Workers, WorkerStep(p)
      PROVE  FifoInv'
  <2>1. CASE Poll(p)
    <3>1. worker'[p].pc # "failed"
        BY <2>1 DEF Poll, TypeOK
    <3>2. UNCHANGED <<audit, row, queue, retry, vector, executed>>
        BY <2>1 DEF Poll, disk, history
    <3>3. QED  BY <1>1, <1>2, <1>3, <3>1, <3>2
  <2>2. CASE Apply(p)
      BY <2>2, FifoApply
  <2>3. CASE ApplyFails(p) \/ RowGone(p) \/ InsertDeadLetter(p)
    <3>1. worker'[p].pc # "failed"
        BY <2>3, WorkerMoves, WorkerStops
           DEF ApplyFails, RowGone, InsertDeadLetter, WorkerStates, NoRetries
    <3>2. UNCHANGED <<audit, row, queue, retry, vector, executed>>
        BY <2>3 DEF ApplyFails, RowGone, InsertDeadLetter, disk, history
    <3>3. QED  BY <1>1, <1>2, <1>3, <3>1, <3>2
  <2>4. CASE RecordSuccess(p)
    <3>1. worker'[p].pc # "failed" /\ UNCHANGED <<audit, row, vector, executed>>
        BY <2>4, WorkerStops DEF RecordSuccess, history
    <3>2. CASE RowPresent(p)
      <4>1. DeleteRetry(worker[p].seq) /\ worker[p].seq \in Seqs
          BY <2>4, <3>2 DEF RecordSuccess, SeqsInv, At
      <4>2. QED  BY <1>4, <3>1, <4>1
    <3>3. CASE ~RowPresent(p)
        BY <1>1, <1>2, <1>3, <2>4, <3>1, <3>3 DEF RecordSuccess
    <3>4. QED  BY <3>2, <3>3
  <2>5. CASE Reschedule(p) \/ DeleteFailsLate(p)
      BY <2>5 DEF Reschedule, DeleteFailsLate, FifoInv, NoRetries
  <2>6. CASE GiveUp(p)
    <3>1. worker'[p].pc # "failed"
        BY <2>6, WorkerMoves DEF GiveUp, WorkerStates
    <3>2. /\ DeleteRetry(worker[p].seq) /\ worker[p].seq \in Seqs
          /\ UNCHANGED <<audit, row, vector, executed>>
        BY <2>6 DEF GiveUp, RowPresent, TypeOK, history
    <3>3. QED  BY <1>4, <3>1, <3>2
  <2>7. CASE AuditDeadLetter(p)
    <3> DEFINE e == Entry("cascade.dead_letter", audit[worker[p].seq].memory, FALSE)
    <3>1. OpSeq(worker[p].seq)
        BY <2>7 DEF AuditDeadLetter, At, SeqsInv
    <3>2. e \in AuditEntry /\ ~e.cascades
        BY <3>1 DEF OpSeq, Entry, AuditEntry, AuditEvents
    <3>3. Persists
        BY <2>7, <3>2, QuietAppends DEF AuditDeadLetter, Persists
    <3>4. worker'[p].pc # "failed" /\ UNCHANGED <<row, queue, retry, vector, executed>>
        BY <2>7, WorkerStops DEF AuditDeadLetter, history
    <3>5. QED  BY <1>1, <1>3, <3>3, <3>4
  <2>8. QED
      BY <1>7, <2>1, <2>2, <2>3, <2>4, <2>5, <2>6, <2>7 DEF WorkerStep
<1>8. ASSUME NEW p \in Processes, Crash(p) \/ StepError(p)
      PROVE  FifoInv'
  <2>1. Finish(p) /\ UNCHANGED <<audit, row, queue, retry, vector, executed>>
      BY <1>8 DEF Crash, StepError, Finish, disk
  <2>2. \A q \in Processes : worker'[q].pc = "failed" => worker'[q] = worker[q]
      BY <2>1, WorkerStops
  <2>3. QED  BY <1>1, <1>2, <2>1, <2>2
<1>9. CASE Tick
  <2>1. \A s \in Seqs : retry'[s].attempts = retry[s].attempts
      BY <1>9 DEF Tick, TypeOK
  <2>2. UNCHANGED <<audit, row, queue, vector, executed, worker>>
      BY <1>9 DEF Tick, memory, history
  <2>3. \A s \in queue' : s \in queue /\ retry'[s].attempts = retry[s].attempts
      BY <2>1, <2>2 DEF TypeOK
  <2>4. QED  BY <1>2, <2>2, <2>3, FifoKept
<1>10. CASE UNCHANGED vars \/ \E p \in Writers : RollBack(p)
  <2>1. UNCHANGED <<audit, row, queue, retry, vector, executed, worker>>
      BY <1>10 DEF RollBack, vars, disk, memory, history
  <2>2. QED  BY <1>1, <1>2, <2>1
<1>11. QED
    BY <1>5, <1>6, <1>7, <1>8, <1>9, <1>10 DEF Next, PollNothing, NoSweep

LEMMA FifoInit == Init => FifoInv
BY DEF Init, FifoInv, At, IdleStep

-----------------------------------------------------------------------------

THEOREM Invariance == Spec => []IInv
<1>1. Init => IInv
    BY TypeInit, SeqsInit, OpsInit, FS_EmptySet DEF IInv, Init, QueueWithinCap
<1>2. IInv /\ [Next]_vars => IInv'
    BY TypeStep, SeqsStep, CapStep, OpsStep DEF IInv
<1>3. QED  BY <1>1, <1>2, PTL DEF Spec

\* Every variable keeps its type, whatever fails and however the processes
\* interleave: in particular attempts_made stays within the backoff table
\* (compute_next_attempt would return None, and record_failure panic, beyond it).
THEOREM TypeCorrect == Spec => []TypeOK
<1>1. IInv => TypeOK
    BY DEF IInv
<1>2. QED  BY <1>1, Invariance, PTL

\* The outbox never exceeds MAX_RETRY_QUEUE_DEPTH: cascading_write,
\* delete_memory and drain_pending_sync count in the transaction that inserts.
THEOREM CapHolds == Spec => []QueueWithinCap
<1>1. IInv => QueueWithinCap
    BY DEF IInv
<1>2. QED  BY <1>1, Invariance, PTL

\* A committed operation is applied, waiting, dead-lettered or superseded, or was
\* lost in one of the two windows that lost records: there is no third.
THEOREM NoOperationVanishes == Spec => []EveryOpAccountedFor
<1>1. IInv => EveryOpAccountedFor
    BY DEF IInv
<1>2. QED  BY <1>1, Invariance, PTL

\* However many workers poll a retry_queue row, it gives one dead letter at most:
\* record_failure deletes it in the transaction that hands it over.
THEOREM RowsDieOnce == Spec => []DeadLetterConservation
<1>1. Init => Books
    BY BooksInit
<1>2. IInv /\ Books /\ [Next]_vars => Books'
    BY BooksStep DEF IInv
<1>3. Books => DeadLetterConservation
    BY DEF Books, DeadLetterConservation, Handed, Queued
<1>4. QED  BY <1>1, <1>2, <1>3, Invariance, PTL DEF Spec

-----------------------------------------------------------------------------
(* Order, and what a quiet vault shows.                                    *)

LEMMA Shows == Spec => []ShownInv
<1>1. IInv /\ ShownInv /\ [Next]_vars => ShownInv'
    BY ShownStep DEF IInv
<1>2. QED  BY <1>1, ShownInit, Invariance, PTL DEF Spec

LEMMA Ordered ==
    ASSUME OneWorker, NoSweep
    PROVE  Spec => []OrderInv
<1>1. IInv /\ ShownInv /\ OrderInv /\ [Next]_vars => OrderInv'
    BY OrderStep DEF IInv
<1>2. QED  BY <1>1, OrderInit, Shows, Invariance, PTL DEF Spec

LEMMA InStep ==
    ASSUME OneWorker, NoSweep, NoRetries
    PROVE  Spec => []FifoInv
<1>1. IInv /\ ShownInv /\ OrderInv /\ FifoInv /\ [Next]_vars => FifoInv'
    BY FifoStep DEF IInv
<1>2. QED  BY <1>1, FifoInit, Shows, Ordered, Invariance, PTL DEF Spec

\* With one worker and no sweep, whatever fails, only a row whose attempt failed
\* is overtaken: poll_due orders the rows that are due, and backoff alone makes a
\* row due after one behind it.
THEOREM RetriesAloneOvertake ==
    ASSUME OneWorker, NoSweep
    PROVE  Spec => OnlyRetriesOvertake
<1> DEFINE Step == \A m \in Memories :
                      vector'[m] < vector[m] => retry[vector'[m]].attempts > 0
<1>1. ASSUME IInv, OrderInv, [Next]_vars
      PROVE  Step
  <2>1. SUFFICES ASSUME NEW m \in Memories, vector'[m] < vector[m]
                 PROVE  retry[vector'[m]].attempts > 0
      OBVIOUS
  <2>2. vector[m] \in Nat
      BY <1>1 DEF IInv, TypeOK, Seqs
  <2>3. vector' # vector
      BY <2>1, <2>2
  <2>4. PICK p \in Workers : Apply(p) \/ DeleteFailsLate(p)
      BY <1>1, <2>3, OnlyEffects DEF vars, disk
  <2>5. \/ vector'[m] = vector[m]
        \/ /\ vector'[m] = worker[p].seq /\ worker[p].seq \in queue
           /\ Fresh(worker[p].seq) => worker[p].seq >= vector[m]
      BY <1>1, <2>4, AppliesForward DEF IInv
  <2>6. vector'[m] \in queue /\ (Fresh(vector'[m]) => vector'[m] >= vector[m])
      BY <2>1, <2>2, <2>5
  <2>7. vector'[m] \in Nat /\ retry[vector'[m]].attempts \in Nat
    <3>1. vector'[m] \in Seqs
        BY <1>1, <2>6 DEF IInv, TypeOK
    <3>2. retry[vector'[m]].attempts \in Attempts
        BY <1>1, <3>1 DEF IInv, TypeOK
    <3>3. QED  BY <3>1, <3>2 DEF Seqs, Attempts
  <2>8. ~Fresh(vector'[m])
      BY <2>1, <2>2, <2>6, <2>7
  <2>9. QED  BY <2>6, <2>7, <2>8 DEF Fresh
<1>2. IInv /\ OrderInv /\ [Next]_vars => [Step]_vars
    BY <1>1
<1>3. Spec => [][Step]_vars
    BY <1>2, Invariance, Ordered, PTL DEF Spec
<1>4. QED  BY <1>3 DEF OnlyRetriesOvertake

\* So where nothing is put off, each memory's operations reach the vector store
\* in commit order, through crashes, failed steps and dead letters.
THEOREM FifoHolds ==
    ASSUME OneWorker, NoSweep, NoRetries
    PROVE  Spec => FifoPerMemory
<1> DEFINE Step == \A m \in Memories : vector'[m] >= vector[m]
<1>1. ASSUME IInv, OrderInv, FifoInv, [Next]_vars
      PROVE  Step
  <2>1. SUFFICES ASSUME NEW m \in Memories
                 PROVE  vector'[m] >= vector[m]
      OBVIOUS
  <2>2. vector[m] \in Nat
      BY <1>1 DEF IInv, TypeOK, Seqs
  <2>3. CASE UNCHANGED vector
      BY <2>2, <2>3
  <2>4. CASE vector' # vector
    <3>1. PICK p \in Workers : Apply(p) \/ DeleteFailsLate(p)
        BY <1>1, <2>4, OnlyEffects DEF vars, disk
    <3>2. \/ vector'[m] = vector[m]
          \/ /\ vector'[m] = worker[p].seq /\ worker[p].seq \in queue
             /\ Fresh(worker[p].seq) => worker[p].seq >= vector[m]
        BY <1>1, <3>1, AppliesForward DEF IInv
    <3>3. QED  BY <1>1, <2>2, <3>2 DEF FifoInv
  <2>5. QED  BY <2>3, <2>4
<1>2. IInv /\ OrderInv /\ FifoInv /\ [Next]_vars => [Step]_vars
  <2>1. UNCHANGED vars \/ ~UNCHANGED vars
      OBVIOUS
  <2>2. QED  BY <1>1
<1>3. Spec => [][Step]_vars
    BY <1>2, Invariance, Ordered, InStep, PTL DEF Spec
<1>4. QED  BY <1>3 DEF FifoPerMemory

\* Once nothing waits and nobody works, the vector store shows what the rows show,
\* but for operations that were dead-lettered or lost.
THEOREM QuietVaultConverged ==
    ASSUME OneWorker, NoSweep, NoRetries
    PROVE  Spec => []QuietConverged
<1>1. ASSUME IInv, ShownInv, FifoInv
      PROVE  QuietConverged
  <2>1. SUFFICES ASSUME Quiet, NEW m \in Memories, row[m] \notin DeadLettered \cup lost
                 PROVE  vector[m] = row[m]
      BY DEF QuietConverged
  <2>2. CASE row[m] = 0
    <3>1. ASSUME vector[m] # 0
          PROVE  FALSE
      <4>1. vector[m] \in Seqs
          BY <1>1, <3>1 DEF IInv, TypeOK
      <4>2. OpSeq(vector[m]) /\ audit[vector[m]].memory = m
          BY <1>1, <4>1 DEF ShownInv
      <4>3. vector[m] <= 0
          BY <1>1, <2>2, <4>2 DEF ShownInv, OpSeq
      <4>4. QED  BY <4>1, <4>3 DEF Seqs
    <3>2. QED  BY <2>2, <3>1
  <2>3. CASE row[m] # 0
    <3>1. row[m] \in Seqs
        BY <1>1, <2>3 DEF IInv, TypeOK
    <3>2. OpSeq(row[m]) /\ audit[row[m]].memory = m
        BY <1>1, <3>1 DEF ShownInv
    <3>3. ~Superseded(row[m])
      <4>1. SUFFICES ASSUME NEW t \in spilled, t > row[m], audit[t].memory = m
                     PROVE  FALSE
          BY <3>2 DEF Superseded
      <4>2. t \in Seqs /\ OpSeq(t)
          BY <1>1 DEF IInv, TypeOK, SeqsInv
      <4>3. t <= row[m]
          BY <1>1, <4>1, <4>2 DEF ShownInv, OpSeq
      <4>4. QED  BY <3>1, <4>1, <4>2, <4>3 DEF Seqs
    <3>4. row[m] \in Accounted
        BY <1>1, <3>2, <3>3 DEF IInv, EveryOpAccountedFor, OpSeq, Superseded
    <3>5. row[m] \notin queue /\ row[m] \notin PendingSeqs /\ row[m] \notin InFlight
        BY <2>1 DEF Quiet, InFlight, At
    <3>6. row[m] \in executed
        BY <2>1, <3>4, <3>5 DEF Accounted, Durable
    <3>7. QED  BY <1>1, <3>6 DEF FifoInv
  <2>4. QED  BY <2>2, <2>3
<1>2. QED  BY <1>1, Invariance, Shows, InStep, PTL

-----------------------------------------------------------------------------
(* The outbox implements ConvergingStores.                                 *)

\* What ConvergingStores sees of an event, and of an audit log.
Tells(e) == IF e.cascades THEN e.memory ELSE NoMemory
Told(a) == [s \in DOMAIN a |-> Tells(a[s])]
Ids == Memories \cup {NoMemory}

LEMMA ToldIs ==
    ASSUME NEW a \in Seq(AuditEntry)
    PROVE  /\ Told(a) \in Seq(Ids) /\ Len(Told(a)) = Len(a) /\ DOMAIN a = 1..Len(a)
           /\ Len(a) \in Nat
           /\ \A s \in 1..Len(a) : Told(a)[s] = Tells(a[s])
<1>1. Len(a) \in Nat /\ DOMAIN a = 1..Len(a) /\ \A s \in 1..Len(a) : a[s] \in AuditEntry
    BY LenProperties, ElementOfSeq
<1>2. \A x \in AuditEntry : Tells(x) \in Ids
    BY DEF Tells, AuditEntry, Ids
<1>3. Told(a) = [s \in 1..Len(a) |-> Tells(a[s])]
    BY <1>1 DEF Told
<1>4. Told(a) \in [1..Len(a) -> Ids]
    BY <1>1, <1>2, <1>3
<1>5. Told(a) \in Seq(Ids)
    BY <1>1, <1>4, SeqDef
<1>6. DOMAIN Told(a) = 1..Len(Told(a)) /\ Len(Told(a)) \in Nat
    BY <1>5, LenProperties
<1>7. DOMAIN Told(a) = 1..Len(a)
    BY <1>3
<1>8. Len(Told(a)) = Len(a)
  <2>1. \A m, n \in Nat : 1..m = 1..n => m = n
    <3>1. SUFFICES ASSUME NEW m \in Nat, NEW n \in Nat, 1..m = 1..n
                   PROVE  m = n
        OBVIOUS
    <3>2. m > 0 => m \in 1..n
        BY <3>1
    <3>3. n > 0 => n \in 1..m
        BY <3>1
    <3>4. QED  BY <3>2, <3>3
  <2>2. QED  BY <1>1, <1>6, <1>7, <2>1
<1>9. QED  BY <1>1, <1>3, <1>5, <1>8

LEMMA ToldConcat ==
    ASSUME NEW a \in Seq(AuditEntry), NEW b \in Seq(AuditEntry)
    PROVE  Told(a \o b) = Told(a) \o Told(b)
<1>1. /\ a \o b \in Seq(AuditEntry)
      /\ Len(a \o b) = Len(a) + Len(b)
      /\ \A i \in 1..(Len(a) + Len(b)) :
            (a \o b)[i] = IF i <= Len(a) THEN a[i] ELSE b[i - Len(a)]
    BY ConcatProperties
<1>2. /\ Told(a) \in Seq(Ids) /\ Len(Told(a)) = Len(a) /\ Len(a) \in Nat
      /\ \A s \in 1..Len(a) : Told(a)[s] = Tells(a[s])
    BY ToldIs
<1>3. /\ Told(b) \in Seq(Ids) /\ Len(Told(b)) = Len(b) /\ Len(b) \in Nat
      /\ \A s \in 1..Len(b) : Told(b)[s] = Tells(b[s])
    BY ToldIs
<1>4. /\ Told(a \o b) \in Seq(Ids) /\ Len(Told(a \o b)) = Len(a) + Len(b)
      /\ \A s \in 1..(Len(a) + Len(b)) : Told(a \o b)[s] = Tells((a \o b)[s])
    BY <1>1, ToldIs
<1>5. /\ Told(a) \o Told(b) \in Seq(Ids)
      /\ Len(Told(a) \o Told(b)) = Len(a) + Len(b)
      /\ \A i \in 1..(Len(a) + Len(b)) :
            (Told(a) \o Told(b))[i] =
                IF i <= Len(a) THEN Told(a)[i] ELSE Told(b)[i - Len(a)]
  <2>1. /\ Told(a) \o Told(b) \in Seq(Ids)
        /\ Len(Told(a) \o Told(b)) = Len(Told(a)) + Len(Told(b))
        /\ \A i \in 1..(Len(Told(a)) + Len(Told(b))) :
              (Told(a) \o Told(b))[i] =
                  IF i <= Len(Told(a)) THEN Told(a)[i] ELSE Told(b)[i - Len(Told(a))]
    <3>1. Told(a) \in Seq(Ids) /\ Told(b) \in Seq(Ids)
        BY <1>2, <1>3
    <3> HIDE DEF Told, Ids
    <3>2. QED  BY <3>1, ConcatProperties
  <2>2. QED  BY <2>1, <1>2, <1>3
<1>6. ASSUME NEW i \in 1..(Len(a) + Len(b))
      PROVE  Told(a \o b)[i] = (Told(a) \o Told(b))[i]
  <2>1. CASE i <= Len(a)
    <3>1. i \in 1..Len(a)
        BY <1>2, <1>3, <2>1
    <3>2. QED  BY <2>1, <3>1, <1>1, <1>2, <1>4, <1>5
  <2>2. CASE ~(i <= Len(a))
    <3>1. i - Len(a) \in 1..Len(b)
        BY <1>2, <1>3, <2>2
    <3>2. QED  BY <2>2, <3>1, <1>1, <1>3, <1>4, <1>5
  <2>3. QED  BY <2>1, <2>2
<1>7. QED  BY <1>4, <1>5, <1>6, SeqEqual

LEMMA ToldOne ==
    ASSUME NEW e \in AuditEntry
    PROVE  Told(<<e>>) = <<Tells(e)>>
<1>1. <<e>> \in Seq(AuditEntry) /\ Len(<<e>>) = 1 /\ <<e>>[1] = e
    BY Singleton
<1>2. Told(<<e>>) \in Seq(Ids) /\ Len(Told(<<e>>)) = 1 /\ Told(<<e>>)[1] = Tells(e)
  <2>1. /\ Told(<<e>>) \in Seq(Ids) /\ Len(Told(<<e>>)) = Len(<<e>>)
        /\ \A s \in 1..Len(<<e>>) : Told(<<e>>)[s] = Tells(<<e>>[s])
      BY <1>1, ToldIs
  <2>2. 1 \in 1..Len(<<e>>)
      BY <1>1
  <2>3. Told(<<e>>)[1] = Tells(<<e>>[1])
      BY <2>1, <2>2
  <2>4. QED  BY <1>1, <2>1, <2>3
<1>3. Tells(e) \in Ids
    BY DEF Tells, AuditEntry, Ids
<1>4. <<Tells(e)>> \in Seq(Ids) /\ Len(<<Tells(e)>>) = 1 /\ <<Tells(e)>>[1] = Tells(e)
    BY <1>3, Singleton
<1>5. QED  BY <1>2, <1>4, SeqEqual

LEMMA PairIsConcat ==
    ASSUME NEW x, NEW y
    PROVE  <<x>> \o <<y>> = <<x, y>>
<1> DEFINE S == {x, y}
<1>1. <<x>> \in Seq(S) /\ Len(<<x>>) = 1 /\ <<x>>[1] = x
    BY Singleton
<1>2. <<y>> \in Seq(S) /\ Len(<<y>>) = 1 /\ <<y>>[1] = y
    BY Singleton
<1>3. <<x, y>> \in Seq(S) /\ Len(<<x, y>>) = 2 /\ <<x, y>>[1] = x /\ <<x, y>>[2] = y
    OBVIOUS
<1> HIDE DEF S
<1>4. /\ <<x>> \o <<y>> \in Seq(S)
      /\ Len(<<x>> \o <<y>>) = 2
      /\ \A i \in 1..2 : (<<x>> \o <<y>>)[i] = IF i <= 1 THEN <<x>>[i] ELSE <<y>>[i - 1]
  <2>1. /\ <<x>> \o <<y>> \in Seq(S)
        /\ Len(<<x>> \o <<y>>) = Len(<<x>>) + Len(<<y>>)
        /\ \A i \in 1..(Len(<<x>>) + Len(<<y>>)) : (<<x>> \o <<y>>)[i] =
              IF i <= Len(<<x>>) THEN <<x>>[i] ELSE <<y>>[i - Len(<<x>>)]
      BY <1>1, <1>2, ConcatProperties
  <2>2. QED  BY <2>1, <1>1, <1>2
<1>5. \A i \in 1..2 : (<<x>> \o <<y>>)[i] = <<x, y>>[i]
  <2>1. \A i \in 1..2 : i = 1 \/ i = 2
      OBVIOUS
  <2>2. (<<x>> \o <<y>>)[1] = x /\ (<<x>> \o <<y>>)[2] = y
      BY <1>1, <1>2, <1>4
  <2>3. QED  BY <2>1, <2>2, <1>3
<1>6. QED  BY <1>3, <1>4, <1>5, SeqEqual

\* An event more, or two of which the second owes nothing, is a Commit.
LEMMA TellsCommit ==
    ASSUME TypeOK, NEW e \in AuditEntry, UNCHANGED vector,
           \/ audit' = Append(audit, e)
           \/ audit' = audit \o (<<e>> \o <<OverflowEntry>>)
    PROVE  Stores!Commit
<1>0. audit \in Seq(AuditEntry) /\ OverflowEntry \in AuditEntry /\ Tells(e) \in Ids
    BY DEF TypeOK, OverflowEntry, Entry, AuditEntry, AuditEvents, Tells, Ids
<1>1. <<e>> \in Seq(AuditEntry) /\ <<OverflowEntry>> \in Seq(AuditEntry)
    BY <1>0, Singleton
<1>2. /\ Told(audit) \in Seq(Ids) /\ Told(<<e>>) = <<Tells(e)>>
      /\ Told(<<OverflowEntry>>) = <<NoMemory>>
    BY <1>0, ToldIs, ToldOne DEF Tells, OverflowEntry, Entry
<1>3. Told(audit)' \in {Append(Told(audit), Tells(e)), Told(audit) \o <<Tells(e), NoMemory>>}
  <2>1. CASE audit' = Append(audit, e)
    <3>1. audit' = audit \o <<e>>
        BY <2>1, <1>0, AppendIsConcat
    <3>2. Told(audit') = Told(audit) \o <<Tells(e)>>
        BY <3>1, <1>0, <1>1, <1>2, ToldConcat
    <3>3. Append(Told(audit), Tells(e)) = Told(audit) \o <<Tells(e)>>
        BY <1>0, <1>2, AppendIsConcat
    <3>4. QED  BY <3>2, <3>3 DEF Told
  <2>2. CASE audit' = audit \o (<<e>> \o <<OverflowEntry>>)
    <3>1. <<e>> \o <<OverflowEntry>> \in Seq(AuditEntry)
        BY <1>1, ConcatProperties
    <3>2. Told(audit') = Told(audit) \o (<<Tells(e)>> \o <<NoMemory>>)
        BY <2>2, <3>1, <1>0, <1>1, <1>2, ToldConcat
    <3>3. <<Tells(e)>> \o <<NoMemory>> = <<Tells(e), NoMemory>>
        BY PairIsConcat
    <3>4. QED  BY <3>2, <3>3 DEF Told
  <2>3. QED  BY <2>1, <2>2
<1>4. QED  BY <1>0, <1>3 DEF Stores!Commit, Told, Tells, Ids

\* Bringing a memory to an operation of its own, not older than what it shows, is
\* a Follow.
LEMMA TellsFollow ==
    ASSUME NEW m \in Memories, NEW s, OpSeq(s), audit[s].memory = m, s >= vector[m],
           vector' = [vector EXCEPT ![m] = s], UNCHANGED audit
    PROVE  Stores!Follow(m)
BY DEF Stores!Follow, Stores!ChangesOf, OpSeq

LEMMA StoresStep ==
    ASSUME TypeOK, SeqsInv, OrderInv, FifoInv, [Next]_vars
    PROVE  [Stores!Next]_Stores!vars
<1>1. ASSUME UNCHANGED <<audit, vector>>
      PROVE  UNCHANGED Stores!vars
    BY <1>1 DEF Stores!vars
<1>2. ASSUME NEW e \in AuditEntry, UNCHANGED vector,
             \/ audit' = Append(audit, e)
             \/ audit' = audit \o (<<e>> \o <<OverflowEntry>>)
      PROVE  Stores!Next
    BY <1>2, TellsCommit DEF Stores!Next
<1>3. ASSUME NEW p \in Writers, NEW event \in MemoryEvents, NEW m \in Memories,
             CommitEnqueue(p, event, m) \/ CommitOverflow(p, event, m)
      PROVE  Stores!Next
  <2>1. Entry(event, m, TRUE) \in AuditEntry /\ audit \in Seq(AuditEntry)
      BY DEF Entry, AuditEntry, AuditEvents, TypeOK
  <2>2. CASE CommitEnqueue(p, event, m)
    <3>1. audit' = audit \o <<Entry(event, m, TRUE)>> /\ UNCHANGED vector
        BY <2>2 DEF CommitEnqueue, CommitRow
    <3>2. audit' = Append(audit, Entry(event, m, TRUE))
        BY <2>1, <3>1, AppendIsConcat
    <3>3. QED  BY <1>2, <2>1, <3>1, <3>2
  <2>3. CASE CommitOverflow(p, event, m)
    <3>1. UNCHANGED vector
        BY <2>3 DEF CommitOverflow
    <3>2. CASE inCap[p]
      <4>1. audit' = audit \o (<<Entry(event, m, TRUE)>> \o <<>>)
          BY <2>3, <3>2 DEF CommitOverflow, CommitRow
      <4>2. <<Entry(event, m, TRUE)>> \o <<>> = <<Entry(event, m, TRUE)>>
          BY <2>1, Singleton, ConcatEmptySeq
      <4>3. Append(audit, Entry(event, m, TRUE)) = audit \o <<Entry(event, m, TRUE)>>
          BY <2>1, AppendIsConcat
      <4>4. audit' = Append(audit, Entry(event, m, TRUE))
          BY <4>1, <4>2, <4>3
      <4>5. QED  BY <1>2, <2>1, <3>1, <4>4
    <3>3. CASE ~inCap[p]
      <4>1. audit' = audit \o (<<Entry(event, m, TRUE)>> \o <<OverflowEntry>>)
          BY <2>3, <3>3 DEF CommitOverflow, CommitRow
      <4>2. QED  BY <1>2, <2>1, <3>1, <4>1
    <3>4. QED  BY <3>2, <3>3
  <2>4. QED  BY <1>3, <2>2, <2>3
<1>4. ASSUME NEW m \in Memories, DeleteMissing(m)
      PROVE  Stores!Next
  <2>1. Entry("memory.delete", m, FALSE) \in AuditEntry
      BY DEF Entry, AuditEntry, AuditEvents, MemoryEvents
  <2>2. QED  BY <1>2, <1>4, <2>1 DEF DeleteMissing
<1>5. ASSUME NEW p \in Workers, Apply(p) \/ DeleteFailsLate(p)
      PROVE  Stores!Next
  <2>1. Effect(p) /\ ~At(p, "idle") /\ UNCHANGED audit
      BY <1>5 DEF Apply, DeleteFailsLate, At
  <2>2. /\ OpSeq(worker[p].seq)
        /\ vector' = [vector EXCEPT ![audit[worker[p].seq].memory] = worker[p].seq]
      BY <2>1, EffectShows
  <2>3. PICK m \in Memories : m = audit[worker[p].seq].memory
      BY <2>2 DEF OpSeq
  <2>4. worker[p].seq >= vector[m]
      BY <1>5, <2>3, AppliesForward DEF FifoInv
  <2>5. Stores!Follow(m)
      BY <2>1, <2>2, <2>3, <2>4, TellsFollow
  <2>6. QED  BY <2>5 DEF Stores!Next
<1>6. ASSUME NEW p \in Workers, WorkerStep(p), ~Apply(p), ~DeleteFailsLate(p)
      PROVE  [Stores!Next]_Stores!vars
  <2>1. CASE AuditDeadLetter(p)
    <3> DEFINE e == Entry("cascade.dead_letter", audit[worker[p].seq].memory, FALSE)
    <3>1. OpSeq(worker[p].seq)
        BY <2>1 DEF AuditDeadLetter, At, SeqsInv
    <3>2. e \in AuditEntry
        BY <3>1 DEF OpSeq, Entry, AuditEntry, AuditEvents
    <3>3. audit' = Append(audit, e) /\ UNCHANGED vector
        BY <2>1 DEF AuditDeadLetter
    <3> HIDE DEF e
    <3>4. QED  BY <1>2, <3>2, <3>3
  <2>2. CASE ~AuditDeadLetter(p)
    <3>1. UNCHANGED <<audit, vector>>
        BY <1>6, <2>2 DEF WorkerStep, Poll, ApplyFails, RecordSuccess, Reschedule, GiveUp,
                          RowGone, InsertDeadLetter, disk
    <3>2. QED  BY <1>1, <3>1
  <2>3. QED  BY <2>1, <2>2
<1>7. CASE \/ \E p \in Writers : RollBack(p)
           \/ \E p \in Workers : StepError(p) \/ PollNothing(p)
           \/ \E p \in Sweepers : SweepStep(p)
           \/ \E p \in Processes : Crash(p)
           \/ Tick
           \/ UNCHANGED vars
  <2>1. UNCHANGED <<audit, vector>>
      BY <1>7 DEF RollBack, StepError, PollNothing, SweepStep, SweepRead, SweepMove, SweepStop,
                  Crash, Tick, vars, disk
  <2>2. QED  BY <1>1, <2>1
<1>8. QED  BY <1>3, <1>4, <1>5, <1>6, <1>7 DEF Next

LEMMA StoresInit == Init => Stores!Init
<1>1. SUFFICES ASSUME Init
               PROVE  Told(audit) = <<>> /\ vector = [m \in Memories |-> 0]
    BY DEF Stores!Init, Told, Tells
<1>2. audit = <<>> /\ audit \in Seq(AuditEntry) /\ Len(audit) = 0
    BY <1>1, EmptySeq DEF Init
<1>3. Told(audit) \in Seq(Ids) /\ Len(Told(audit)) = 0
    BY <1>2, ToldIs
<1>4. Told(audit) = <<>>
    BY <1>3, EmptySeq
<1>5. QED  BY <1>1, <1>4 DEF Init

\* One worker that has nothing put off implements the promise of the two stores:
\* every memory's operations reach the vector store in commit order, some skipped.
THEOREM OutboxRefines ==
    ASSUME OneWorker, NoSweep, NoRetries
    PROVE  Spec => StoresFollow
<1>1. IInv /\ OrderInv /\ FifoInv /\ [Next]_vars => [Stores!Next]_Stores!vars
    BY StoresStep DEF IInv
<1>2. Spec => Stores!Init /\ [][Stores!Next]_Stores!vars
    BY <1>1, StoresInit, Invariance, Ordered, InStep, PTL DEF Spec
<1>3. QED  BY <1>2 DEF StoresFollow, Stores!Spec

-----------------------------------------------------------------------------
(* Overflow is audited.                                                    *)

\* A process in overflow has audited it, and every operation since has spilled.
OverflowSaid(e) ==
    /\ e \in DOMAIN audit /\ audit[e].event = "cascade.queue_overflow"
    /\ \A t \in DOMAIN audit : t >= e /\ audit[t].cascades => t \in spilled
SpillInv == \A p \in Writers : inCap[p] => \E e \in DOMAIN audit : OverflowSaid(e)

\* The instance in which the flag says so: it is a process's own, and a write
\* rolled back sets it with no event.
OneWriter == \A p, q \in Writers : p = q
NoRollBack == "rollback" \notin Faults

LEMMA AuditedKept ==
    ASSUME TypeOK, SeqsInv, SpillAudited, Persists, NEW s \in spilled, spilled \subseteq spilled'
    PROVE  \E e \in DOMAIN audit' :
              /\ audit'[e].event = "cascade.queue_overflow" /\ e <= s + 1
              /\ \A t \in e..s : audit'[t].cascades => t \in spilled'
<1>1. PICK e \in DOMAIN audit :
          /\ audit[e].event = "cascade.queue_overflow" /\ e <= s + 1
          /\ \A t \in e..s : audit[t].cascades => t \in spilled
    BY DEF SpillAudited
<1>2. DOMAIN audit = 1..Len(audit) /\ Len(audit) \in Nat /\ s \in DOMAIN audit
    BY LenProperties DEF TypeOK, SeqsInv, OpSeq
<1>3. \A t \in e..s : t \in DOMAIN audit
    BY <1>1, <1>2
<1>4. QED  BY <1>1, <1>3 DEF Persists

\* A step that commits nothing that cascades, and raises no flag.
LEMMA SpillKept ==
    ASSUME TypeOK, SeqsInv, SpillInv, SpillAudited, Persists, UNCHANGED spilled,
           \A t \in DOMAIN audit' \ DOMAIN audit : ~audit'[t].cascades,
           \A p \in Writers : inCap'[p] => inCap[p]
    PROVE  SpillInv' /\ SpillAudited'
<1>1. SpillAudited'
    BY AuditedKept DEF SpillAudited
<1>2. ASSUME NEW p \in Writers, inCap'[p]
      PROVE  \E e \in DOMAIN audit' : OverflowSaid(e)'
  <2>1. PICK e \in DOMAIN audit : OverflowSaid(e)
      BY <1>2 DEF SpillInv
  <2>2. OverflowSaid(e)'
      BY <2>1 DEF OverflowSaid, Persists
  <2>3. QED  BY <2>2 DEF OverflowSaid
<1>3. QED  BY <1>1, <1>2 DEF SpillInv

\* The first write of a process at the cap appends the event; the others follow
\* one that nothing but spills has followed.
LEMMA SpillOverflow ==
    ASSUME TypeOK, SeqsInv, SpillInv, SpillAudited, OneWriter, NEW p \in Writers,
           NEW event \in MemoryEvents, NEW m \in Memories, CommitOverflow(p, event, m),
           TypeOK'
    PROVE  SpillInv' /\ SpillAudited'
<1>0. PICK seq \in Seqs : seq = Len(audit) + 1 /\ spilled' = spilled \cup {seq}
    BY DEF CommitOverflow, CommitRow
<1>a. PICK rest \in {<<>>, <<OverflowEntry>>} :
          /\ audit' = audit \o (<<Entry(event, m, TRUE)>> \o rest)
          /\ rest = IF inCap[p] THEN <<>> ELSE <<OverflowEntry>>
    BY DEF CommitOverflow, CommitRow
<1>1. /\ Persists /\ OpSeq(seq)'
      /\ \A s \in DOMAIN audit : s < seq
      /\ \A s \in DOMAIN audit' \ DOMAIN audit : s # seq => ~audit'[s].cascades
    BY <1>0, <1>a, CommitPersists, ZenonT(30)
<1>b. DOMAIN audit = 1..Len(audit) /\ Len(audit) \in Nat
    BY LenProperties DEF TypeOK
<1>2. PICK e \in DOMAIN audit' : OverflowSaid(e)' /\ e <= seq + 1 /\ e \in Nat
  <2>1. CASE inCap[p]
    <3>1. PICK e \in DOMAIN audit : OverflowSaid(e)
        BY <2>1 DEF SpillInv
    <3>2. e \in DOMAIN audit' /\ OverflowSaid(e)'
        BY <3>1, <1>0, <1>1 DEF OverflowSaid, Persists
    <3>3. e <= seq + 1 /\ e \in Nat
        BY <3>1, <1>0, <1>b
    <3>4. QED  BY <3>2, <3>3
  <2>2. CASE ~inCap[p]
    <3> DEFINE first == <<Entry(event, m, TRUE)>>
               events == first \o <<OverflowEntry>>
    <3>1. audit' = audit \o events
        BY <2>2, <1>a
    <3>2. Entry(event, m, TRUE) \in AuditEntry /\ OverflowEntry \in AuditEntry
        BY DEF Entry, OverflowEntry, AuditEntry, AuditEvents, MemoryEvents
    <3>3. /\ first \in Seq(AuditEntry) /\ Len(first) = 1
          /\ <<OverflowEntry>> \in Seq(AuditEntry) /\ Len(<<OverflowEntry>>) = 1
          /\ <<OverflowEntry>>[1] = OverflowEntry
        BY <3>2, Singleton
    <3> HIDE DEF first
    <3>4. /\ events \in Seq(AuditEntry) /\ Len(events) = 2
          /\ events[2] = OverflowEntry
      <4>1. /\ events \in Seq(AuditEntry)
            /\ Len(events) = Len(first) + Len(<<OverflowEntry>>)
            /\ \A s \in 1..Len(<<OverflowEntry>>) :
                  events[Len(first) + s] = <<OverflowEntry>>[s]
          BY <3>3, AuditGrows
      <4>2. 1 \in 1..Len(<<OverflowEntry>>)
          BY <3>3
      <4>3. events[Len(first) + 1] = <<OverflowEntry>>[1]
          BY <4>1, <4>2
      <4>4. QED  BY <4>1, <4>3, <3>3
    <3> HIDE DEF events
    <3>5. /\ audit \o events \in Seq(AuditEntry)
          /\ Len(audit \o events) = Len(audit) + Len(events)
          /\ \A s \in 1..Len(events) : (audit \o events)[Len(audit) + s] = events[s]
        BY <3>4, AuditGrows DEF TypeOK
    <3>6. /\ audit' \in Seq(AuditEntry) /\ Len(audit') = Len(audit) + 2
          /\ audit'[Len(audit) + 2] = OverflowEntry
        BY <3>1, <3>4, <3>5
    <3>7. DOMAIN audit' = 1..(Len(audit) + 2)
        BY <3>6, LenProperties
    <3>a. PICK e : e = Len(audit) + 2
        OBVIOUS
    <3>8. e \in DOMAIN audit' /\ e <= seq + 1 /\ e \in Nat
        BY <3>7, <3>a, <1>0, <1>b
    <3>9. audit'[e].event = "cascade.queue_overflow"
        BY <3>6, <3>a DEF OverflowEntry, Entry
    <3>10. ASSUME NEW t \in DOMAIN audit', t >= e
           PROVE  ~audit'[t].cascades
      <4>1. t = Len(audit) + 2
          BY <3>7, <3>10, <3>a, <1>b
      <4>2. QED  BY <4>1, <3>6 DEF OverflowEntry, Entry
    <3>11. OverflowSaid(e)'
      <4>1. \A t \in DOMAIN audit' : t >= e /\ audit'[t].cascades => t \in spilled'
          BY <3>10
      <4>2. QED  BY <3>8, <3>9, <4>1 DEF OverflowSaid
    <3>12. QED  BY <3>8, <3>11
  <2>3. QED  BY <2>1, <2>2
<1>3. SpillInv'
    BY <1>2 DEF SpillInv
<1>4. ASSUME NEW s \in spilled'
      PROVE  \E x \in DOMAIN audit' :
                /\ audit'[x].event = "cascade.queue_overflow" /\ x <= s + 1
                /\ \A t \in x..s : audit'[t].cascades => t \in spilled'
  <2>1. CASE s \in spilled
      BY <2>1, <1>0, <1>1, AuditedKept
  <2>2. CASE s = seq
    <3>1. seq \in DOMAIN audit'
        BY <1>1 DEF OpSeq
    <3>2. Len(audit') \in Nat /\ DOMAIN audit' = 1..Len(audit')
      <4>1. audit' \in Seq(AuditEntry)
          BY DEF TypeOK
      <4>2. QED  BY <4>1, LenProperties
    <3>3. e >= 1
        BY <1>2, <3>2
    <3>4. \A t \in e..seq : t \in DOMAIN audit' /\ t >= e
        BY <1>2, <3>1, <3>2, <3>3
    <3>5. \A t \in e..seq : audit'[t].cascades => t \in spilled'
        BY <1>2, <3>4 DEF OverflowSaid
    <3>6. QED  BY <1>2, <2>2, <3>5 DEF OverflowSaid
  <2>3. QED  BY <1>0, <2>1, <2>2
<1>5. QED  BY <1>3, <1>4 DEF SpillAudited

LEMMA SpillStep ==
    ASSUME OneWriter, NoRollBack, TypeOK, SeqsInv, SpillInv, SpillAudited, [Next]_vars
    PROVE  SpillInv' /\ SpillAudited'
<1>1. ASSUME UNCHANGED <<audit, spilled>>, \A p \in Writers : inCap'[p] => inCap[p]
      PROVE  SpillInv' /\ SpillAudited'
    BY <1>1, SpillKept DEF Persists
<1>2. ASSUME NEW e \in AuditEntry, ~e.cascades, audit' = Append(audit, e),
             UNCHANGED <<spilled, inCap>>
      PROVE  SpillInv' /\ SpillAudited'
  <2>1. Persists /\ \A s \in DOMAIN audit' \ DOMAIN audit : ~audit'[s].cascades
      BY <1>2, QuietAppends DEF Persists
  <2>2. QED  BY <1>2, <2>1, SpillKept
<1>3. ASSUME NEW p \in Writers, NEW event \in MemoryEvents, NEW m \in Memories,
             CommitEnqueue(p, event, m)
      PROVE  SpillInv' /\ SpillAudited'
  <2>0. PICK seq : seq = Len(audit) + 1
      OBVIOUS
  <2>1. audit' = audit \o (<<Entry(event, m, TRUE)>> \o <<>>)
      BY <1>3, ConcatEmptySeq DEF CommitEnqueue, CommitRow
  <2>2. Persists
      BY <2>0, <2>1, CommitPersists
  <2>3. UNCHANGED spilled /\ inCap' = [inCap EXCEPT ![p] = FALSE]
      BY <1>3 DEF CommitEnqueue, history
  <2>4. SpillAudited'
      BY <2>2, <2>3, AuditedKept DEF SpillAudited
  <2>5. \A q \in Writers : inCap'[q] = FALSE
      BY <2>3 DEF OneWriter, TypeOK
  <2>6. QED  BY <2>4, <2>5 DEF SpillInv
<1>4. ASSUME NEW p \in Writers, NEW event \in MemoryEvents, NEW m \in Memories,
             CommitOverflow(p, event, m)
      PROVE  SpillInv' /\ SpillAudited'
    BY <1>4, SpillOverflow, TypeStep
<1>5. ASSUME NEW m \in Memories, DeleteMissing(m)
      PROVE  SpillInv' /\ SpillAudited'
  <2>1. LET e == Entry("memory.delete", m, FALSE) IN e \in AuditEntry /\ ~e.cascades
      BY DEF Entry, AuditEntry, AuditEvents, MemoryEvents
  <2>2. QED  BY <1>2, <1>5, <2>1 DEF DeleteMissing, memory, history
<1>6. ASSUME NEW p \in Workers, WorkerStep(p)
      PROVE  SpillInv' /\ SpillAudited'
  <2>1. CASE AuditDeadLetter(p)
    <3> DEFINE e == Entry("cascade.dead_letter", audit[worker[p].seq].memory, FALSE)
    <3>1. OpSeq(worker[p].seq)
        BY <2>1 DEF AuditDeadLetter, At, SeqsInv
    <3>2. e \in AuditEntry /\ ~e.cascades
        BY <3>1 DEF OpSeq, Entry, AuditEntry, AuditEvents
    <3>3. audit' = Append(audit, e) /\ UNCHANGED <<spilled, inCap>>
        BY <2>1 DEF AuditDeadLetter, history
    <3> HIDE DEF e
    <3>4. QED  BY <1>2, <3>2, <3>3
  <2>2. CASE ~AuditDeadLetter(p)
    <3>1. UNCHANGED <<audit, spilled, inCap>>
        BY <1>6, <2>2 DEF WorkerStep, Poll, Apply, ApplyFails, DeleteFailsLate, RecordSuccess,
               Reschedule, GiveUp, RowGone, InsertDeadLetter, disk, history
    <3>2. QED  BY <1>1, <3>1
  <2>3. QED  BY <2>1, <2>2
<1>7. ASSUME NEW p \in Processes, Crash(p)
      PROVE  SpillInv' /\ SpillAudited'
  <2>1. UNCHANGED <<audit, spilled>> /\ inCap' = [inCap EXCEPT ![p] = FALSE]
      BY <1>7 DEF Crash, disk
  <2>2. \A q \in Writers : inCap'[q] => inCap[q]
      BY <2>1 DEF TypeOK
  <2>3. QED  BY <1>1, <2>1, <2>2
<1>8. CASE \/ \E p \in Workers : StepError(p) \/ PollNothing(p)
           \/ \E p \in Sweepers : SweepStep(p)
           \/ Tick
           \/ UNCHANGED vars
  <2>1. UNCHANGED <<audit, spilled, inCap>>
      BY <1>8 DEF StepError, PollNothing, SweepStep, SweepRead, SweepMove, SweepStop, Tick,
                  vars, disk, memory, history
  <2>2. QED  BY <1>1, <2>1
<1>9. CASE \E p \in Writers : RollBack(p)
    BY <1>9 DEF RollBack, NoRollBack
<1>10. QED
    BY <1>3, <1>4, <1>5, <1>6, <1>7, <1>8, <1>9 DEF Next

LEMMA SpillInit == Init => SpillInv /\ SpillAudited
BY DEF Init, SpillInv, SpillAudited

\* With one writer whose transactions do not roll back after their closure ran,
\* every operation that spilled follows a queue_overflow event, with nothing but
\* spills in between: the event is fired at each entry into overflow, also after a
\* crash has forgotten the flag.
THEOREM OverflowAudited ==
    ASSUME OneWriter, NoRollBack
    PROVE  Spec => []SpillAudited
<1>1. IInv /\ (SpillInv /\ SpillAudited) /\ [Next]_vars => (SpillInv /\ SpillAudited)'
    BY SpillStep DEF IInv
<1>2. QED  BY <1>1, SpillInit, Invariance, PTL DEF Spec
=============================================================================

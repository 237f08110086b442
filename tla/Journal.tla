------------------------------- MODULE Journal -------------------------------
(***************************************************************************)
(* SQLiteJournal: log() queues an entry, a writer thread commits batches,  *)
(* flush() waits until everything queued is committed and checkpoints the  *)
(* write-ahead log, the destructor flushes, stops and joins the writer.    *)
(* The process may be killed, or the machine lose power, at any moment;    *)
(* with synchronous=NORMAL a transaction that is committed and not yet     *)
(* checkpointed survives the former and not necessarily the latter.        *)
(***************************************************************************)
EXTENDS Integers, Sequences, FiniteSets, FiniteSetsExt

CONSTANTS None,             \* the empty correlation_id
          Threads,          \* threads that flush
          Loggers,          \* those among them that log
          Events,           \* the events they log
          Correlations,     \* correlation ids, None among them or not
          MAX_QUEUE_DEPTH,
          BATCH_SIZE,
          TicksPerSecond,   \* resolution of a stored timestamp
          MaxClock,         \* bound: the last time the system clock shows
          MaxLogged,        \* bound: entries that are accepted
          MaxCrashes        \* bound: crashes and power failures

ASSUME JournalAssumption ==
    /\ Loggers \subseteq Threads
    /\ MAX_QUEUE_DEPTH \in Nat \ {0}
    /\ BATCH_SIZE \in Nat \ {0}
    /\ TicksPerSecond \in Nat \ {0}
    /\ {MaxClock, MaxLogged, MaxCrashes} \subseteq Nat

VARIABLES
    write_queue_,    \* entries accepted and not yet taken by the writer
    pushed_,         \* entries accepted since the journal was opened
    committed_,      \* entries the writer is done with, stored or not
    batch,           \* what the writer took from the queue
    writer,          \* where the writer thread is
    caller,          \* per thread: where it is in log() or flush()
    phase,           \* "open", then the stages of the destructor
    journal,         \* the rows of the table
    durable,         \* the rows that would survive a loss of power
    crashes,
    accepted,        \* history: every entry ever queued, in order
    failed,          \* history: numbers of entries whose INSERT failed
    lost,            \* history: numbers lost in a crash that no flush had promised
    flushed          \* history: how many entries complete checkpoints promised

memory == <<write_queue_, pushed_, committed_, batch, writer, caller, phase>>
disk == <<journal, durable>>
history == <<accepted, failed, lost, flushed>>
journalVars == <<memory, disk, crashes, history>>

Timestamps == 0 .. MaxClock
EventNames == {"ORDER_CREATED", "ORDER_VALIDATED", "ORDER_REJECTED", "ORDER_SUBMITTED",
    "ORDER_ACCEPTED", "ORDER_CANCELLED", "ORDER_REPLACED", "ORDER_EXPIRED",
    "KILL_SWITCH_ACTIVATED", "SYSTEM_STARTED", "SYSTEM_STOPPED", "GATEWAY_CONNECTED",
    "GATEWAY_DISCONNECTED", "ERROR_OCCURRED", "SIGNAL_RECEIVED", "SIGNAL_PROCESSED",
    "SIGNAL_IGNORED", "ORDER_FILLED", "ORDER_PARTIALLY_FILLED"}

\* Event is an enumeration: there is no other.
ASSUME EventAssumption == Events \subseteq EventNames

\* data stands for the payload: the number of the entry among those accepted.
PendingEntry == [timestamp : Timestamps, event : Events, data : Nat,
                 correlation_id : Correlations]
Row == [id : Nat, timestamp : Timestamps, event_type : EventNames \cup {"UNKNOWN"},
        data : Nat, correlation_id : Correlations]
Idle == [pc |-> "idle"]
Caller == {Idle}
    \cup [pc : {"stamped"}, timestamp : Timestamps, event : Events,
          correlation_id : Correlations]
    \cup [pc : {"flushing", "blocked", "synced"}, target : Nat]

\* Faulty: a timestamp is read back rounded up.
string_to_timestamp_Rounded(stored) ==
    ((stored + TicksPerSecond - 1) \div TicksPerSecond) * TicksPerSecond

\* Timestamps are stored to the millisecond and read back to the second.
string_to_timestamp(stored) == (stored \div TicksPerSecond) * TicksPerSecond

event_to_string(event) == IF event \in EventNames THEN event ELSE "UNKNOWN"
event_from_string(name) == IF name \in EventNames THEN name ELSE "ERROR_OCCURRED"

JournalInit ==
    /\ write_queue_ = <<>>
    /\ pushed_ = 0
    /\ committed_ = 0
    /\ batch = <<>>
    /\ writer = "running"
    /\ caller = [t \in Threads |-> Idle]
    /\ phase = "open"
    /\ journal = {}
    /\ durable = {}
    /\ crashes = 0
    /\ accepted = <<>>
    /\ failed = {}
    /\ lost = {}
    /\ flushed = 0

------------------------------------------------------------------------------
\* The condition variable queue_cv_ is shared by the writer and by flush().

Blocked == {t \in Threads : caller[t].pc = "blocked"}

notify_all ==
    /\ writer' = IF writer = "waiting" THEN "running" ELSE writer
    /\ caller' = [t \in Threads |->
                     IF t \in Blocked THEN [caller[t] EXCEPT !.pc = "flushing"] ELSE caller[t]]

\* One waiter, the writer or a flusher, is woken; thread t goes on to call.
notify_one(t, call) ==
    \/ /\ writer = "waiting"
       /\ writer' = "running"
       /\ caller' = [caller EXCEPT ![t] = call]
    \/ \E f \in Blocked :
           /\ caller' = [caller EXCEPT ![t] = call, ![f].pc = "flushing"]
           /\ UNCHANGED writer
    \/ /\ writer # "waiting" /\ Blocked = {}
       /\ caller' = [caller EXCEPT ![t] = call]
       /\ UNCHANGED writer

------------------------------------------------------------------------------
Stamped == {t \in Threads : caller[t].pc = "stamped"}

\* log(), first part: the timestamp is taken before queue_mu_, from a clock that
\* may have been set back since. That it cannot be converted to calendar time,
\* which stores the text 'UNKNOWN', is left out.
Stamp(t, now, event, correlation) ==
    /\ phase = "open"
    /\ caller[t] = Idle
    /\ Len(accepted) + Cardinality(Stamped) < MaxLogged
    /\ caller' = [caller EXCEPT ![t] = [pc |-> "stamped", timestamp |-> now, event |-> event,
                                        correlation_id |-> correlation]]
    /\ UNCHANGED <<write_queue_, pushed_, committed_, batch, writer, phase, disk, crashes,
                   history>>

pending(t) == [timestamp |-> caller[t].timestamp, event |-> caller[t].event,
               data |-> Len(accepted) + 1, correlation_id |-> caller[t].correlation_id]

\* Faulty: nobody is notified, and the limit is not tested.
log_Silent(t) ==
    /\ caller[t].pc = "stamped"
    /\ write_queue_' = Append(write_queue_, pending(t))
    /\ accepted' = Append(accepted, pending(t))
    /\ pushed_' = pushed_ + 1
    /\ caller' = [caller EXCEPT ![t] = Idle]
    /\ UNCHANGED <<committed_, batch, writer, phase, disk, crashes, failed, lost, flushed>>

\* log(), second part, with queue_mu_ held.
log(t) ==
    /\ caller[t].pc = "stamped"
    /\ \/ /\ Len(write_queue_) >= MAX_QUEUE_DEPTH
          /\ caller' = [caller EXCEPT ![t] = Idle]
          /\ UNCHANGED <<write_queue_, pushed_, writer, accepted>>
       \/ /\ Len(write_queue_) < MAX_QUEUE_DEPTH
          /\ write_queue_' = Append(write_queue_, pending(t))
          /\ accepted' = Append(accepted, pending(t))
          /\ pushed_' = pushed_ + 1
          /\ notify_one(t, Idle)
    /\ UNCHANGED <<committed_, batch, phase, disk, crashes, failed, lost, flushed>>

------------------------------------------------------------------------------
\* flush()

BeginFlush(t) ==
    /\ caller[t] = Idle
    /\ caller' = [caller EXCEPT ![t] = [pc |-> "flushing", target |-> Len(accepted)]]
    /\ UNCHANGED <<write_queue_, pushed_, committed_, batch, writer, disk, crashes,
                   history>>

flush(t) == phase = "open" /\ BeginFlush(t) /\ UNCHANGED phase

\* The predicate of the wait, with queue_mu_ held; it is evaluated again after
\* every wake-up.
TestCommitted(t) ==
    /\ caller[t].pc = "flushing"
    /\ caller' = [caller EXCEPT ![t].pc = IF committed_ >= pushed_ THEN "synced" ELSE "blocked"]
    /\ UNCHANGED <<write_queue_, pushed_, committed_, batch, writer, phase, disk, crashes,
                   history>>

\* Faulty: no checkpoint.
wal_checkpoint_Skipped(complete) == UNCHANGED <<journal, durable>>

\* The checkpoint copies the log into the database file and syncs both. It may
\* fail, or find the database busy: its result is ignored.
wal_checkpoint(complete) ==
    /\ durable' = IF complete THEN journal ELSE durable
    /\ UNCHANGED journal

\* The flush() of thread t returns; what it promises, it promises if the
\* checkpoint was complete.
ReturnFlush(t) ==
    /\ caller[t].pc = "synced"
    /\ \E complete \in BOOLEAN :
           /\ wal_checkpoint(complete)
           /\ flushed' = IF complete THEN Max({flushed, caller[t].target}) ELSE flushed
    /\ caller' = [caller EXCEPT ![t] = Idle]
    /\ UNCHANGED <<write_queue_, pushed_, committed_, batch, writer, phase, crashes,
                   accepted, failed, lost>>

------------------------------------------------------------------------------
\* The writer thread

writerUnchanged == <<pushed_, caller, phase, crashes, accepted, lost, flushed>>

\* Nothing queued and no stop requested: wait_for blocks.
AwaitEntries ==
    /\ writer = "running"
    /\ write_queue_ = <<>>
    /\ phase # "stopping"
    /\ writer' = "waiting"
    /\ UNCHANGED <<writerUnchanged, write_queue_, committed_, batch, disk, failed>>

\* BATCH_INTERVAL_MS have passed, or the wake-up is spurious.
BatchInterval ==
    /\ writer = "waiting"
    /\ writer' = "running"
    /\ UNCHANGED <<writerUnchanged, write_queue_, committed_, batch, disk, failed>>

\* Faulty: the newest entry is taken first.
TakeBatch_Newest ==
    /\ writer = "running"
    /\ write_queue_ # <<>>
    /\ batch' = <<write_queue_[Len(write_queue_)]>>
    /\ write_queue_' = SubSeq(write_queue_, 1, Len(write_queue_) - 1)
    /\ writer' = "committing"
    /\ UNCHANGED <<writerUnchanged, committed_, disk, failed>>

TakeBatch ==
    /\ writer = "running"
    /\ write_queue_ # <<>>
    /\ LET size == Min({Len(write_queue_), BATCH_SIZE})
       IN  /\ batch' = SubSeq(write_queue_, 1, size)
           /\ write_queue_' = SubSeq(write_queue_, size + 1, Len(write_queue_))
    /\ writer' = "committing"
    /\ UNCHANGED <<writerUnchanged, committed_, disk, failed>>

\* UNIQUE(timestamp, correlation_id, event_type); NULL differs from every NULL.
Conflicts(row, entry) ==
    /\ row.timestamp = entry.timestamp
    /\ row.correlation_id = entry.correlation_id
    /\ row.event_type = event_to_string(entry.event)
    /\ entry.correlation_id # None

RowOf(entry, id) == [id |-> id, timestamp |-> entry.timestamp,
                     event_type |-> event_to_string(entry.event), data |-> entry.data,
                     correlation_id |-> entry.correlation_id]

last_id == IF journal = {} THEN 0 ELSE Max({row.id : row \in journal})

\* The positions of the batch INSERT OR IGNORE adds when those in failing fail.
Inserted(failing) ==
    {i \in DOMAIN batch \ failing :
        /\ \A row \in journal : ~Conflicts(row, batch[i])
        /\ \A j \in 1 .. i - 1 : j \in failing \/ ~Conflicts(RowOf(batch[j], 0), batch[i])}

\* One transaction. A statement that cannot be prepared loses the whole batch,
\* an INSERT that fails loses its entry; both are only logged. A COMMIT that
\* fails and rolls back is the case of every INSERT failing.
commit_batch ==
    /\ writer = "committing"
    /\ \E failing \in SUBSET DOMAIN batch :
           /\ journal' = journal \cup
                  {RowOf(batch[i], last_id + Cardinality({j \in Inserted(failing) : j <= i})) :
                      i \in Inserted(failing)}
           /\ failed' = failed \cup {batch[i].data : i \in failing}
    /\ writer' = "counting"
    /\ UNCHANGED <<writerUnchanged, write_queue_, committed_, batch, durable>>

\* Faulty: flush() is not notified.
CountBatch_Silent ==
    /\ writer = "counting"
    /\ committed_' = committed_ + Len(batch)
    /\ batch' = <<>>
    /\ writer' = "running"
    /\ UNCHANGED <<write_queue_, pushed_, caller, phase, disk, crashes, history>>

\* committed_ counts the whole batch, stored or not, and wakes every flush().
CountBatch ==
    /\ writer = "counting"
    /\ committed_' = committed_ + Len(batch)
    /\ batch' = <<>>
    /\ writer' = "running"
    /\ caller' = [t \in Threads |->
                     IF t \in Blocked THEN [caller[t] EXCEPT !.pc = "flushing"] ELSE caller[t]]
    /\ UNCHANGED <<write_queue_, pushed_, phase, disk, crashes, history>>

LeaveLoop ==
    /\ writer = "running"
    /\ write_queue_ = <<>>
    /\ phase = "stopping"
    /\ writer' = "exited"
    /\ UNCHANGED <<writerUnchanged, write_queue_, committed_, batch, disk, failed>>

writer_loop == AwaitEntries \/ TakeBatch \/ commit_batch \/ CountBatch \/ LeaveLoop

------------------------------------------------------------------------------
\* ~SQLiteJournal: no thread uses the journal any more.

BeginDestruction(t) ==
    /\ phase = "open"
    /\ \A u \in Threads : caller[u] = Idle
    /\ phase' = "flushing"
    /\ BeginFlush(t)

RequestStop ==
    /\ phase = "flushing"
    /\ \A u \in Threads : caller[u] = Idle
    /\ phase' = "stopping"
    /\ notify_all
    /\ UNCHANGED <<write_queue_, pushed_, committed_, batch, disk, crashes, history>>

Close ==
    /\ phase = "stopping"
    /\ writer = "exited"
    /\ phase' = "closed"
    /\ \E complete \in BOOLEAN :
           /\ wal_checkpoint(complete)
           /\ flushed' = IF complete THEN Len(accepted) ELSE flushed
    /\ UNCHANGED <<write_queue_, pushed_, committed_, batch, writer, caller, crashes,
                   accepted, failed, lost>>

------------------------------------------------------------------------------
\* The environment

\* The entry with number n is in the table, or another one that excludes it is.
RecordedIn(rows, n) == \E row \in rows : row.data = n \/ Conflicts(row, accepted[n])

Recorded(rows, n) == n \in failed \cup lost \/ RecordedIn(rows, n)

\* The process dies and the journal is opened again on the rows kept. What a
\* flush that returned had promised is never excused.
Restart(kept) ==
    /\ crashes < MaxCrashes
    /\ crashes' = crashes + 1
    /\ journal' = kept
    /\ lost' = lost \cup {n \in flushed + 1 .. Len(accepted) : ~RecordedIn(kept, n)}
    /\ write_queue_' = <<>>
    /\ pushed_' = 0
    /\ committed_' = 0
    /\ batch' = <<>>
    /\ writer' = "running"
    /\ caller' = [t \in Threads |-> Idle]
    /\ phase' = "open"
    /\ UNCHANGED <<accepted, failed, flushed>>

\* A process that is killed keeps what it committed.
Kill == Restart(journal) /\ UNCHANGED durable

\* A loss of power may take the newest of the rows that are not checkpointed.
PowerLoss ==
    \E kept \in SUBSET journal :
        /\ durable \subseteq kept
        /\ \A row \in kept, older \in journal : older.id < row.id => older \in kept
        /\ Restart(kept)
        /\ durable' = kept

CallerStep(t) == log(t) \/ TestCommitted(t) \/ ReturnFlush(t)

JournalNext ==
    \/ \E t \in Loggers, now \in Timestamps, event \in Events,
          correlation \in Correlations : Stamp(t, now, event, correlation)
    \/ \E t \in Threads :
           \/ CallerStep(t)
           \/ flush(t)
           \/ BeginDestruction(t)
    \/ writer_loop
    \/ BatchInterval
    \/ RequestStop
    \/ Close
    \/ Kill
    \/ PowerLoss

\* Threads that hold no lock are scheduled; nothing relies on the timeout of
\* the writer's wait.
JournalFairness ==
    /\ \A t \in Threads : WF_journalVars(CallerStep(t))
    /\ WF_journalVars(writer_loop)
    /\ WF_journalVars(RequestStop)
    /\ WF_journalVars(Close)

JournalSpec == JournalInit /\ [][JournalNext]_journalVars /\ JournalFairness

get_history(from, to, filter) ==
    {[id |-> row.id, timestamp |-> string_to_timestamp(row.timestamp),
      event_type |-> event_from_string(row.event_type), data |-> row.data,
      correlation_id |-> row.correlation_id] :
        row \in {r \in journal : r.timestamp \in from .. to /\ r.event_type \in filter}}

------------------------------------------------------------------------------
\* Types of the variables.
JournalTypeOK ==
    /\ write_queue_ \in Seq(PendingEntry)
    /\ pushed_ \in Nat
    /\ committed_ \in Nat
    /\ batch \in Seq(PendingEntry)
    /\ writer \in {"running", "waiting", "committing", "counting", "exited"}
    /\ caller \in [Threads -> Caller]
    /\ phase \in {"open", "flushing", "stopping", "closed"}
    /\ journal \subseteq Row
    /\ durable \subseteq journal
    /\ crashes \in 0 .. MaxCrashes
    /\ accepted \in Seq(PendingEntry)
    /\ failed \subseteq Nat
    /\ lost \subseteq Nat
    /\ flushed \in 0 .. Len(accepted)

\* An entry that was queued before a flush() began is on disk when that flush()
\* has returned, and stays there through kills and losses of power, unless its
\* INSERT failed, a row with its timestamp, order and event is there in its
\* place, or SQLite could not complete the checkpoint, which nobody is told; the
\* destructor promises the same of every entry.
FlushedIsDurable == \A n \in 1 .. flushed : Recorded(durable, n)

\* The writer never sleeps on a queue that is not empty: although log()
\* notifies one waiter of a condition variable that flush() waits on as well,
\* its notification cannot be taken by a flush().
NoLostWakeup == writer = "waiting" => write_queue_ = <<>> /\ Blocked = {}

\* Ids follow the order in which log() was called, over batches, restarts and
\* rows that were ignored: ORDER BY id is the order of the events.
HistoryInLogOrder ==
    \A r1, r2 \in journal : r1.id < r2.id <=> r1.data < r2.data

\* A reader that asks again from the timestamp of any entry it has read misses no
\* entry with that or a later timestamp, although timestamps come back without
\* their milliseconds; and what it reads is the event that was logged. An entry
\* logged later with an earlier stamp is not promised.
ResumingSkipsNothing ==
    \A seen \in get_history(0, MaxClock, EventNames), row \in journal :
        row.timestamp >= accepted[seen.data].timestamp =>
            \E r \in get_history(seen.timestamp, MaxClock, EventNames) :
                /\ r.data = row.data
                /\ r.event_type = accepted[row.data].event

\* Every flush() comes to an end unless entries go on being accepted for ever,
\* and the destructor, beside which nobody logs, always does, whether or not
\* INSERTs fail. The exception is real: the wait asks for whatever has been
\* pushed by the time it wakes, so threads that go on logging can keep flush()
\* from returning.
FlushReturns ==
    /\ \A t \in Threads :
           \/ []<>(caller[t].pc \in {"idle", "stamped"})
           \/ []<><<\E u \in Loggers : log(u)>>_accepted
    /\ phase = "flushing" ~> phase \in {"closed", "open"}
==============================================================================

--------------------------- MODULE JournalProofs -----------------------------
(***************************************************************************)
(* Proofs about SQLiteJournal, for any threads, entries, queue depth and   *)
(* batch size, any INSERTs that fail and any number of crashes.            *)
(***************************************************************************)
EXTENDS Journal, FiniteSetTheorems, TLAPS

------------------------------------------------------------------------------
(* The inductive invariant.                                                 *)

\* The number of the last entry the writer has taken, and of the last one that
\* has been through a transaction since the journal was opened.
taken == Len(accepted) - Len(write_queue_)
done == IF writer = "committing" THEN taken - Len(batch) ELSE taken

\* Entries are numbered in the order of log(), and the queue and the batch are
\* what was accepted last.
QueueHoldsTheNewest ==
    /\ \A n \in DOMAIN accepted : accepted[n].data = n
    /\ Len(batch) + Len(write_queue_) <= Len(accepted)
    /\ \A i \in DOMAIN write_queue_ : write_queue_[i] = accepted[taken + i]
    /\ \A i \in DOMAIN batch : batch[i] = accepted[taken - Len(batch) + i]

\* committed_ lags behind pushed_ by what is queued or in the batch.
CountersMatch ==
    /\ pushed_ = committed_ + Len(batch) + Len(write_queue_)
    /\ batch # <<>> <=> writer \in {"committing", "counting"}

\* Every row is one of an entry that was taken, ids grow with the numbers of the
\* entries and never overtake them.
RowsAreEntries ==
    \A row \in journal :
        /\ row.data \in 1 .. done
        /\ row.id \in 0 .. row.data
        /\ row.timestamp = accepted[row.data].timestamp
        /\ row.event_type = event_to_string(accepted[row.data].event)

\* Whoever waits for the writer waits for something.
WaitersHaveReason ==
    /\ Blocked # {} => committed_ < pushed_
    /\ writer = "waiting" => write_queue_ = <<>>

\* What has been through a transaction is in the table or excused, and what a
\* flush() promises has been.
PromisesKept ==
    /\ \A n \in 1 .. done : Recorded(journal, n)
    /\ \A n \in 1 .. flushed : Recorded(durable, n)
    /\ flushed <= Len(accepted)
    /\ \A t \in Threads :
          /\ caller[t].pc \in {"flushing", "blocked", "synced"} =>
                 caller[t].target <= Len(accepted)
          /\ caller[t].pc = "synced" =>
                 \A n \in 1 .. caller[t].target : Recorded(journal, n)

\* Nothing is logged once the destructor has begun, and the writer leaves last.
DestructorWaits ==
    /\ phase # "open" => Stamped = {}
    /\ phase \in {"stopping", "closed"} => \A t \in Threads : caller[t] = Idle
    /\ writer = "exited" => write_queue_ = <<>> /\ phase \in {"stopping", "closed"}

JournalInv ==
    /\ JournalTypeOK
    /\ QueueHoldsTheNewest
    /\ CountersMatch
    /\ RowsAreEntries
    /\ WaitersHaveReason
    /\ PromisesKept
    /\ DestructorWaits
    /\ HistoryInLogOrder
------------------------------------------------------------------------------
(* Lemmas about the operators of the model.                                 *)

\* A set of numbers has a first element.
LEMMA FirstOfNats ==
    ASSUME NEW S \in SUBSET Nat, S # {}
    PROVE  \E x \in S : \A y \in S : ~(y < x)
  <1> DEFINE R == {ss \in Nat \X Nat : ss[1] < ss[2]}
  <1>1. IsWellFoundedOn(R, Nat)
    BY NatLessThanWellFounded DEF OpToRel
  <1>2. PICK x \in S : \A y \in S : ~ (<<y, x>> \in R)
    <2> HIDE DEF R
    <2> QED BY <1>1, WFMin
  <1>3. ASSUME NEW y \in S PROVE ~(y < x)
    BY <1>2
  <1> QED BY <1>3

\* The greatest element of a bounded set of numbers.
LEMMA MaxOfNats ==
    ASSUME NEW S \in SUBSET Nat, S # {}, NEW b \in Nat, \A x \in S : x <= b
    PROVE  Max(S) \in S /\ \A x \in S : x <= Max(S)
  <1> DEFINE D == {d \in Nat : b - d \in S}
  <1>1. PICK x \in S : TRUE
    OBVIOUS
  <1>2. b - x \in D
    <2>1. x \in Nat /\ b - x \in Nat /\ b - (b - x) = x
      OBVIOUS
    <2> QED BY <2>1
  <1>3. PICK d \in D : \A e \in D : d <= e
    <2>1. D \in SUBSET Nat /\ D # {}
      BY <1>2
    <2> HIDE DEF D
    <2>2. PICK d \in D : \A e \in D : ~(e < d)
      BY <2>1, FirstOfNats
    <2>3. \A e \in D : d \in Nat /\ e \in Nat
      BY <2>1
    <2> QED BY <2>2, <2>3
  <1>4. b - d \in S /\ \A y \in S : b - d >= y
    <2>1. ASSUME NEW y \in S PROVE b - d >= y
      <3>1. y \in Nat /\ b - y \in Nat /\ b - (b - y) = y
        OBVIOUS
      <3>2. b - y \in D
        BY <3>1
      <3>3. d <= b - y /\ d \in Nat
        BY <1>3, <3>2
      <3> QED BY <3>1, <3>3
    <2> QED BY <2>1
  <1>5. Max(S) \in S /\ \A y \in S : Max(S) >= y
    <2> HIDE DEF D
    <2> QED BY <1>4 DEF Max
  <1> QED BY <1>5

LEMMA MaxOfTwo ==
    ASSUME NEW a \in Nat, NEW b \in Nat
    PROVE  Max({a, b}) = IF a >= b THEN a ELSE b
  <1>1. Max({a, b}) \in {a, b} /\ \A x \in {a, b} : x <= Max({a, b})
    <2>1. \A x \in {a, b} : x <= a + b
      OBVIOUS
    <2>2. {a, b} \in SUBSET Nat /\ {a, b} # {} /\ a + b \in Nat
      OBVIOUS
    <2> QED BY <2>1, <2>2, MaxOfNats
  <1> QED BY <1>1

LEMMA MinOfTwo ==
    ASSUME NEW a \in Nat, NEW b \in Nat
    PROVE  Min({a, b}) = IF a <= b THEN a ELSE b
  BY DEF Min

\* The rank of a member of a set of numbers: positive, not greater than the
\* number, and strictly growing.
LEMMA RankGrows ==
    ASSUME NEW n \in Nat, NEW S \in SUBSET (1 .. n)
    PROVE  \A i \in S :
              /\ Cardinality({j \in S : j <= i}) \in 1 .. i
              /\ \A k \in S : i < k => Cardinality({j \in S : j <= i})
                                         < Cardinality({j \in S : j <= k})
  <1> SUFFICES ASSUME NEW i \in S
               PROVE  /\ Cardinality({j \in S : j <= i}) \in 1 .. i
                      /\ \A k \in S : i < k => Cardinality({j \in S : j <= i})
                                                 < Cardinality({j \in S : j <= k})
    OBVIOUS
  <1> DEFINE upto(k) == {j \in S : j <= k}
  <1>0. \A j \in S : j \in Nat /\ j >= 1
    OBVIOUS
  <1>1. ASSUME NEW k \in S
        PROVE  IsFiniteSet(upto(k)) /\ Cardinality(upto(k)) \in Nat /\ Cardinality(upto(k)) <= k
    <2>1. IsFiniteSet(1 .. k) /\ Cardinality(1 .. k) = k
      BY FS_Interval
    <2>2. ASSUME NEW j \in upto(k) PROVE j \in 1 .. k
      <3>1. j \in Nat /\ j >= 1 /\ j <= k /\ k \in Nat
        BY <1>0
      <3> QED BY <3>1
    <2>3. IsFiniteSet(upto(k)) /\ Cardinality(upto(k)) <= k
      BY <2>1, <2>2, FS_Subset
    <2> QED BY <2>3, FS_CardinalityType
  <1>2. Cardinality(upto(i)) # 0
    <2>1. i \in upto(i)
      OBVIOUS
    <2> QED BY <1>1, <2>1, FS_EmptySet
  <1>3. ASSUME NEW k \in S, i < k PROVE Cardinality(upto(i)) < Cardinality(upto(k))
    <2>0. i \in Nat /\ k \in Nat
      BY <1>0
    <2>1. upto(i) \in SUBSET upto(k) /\ k \in upto(k) /\ k \notin upto(i)
      <3>1. ASSUME NEW m \in upto(i) PROVE m \in upto(k)
        <4>1. m \in Nat /\ m \in S /\ m <= i
          BY <1>0
        <4>2. m <= k
          BY <1>3, <2>0, <4>1
        <4> QED BY <4>1, <4>2
      <3>2. k <= k /\ ~(k <= i)
        BY <1>3, <2>0
      <3> QED BY <3>1, <3>2
    <2>2. Cardinality(upto(i)) <= Cardinality(upto(k))
          /\ Cardinality(upto(k)) # Cardinality(upto(i))
      BY <1>1, <2>1, FS_Subset
    <2> QED BY <1>1, <2>2
  <1> QED BY <1>1, <1>2, <1>3

\* What a caller's record holds.
LEMMA CallerFields ==
    ASSUME NEW r \in Caller
    PROVE  /\ r.pc \in {"idle", "stamped", "flushing", "blocked", "synced"}
           /\ r.pc = "idle" <=> r = Idle
           /\ r.pc = "stamped" => /\ r.timestamp \in Timestamps
                                  /\ r.event \in Events
                                  /\ r.correlation_id \in Correlations
           /\ r.pc \in {"flushing", "blocked", "synced"} =>
                  /\ r.target \in Nat
                  /\ \A p \in {"flushing", "blocked", "synced"} :
                         /\ [r EXCEPT !.pc = p] \in Caller
                         /\ [r EXCEPT !.pc = p].pc = p
                         /\ [r EXCEPT !.pc = p].target = r.target
  BY DEF Caller, Idle

------------------------------------------------------------------------------
(* Types.                                                                   *)

LEMMA JournalTypeInit == JournalInit => JournalTypeOK
  BY JournalAssumption DEF JournalInit, JournalTypeOK, Caller, Timestamps

\* The ids of the rows are bounded by the number of entries, so that the table
\* has a last one.
LEMMA LastId ==
    ASSUME JournalTypeOK, RowsAreEntries
    PROVE  /\ last_id \in Nat
           /\ \A row \in journal : row.id <= last_id
           /\ journal # {} => \E row \in journal : row.id = last_id
           /\ journal = {} => last_id = 0
  <1>1. CASE journal = {}
    BY <1>1 DEF last_id
  <1>2. CASE journal # {}
    <2> DEFINE ids == {row.id : row \in journal}
    <2>1. Len(accepted) \in Nat /\ Len(write_queue_) \in Nat /\ Len(batch) \in Nat
      BY DEF JournalTypeOK
    <2>2. ids \in SUBSET Nat /\ ids # {} /\ \A x \in ids : x <= Len(accepted)
      BY <1>2, <2>1 DEF JournalTypeOK, Row, RowsAreEntries, done, taken
    <2>3. Max(ids) \in ids /\ \A x \in ids : x <= Max(ids)
      <3> HIDE DEF ids
      <3> QED BY <2>1, <2>2, MaxOfNats
    <2>4. last_id = Max(ids)
      BY <1>2 DEF last_id
    <2> QED BY <1>2, <2>2, <2>3, <2>4
  <1> QED BY <1>1, <1>2

\* A caller's record after a notification.
LEMMA NotifyOneTypes ==
    ASSUME JournalTypeOK, NEW t \in Threads, NEW c \in Caller, notify_one(t, c),
           caller[t].pc = "stamped"
    PROVE  /\ writer' \in {"running", "waiting", "committing", "counting", "exited"}
           /\ caller' \in [Threads -> Caller]
  <1>0. caller \in [Threads -> Caller]
    BY DEF JournalTypeOK
  <1>1. CASE caller' = [caller EXCEPT ![t] = c] /\ (writer' = "running" \/ UNCHANGED writer)
    BY <1>0, <1>1 DEF JournalTypeOK
  <1>2. ASSUME NEW f \in Blocked, UNCHANGED writer,
               caller' = [caller EXCEPT ![t] = c, ![f].pc = "flushing"]
        PROVE  /\ writer' \in {"running", "waiting", "committing", "counting", "exited"}
               /\ caller' \in [Threads -> Caller]
    <2>1. f \in Threads /\ caller[f].pc = "blocked" /\ f # t
      BY DEF Blocked
    <2>2. [caller[f] EXCEPT !.pc = "flushing"] \in Caller
      BY <1>0, <2>1, CallerFields
    <2>3. caller' = [caller EXCEPT ![t] = c, ![f] = [caller[f] EXCEPT !.pc = "flushing"]]
      BY <1>0, <1>2, <2>1
    <2> QED BY <1>0, <1>2, <2>1, <2>2, <2>3 DEF JournalTypeOK
  <1> QED BY <1>1, <1>2 DEF notify_one

\* All waiting flush() calls are woken.
LEMMA WakeTypes ==
    ASSUME JournalTypeOK
    PROVE  [t \in Threads |->
               IF t \in Blocked THEN [caller[t] EXCEPT !.pc = "flushing"] ELSE caller[t]]
               \in [Threads -> Caller]
  <1>1. ASSUME NEW t \in Threads, t \in Blocked
        PROVE  [caller[t] EXCEPT !.pc = "flushing"] \in Caller
    <2>1. caller[t] \in Caller /\ caller[t].pc = "blocked"
      BY <1>1 DEF JournalTypeOK, Blocked
    <2> QED BY <2>1, CallerFields
  <1> QED BY <1>1 DEF JournalTypeOK

LEMMA JournalTypeStep ==
    ASSUME JournalTypeOK, RowsAreEntries, PromisesKept, JournalNext
    PROVE  JournalTypeOK'
  <1>0. /\ caller \in [Threads -> Caller]
        /\ MaxClock \in Nat /\ MaxCrashes \in Nat
        /\ Len(accepted) \in Nat
        /\ Loggers \subseteq Threads
    BY JournalAssumption DEF JournalTypeOK
  <1> USE DEF disk, history
  <1>1. ASSUME NEW t \in Loggers, NEW now \in Timestamps, NEW event \in Events,
               NEW correlation \in Correlations, Stamp(t, now, event, correlation)
        PROVE  JournalTypeOK'
    <2>1. [pc |-> "stamped", timestamp |-> now, event |-> event,
           correlation_id |-> correlation] \in Caller
      BY DEF Caller
    <2>2. caller' \in [Threads -> Caller]
      BY <1>0, <1>1, <2>1 DEF Stamp
    <2> QED BY <1>1, <2>2 DEF Stamp, JournalTypeOK
  <1>2. ASSUME NEW t \in Threads, log(t) PROVE JournalTypeOK'
    <2>1. caller[t] \in Caller /\ caller[t].pc = "stamped" /\ Idle \in Caller
      BY <1>0, <1>2 DEF log, Caller
    <2>2. CASE Len(write_queue_) >= MAX_QUEUE_DEPTH /\ caller' = [caller EXCEPT ![t] = Idle]
               /\ UNCHANGED <<write_queue_, pushed_, writer, accepted>>
      BY <1>0, <1>2, <2>1, <2>2 DEF log, JournalTypeOK
    <2>3. CASE /\ write_queue_' = Append(write_queue_, pending(t))
               /\ accepted' = Append(accepted, pending(t))
               /\ pushed_' = pushed_ + 1
               /\ notify_one(t, Idle)
      <3>1. pending(t) \in PendingEntry
        <4>1. /\ caller[t].timestamp \in Timestamps
              /\ caller[t].event \in Events
              /\ caller[t].correlation_id \in Correlations
          BY <2>1, CallerFields
        <4> QED BY <1>0, <4>1 DEF pending, PendingEntry
      <3>2. /\ write_queue_' \in Seq(PendingEntry)
            /\ accepted' \in Seq(PendingEntry)
            /\ Len(accepted') = Len(accepted) + 1
            /\ pushed_' \in Nat
        BY <2>3, <3>1 DEF JournalTypeOK
      <3>3. /\ writer' \in {"running", "waiting", "committing", "counting", "exited"}
            /\ caller' \in [Threads -> Caller]
        BY <2>1, <2>3, NotifyOneTypes
      <3>4. flushed' \in 0 .. Len(accepted')
        BY <1>0, <1>2, <3>2 DEF log, JournalTypeOK
      <3> QED BY <1>2, <3>2, <3>3, <3>4 DEF log, JournalTypeOK
    <2> QED BY <1>2, <2>2, <2>3 DEF log
  <1>3. ASSUME NEW t \in Threads, BeginFlush(t),
               phase' \in {"open", "flushing", "stopping", "closed"}
        PROVE  JournalTypeOK'
    <2>1. [pc |-> "flushing", target |-> Len(accepted)] \in Caller
      BY <1>0 DEF Caller
    <2>2. caller' \in [Threads -> Caller]
      BY <1>0, <1>3, <2>1 DEF BeginFlush
    <2> QED BY <1>3, <2>2 DEF BeginFlush, JournalTypeOK
  <1>4. ASSUME NEW t \in Threads, TestCommitted(t) PROVE JournalTypeOK'
    <2> DEFINE p == IF committed_ >= pushed_ THEN "synced" ELSE "blocked"
    <2>1. p \in {"flushing", "blocked", "synced"}
      OBVIOUS
    <2>2. [caller[t] EXCEPT !.pc = p] \in Caller
      BY <1>0, <1>4, <2>1, CallerFields DEF TestCommitted
    <2>3. caller' = [caller EXCEPT ![t] = [caller[t] EXCEPT !.pc = p]]
      BY <1>0, <1>4 DEF TestCommitted
    <2> HIDE DEF p
    <2>4. caller' \in [Threads -> Caller]
      BY <1>0, <2>2, <2>3
    <2> QED BY <1>4, <2>4, SMTT(30) DEF TestCommitted, JournalTypeOK
  <1>5. ASSUME NEW t \in Threads, ReturnFlush(t) PROVE JournalTypeOK'
    <2>1. caller[t].target \in Nat /\ caller[t].target <= Len(accepted)
      BY <1>0, <1>5, CallerFields DEF ReturnFlush, PromisesKept
    <2>2. flushed' \in 0 .. Len(accepted)
      <3>1. flushed' = Max({flushed, caller[t].target}) \/ flushed' = flushed
        BY <1>5 DEF ReturnFlush
      <3>2. flushed \in 0 .. Len(accepted)
        BY DEF JournalTypeOK
      <3>3. Max({flushed, caller[t].target}) \in 0 .. Len(accepted)
        BY <1>0, <2>1, <3>2, MaxOfTwo
      <3> QED BY <3>1, <3>2, <3>3
    <2>3. caller' \in [Threads -> Caller]
      BY <1>0, <1>5 DEF ReturnFlush, Caller
    <2> QED BY <1>5, <2>2, <2>3 DEF ReturnFlush, wal_checkpoint, JournalTypeOK
  <1>6. CASE AwaitEntries \/ BatchInterval \/ LeaveLoop
    BY <1>6 DEF AwaitEntries, BatchInterval, LeaveLoop, writerUnchanged, JournalTypeOK
  <1>7. CASE TakeBatch
    <2> DEFINE size == Min({Len(write_queue_), BATCH_SIZE})
    <2>1. write_queue_ \in Seq(PendingEntry) /\ Len(write_queue_) \in Nat
      BY DEF JournalTypeOK
    <2>2. size \in Nat /\ size <= Len(write_queue_)
      BY <2>1, MinOfTwo, JournalAssumption
    <2>3. /\ batch' = SubSeq(write_queue_, 1, size)
          /\ write_queue_' = SubSeq(write_queue_, size + 1, Len(write_queue_))
      BY <1>7 DEF TakeBatch
    <2> HIDE DEF size
    <2>4. batch' \in Seq(PendingEntry) /\ write_queue_' \in Seq(PendingEntry)
      BY <2>1, <2>2, <2>3
    <2> QED BY <1>7, <2>4 DEF TakeBatch, writerUnchanged, JournalTypeOK
  <1>8. CASE commit_batch
    <2>1. PICK failing \in SUBSET DOMAIN batch :
             /\ journal' = journal \cup
                    {RowOf(batch[i], last_id + Cardinality({j \in Inserted(failing) : j <= i})) :
                        i \in Inserted(failing)}
             /\ failed' = failed \cup {batch[i].data : i \in failing}
      BY <1>8 DEF commit_batch
    <2>2. batch \in Seq(PendingEntry) /\ Len(batch) \in Nat /\ DOMAIN batch = 1 .. Len(batch)
      BY DEF JournalTypeOK
    <2>3. Inserted(failing) \in SUBSET (1 .. Len(batch))
      BY <2>2 DEF Inserted
    <2>4. ASSUME NEW i \in Inserted(failing)
          PROVE  RowOf(batch[i], last_id + Cardinality({j \in Inserted(failing) : j <= i})) \in Row
      <3>1. batch[i] \in PendingEntry
        BY <2>2, <2>3
      <3>2. last_id + Cardinality({j \in Inserted(failing) : j <= i}) \in Nat
        <4>1. Cardinality({j \in Inserted(failing) : j <= i}) \in 1 .. i
          BY <2>2, <2>3, RankGrows
        <4>2. i \in Nat /\ last_id \in Nat
          BY <2>3, LastId
        <4> QED BY <4>1, <4>2
      <3>3. event_to_string(batch[i].event) \in EventNames \cup {"UNKNOWN"}
        BY DEF event_to_string
      <3> QED BY <3>1, <3>2, <3>3 DEF RowOf, Row, PendingEntry
    <2>5. journal' \subseteq Row /\ durable \subseteq journal'
      BY <2>1, <2>4 DEF JournalTypeOK
    <2>6. failed' \subseteq Nat
      <3>1. ASSUME NEW i \in failing PROVE batch[i].data \in Nat
        <4>1. batch[i] \in PendingEntry
          BY <2>2
        <4> QED BY <4>1 DEF PendingEntry
      <3> QED BY <2>1, <3>1 DEF JournalTypeOK
    <2> QED BY <1>8, <2>5, <2>6 DEF commit_batch, writerUnchanged, JournalTypeOK
  <1>9. CASE CountBatch
    <2>1. caller' \in [Threads -> Caller]
      BY <1>9, WakeTypes DEF CountBatch
    <2>2. committed_' \in Nat /\ batch' \in Seq(PendingEntry)
      BY <1>9 DEF CountBatch, JournalTypeOK
    <2> QED BY <1>9, <2>1, <2>2 DEF CountBatch, JournalTypeOK
  <1>10. CASE RequestStop
    <2>1. caller' \in [Threads -> Caller]
      BY <1>10, WakeTypes DEF RequestStop, notify_all
    <2> QED BY <1>10, <2>1 DEF RequestStop, notify_all, JournalTypeOK
  <1>11. CASE Close
    <2>1. flushed' \in 0 .. Len(accepted)
      BY <1>0, <1>11 DEF Close, JournalTypeOK
    <2> QED BY <1>11, <2>1 DEF Close, wal_checkpoint, JournalTypeOK
  <1>12. ASSUME NEW kept \in SUBSET journal, durable' \subseteq kept, Restart(kept)
         PROVE  JournalTypeOK'
    <2>1. /\ caller' \in [Threads -> Caller]
          /\ write_queue_' \in Seq(PendingEntry) /\ batch' \in Seq(PendingEntry)
      BY <1>12 DEF Restart, Caller
    <2>2. crashes' \in 0 .. MaxCrashes
      BY <1>0, <1>12 DEF Restart, JournalTypeOK
    <2>3. lost' \subseteq Nat
      <3>1. flushed \in Nat /\ lost \subseteq Nat
        BY <1>0 DEF JournalTypeOK
      <3>2. \A n \in flushed + 1 .. Len(accepted) : n \in Nat
        BY <1>0, <3>1
      <3> QED BY <1>12, <3>1, <3>2 DEF Restart
    <2> QED BY <1>12, <2>1, <2>2, <2>3 DEF Restart, JournalTypeOK
  <1>13. CASE Kill
    BY <1>12, <1>13 DEF Kill, JournalTypeOK
  <1>14. CASE PowerLoss
    BY <1>12, <1>14 DEF PowerLoss
  <1> QED BY <1>0, <1>1, <1>2, <1>3, <1>4, <1>5, <1>6, <1>7, <1>8, <1>9, <1>10, <1>11, <1>13, <1>14
          DEF JournalNext, CallerStep, flush, BeginDestruction, writer_loop, JournalTypeOK

------------------------------------------------------------------------------
(* The queue, the batch and the counters.                                   *)

LEMMA Lengths ==
    ASSUME JournalTypeOK
    PROVE  /\ Len(accepted) \in Nat /\ DOMAIN accepted = 1 .. Len(accepted)
           /\ Len(write_queue_) \in Nat /\ DOMAIN write_queue_ = 1 .. Len(write_queue_)
           /\ Len(batch) \in Nat /\ DOMAIN batch = 1 .. Len(batch)
           /\ (batch = <<>> <=> Len(batch) = 0)
           /\ (write_queue_ = <<>> <=> Len(write_queue_) = 0)
           /\ pushed_ \in Nat /\ committed_ \in Nat
           /\ taken \in Int /\ done \in Int
  BY DEF JournalTypeOK, taken, done

QueueVars == <<accepted, write_queue_, batch, pushed_, committed_>>

\* A step accepts an entry, moves entries on, forgets all of them in a crash, or
\* leaves queue, batch and counters alone.
LEMMA QueueSteps ==
    ASSUME JournalTypeOK, JournalNext
    PROVE  \/ \E t \in Threads : log(t) /\ accepted' = Append(accepted, pending(t))
           \/ TakeBatch
           \/ CountBatch
           \/ \E kept \in SUBSET journal : durable \subseteq kept /\ Restart(kept)
           \/ /\ UNCHANGED QueueVars
              /\ writer \in {"committing", "counting"} <=> writer' \in {"committing", "counting"}
              /\ commit_batch \/ (/\ UNCHANGED <<journal, failed, lost>>
                                  /\ writer = "committing" <=> writer' = "committing")
  <1> DEFINE Same == /\ UNCHANGED QueueVars
                     /\ writer \in {"committing", "counting"}
                           <=> writer' \in {"committing", "counting"}
                     /\ UNCHANGED <<journal, failed, lost>>
                     /\ writer = "committing" <=> writer' = "committing"
  <1> USE DEF disk, history, QueueVars
  <1>1. ASSUME NEW t \in Loggers, NEW now, NEW event, NEW correlation,
               Stamp(t, now, event, correlation)
        PROVE  Same
    BY <1>1 DEF Stamp
  <1>2. ASSUME NEW t \in Threads, log(t), accepted' # Append(accepted, pending(t))
        PROVE  Same
    BY <1>2 DEF log
  <1>3. ASSUME NEW t \in Threads, BeginFlush(t) \/ TestCommitted(t) PROVE Same
    BY <1>3 DEF BeginFlush, TestCommitted
  <1>4. ASSUME NEW t \in Threads, ReturnFlush(t) PROVE Same
    BY <1>4 DEF ReturnFlush, wal_checkpoint
  <1>5. CASE AwaitEntries \/ BatchInterval \/ LeaveLoop
    BY <1>5 DEF AwaitEntries, BatchInterval, LeaveLoop, writerUnchanged
  <1>6. CASE commit_batch
    BY <1>6 DEF commit_batch, writerUnchanged
  <1>7. CASE RequestStop
    BY <1>7 DEF RequestStop, notify_all
  <1>8. CASE Close
    BY <1>8 DEF Close, wal_checkpoint
  <1>9. CASE Kill \/ PowerLoss
    BY <1>9 DEF Kill, PowerLoss, JournalTypeOK
  <1> HIDE DEF disk, history, QueueVars
  <1>10. CASE Same
    BY <1>10
  <1> HIDE DEF Same
  <1> QED BY <1>1, <1>2, <1>3, <1>4, <1>5, <1>6, <1>7, <1>8, <1>9, <1>10
          DEF JournalNext, CallerStep, flush, BeginDestruction, writer_loop

\* What TakeBatch moves.
LEMMA Batching ==
    ASSUME JournalTypeOK, TakeBatch
    PROVE  \E size \in 1 .. Len(write_queue_) :
              /\ batch' = SubSeq(write_queue_, 1, size)
              /\ Len(batch') = size
              /\ \A i \in 1 .. size : batch'[i] = write_queue_[i]
              /\ write_queue_' = SubSeq(write_queue_, size + 1, Len(write_queue_))
              /\ Len(write_queue_') = Len(write_queue_) - size
              /\ \A i \in 1 .. Len(write_queue_) - size :
                     write_queue_'[i] = write_queue_[size + i]
              /\ UNCHANGED <<accepted, pushed_, committed_, journal, failed, lost>>
              /\ writer = "running" /\ writer' = "committing"
  <1> DEFINE size == Min({Len(write_queue_), BATCH_SIZE})
  <1>1. write_queue_ \in Seq(PendingEntry) /\ Len(write_queue_) \in Nat /\ Len(write_queue_) # 0
    BY DEF TakeBatch, JournalTypeOK
  <1>2. size \in 1 .. Len(write_queue_)
    BY <1>1, MinOfTwo, JournalAssumption
  <1>3. /\ batch' = SubSeq(write_queue_, 1, size)
        /\ write_queue_' = SubSeq(write_queue_, size + 1, Len(write_queue_))
        /\ UNCHANGED <<accepted, pushed_, committed_, journal, failed, lost>>
        /\ writer = "running" /\ writer' = "committing"
    BY DEF TakeBatch, writerUnchanged, disk
  <1> HIDE DEF size
  <1>4. /\ Len(batch') = size
        /\ \A i \in 1 .. size : batch'[i] = write_queue_[i]
        /\ Len(write_queue_') = Len(write_queue_) - size
        /\ \A i \in 1 .. Len(write_queue_) - size : write_queue_'[i] = write_queue_[size + i]
    BY <1>1, <1>2, <1>3
  <1> QED BY <1>2, <1>3, <1>4

LEMMA QueueStep ==
    ASSUME JournalInv, JournalNext
    PROVE  QueueHoldsTheNewest' /\ CountersMatch'
  <1>0. /\ JournalTypeOK /\ QueueHoldsTheNewest /\ CountersMatch
        /\ Len(accepted) \in Nat /\ DOMAIN accepted = 1 .. Len(accepted)
        /\ Len(write_queue_) \in Nat /\ DOMAIN write_queue_ = 1 .. Len(write_queue_)
        /\ Len(batch) \in Nat /\ DOMAIN batch = 1 .. Len(batch)
        /\ (batch = <<>> <=> Len(batch) = 0)
        /\ pushed_ \in Nat /\ committed_ \in Nat
    BY Lengths DEF JournalInv
  <1>1. ASSUME NEW t \in Threads, log(t), accepted' = Append(accepted, pending(t))
        PROVE  QueueHoldsTheNewest' /\ CountersMatch'
    <2>1. /\ write_queue_' = Append(write_queue_, pending(t)) /\ pushed_' = pushed_ + 1
          /\ UNCHANGED <<batch, committed_>>
          /\ writer' = writer \/ (writer = "waiting" /\ writer' = "running")
      <3>1. accepted' # accepted
        <4>1. Len(accepted') = Len(accepted) + 1
          BY <1>0, <1>1 DEF JournalTypeOK
        <4> QED BY <1>0, <4>1
      <3>2. /\ write_queue_' = Append(write_queue_, pending(t)) /\ pushed_' = pushed_ + 1
            /\ notify_one(t, Idle)
            /\ UNCHANGED <<batch, committed_>>
        BY <1>1, <3>1 DEF log
      <3>3. writer' = writer \/ (writer = "waiting" /\ writer' = "running")
        BY <3>2 DEF notify_one
      <3> QED BY <3>2, <3>3
    <2>2. /\ Len(accepted') = Len(accepted) + 1
          /\ accepted'[Len(accepted) + 1] = pending(t)
          /\ \A n \in 1 .. Len(accepted) : accepted'[n] = accepted[n]
          /\ DOMAIN accepted' = 1 .. Len(accepted) + 1
      BY <1>0, <1>1 DEF JournalTypeOK
    <2>3. /\ Len(write_queue_') = Len(write_queue_) + 1
          /\ write_queue_'[Len(write_queue_) + 1] = pending(t)
          /\ \A n \in 1 .. Len(write_queue_) : write_queue_'[n] = write_queue_[n]
          /\ DOMAIN write_queue_' = 1 .. Len(write_queue_) + 1
      BY <1>0, <2>1 DEF JournalTypeOK
    <2>4. taken' = taken
      BY <1>0, <2>2, <2>3 DEF taken
    <2>5. \A n \in DOMAIN accepted' : accepted'[n].data = n
      BY <1>0, <2>2 DEF QueueHoldsTheNewest, pending
    <2>10. taken \in Nat /\ taken + Len(write_queue_) = Len(accepted) /\ Len(batch) <= taken
      BY <1>0 DEF QueueHoldsTheNewest, taken
    <2>6. ASSUME NEW i \in DOMAIN write_queue_' PROVE write_queue_'[i] = accepted'[taken + i]
      <3>1. CASE i \in 1 .. Len(write_queue_)
        <4>1. taken + i \in 1 .. Len(accepted)
          BY <1>0, <2>10, <3>1
        <4>2. write_queue_[i] = accepted[taken + i]
          BY <1>0, <3>1 DEF QueueHoldsTheNewest
        <4> QED BY <2>2, <2>3, <3>1, <4>1, <4>2
      <3>2. CASE i = Len(write_queue_) + 1
        <4>1. taken + i = Len(accepted) + 1
          BY <1>0, <2>10, <3>2
        <4> QED BY <2>2, <2>3, <3>2, <4>1
      <3> QED BY <1>0, <2>3, <3>1, <3>2
    <2>7. ASSUME NEW i \in DOMAIN batch' PROVE batch'[i] = accepted'[taken - Len(batch) + i]
      <3>1. i \in 1 .. Len(batch) /\ batch'[i] = batch[i]
        BY <1>0, <2>1
      <3>2. taken - Len(batch) + i \in 1 .. Len(accepted)
        BY <1>0, <2>10, <3>1
      <3>3. batch[i] = accepted[taken - Len(batch) + i]
        BY <1>0, <3>1 DEF QueueHoldsTheNewest
      <3> QED BY <2>2, <3>1, <3>2, <3>3
    <2>8. CountersMatch'
      BY <1>0, <2>1, <2>3 DEF CountersMatch
    <2>9. Len(batch') + Len(write_queue_') <= Len(accepted')
      BY <1>0, <2>1, <2>2, <2>3 DEF QueueHoldsTheNewest
    <2>11. QueueHoldsTheNewest'
      BY <2>1, <2>4, <2>5, <2>6, <2>7, <2>9 DEF QueueHoldsTheNewest
    <2> QED BY <2>8, <2>11
  <1>2. CASE TakeBatch
    <2>1. PICK size \in 1 .. Len(write_queue_) :
              /\ Len(batch') = size
              /\ \A i \in 1 .. size : batch'[i] = write_queue_[i]
              /\ Len(write_queue_') = Len(write_queue_) - size
              /\ \A i \in 1 .. Len(write_queue_) - size :
                     write_queue_'[i] = write_queue_[size + i]
              /\ UNCHANGED <<accepted, pushed_, committed_>>
              /\ writer = "running" /\ writer' = "committing"
      BY <1>0, <1>2, Batching
    <2>2. DOMAIN batch' = 1 .. size /\ DOMAIN write_queue_' = 1 .. Len(write_queue_) - size
      BY <1>0, <1>2, Batching, <2>1 DEF JournalTypeOK
    <2>3. batch = <<>> /\ Len(batch) = 0 /\ batch' # <<>>
      BY <1>0, <2>1 DEF CountersMatch
    <2>4. taken' = taken + size
      BY <1>0, <2>1 DEF taken
    <2>9. taken \in Int /\ size \in Nat
      BY <1>0 DEF taken
    <2>5. ASSUME NEW i \in 1 .. Len(write_queue_) - size
          PROVE  write_queue_'[i] = accepted[taken' + i]
      <3>1. size + i \in 1 .. Len(write_queue_) /\ taken + (size + i) = taken' + i
        BY <1>0, <2>1, <2>4, <2>9
      <3>2. write_queue_[size + i] = accepted[taken + (size + i)]
        BY <1>0, <3>1 DEF QueueHoldsTheNewest
      <3> QED BY <2>1, <3>1, <3>2
    <2>6. ASSUME NEW i \in 1 .. size PROVE batch'[i] = accepted[taken' - size + i]
      <3>1. i \in 1 .. Len(write_queue_) /\ taken + i = taken' - size + i
        BY <1>0, <2>1, <2>4, <2>9
      <3>2. write_queue_[i] = accepted[taken + i]
        BY <1>0, <3>1 DEF QueueHoldsTheNewest
      <3> QED BY <2>1, <3>1, <3>2
    <2>7. QueueHoldsTheNewest'
      BY <1>0, <2>1, <2>2, <2>3, <2>5, <2>6 DEF QueueHoldsTheNewest
    <2>8. CountersMatch'
      BY <1>0, <2>1, <2>3 DEF CountersMatch
    <2> QED BY <2>7, <2>8
  <1>3. CASE CountBatch
    <2>1. /\ committed_' = committed_ + Len(batch)
          /\ batch' = <<>> /\ writer' = "running"
          /\ UNCHANGED <<write_queue_, pushed_, accepted>>
      BY <1>3 DEF CountBatch, history
    <2>2. Len(batch') = 0 /\ DOMAIN batch' = {}
      BY <2>1
    <2>3. taken' = taken
      BY <2>1 DEF taken
    <2>4. CountersMatch'
      BY <1>0, <2>1, <2>2 DEF CountersMatch
    <2> QED BY <1>0, <2>1, <2>2, <2>3, <2>4 DEF QueueHoldsTheNewest
  <1>4. ASSUME NEW kept, Restart(kept) PROVE QueueHoldsTheNewest' /\ CountersMatch'
    <2>1. /\ write_queue_' = <<>> /\ batch' = <<>> /\ pushed_' = 0 /\ committed_' = 0
          /\ writer' = "running" /\ UNCHANGED accepted
      BY <1>4 DEF Restart
    <2>2. Len(batch') = 0 /\ DOMAIN batch' = {} /\ Len(write_queue_') = 0 /\ DOMAIN write_queue_' = {}
      BY <2>1
    <2> QED BY <1>0, <2>1, <2>2 DEF QueueHoldsTheNewest, CountersMatch
  <1>5. CASE /\ UNCHANGED QueueVars
             /\ writer \in {"committing", "counting"} <=> writer' \in {"committing", "counting"}
    BY <1>0, <1>5 DEF QueueVars, QueueHoldsTheNewest, CountersMatch, taken
  <1> QED BY <1>0, <1>1, <1>2, <1>3, <1>4, <1>5, QueueSteps

------------------------------------------------------------------------------
(* The rows and their order.                                                *)

\* Rows that a step leaves alone stay rows of entries when nothing is forgotten.
LEMMA RowsStay ==
    ASSUME JournalInv, NEW kept \in SUBSET journal, journal' = kept,
           done' \in Int, done' >= done,
           \A n \in 1 .. done : accepted'[n] = accepted[n]
    PROVE  RowsAreEntries' /\ HistoryInLogOrder'
  <1>1. done \in Int
    BY Lengths DEF JournalInv
  <1>2. ASSUME NEW row \in journal'
        PROVE  /\ row.data \in 1 .. done'
               /\ row.id \in 0 .. row.data
               /\ row.timestamp = accepted'[row.data].timestamp
               /\ row.event_type = event_to_string(accepted'[row.data].event)
    <2>1. /\ row.data \in 1 .. done
          /\ row.id \in 0 .. row.data
          /\ row.timestamp = accepted[row.data].timestamp
          /\ row.event_type = event_to_string(accepted[row.data].event)
      BY DEF JournalInv, RowsAreEntries
    <2>2. row.data \in 1 .. done'
      BY <1>1, <2>1
    <2> QED BY <2>1, <2>2
  <1>3. RowsAreEntries'
    BY <1>2 DEF RowsAreEntries, event_to_string
  <1>4. HistoryInLogOrder'
    BY DEF JournalInv, HistoryInLogOrder
  <1> QED BY <1>3, <1>4

\* The rows a transaction adds: their data are the numbers that follow those of
\* the rows there are, and their ids grow with them.
LEMMA NewRows ==
    ASSUME JournalInv, writer = "committing", NEW failing \in SUBSET DOMAIN batch,
           NEW i \in Inserted(failing),
           NEW row, row = RowOf(batch[i],
                              last_id + Cardinality({j \in Inserted(failing) : j <= i}))
    PROVE  /\ i \in 1 .. Len(batch)
           /\ row.data = done + i
           /\ done \in Nat /\ done + i \in 1 .. taken
           /\ row.id \in last_id + 1 .. row.data
           /\ row.timestamp = accepted[row.data].timestamp
           /\ row.event_type = event_to_string(accepted[row.data].event)
           /\ row.correlation_id = accepted[row.data].correlation_id
  <1>0. /\ JournalTypeOK /\ QueueHoldsTheNewest
        /\ Len(accepted) \in Nat /\ DOMAIN accepted = 1 .. Len(accepted)
        /\ Len(write_queue_) \in Nat
        /\ Len(batch) \in Nat /\ DOMAIN batch = 1 .. Len(batch)
    BY Lengths DEF JournalInv
  <1>1. /\ done = taken - Len(batch) /\ done \in Nat
        /\ taken \in Nat /\ taken <= Len(accepted)
    BY <1>0 DEF done, taken, QueueHoldsTheNewest
  <1>2. Inserted(failing) \in SUBSET (1 .. Len(batch))
    BY <1>0 DEF Inserted
  <1>3. /\ i \in 1 .. Len(batch) /\ done + i \in 1 .. taken
        /\ done + i \in DOMAIN accepted
    BY <1>0, <1>1, <1>2
  <1>4. batch[i] = accepted[done + i]
    BY <1>0, <1>1, <1>3 DEF QueueHoldsTheNewest
  <1>5. row.data = done + i
    BY <1>0, <1>3, <1>4 DEF RowOf, QueueHoldsTheNewest
  <1>6. last_id \in Nat /\ last_id <= done
    <2>1. last_id \in Nat
      BY LastId DEF JournalInv
    <2>2. CASE journal = {}
      BY <1>1, <2>2, LastId DEF JournalInv
    <2>3. CASE journal # {}
      <3>1. PICK r \in journal : r.id = last_id
        BY <2>3, LastId DEF JournalInv
      <3>2. r.data \in 1 .. done /\ r.id \in 0 .. r.data
        BY DEF JournalInv, RowsAreEntries
      <3> QED BY <1>1, <2>1, <3>1, <3>2
    <2> QED BY <2>1, <2>2, <2>3
  <1>7. Cardinality({j \in Inserted(failing) : j <= i}) \in 1 .. i
    BY <1>0, <1>2, RankGrows
  <1>8. row.id = last_id + Cardinality({j \in Inserted(failing) : j <= i})
    BY DEF RowOf
  <1>9. row.id \in last_id + 1 .. row.data
    BY <1>1, <1>3, <1>5, <1>6, <1>7, <1>8
  <1>10. /\ row.timestamp = accepted[row.data].timestamp
         /\ row.event_type = event_to_string(accepted[row.data].event)
         /\ row.correlation_id = accepted[row.data].correlation_id
    BY <1>4, <1>5 DEF RowOf
  <1> QED BY <1>1, <1>3, <1>5, <1>9, <1>10

LEMMA CommitRows ==
    ASSUME JournalInv, commit_batch
    PROVE  RowsAreEntries' /\ HistoryInLogOrder'
  <1>1. writer = "committing" /\ writer' = "counting" /\ UNCHANGED <<accepted, write_queue_, batch>>
    BY DEF commit_batch, writerUnchanged
  <1>2. PICK failing \in SUBSET DOMAIN batch :
            journal' = journal \cup
                {RowOf(batch[i], last_id + Cardinality({j \in Inserted(failing) : j <= i})) :
                    i \in Inserted(failing)}
    BY DEF commit_batch
  <1> DEFINE rank(i) == Cardinality({j \in Inserted(failing) : j <= i})
             new(i) == RowOf(batch[i], last_id + rank(i))
  <1>3. ASSUME NEW i \in Inserted(failing)
        PROVE  /\ i \in 1 .. Len(batch)
               /\ new(i).data = done + i
               /\ done \in Nat /\ done + i \in 1 .. taken
               /\ new(i).id \in last_id + 1 .. new(i).data
               /\ new(i).timestamp = accepted[new(i).data].timestamp
               /\ new(i).event_type = event_to_string(accepted[new(i).data].event)
    BY <1>1, NewRows
  <1>4. taken' = taken /\ done' = taken
    BY <1>1 DEF done, taken
  <1>5. taken \in Int /\ done \in Int /\ done <= taken /\ Len(batch) \in Nat
    BY <1>1, Lengths DEF JournalInv, done
  <1>6. ASSUME NEW row \in journal
        PROVE  /\ row.data \in 1 .. done
               /\ row.id \in 0 .. row.data /\ row.id <= last_id
               /\ row.timestamp = accepted[row.data].timestamp
               /\ row.event_type = event_to_string(accepted[row.data].event)
    BY LastId DEF JournalInv, RowsAreEntries
  <1>7. last_id \in Nat
    BY LastId DEF JournalInv
  <1>8. \A row \in journal' : row \in journal \/ \E i \in Inserted(failing) : row = new(i)
    BY <1>2
  <1>9. ASSUME NEW i \in Inserted(failing), NEW k \in Inserted(failing)
        PROVE  new(i).id < new(k).id <=> new(i).data < new(k).data
    <2>1. Inserted(failing) \in SUBSET (1 .. Len(batch))
      BY <1>3
    <2>2. rank(i) \in 1 .. i /\ rank(k) \in 1 .. k /\ (i < k => rank(i) < rank(k))
          /\ (k < i => rank(k) < rank(i))
      BY <1>5, <2>1, RankGrows
    <2>3. new(i).id = last_id + rank(i) /\ new(k).id = last_id + rank(k)
      BY DEF RowOf
    <2>4. new(i).data = done + i /\ new(k).data = done + k /\ i \in Nat /\ k \in Nat
      <3>1. new(i).data = done + i /\ new(k).data = done + k
        BY <1>3
      <3>2. i \in Nat /\ k \in Nat
        BY <1>5, <2>1
      <3> QED BY <3>1, <3>2
    <2>5. i = k => rank(i) = rank(k)
      OBVIOUS
    <2> HIDE DEF rank, new
    <2> QED BY <1>5, <1>7, <2>2, <2>3, <2>4, <2>5
  <1> HIDE DEF new
  <1>10. RowsAreEntries'
    <2> SUFFICES ASSUME NEW row \in journal'
                 PROVE  /\ row.data \in 1 .. taken
                        /\ row.id \in 0 .. row.data
                        /\ row.timestamp = accepted[row.data].timestamp
                        /\ row.event_type = event_to_string(accepted[row.data].event)
      BY <1>1, <1>4 DEF RowsAreEntries, event_to_string
    <2>1. CASE row \in journal
      BY <1>5, <1>6, <2>1
    <2>2. ASSUME NEW i \in Inserted(failing), row = new(i)
          PROVE  /\ row.data \in 1 .. taken
                 /\ row.id \in 0 .. row.data
                 /\ row.timestamp = accepted[row.data].timestamp
                 /\ row.event_type = event_to_string(accepted[row.data].event)
      <3>1. row.data \in 1 .. taken
        BY <1>3, <2>2
      <3>2. row.id \in 0 .. row.data
        BY <1>3, <1>7, <2>2
      <3> QED BY <1>3, <2>2, <3>1, <3>2
    <2> QED BY <1>8, <2>1, <2>2
  <1>11. HistoryInLogOrder'
    <2> SUFFICES ASSUME NEW r1 \in journal', NEW r2 \in journal'
                 PROVE  r1.id < r2.id <=> r1.data < r2.data
      BY DEF HistoryInLogOrder
    <2>1. CASE r1 \in journal /\ r2 \in journal
      BY <2>1 DEF JournalInv, HistoryInLogOrder
    <2>2. ASSUME NEW row \in journal, NEW i \in Inserted(failing)
          PROVE  /\ row.id < new(i).id /\ ~(new(i).id < row.id)
                 /\ row.data < new(i).data /\ ~(new(i).data < row.data)
      <3>1. /\ row.data \in Nat /\ row.id \in Nat /\ row.data <= done /\ row.id <= last_id
        BY <1>5, <1>6
      <3>2. /\ new(i).data \in Nat /\ new(i).id \in Nat
            /\ new(i).data > done /\ new(i).id > last_id
        BY <1>3, <1>5, <1>7
      <3> QED BY <1>5, <1>7, <3>1, <3>2
    <2> QED BY <1>8, <1>9, <2>1, <2>2
  <1> QED BY <1>10, <1>11

\* A step commits a batch, restarts the journal, or keeps what has been through a
\* transaction as it is.
LEMMA DoneSteps ==
    ASSUME JournalInv, JournalNext
    PROVE  \/ commit_batch
           \/ \E kept \in SUBSET journal : durable \subseteq kept /\ Restart(kept)
           \/ /\ done' = done
              /\ UNCHANGED <<journal, failed, lost>>
              /\ Len(accepted') >= Len(accepted)
              /\ \A n \in 1 .. Len(accepted) : accepted'[n] = accepted[n]
  <1> DEFINE Kept == /\ done' = done
                     /\ UNCHANGED <<journal, failed, lost>>
                     /\ Len(accepted') >= Len(accepted)
                     /\ \A n \in 1 .. Len(accepted) : accepted'[n] = accepted[n]
  <1>0. /\ JournalTypeOK
        /\ Len(accepted) \in Nat /\ Len(write_queue_) \in Nat /\ Len(batch) \in Nat
    BY Lengths DEF JournalInv
  <1>1. ASSUME NEW t \in Threads, log(t), accepted' = Append(accepted, pending(t))
        PROVE  Kept
    <2>1. Len(accepted') = Len(accepted) + 1
          /\ \A n \in 1 .. Len(accepted) : accepted'[n] = accepted[n]
      BY <1>0, <1>1 DEF JournalTypeOK
    <2>2. accepted' # accepted
      BY <1>0, <2>1
    <2>3. /\ write_queue_' = Append(write_queue_, pending(t))
          /\ UNCHANGED <<batch, journal, failed, lost>>
          /\ notify_one(t, Idle)
      BY <1>1, <2>2 DEF log, disk
    <2>4. Len(write_queue_') = Len(write_queue_) + 1
      BY <1>0, <2>3 DEF JournalTypeOK
    <2>5. writer = "committing" <=> writer' = "committing"
      BY <2>3 DEF notify_one
    <2>6. done' = done
      BY <1>0, <2>1, <2>3, <2>4, <2>5 DEF done, taken
    <2> QED BY <1>0, <2>1, <2>3, <2>6
  <1>2. ASSUME TakeBatch PROVE Kept
    <2>1. PICK size \in 1 .. Len(write_queue_) :
              /\ Len(batch') = size
              /\ Len(write_queue_') = Len(write_queue_) - size
              /\ UNCHANGED <<accepted, journal, failed, lost>>
              /\ writer = "running" /\ writer' = "committing"
      BY <1>0, <1>2, Batching
    <2>2. done' = done
      BY <1>0, <2>1 DEF done, taken
    <2> QED BY <1>0, <2>1, <2>2
  <1>3. ASSUME CountBatch PROVE Kept
    <2>1. /\ writer = "counting" /\ writer' = "running"
          /\ UNCHANGED <<write_queue_, accepted, journal, failed, lost>>
      BY <1>3 DEF CountBatch, history, disk
    <2>2. done' = done
      BY <2>1 DEF done, taken
    <2> QED BY <1>0, <2>1, <2>2
  <1>4. ASSUME UNCHANGED QueueVars, UNCHANGED <<journal, failed, lost>>,
               writer = "committing" <=> writer' = "committing"
        PROVE  Kept
    BY <1>0, <1>4 DEF done, taken, QueueVars
  <1> HIDE DEF Kept
  <1>5. \/ commit_batch
        \/ \E kept \in SUBSET journal : durable \subseteq kept /\ Restart(kept)
        \/ Kept
    <2>1. \/ \E t \in Threads : log(t) /\ accepted' = Append(accepted, pending(t))
          \/ TakeBatch \/ CountBatch \/ commit_batch
          \/ \E kept \in SUBSET journal : durable \subseteq kept /\ Restart(kept)
          \/ /\ UNCHANGED QueueVars
             /\ UNCHANGED <<journal, failed, lost>>
             /\ writer = "committing" <=> writer' = "committing"
      BY <1>0, QueueSteps
    <2> QED BY <1>1, <1>2, <1>3, <1>4, <2>1
  <1> QED BY <1>5 DEF Kept

LEMMA RowsStep ==
    ASSUME JournalInv, JournalNext
    PROVE  RowsAreEntries' /\ HistoryInLogOrder'
  <1>0. /\ Len(accepted) \in Nat /\ done \in Int /\ done <= Len(accepted)
    BY Lengths DEF JournalInv, QueueHoldsTheNewest, done, taken
  <1>1. ASSUME NEW kept \in SUBSET journal, Restart(kept)
        PROVE  RowsAreEntries' /\ HistoryInLogOrder'
    <2>1. /\ write_queue_' = <<>> /\ writer' = "running" /\ UNCHANGED accepted
          /\ journal' = kept
      BY <1>1 DEF Restart
    <2>2. done' = Len(accepted)
      BY <1>0, <2>1 DEF done, taken
    <2> QED BY <1>0, <2>1, <2>2, RowsStay
  <1>2. CASE /\ done' = done /\ UNCHANGED journal
             /\ \A n \in 1 .. Len(accepted) : accepted'[n] = accepted[n]
    <2>1. \A n \in 1 .. done : accepted'[n] = accepted[n]
      BY <1>0, <1>2
    <2> QED BY <1>0, <1>2, <2>1, RowsStay
  <1> QED BY <1>1, <1>2, CommitRows, DoneSteps

------------------------------------------------------------------------------
(* The callers.                                                             *)

\* What a step can do to one caller.
CallerChange(u) ==
    \/ caller'[u] = caller[u]
    \/ caller'[u] = Idle
    \/ /\ caller[u].pc = "blocked"
       /\ caller'[u].pc = "flushing" /\ caller'[u].target = caller[u].target
    \/ caller[u] = Idle /\ phase = "open" /\ phase' = "open" /\ caller'[u].pc = "stamped"
    \/ /\ caller[u] = Idle /\ phase = "open" /\ phase' \in {"open", "flushing"}
       /\ caller'[u].pc = "flushing" /\ caller'[u].target = Len(accepted)
    \/ /\ TestCommitted(u) /\ caller[u].pc = "flushing"
       /\ caller'[u].target = caller[u].target
       /\ caller'[u].pc = IF committed_ >= pushed_ THEN "synced" ELSE "blocked"

LEMMA CallerChanges ==
    ASSUME JournalTypeOK, JournalNext, NEW u \in Threads
    PROVE  CallerChange(u)
  <1>0. caller \in [Threads -> Caller] /\ caller[u] \in Caller /\ Loggers \subseteq Threads
    BY JournalAssumption DEF JournalTypeOK
  <1>1. ASSUME NEW t \in Loggers, NEW now, NEW event, NEW correlation,
               Stamp(t, now, event, correlation)
        PROVE  CallerChange(u)
    BY <1>0, <1>1 DEF Stamp, CallerChange
  <1>2. ASSUME NEW t \in Threads, log(t) PROVE CallerChange(u)
    <2>1. caller[t].pc = "stamped"
      BY <1>2 DEF log
    <2>2. CASE caller' = [caller EXCEPT ![t] = Idle]
      BY <1>0, <2>2 DEF CallerChange
    <2>3. ASSUME NEW f \in Blocked, caller' = [caller EXCEPT ![t] = Idle, ![f].pc = "flushing"]
          PROVE  CallerChange(u)
      <3>1. f \in Threads /\ caller[f].pc = "blocked" /\ f # t
        BY <2>1 DEF Blocked
      <3>2. caller[f] \in Caller
        BY <1>0, <3>1
      <3>3. CASE u = f
        <4>1. caller'[u] = [caller[f] EXCEPT !.pc = "flushing"]
          BY <1>0, <2>3, <3>1, <3>3
        <4>2. caller'[u].pc = "flushing" /\ caller'[u].target = caller[f].target
          BY <3>1, <3>2, <4>1, CallerFields
        <4> QED BY <3>1, <3>3, <4>2 DEF CallerChange
      <3>4. CASE u # f
        BY <1>0, <2>3, <3>1, <3>4 DEF CallerChange
      <3> QED BY <3>3, <3>4
    <2> QED BY <1>2, <2>2, <2>3 DEF log, notify_one
  <1>3. ASSUME NEW t \in Threads, BeginFlush(t), phase = "open", phase' \in {"open", "flushing"}
        PROVE  CallerChange(u)
    BY <1>0, <1>3 DEF BeginFlush, CallerChange
  <1>4. ASSUME NEW t \in Threads, TestCommitted(t) PROVE CallerChange(u)
    <2>1. CASE u = t
      <3> DEFINE p == IF committed_ >= pushed_ THEN "synced" ELSE "blocked"
      <3>1. caller'[u] = [caller[u] EXCEPT !.pc = p] /\ caller[u].pc = "flushing"
        BY <1>0, <1>4, <2>1 DEF TestCommitted
      <3>2. p \in {"flushing", "blocked", "synced"}
        OBVIOUS
      <3>3. caller'[u].pc = p /\ caller'[u].target = caller[u].target
        <4> HIDE DEF p
        <4> QED BY <1>0, <3>1, <3>2, CallerFields
      <3> QED BY <1>4, <2>1, <3>1, <3>3 DEF CallerChange
    <2>2. CASE u # t
      BY <1>0, <1>4, <2>2 DEF TestCommitted, CallerChange
    <2> QED BY <2>1, <2>2
  <1>5. ASSUME NEW t \in Threads, ReturnFlush(t) PROVE CallerChange(u)
    BY <1>0, <1>5 DEF ReturnFlush, CallerChange
  <1>6. CASE AwaitEntries \/ BatchInterval \/ LeaveLoop \/ TakeBatch \/ commit_batch \/ Close
    BY <1>6 DEF AwaitEntries, BatchInterval, LeaveLoop, TakeBatch, commit_batch, Close,
                writerUnchanged, CallerChange
  <1>7. CASE caller' = [t \in Threads |-> IF t \in Blocked
                                          THEN [caller[t] EXCEPT !.pc = "flushing"]
                                          ELSE caller[t]]
    <2>1. CASE u \in Blocked
      <3>1. caller[u].pc = "blocked" /\ caller'[u] = [caller[u] EXCEPT !.pc = "flushing"]
        BY <1>7, <2>1 DEF Blocked
      <3>2. caller'[u].pc = "flushing" /\ caller'[u].target = caller[u].target
        BY <1>0, <3>1, CallerFields
      <3> QED BY <3>1, <3>2 DEF CallerChange
    <2>2. CASE u \notin Blocked
      BY <1>7, <2>2 DEF CallerChange
    <2> QED BY <2>1, <2>2
  <1>8. CASE CountBatch \/ RequestStop
    BY <1>7, <1>8 DEF CountBatch, RequestStop, notify_all
  <1>9. CASE Kill \/ PowerLoss
    BY <1>9 DEF Kill, PowerLoss, Restart, CallerChange
  <1> QED BY <1>0, <1>1, <1>2, <1>3, <1>4, <1>5, <1>6, <1>8, <1>9
          DEF JournalNext, CallerStep, flush, BeginDestruction, writer_loop

\* Whoever waits, waits for something.
LEMMA WaitersStep ==
    ASSUME JournalInv, JournalNext
    PROVE  WaitersHaveReason'
  <1>0. /\ JournalTypeOK /\ CountersMatch /\ WaitersHaveReason /\ DestructorWaits
        /\ Len(accepted) \in Nat /\ Len(write_queue_) \in Nat /\ Len(batch) \in Nat
        /\ (batch = <<>> <=> Len(batch) = 0)
        /\ (write_queue_ = <<>> <=> Len(write_queue_) = 0)
        /\ pushed_ \in Nat /\ committed_ \in Nat
    BY Lengths DEF JournalInv
  <1>1. Blocked' # {} => committed_' < pushed_'
    <2> SUFFICES ASSUME NEW u \in Threads, caller'[u].pc = "blocked"
                 PROVE  committed_' < pushed_'
      BY DEF Blocked
    <2>1. \/ caller[u].pc = "blocked" /\ caller'[u] = caller[u]
          \/ TestCommitted(u) /\ ~(committed_ >= pushed_)
      BY <1>0, CallerChanges DEF CallerChange, Idle
    <2>2. CASE TestCommitted(u) /\ ~(committed_ >= pushed_)
      BY <1>0, <2>2 DEF TestCommitted
    <2>3. CASE caller[u].pc = "blocked" /\ caller'[u] = caller[u]
      <3>1. committed_ < pushed_
        BY <1>0, <2>3 DEF WaitersHaveReason, Blocked
      <3>2. ASSUME NEW t \in Threads, log(t) PROVE committed_' < pushed_'
        BY <1>0, <3>1, <3>2 DEF log
      <3>3. CASE TakeBatch
        BY <3>1, <3>3 DEF TakeBatch, writerUnchanged
      <3>4. CASE CountBatch
        <4>1. caller'[u] = [caller[u] EXCEPT !.pc = "flushing"] /\ caller[u] \in Caller
          BY <1>0, <2>3, <3>4 DEF CountBatch, Blocked, JournalTypeOK
        <4>2. caller'[u].pc = "flushing"
          BY <2>3, <4>1, CallerFields
        <4> QED BY <2>3, <4>2
      <3>5. ASSUME NEW kept, Restart(kept) PROVE FALSE
        BY <2>3, <3>5 DEF Restart, Idle
      <3>6. CASE UNCHANGED QueueVars
        BY <3>1, <3>6 DEF QueueVars
      <3> QED BY <1>0, <3>2, <3>3, <3>4, <3>5, <3>6, QueueSteps
    <2> QED BY <2>1, <2>2, <2>3
  <1>2. writer' = "waiting" => write_queue_' = <<>>
    <2> SUFFICES ASSUME writer' = "waiting" PROVE write_queue_' = <<>>
      OBVIOUS
    <2>1. CASE writer = "waiting"
      <3>1. write_queue_ = <<>> /\ committed_ = pushed_ /\ Blocked = {}
        BY <1>0, <2>1 DEF WaitersHaveReason, CountersMatch
      <3>2. ASSUME NEW t \in Threads, log(t), accepted' = Append(accepted, pending(t))
            PROVE  FALSE
        <4>1. accepted' # accepted
          <5>1. Len(accepted') = Len(accepted) + 1
            BY <1>0, <3>2 DEF JournalTypeOK
          <5> QED BY <1>0, <5>1
        <4>2. notify_one(t, Idle)
          BY <3>2, <4>1 DEF log
        <4> QED BY <2>1, <3>1, <4>2 DEF notify_one
      <3>3. CASE TakeBatch \/ CountBatch
        BY <2>1, <3>3 DEF TakeBatch, CountBatch
      <3>4. ASSUME NEW kept, Restart(kept) PROVE FALSE
        BY <3>4 DEF Restart
      <3>5. CASE UNCHANGED QueueVars
        BY <3>1, <3>5 DEF QueueVars
      <3> QED BY <1>0, <3>2, <3>3, <3>4, <3>5, QueueSteps
    <2>2. CASE writer # "waiting"
      <3>1. ~UNCHANGED writer
        BY <2>2
      <3>2. ASSUME NEW t \in Threads, log(t) PROVE FALSE
        BY <3>1, <3>2 DEF log, notify_one
      <3>3. ASSUME NEW t \in Threads, BeginFlush(t) \/ TestCommitted(t) \/ ReturnFlush(t)
            PROVE  FALSE
        BY <3>1, <3>3 DEF BeginFlush, TestCommitted, ReturnFlush
      <3>4. ASSUME NEW t, NEW now, NEW event, NEW correlation, Stamp(t, now, event, correlation)
            PROVE  FALSE
        BY <3>1, <3>4 DEF Stamp
      <3>5. CASE AwaitEntries
        BY <3>5 DEF AwaitEntries
      <3>6. CASE BatchInterval \/ LeaveLoop \/ TakeBatch \/ commit_batch \/ CountBatch
        BY <3>6 DEF BatchInterval, LeaveLoop, TakeBatch, commit_batch, CountBatch
      <3>7. CASE RequestStop \/ Close
        BY <3>1, <3>7 DEF RequestStop, notify_all, Close
      <3>8. CASE Kill \/ PowerLoss
        BY <3>8 DEF Kill, PowerLoss, Restart
      <3> QED BY <3>2, <3>3, <3>4, <3>5, <3>6, <3>7, <3>8
              DEF JournalNext, CallerStep, flush, BeginDestruction, writer_loop
    <2> QED BY <2>1, <2>2
  <1> QED BY <1>1, <1>2 DEF WaitersHaveReason

\* The destructor has the journal for itself.
LEMMA DestructorStep ==
    ASSUME JournalInv, JournalNext
    PROVE  DestructorWaits'
  <1>0. JournalTypeOK /\ DestructorWaits /\ Loggers \subseteq Threads
    BY JournalAssumption DEF JournalInv
  <1>1. phase' # "open" => Stamped' = {}
    <2> SUFFICES ASSUME phase' # "open", NEW u \in Threads, caller'[u].pc = "stamped"
                 PROVE  FALSE
      BY DEF Stamped
    <2>1. caller'[u] = caller[u]
      BY <1>0, CallerChanges DEF CallerChange, Idle
    <2>2. phase = "open"
      BY <1>0, <2>1 DEF DestructorWaits, Stamped
    <2>3. \E t \in Threads : BeginDestruction(t)
      BY <2>2 DEF JournalNext, Stamp, CallerStep, log, TestCommitted, ReturnFlush, flush,
                  writer_loop, AwaitEntries, TakeBatch, commit_batch, CountBatch, LeaveLoop,
                  BatchInterval, writerUnchanged, RequestStop, Close, Kill, PowerLoss, Restart
    <2> QED BY <2>1, <2>3 DEF BeginDestruction, Idle
  <1>2. phase' \in {"stopping", "closed"} => \A t \in Threads : caller'[t] = Idle
    <2> SUFFICES ASSUME phase' \in {"stopping", "closed"}, NEW u \in Threads
                 PROVE  caller'[u] = Idle
      OBVIOUS
    <2>1. CASE phase \in {"stopping", "closed"}
      <3>1. caller[u] = Idle
        BY <1>0, <2>1 DEF DestructorWaits
      <3> QED BY <1>0, <2>1, <3>1, CallerChanges DEF CallerChange, Idle, TestCommitted
    <2>2. CASE phase \notin {"stopping", "closed"}
      <3>1. RequestStop
        BY <2>2 DEF JournalNext, Stamp, CallerStep, log, TestCommitted, ReturnFlush, flush,
                  BeginDestruction, writer_loop, AwaitEntries, TakeBatch, commit_batch, CountBatch,
                  LeaveLoop, BatchInterval, writerUnchanged, Close, Kill, PowerLoss, Restart
      <3> QED BY <3>1 DEF RequestStop, notify_all, Blocked, Idle
    <2> QED BY <2>1, <2>2
  <1>3. writer' = "exited" => write_queue_' = <<>> /\ phase' \in {"stopping", "closed"}
    <2> SUFFICES ASSUME writer' = "exited"
                 PROVE  write_queue_' = <<>> /\ phase' \in {"stopping", "closed"}
      OBVIOUS
    <2>1. CASE writer = "exited"
      <3>1. /\ write_queue_ = <<>> /\ phase \in {"stopping", "closed"}
            /\ \A t \in Threads : caller[t] = Idle
        BY <1>0, <2>1 DEF DestructorWaits
      <3>2. ASSUME NEW t \in Threads, CallerStep(t) \/ flush(t) \/ BeginDestruction(t) PROVE FALSE
        BY <3>1, <3>2 DEF CallerStep, log, TestCommitted, ReturnFlush, flush, BeginDestruction, Idle
      <3>3. ASSUME NEW t, NEW now, NEW event, NEW correlation, Stamp(t, now, event, correlation)
            PROVE  FALSE
        BY <3>1, <3>3 DEF Stamp
      <3>4. CASE writer_loop \/ BatchInterval \/ Kill \/ PowerLoss
        BY <2>1, <3>4 DEF writer_loop, AwaitEntries, TakeBatch, commit_batch, CountBatch, LeaveLoop,
                          BatchInterval, Kill, PowerLoss, Restart
      <3>5. CASE RequestStop \/ Close
        BY <3>1, <3>5 DEF RequestStop, Close
      <3> QED BY <3>2, <3>3, <3>4, <3>5 DEF JournalNext
    <2>2. CASE writer # "exited"
      <3>1. LeaveLoop
        BY <2>2 DEF JournalNext, Stamp, CallerStep, log, notify_one, TestCommitted, ReturnFlush,
                  flush, BeginFlush, BeginDestruction, writer_loop, AwaitEntries, TakeBatch,
                  commit_batch, CountBatch, BatchInterval, RequestStop, notify_all, Close, Kill,
                  PowerLoss, Restart
      <3> QED BY <3>1 DEF LeaveLoop, writerUnchanged
    <2> QED BY <2>1, <2>2
  <1> QED BY <1>1, <1>2, <1>3 DEF DestructorWaits

------------------------------------------------------------------------------
(* The promises of flush().                                                 *)

\* An entry that is recorded stays so while rows are only added.
LEMMA StaysRecorded ==
    ASSUME NEW rows, NEW more, rows \subseteq more, NEW n, Recorded(rows, n),
           accepted'[n] = accepted[n], failed \subseteq failed', lost \subseteq lost'
    PROVE  \/ n \in failed' \cup lost'
           \/ \E row \in more : row.data = n \/ Conflicts(row, accepted'[n])
  BY DEF Recorded, RecordedIn

\* A conflict does not depend on the id of the row, and passes on.
LEMMA ConflictsPassOn ==
    ASSUME NEW row, NEW entry, NEW other, NEW id,
           Conflicts(RowOf(entry, id), other)
    PROVE  /\ Conflicts(row, entry) => Conflicts(row, other)
           /\ \A k : Conflicts(RowOf(entry, k), other)
  BY DEF Conflicts, RowOf

\* After the transaction every entry of the batch has failed, has a row, or is
\* excluded by one: of the entries of the batch that would exclude it and did
\* not fail, the first has a row or is itself excluded by one of the table.
LEMMA CommitRecords ==
    ASSUME JournalInv, commit_batch, NEW n \in done + 1 .. taken
    PROVE  Recorded(journal, n)'
  <1>0. /\ JournalTypeOK /\ QueueHoldsTheNewest /\ writer = "committing"
        /\ Len(batch) \in Nat /\ DOMAIN batch = 1 .. Len(batch)
        /\ Len(accepted) \in Nat /\ DOMAIN accepted = 1 .. Len(accepted)
        /\ Len(write_queue_) \in Nat
        /\ UNCHANGED <<accepted, lost>>
    BY Lengths DEF JournalInv, commit_batch, writerUnchanged
  <1>1. PICK failing \in SUBSET DOMAIN batch :
          /\ journal' = journal \cup
                {RowOf(batch[i], last_id + Cardinality({j \in Inserted(failing) : j <= i})) :
                    i \in Inserted(failing)}
          /\ failed' = failed \cup {batch[i].data : i \in failing}
    BY DEF commit_batch
  <1> DEFINE id(i) == last_id + Cardinality({j \in Inserted(failing) : j <= i})
             k == n - done
  <1>2. \A i \in Inserted(failing) : RowOf(batch[i], id(i)) \in journal'
    BY <1>1
  <1> HIDE DEF id
  <1>3. /\ k \in 1 .. Len(batch) /\ batch[k] = accepted[n] /\ batch[k].data = n
        /\ n \in DOMAIN accepted
    <2>1. done = taken - Len(batch) /\ done \in Nat /\ taken \in Nat /\ taken <= Len(accepted)
      BY <1>0 DEF done, taken, QueueHoldsTheNewest
    <2>2. k \in 1 .. Len(batch) /\ taken - Len(batch) + k = n /\ n \in 1 .. Len(accepted)
      BY <1>0, <2>1
    <2>3. batch[k] = accepted[taken - Len(batch) + k]
      BY <1>0, <2>2 DEF QueueHoldsTheNewest
    <2> QED BY <1>0, <2>2, <2>3 DEF QueueHoldsTheNewest
  <1> HIDE DEF k
  <1>4. SUFFICES n \in failed' \/ \E row \in journal' : row.data = n \/ Conflicts(row, batch[k])
    BY <1>0, <1>3 DEF Recorded, RecordedIn
  <1>5. CASE k \in failing
    BY <1>1, <1>3, <1>5
  <1>6. CASE k \in Inserted(failing)
    <2>1. RowOf(batch[k], id(k)).data = n
      BY <1>3 DEF RowOf
    <2> QED BY <1>2, <1>6, <2>1
  <1>7. CASE k \notin failing /\ k \notin Inserted(failing)
    <2>1. CASE \E row \in journal : Conflicts(row, batch[k])
      BY <1>1, <2>1
    <2>2. CASE ~ \E row \in journal : Conflicts(row, batch[k])
      <3> DEFINE C == {j \in 1 .. Len(batch) :
                          j \notin failing /\ Conflicts(RowOf(batch[j], 0), batch[k])}
      <3>1. C \in SUBSET Nat /\ C # {}
        <4>1. PICK j \in 1 .. k - 1 : j \notin failing /\ Conflicts(RowOf(batch[j], 0), batch[k])
          BY <1>0, <1>3, <1>7, <2>2 DEF Inserted
        <4>2. j \in 1 .. Len(batch)
          BY <1>0, <1>3
        <4> QED BY <4>1, <4>2
      <3>2. PICK j \in C : \A i \in C : ~(i < j)
        <4> HIDE DEF C
        <4> QED BY <3>1, FirstOfNats
      <3>3. j \in 1 .. Len(batch) /\ j \notin failing /\ Conflicts(RowOf(batch[j], 0), batch[k])
        OBVIOUS
      <3>4. ASSUME NEW row \in journal PROVE ~Conflicts(row, batch[j])
        BY <2>2, <3>3, ConflictsPassOn
      <3>5. ASSUME NEW i \in 1 .. j - 1, i \notin failing
            PROVE  ~Conflicts(RowOf(batch[i], 0), batch[j])
        <4>1. i \in 1 .. Len(batch) /\ i < j
          BY <1>0, <3>3
        <4>2. ~Conflicts(RowOf(batch[i], 0), batch[k])
          BY <3>2, <3>5, <4>1
        <4> QED BY <3>3, <4>2, ConflictsPassOn
      <3>6. j \in Inserted(failing)
        BY <1>0, <3>3, <3>4, <3>5 DEF Inserted
      <3>7. Conflicts(RowOf(batch[j], id(j)), batch[k])
        BY <3>3, ConflictsPassOn
      <3> QED BY <1>2, <3>6, <3>7
    <2> QED BY <2>1, <2>2
  <1> QED BY <1>5, <1>6, <1>7

LEMMA DoneIsRecorded ==
    ASSUME JournalInv, JournalNext
    PROVE  \A n \in 1 .. done' : Recorded(journal, n)'
  <1>0. /\ Len(accepted) \in Nat /\ done \in Int /\ done <= Len(accepted) /\ taken \in Int
        /\ flushed \in Nat /\ flushed <= Len(accepted)
        /\ PromisesKept
    BY Lengths DEF JournalInv, JournalTypeOK, QueueHoldsTheNewest, done, taken
  <1>1. CASE commit_batch
    <2>1. /\ writer' = "counting" /\ UNCHANGED <<accepted, write_queue_, batch, lost>>
          /\ failed \subseteq failed' /\ journal \subseteq journal'
      BY <1>1 DEF commit_batch, writerUnchanged
    <2>2. done' = taken
      BY <2>1 DEF done, taken
    <2>3. ASSUME NEW n \in 1 .. done PROVE Recorded(journal, n)'
      <3>1. Recorded(journal, n)
        BY <1>0 DEF PromisesKept
      <3> QED BY <2>1, <3>1, StaysRecorded DEF Recorded, RecordedIn
    <2>4. ASSUME NEW n \in done + 1 .. taken PROVE Recorded(journal, n)'
      BY <1>1, CommitRecords
    <2> QED BY <1>0, <2>2, <2>3, <2>4
  <1>2. ASSUME NEW kept \in SUBSET journal, durable \subseteq kept, Restart(kept)
        PROVE  \A n \in 1 .. done' : Recorded(journal, n)'
    <2>1. /\ write_queue_' = <<>> /\ writer' = "running" /\ UNCHANGED <<accepted, failed>>
          /\ journal' = kept
          /\ lost' = lost \cup {n \in flushed + 1 .. Len(accepted) : ~RecordedIn(kept, n)}
      BY <1>2 DEF Restart
    <2>2. done' = Len(accepted)
      BY <1>0, <2>1 DEF done, taken
    <2>3. ASSUME NEW n \in 1 .. flushed PROVE Recorded(journal, n)'
      <3>1. Recorded(durable, n)
        BY <1>0 DEF PromisesKept
      <3> QED BY <1>2, <2>1, <3>1, StaysRecorded DEF Recorded, RecordedIn
    <2>4. ASSUME NEW n \in flushed + 1 .. Len(accepted) PROVE Recorded(journal, n)'
      BY <2>1 DEF Recorded, RecordedIn
    <2> QED BY <1>0, <2>2, <2>3, <2>4
  <1>3. CASE /\ done' = done /\ UNCHANGED <<journal, failed, lost>>
             /\ \A n \in 1 .. Len(accepted) : accepted'[n] = accepted[n]
    <2>1. ASSUME NEW n \in 1 .. done PROVE Recorded(journal, n)'
      <3>1. Recorded(journal, n) /\ n \in 1 .. Len(accepted)
        BY <1>0 DEF PromisesKept
      <3> QED BY <1>3, <3>1, StaysRecorded DEF Recorded, RecordedIn
    <2> QED BY <1>3, <2>1
  <1> QED BY <1>1, <1>2, <1>3, DoneSteps

\* Rows and excuses are only added, except by a restart, which keeps what is durable.
LEMMA RecordsStay ==
    ASSUME JournalInv, JournalNext, NEW n \in 1 .. Len(accepted)
    PROVE  /\ Recorded(durable, n) => Recorded(durable, n)'
           /\ Recorded(journal, n) /\ (\E t \in Threads : caller'[t] # Idle)
                  => Recorded(journal, n)'
           /\ Len(accepted') >= Len(accepted)
  <1>0. Len(accepted) \in Nat /\ JournalTypeOK
    BY Lengths DEF JournalInv
  <1>1. /\ accepted'[n] = accepted[n] /\ Len(accepted') >= Len(accepted)
        /\ failed \subseteq failed' /\ lost \subseteq lost'
        /\ (\E t \in Threads : caller'[t] # Idle) => journal \subseteq journal'
    <2>1. CASE commit_batch
      BY <1>0, <2>1 DEF commit_batch, writerUnchanged
    <2>2. ASSUME NEW kept, Restart(kept)
          PROVE  /\ UNCHANGED <<accepted, failed>> /\ lost \subseteq lost'
                 /\ \A t \in Threads : caller'[t] = Idle
      BY <2>2 DEF Restart
    <2> QED BY <1>0, <2>1, <2>2, DoneSteps
  <1>2. durable \subseteq durable'
    <2>1. ASSUME NEW t \in Threads, ReturnFlush(t) PROVE durable \subseteq durable'
      BY <1>0, <2>1 DEF ReturnFlush, wal_checkpoint, JournalTypeOK
    <2>2. CASE Close
      BY <1>0, <2>2 DEF Close, wal_checkpoint, JournalTypeOK
    <2>3. CASE Kill
      BY <2>3 DEF Kill
    <2>4. CASE PowerLoss
      BY <2>4 DEF PowerLoss
    <2> QED BY <2>1, <2>2, <2>3, <2>4
            DEF JournalNext, Stamp, CallerStep, log, TestCommitted, flush, BeginFlush,
                BeginDestruction, writer_loop, AwaitEntries, TakeBatch, commit_batch, CountBatch,
                LeaveLoop, BatchInterval, RequestStop, disk
  <1>3. Recorded(durable, n) => Recorded(durable, n)'
    BY <1>1, <1>2, StaysRecorded DEF Recorded, RecordedIn
  <1>4. Recorded(journal, n) /\ (\E t \in Threads : caller'[t] # Idle) => Recorded(journal, n)'
    BY <1>1, StaysRecorded DEF Recorded, RecordedIn
  <1> QED BY <1>1, <1>3, <1>4

LEMMA PromisesStep ==
    ASSUME JournalInv, JournalNext, JournalTypeOK'
    PROVE  PromisesKept'
  <1>0. /\ JournalTypeOK /\ PromisesKept /\ CountersMatch /\ DestructorWaits
        /\ Len(accepted) \in Nat /\ Len(accepted') \in Nat
        /\ Len(write_queue_) \in Nat /\ Len(batch) \in Nat
        /\ pushed_ \in Nat /\ committed_ \in Nat
        /\ caller \in [Threads -> Caller]
        /\ flushed \in Nat /\ flushed <= Len(accepted)
    <2>1. JournalTypeOK /\ PromisesKept /\ CountersMatch /\ DestructorWaits
      BY DEF JournalInv
    <2>2. Len(accepted') \in Nat
      BY DEF JournalTypeOK
    <2>3. caller \in [Threads -> Caller] /\ flushed \in 0 .. Len(accepted)
      BY <2>1 DEF JournalTypeOK
    <2> QED BY <2>1, <2>2, <2>3, Lengths
  <1>1. ASSUME NEW n \in 1 .. flushed' PROVE Recorded(durable, n)'
    <2>1. ASSUME n \in 1 .. flushed PROVE Recorded(durable, n)'
      <3>1. n \in 1 .. Len(accepted) /\ Recorded(durable, n)
        BY <1>0, <2>1 DEF PromisesKept
      <3> QED BY <3>1, RecordsStay
    <2>2. ASSUME NEW t \in Threads, ReturnFlush(t) PROVE Recorded(durable, n)'
      <3>1. /\ caller[t].pc = "synced" /\ UNCHANGED <<accepted, failed, lost, journal>>
            /\ \/ durable' = journal /\ flushed' = Max({flushed, caller[t].target})
               \/ flushed' = flushed
        BY <2>2 DEF ReturnFlush, wal_checkpoint
      <3>2. caller[t].target \in Nat
        <4>1. caller[t] \in Caller
          BY <1>0
        <4> QED BY <3>1, <4>1, CallerFields
      <3>3. n \in 1 .. flushed \/ (n \in 1 .. caller[t].target /\ durable' = journal)
        BY <1>0, <3>1, <3>2, MaxOfTwo
      <3>4. CASE n \in 1 .. caller[t].target /\ durable' = journal
        <4>1. Recorded(journal, n)
          BY <1>0, <3>1, <3>4 DEF PromisesKept
        <4> QED BY <3>1, <3>4, <4>1 DEF Recorded, RecordedIn
      <3> QED BY <2>1, <3>3, <3>4
    <2>3. CASE Close
      <3>1. /\ writer = "exited" /\ UNCHANGED <<accepted, failed, lost, journal>>
            /\ \/ durable' = journal /\ flushed' = Len(accepted)
               \/ flushed' = flushed
        BY <2>3 DEF Close, wal_checkpoint
      <3>2. write_queue_ = <<>>
        BY <1>0, <3>1 DEF DestructorWaits
      <3>3. done = Len(accepted)
        BY <1>0, <3>1, <3>2 DEF done, taken
      <3>4. CASE durable' = journal /\ flushed' = Len(accepted)
        <4>1. Recorded(journal, n)
          BY <1>0, <3>3, <3>4 DEF PromisesKept
        <4> QED BY <3>1, <3>4, <4>1 DEF Recorded, RecordedIn
      <3> QED BY <2>1, <3>1, <3>4
    <2>4. (\E t \in Threads : ReturnFlush(t)) \/ Close \/ UNCHANGED flushed
      BY DEF JournalNext, Stamp, CallerStep, log, TestCommitted, flush, BeginFlush,
             BeginDestruction, writer_loop, AwaitEntries, TakeBatch, commit_batch, CountBatch,
             LeaveLoop, BatchInterval, RequestStop, Kill, PowerLoss, Restart, writerUnchanged,
             history
    <2> QED BY <2>1, <2>2, <2>3, <2>4
  <1>2. flushed' <= Len(accepted')
    BY <1>0 DEF JournalTypeOK
  <1>3. Len(accepted') >= Len(accepted)
    <2>1. CASE Len(accepted) = 0
      BY <1>0, <2>1
    <2>2. CASE Len(accepted) # 0
      <3>1. 1 \in 1 .. Len(accepted)
        BY <1>0, <2>2
      <3> QED BY <3>1, RecordsStay
    <2> QED BY <2>1, <2>2
  <1>4. ASSUME NEW t \in Threads, caller'[t].pc \in {"flushing", "blocked", "synced"}
        PROVE  caller'[t].target <= Len(accepted')
    <2>1. \/ caller[t].pc \in {"flushing", "blocked", "synced"} /\ caller'[t].target = caller[t].target
          \/ caller'[t].target = Len(accepted)
      BY <1>0, <1>4, CallerChanges DEF CallerChange, Idle
    <2>2. CASE caller'[t].target = Len(accepted)
      BY <1>3, <2>2
    <2>3. CASE caller[t].pc \in {"flushing", "blocked", "synced"}
               /\ caller'[t].target = caller[t].target
      <3>1. caller[t].target \in Nat /\ caller[t].target <= Len(accepted)
        BY <1>0, <2>3, CallerFields DEF PromisesKept
      <3> QED BY <1>0, <1>3, <2>3, <3>1
    <2> QED BY <2>1, <2>2, <2>3
  <1>5. ASSUME NEW t \in Threads, caller'[t].pc = "synced", NEW n \in 1 .. caller'[t].target
        PROVE  Recorded(journal, n)'
    <2>1. \/ caller[t].pc = "synced" /\ caller'[t] = caller[t]
          \/ /\ TestCommitted(t) /\ caller[t].pc = "flushing"
             /\ caller'[t].target = caller[t].target /\ committed_ >= pushed_
      BY <1>0, <1>5, CallerChanges DEF CallerChange, Idle
    <2>2. caller[t].target \in Nat /\ caller[t].target <= Len(accepted)
      BY <1>0, <2>1, CallerFields DEF PromisesKept
    <2>3. n \in 1 .. caller[t].target /\ n \in 1 .. Len(accepted)
      BY <1>0, <2>1, <2>2
    <2>4. CASE caller[t].pc = "synced" /\ caller'[t] = caller[t]
      <3>1. Recorded(journal, n)
        BY <1>0, <2>3, <2>4 DEF PromisesKept
      <3>2. caller'[t] # Idle
        BY <1>5 DEF Idle
      <3> QED BY <2>3, <3>1, <3>2, RecordsStay
    <2>5. CASE TestCommitted(t) /\ committed_ >= pushed_
      <3>1. Len(write_queue_) = 0 /\ Len(batch) = 0
        BY <1>0, <2>5 DEF CountersMatch
      <3>2. done = Len(accepted)
        BY <1>0, <3>1 DEF done, taken
      <3>3. Recorded(journal, n)
        BY <1>0, <2>3, <3>2 DEF PromisesKept
      <3> QED BY <2>5, <3>3 DEF TestCommitted, disk, history, Recorded, RecordedIn
    <2> QED BY <2>1, <2>4, <2>5
  <1>6. \A n \in 1 .. done' : Recorded(journal, n)'
    BY DoneIsRecorded
  <1> QED BY <1>1, <1>2, <1>4, <1>5, <1>6 DEF PromisesKept

------------------------------------------------------------------------------
(* The invariant, and what follows from it.                                 *)

LEMMA JournalInvInit == JournalInit => JournalInv
  <1> SUFFICES ASSUME JournalInit PROVE JournalInv
    OBVIOUS
  <1>1. JournalTypeOK
    BY JournalTypeInit
  <1>2. /\ write_queue_ = <<>> /\ batch = <<>> /\ accepted = <<>> /\ journal = {} /\ durable = {}
        /\ pushed_ = 0 /\ committed_ = 0 /\ flushed = 0 /\ writer = "running" /\ phase = "open"
        /\ \A t \in Threads : caller[t] = Idle
    BY DEF JournalInit
  <1>3. Len(accepted) = 0 /\ Len(write_queue_) = 0 /\ Len(batch) = 0 /\ done = 0
        /\ DOMAIN accepted = {} /\ DOMAIN write_queue_ = {} /\ DOMAIN batch = {}
    BY <1>2 DEF done, taken
  <1>4. QueueHoldsTheNewest /\ CountersMatch
    BY <1>2, <1>3 DEF QueueHoldsTheNewest, CountersMatch
  <1>5. RowsAreEntries /\ HistoryInLogOrder
    BY <1>2 DEF RowsAreEntries, HistoryInLogOrder
  <1>6. WaitersHaveReason /\ DestructorWaits
    BY <1>2 DEF WaitersHaveReason, DestructorWaits, Blocked, Stamped, Idle
  <1>7. PromisesKept
    BY <1>2, <1>3 DEF PromisesKept, Idle
  <1> QED BY <1>1, <1>4, <1>5, <1>6, <1>7 DEF JournalInv

LEMMA JournalInvStep == JournalInv /\ [JournalNext]_journalVars => JournalInv'
  <1> SUFFICES ASSUME JournalInv, [JournalNext]_journalVars PROVE JournalInv'
    OBVIOUS
  <1>1. CASE JournalNext
    <2>1. JournalTypeOK'
      BY <1>1, JournalTypeStep DEF JournalInv
    <2>2. QueueHoldsTheNewest' /\ CountersMatch'
      BY <1>1, QueueStep
    <2>3. RowsAreEntries' /\ HistoryInLogOrder'
      BY <1>1, RowsStep
    <2>4. WaitersHaveReason' /\ DestructorWaits'
      BY <1>1, WaitersStep, DestructorStep
    <2>5. PromisesKept'
      BY <1>1, <2>1, PromisesStep
    <2> QED BY <2>1, <2>2, <2>3, <2>4, <2>5 DEF JournalInv
  <1>2. CASE UNCHANGED journalVars
    BY SMTT(30), <1>2
    DEF journalVars, memory, disk, history, JournalInv, JournalTypeOK, QueueHoldsTheNewest,
        CountersMatch, RowsAreEntries, WaitersHaveReason, PromisesKept, DestructorWaits,
        HistoryInLogOrder, done, taken, Blocked, Stamped, Recorded, RecordedIn
  <1> QED BY <1>1, <1>2

LEMMA JournalInvariance == JournalSpec => []JournalInv
  BY JournalInvInit, JournalInvStep, PTL DEF JournalSpec

\* The variables of the journal keep their types.
THEOREM JournalTypeCorrect == JournalSpec => []JournalTypeOK
  BY JournalInvariance, PTL DEF JournalInv

\* What flush() or the destructor has promised is on disk and stays there, for
\* any batches, any failing INSERTs, any kills and any losses of power.
THEOREM FlushKeepsItsPromise == JournalSpec => []FlushedIsDurable
  <1>1. JournalInv => FlushedIsDurable
    BY DEF JournalInv, PromisesKept, FlushedIsDurable
  <1> QED BY <1>1, JournalInvariance, PTL

\* The notification of log() reaches the writer, although it wakes one waiter
\* only and flush() waits on the same condition variable.
THEOREM WriterIsWoken == JournalSpec => []NoLostWakeup
  <1>1. JournalInv => NoLostWakeup
    <2> SUFFICES ASSUME JournalInv, writer = "waiting" PROVE write_queue_ = <<>> /\ Blocked = {}
      BY DEF NoLostWakeup
    <2>1. write_queue_ = <<>> /\ batch = <<>> /\ pushed_ = committed_ + Len(batch) + Len(write_queue_)
      BY DEF JournalInv, WaitersHaveReason, CountersMatch
    <2>2. committed_ \in Nat /\ pushed_ \in Nat
      BY DEF JournalInv, JournalTypeOK
    <2>3. pushed_ = committed_
      BY <2>1, <2>2
    <2> QED BY <2>1, <2>2, <2>3 DEF JournalInv, WaitersHaveReason
  <1> QED BY <1>1, JournalInvariance, PTL

\* ORDER BY id is the order of the calls of log(), over batches, ignored rows,
\* failed INSERTs and restarts.
THEOREM IdsFollowLogOrder == JournalSpec => []HistoryInLogOrder
  BY JournalInvariance, PTL DEF JournalInv

\* The conversion of a timestamp loses less than a second, downwards.
LEMMA TruncationRoundsDown ==
    ASSUME NEW stored \in Timestamps
    PROVE  string_to_timestamp(stored) \in Nat /\ string_to_timestamp(stored) <= stored
  BY JournalAssumption DEF string_to_timestamp, Timestamps

\* A reader that resumes from the truncated timestamp of any entry skips nothing.
THEOREM ResumedHistoryIsComplete == JournalSpec => []ResumingSkipsNothing
  <1>1. JournalInv => ResumingSkipsNothing
    <2> SUFFICES ASSUME JournalInv, NEW seen \in get_history(0, MaxClock, EventNames),
                        NEW row \in journal, row.timestamp >= accepted[seen.data].timestamp
                 PROVE  \E r \in get_history(seen.timestamp, MaxClock, EventNames) :
                            /\ r.data = row.data
                            /\ r.event_type = accepted[row.data].event
      BY DEF ResumingSkipsNothing
    <2>1. PICK first \in journal :
              /\ seen.timestamp = string_to_timestamp(first.timestamp)
              /\ seen.data = first.data
      BY DEF get_history
    <2>2. ASSUME NEW r \in journal
          PROVE  /\ r.timestamp \in Timestamps
                 /\ r.timestamp = accepted[r.data].timestamp
                 /\ accepted[r.data].event \in EventNames
                 /\ r.event_type = accepted[r.data].event
      <3>1. /\ r.data \in 1 .. done
            /\ r.timestamp = accepted[r.data].timestamp
            /\ r.event_type = event_to_string(accepted[r.data].event)
        BY DEF JournalInv, RowsAreEntries
      <3>2. r.data \in DOMAIN accepted
        BY <3>1, Lengths DEF JournalInv, done, taken
      <3>3. accepted[r.data] \in PendingEntry
        BY <3>2 DEF JournalInv, JournalTypeOK
      <3> QED BY <3>1, <3>3, EventAssumption DEF PendingEntry, event_to_string
    <2>3. row.timestamp \in seen.timestamp .. MaxClock
      <3>1. seen.timestamp \in Nat /\ seen.timestamp <= first.timestamp
        BY <2>1, <2>2, TruncationRoundsDown
      <3>2. /\ first.timestamp \in 0 .. MaxClock /\ row.timestamp \in 0 .. MaxClock
            /\ row.timestamp >= first.timestamp
        BY <2>1, <2>2 DEF Timestamps
      <3> QED BY <3>1, <3>2, JournalAssumption
    <2> DEFINE r == [id |-> row.id, timestamp |-> string_to_timestamp(row.timestamp),
                     event_type |-> event_from_string(row.event_type), data |-> row.data,
                     correlation_id |-> row.correlation_id]
    <2>4. r \in get_history(seen.timestamp, MaxClock, EventNames)
      BY <2>2, <2>3 DEF get_history
    <2>5. r.data = row.data /\ r.event_type = accepted[row.data].event
      BY <2>2 DEF event_from_string
    <2> QED BY <2>4, <2>5
  <1> QED BY <1>1, JournalInvariance, PTL
==============================================================================

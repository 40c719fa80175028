---------------------------- MODULE ServicesProofs ----------------------------
(***************************************************************************)
(* Theorems about the small services of the API: the background jobs that  *)
(* clean up sessions, the counters of the rate limiters, the round trip of *)
(* a sign-in with Google, and the stream of an upload.  They hold for any  *)
(* number of workers and sessions, clients and keys, tabs and              *)
(* transactions, for any batch size and any budget that BudgetAssumption   *)
(* allows, and for files of any length.                                    *)
(***************************************************************************)
EXTENDS CleanupJobs, RateLimits, GoogleSignIn, UploadStream,
        FiniteSetTheorems, TLAPS

-----------------------------------------------------------------------------
(* CleanupJobs: no worker deletes without its job's lock.                  *)

JobRecord == [state : {"absent", "waiting", "delayed", "active", "completed", "failed"},
              made : Nat, stalls : Nat, lock : Worker \cup {None}, age : Nat]
Cursor == {0} \cup {Max(S) : S \in SUBSET Session}
Process == [pc : {"down", "idle", "clock", "batch", "delete", "report", "hung"},
            job : JobId \cup {None}, age : Nat, open : {0, 1}, stopping : BOOLEAN,
            cutoff : SUBSET Session, cursor : Cursor,
            selected : SUBSET Session, batches : Nat]

JobsTypeOK ==
    /\ record \in [JobId -> JobRecord]
    /\ worker \in [Worker -> Process]

(* While a pass runs, its job's lock is the worker's, and no older than the*)
(* pass; the pass is no older than the budget and the transaction it began.*)
Passing(w) == worker[w].pc \in {"clock", "batch", "delete"}
LivePass(w) ==
    /\ worker[w].job \in JobId
    /\ record[worker[w].job].lock = w
    /\ record[worker[w].job].state = "active"
    /\ record[worker[w].job].age <= worker[w].age
    /\ \/ worker[w].age <= Budget + worker[w].open
       \/ worker[w].pc = "batch" /\ worker[w].age <= Budget + 1
    /\ worker[w].pc # "delete" => worker[w].open = 0

IInv == JobsTypeOK /\ \A w \in Worker : Passing(w) => LivePass(w)

-----------------------------------------------------------------------------
LEMMA InitTyped == Init => JobsTypeOK
BY DEF Init, JobsTypeOK, JobRecord, Process, Cursor, Absent, Down

LEMMA BatchEnds ==
  ASSUME NEW p \in Process, NEW at \in {"report", "batch"}, NEW age \in Nat, NEW n \in Nat,
         NEW cursor \in Cursor
  PROVE  [p EXCEPT !.pc = at, !.age = age, !.batches = n, !.open = 0, !.selected = {},
                   !.cursor = cursor] \in Process
<1>1. /\ p.job \in JobId \cup {None} /\ p.stopping \in BOOLEAN /\ p.cutoff \in SUBSET Session
      /\ DOMAIN p = {"pc", "job", "age", "open", "stopping", "cutoff", "cursor", "selected", "batches"}
  BY DEF Process
<1> QED  BY <1>1 DEF Process

(* A step replaces the process of one worker, or ages them all.            *)
LEMMA WorkersTyped ==
    ASSUME JobsTypeOK, Next
    PROVE  worker' \in [Worker -> Process]
<1>1. worker \in [Worker -> Process]
  BY DEF JobsTypeOK
<1>2. Down \in Process /\ \A w \in Worker : Idle(w) \in Process
  BY <1>1 DEF Down, Idle, Process, Cursor
<1>3. ASSUME NEW w \in Worker, NEW p \in Process, SetWorker(w, p)
      PROVE  worker' \in [Worker -> Process]
  BY <1>1, <1>3 DEF SetWorker
<1>4. CASE Tick
  <2> DEFINE Aged(w) == [worker[w] EXCEPT !.age = IF @ < LockTicks THEN @ + 1 ELSE @,
                                          !.open = IF worker[w].pc = "delete" THEN 1 ELSE 0]
  <2>2. ASSUME NEW w \in Worker
        PROVE  Aged(w) \in Process
    <3> DEFINE age == IF worker[w].age < LockTicks THEN worker[w].age + 1 ELSE worker[w].age
               open == IF worker[w].pc = "delete" THEN 1 ELSE 0
    <3>1. age \in Nat /\ open \in {0, 1}
      BY <1>1 DEF Process
    <3>2. Aged(w) = [worker[w] EXCEPT !.age = age, !.open = open]
      BY <1>1 DEF Process
    <3>3. ASSUME NEW a \in Nat, NEW o \in {0, 1}
          PROVE  [worker[w] EXCEPT !.age = a, !.open = o] \in Process
      BY <1>1 DEF Process
    <3> HIDE DEF age, open, Aged
    <3> QED  BY <3>1, <3>2, <3>3
  <2>3. worker' = [w \in Worker |->
            IF worker[w].job = None \/ worker[w].pc = "report" THEN worker[w] ELSE Aged(w)]
    BY <1>4 DEF Tick
  <2> HIDE DEF Aged
  <2> QED  BY <1>1, <2>2, <2>3
<1>5. ASSUME NEW w \in Worker, Start(w) \/ Drained(w) \/ Watchdog(w) \/ Crash(w)
      PROVE  worker' \in [Worker -> Process]
  <2>1. [Down EXCEPT !.pc = "idle"] \in Process
    BY DEF Down, Process, Cursor
  <2> QED  BY <1>2, <1>3, <1>5, <2>1 DEF Start, Drained, Watchdog, Crash
<1>6. ASSUME NEW w \in Worker, Report(w) \/ AttemptFails(w)
      PROVE  worker' \in [Worker -> Process]
  BY <1>2, <1>3, <1>6 DEF Report, AttemptFails
<1>7. ASSUME NEW w \in Worker, Hang(w)
      PROVE  worker' \in [Worker -> Process]
  <2>1. [Idle(w) EXCEPT !.pc = "hung", !.job = worker[w].job, !.age = worker[w].age] \in Process
    BY <1>1, <1>2 DEF Process
  <2> QED  BY <1>3, <1>7, <2>1 DEF Hang
<1>8. ASSUME NEW w \in Worker, NEW i \in JobId, Take(w, i)
      PROVE  worker' \in [Worker -> Process]
  <2>1. [Idle(w) EXCEPT !.pc = "clock", !.job = i] \in Process
    BY <1>2 DEF Process
  <2> QED  BY <1>3, <1>8, <2>1 DEF Take
<1>9. ASSUME NEW w \in Worker, ReadClock(w)
      PROVE  worker' \in [Worker -> Process]
  <2>1. [worker[w] EXCEPT !.pc = "batch",
                          !.cutoff = {s \in Session : session[s] # "live"}] \in Process
    BY <1>1 DEF Process
  <2> QED  BY <1>3, <1>9, <2>1 DEF ReadClock
<1>10. ASSUME NEW w \in Worker, BeginBatch(w)
       PROVE  worker' \in [Worker -> Process]
  <2>1. Selection(w) \subseteq Session
    BY <1>1 DEF Selection, Rows, Process
  <2>2. /\ [worker[w] EXCEPT !.pc = "report", !.age = 0] \in Process
        /\ [worker[w] EXCEPT !.pc = "delete", !.selected = Selection(w)] \in Process
    BY <1>1, <2>1 DEF Process
  <2> QED  BY <1>3, <1>10, <2>2 DEF BeginBatch
<1>11. ASSUME NEW w \in Worker, DeleteBatch(w)
       PROVE  worker' \in [Worker -> Process]
  <2>1. Max(worker[w].selected) \in Cursor
    BY <1>1 DEF Process, Cursor
  <2>2. ASSUME NEW at \in {"report", "batch"}, NEW age \in Nat, NEW n \in Nat, NEW cursor \in Cursor
        PROVE  [worker[w] EXCEPT !.pc = at, !.age = age, !.batches = n, !.open = 0,
                                 !.selected = {}, !.cursor = cursor] \in Process
    BY <1>1, BatchEnds
  <2>3. worker[w].age \in Nat /\ worker[w].batches + 1 \in Nat
    BY <1>1 DEF Process
  <2> QED  BY <1>3, <1>11, <2>1, <2>2, <2>3 DEF DeleteBatch
<1>12. ASSUME NEW w \in Worker, Stop(w)
       PROVE  worker' \in [Worker -> Process]
  <2>1. [worker[w] EXCEPT !.stopping = TRUE] \in Process
    BY <1>1 DEF Process
  <2> QED  BY <1>3, <1>12, <2>1 DEF Stop
<1>13. CASE Due \/ Enqueue \/ PauseOrResume \/ DisableSchedule
  BY <1>1, <1>13 DEF Due, Enqueue, PauseOrResume, DisableSchedule
<1>14. ASSUME NEW i \in JobId, RecordStep(i) \/ RetryFailed(i) \/ RemoveRecord(i)
       PROVE  worker' \in [Worker -> Process]
  BY <1>1, <1>14 DEF RecordStep, Backoff, Stalled, RetryFailed, RemoveRecord
<1>15. ASSUME NEW w \in Worker, Renew(w)
       PROVE  worker' \in [Worker -> Process]
  BY <1>1, <1>15 DEF Renew
<1>16. ASSUME NEW s \in Session, Expire(s)
       PROVE  worker' \in [Worker -> Process]
  BY <1>1, <1>16 DEF Expire
<1> QED
  BY <1>4, <1>5, <1>6, <1>7, <1>8, <1>9, <1>10, <1>11, <1>12, <1>13, <1>14, <1>15, <1>16
  DEF Next, WorkerStep

(* A step of the queue, or of a worker, leaves records.                    *)
LEMMA RecordsTyped ==
    ASSUME JobsTypeOK, Next
    PROVE  record' \in [JobId -> JobRecord]
<1> USE DEF JobsTypeOK
<1>1. Absent \in JobRecord
  BY DEF Absent, JobRecord
<1>2. \A r \in JobRecord : Waiting(r) \in JobRecord
  BY DEF Waiting, JobRecord
<1>3. CASE Due \/ Enqueue \/ DisableSchedule
  BY <1>1, <1>2, <1>3 DEF Due, Enqueue, DisableSchedule, SetRecord
<1>4. CASE PauseOrResume \/ \E s \in Session : Expire(s)
  BY <1>4 DEF PauseOrResume, Expire
<1>5. CASE Tick
  <2>1. \A i \in JobId : [record[i] EXCEPT !.age = @ + 1] \in JobRecord
    BY DEF JobRecord
  <2> QED  BY <1>5, <2>1 DEF Tick
<1>6. ASSUME NEW i \in JobId, Backoff(i) \/ RetryFailed(i) \/ RemoveRecord(i)
      PROVE  record' \in [JobId -> JobRecord]
  BY <1>1, <1>2, <1>6 DEF Backoff, RetryFailed, RemoveRecord, SetRecord
<1>7. ASSUME NEW i \in JobId, Stalled(i)
      PROVE  record' \in [JobId -> JobRecord]
  <2>1. [record[i] EXCEPT !.state = "failed", !.lock = None, !.age = 0] \in JobRecord
    BY DEF JobRecord
  <2>2. [Waiting(record[i]) EXCEPT !.stalls = 1] \in JobRecord
    BY <1>2 DEF JobRecord
  <2> QED  BY <1>7, <2>1, <2>2 DEF Stalled, SetRecord
<1>8. ASSUME NEW w \in Worker, NEW i \in JobId, Take(w, i)
      PROVE  record' \in [JobId -> JobRecord]
  <2>1. [record[i] EXCEPT !.state = "active", !.lock = w, !.age = 0] \in JobRecord
    BY DEF JobRecord
  <2> QED  BY <1>8, <2>1 DEF Take, SetRecord
<1>9. ASSUME NEW w \in Worker, Renew(w)
      PROVE  record' \in [JobId -> JobRecord]
  BY <1>9 DEF Renew, SetRecord, JobRecord, Holds, Process
<1>10. ASSUME NEW w \in Worker, Report(w)
       PROVE  record' \in [JobId -> JobRecord]
  <2>1. [Absent EXCEPT !.state = "completed"] \in JobRecord
    BY DEF Absent, JobRecord
  <2> QED  BY <1>10, <2>1 DEF Report
<1>11. ASSUME NEW w \in Worker, AttemptFails(w)
       PROVE  record' \in [JobId -> JobRecord]
  <2>1. ASSUME NEW i \in JobId, NEW next \in {"delayed", "failed"}
        PROVE  AttemptOver(record[i], next) \in JobRecord
    <3> DEFINE st == IF record[i].made < 2 THEN next ELSE "failed"
    <3>1. st \in {"delayed", "failed"} /\ record[i].made + 1 \in Nat
      BY DEF JobRecord
    <3>2. AttemptOver(record[i], next) = [record[i] EXCEPT !.made = record[i].made + 1, !.lock = None,
                                                       !.age = 0, !.state = st]
      BY DEF AttemptOver
    <3>3. ASSUME NEW n \in Nat, NEW x \in {"delayed", "failed"}
          PROVE  [record[i] EXCEPT !.made = n, !.lock = None, !.age = 0, !.state = x] \in JobRecord
      BY DEF JobRecord
    <3> HIDE DEF st
    <3>4. [record[i] EXCEPT !.made = record[i].made + 1, !.lock = None, !.age = 0,
                            !.state = st] \in JobRecord
      BY <3>1, <3>3
    <3> QED  BY <3>2, <3>4
  <2>2. worker[w].job \in JobId \cup {None}
    BY DEF Process
  <2> QED  BY <1>11, <2>1, <2>2 DEF AttemptFails, Holds
<1>12. UNCHANGED record => record' \in [JobId -> JobRecord]
  OBVIOUS
<1>13. \A w \in Worker :
          Start(w) \/ Drained(w) \/ Watchdog(w) \/ ReadClock(w) \/ BeginBatch(w)
            \/ DeleteBatch(w) \/ Stop(w) \/ Crash(w) \/ Hang(w) => UNCHANGED record
  BY DEF Start, Drained, Watchdog, ReadClock, BeginBatch, DeleteBatch, Stop, Crash, Hang
<1> QED
  BY <1>3, <1>4, <1>5, <1>6, <1>7, <1>8, <1>9, <1>10, <1>11, <1>12, <1>13
  DEF Next, WorkerStep, RecordStep

-----------------------------------------------------------------------------
(* Whoever else moves, a pass whose process and record stay goes on.       *)
LEMMA UntouchedPass ==
    ASSUME NEW v \in Worker, Passing(v) => LivePass(v), worker'[v] = worker[v],
           worker[v].job \in JobId /\ record[worker[v].job].state = "active"
             /\ record[worker[v].job].lock = v =>
               record'[worker[v].job] = record[worker[v].job]
    PROVE  (Passing(v) => LivePass(v))'
BY DEF Passing, LivePass

(* Every step keeps the passes that go on within their budget and lock.    *)
LEMMA PassesKept ==
    ASSUME IInv, Next
    PROVE  \A v \in Worker : (Passing(v) => LivePass(v))'
<1> SUFFICES ASSUME NEW v \in Worker  PROVE (Passing(v) => LivePass(v))'
  OBVIOUS
<1> USE NoneAssumption
<1>1. /\ worker \in [Worker -> Process] /\ record \in [JobId -> JobRecord]
      /\ Passing(v) => LivePass(v)
      /\ worker[v] \in Process /\ worker[v].age \in Nat /\ worker[v].open \in {0, 1}
      /\ \A i \in JobId : record[i].age \in Nat
  BY DEF IInv, JobsTypeOK, Process, JobRecord
<1>2. ASSUME worker'[v] = worker[v],
             \A i \in JobId : record[i].state = "active" /\ record[i].lock = v =>
                                record'[i] = record[i]
      PROVE  (Passing(v) => LivePass(v))'
  BY <1>1, <1>2, UntouchedPass
<1>3. CASE Due \/ Enqueue \/ DisableSchedule \/ PauseOrResume \/ \E s \in Session : Expire(s)
  BY <1>1, <1>2, <1>3 DEF Due, Enqueue, DisableSchedule, PauseOrResume, Expire, SetRecord
<1>4. ASSUME NEW i \in JobId, Backoff(i) \/ RetryFailed(i) \/ RemoveRecord(i)
      PROVE  (Passing(v) => LivePass(v))'
  BY <1>1, <1>2, <1>4 DEF Backoff, RetryFailed, RemoveRecord, SetRecord
<1>5. Passing(v) => worker[v].age < LockTicks
  BY <1>1, BudgetAssumption DEF LivePass, Passing, Process
<1>6. ASSUME NEW i \in JobId, Stalled(i)
      PROVE  (Passing(v) => LivePass(v))'
  <2>1. Passing(v) => worker[v].job # i
    BY <1>1, <1>5, <1>6, BudgetAssumption DEF LivePass, Stalled
  <2> QED  BY <1>1, <1>6, <2>1, UntouchedPass DEF Stalled, SetRecord, Passing, LivePass
<1>7. ASSUME NEW w \in Worker, Renew(w)
      PROVE  (Passing(v) => LivePass(v))'
  BY <1>1, <1>7 DEF Renew, SetRecord, Holds, Passing, LivePass, Process, JobRecord
<1>8. CASE Tick
  <2>1. SUFFICES ASSUME Passing(v)'  PROVE LivePass(v)'
    OBVIOUS
  <2>2. worker'[v].pc = worker[v].pc /\ worker'[v].job = worker[v].job
    BY <1>1, <1>8 DEF Tick, Process
  <2>3. Passing(v) /\ LivePass(v)
    BY <1>1, <2>1, <2>2 DEF Passing
  <2>4. worker[v].pc = "delete" /\ worker[v].open = 0 /\ worker[v].job # None
    BY <1>8, <2>3 DEF Tick, Passing, LivePass
  <2>5. worker'[v].age = worker[v].age + 1 /\ worker'[v].open = 1
    BY <1>1, <1>5, <1>8, <2>3, <2>4 DEF Tick, Process
  <2>6. \A i \in JobId : /\ record'[i].lock = record[i].lock /\ record'[i].state = record[i].state
                         /\ record'[i].age \in {record[i].age, record[i].age + 1}
    BY <1>1, <1>8 DEF Tick, JobRecord
  <2> QED
    BY <1>1, <2>2, <2>3, <2>4, <2>5, <2>6, BudgetAssumption DEF Passing, LivePass
<1>9. ASSUME NEW w \in Worker, w # v, WorkerStep(w) \/ Stop(w) \/ Crash(w) \/ AttemptFails(w) \/ Hang(w)
      PROVE  (Passing(v) => LivePass(v))'
  <2>1. worker'[v] = worker[v]
    BY <1>1, <1>9 DEF WorkerStep, Stop, Crash, AttemptFails, Hang, Start, Drained, Watchdog, ReadClock,
                      BeginBatch, DeleteBatch, Report, Take, SetWorker
  <2>2. \A i \in JobId : record[i].state = "active" /\ record[i].lock = v => record'[i] = record[i]
    BY <1>1, <1>9 DEF WorkerStep, Stop, Crash, AttemptFails, Hang, Start, Drained, Watchdog, ReadClock,
                      BeginBatch, DeleteBatch, Report, Take, SetRecord, Holds
  <2> QED  BY <1>2, <2>1, <2>2
<1>10. CASE Start(v) \/ Drained(v) \/ Watchdog(v) \/ Crash(v) \/ Report(v) \/ AttemptFails(v) \/ Hang(v)
  <2>1. CASE Start(v) \/ Drained(v) \/ Watchdog(v) \/ Crash(v)
    BY <1>1, <2>1 DEF Start, Drained, Watchdog, Crash, SetWorker, Down, Passing
  <2>2. CASE Report(v) \/ AttemptFails(v)
    <3>1. worker' = [worker EXCEPT ![v] = Idle(v)]
      BY <2>2 DEF Report, AttemptFails, SetWorker
    <3> QED  BY <1>1, <3>1 DEF Down, Idle, Passing
  <2>3. CASE Hang(v)
    BY <1>1, <2>3 DEF Hang, SetWorker, Down, Idle, Passing
  <2> QED  BY <1>10, <2>1, <2>2, <2>3
<1>11. ASSUME NEW i \in JobId, Take(v, i)
       PROVE  (Passing(v) => LivePass(v))'
  BY <1>1, <1>11, BudgetAssumption DEF Take, SetWorker, SetRecord, Idle, Down, LivePass, JobRecord
<1>12. CASE ReadClock(v)
  BY <1>1, <1>12 DEF ReadClock, SetWorker, Passing, LivePass, Process
<1>15. CASE Stop(v)
  <2>1. /\ worker'[v].job = worker[v].job /\ worker'[v].age = worker[v].age
        /\ worker'[v].open = worker[v].open /\ worker'[v].pc = worker[v].pc
    BY <1>1, <1>15 DEF Stop, SetWorker, Process
  <2> QED  BY <1>1, <1>15, <2>1 DEF Stop, Passing, LivePass
<1>13. CASE BeginBatch(v)
  BY <1>1, <1>13, BudgetAssumption DEF BeginBatch, OutOfTime, SetWorker, Passing, LivePass, Process
<1>14. CASE DeleteBatch(v)
  BY <1>1, <1>14, BudgetAssumption DEF DeleteBatch, SetWorker, Passing, LivePass, Process
<1> QED
  BY <1>3, <1>4, <1>6, <1>7, <1>8, <1>9, <1>10, <1>11, <1>12, <1>13, <1>14,
     <1>15 DEF Next, WorkerStep, RecordStep

-----------------------------------------------------------------------------
LEMMA Invariant == Spec => []IInv
<1>1. Init => IInv
  BY InitTyped DEF Init, IInv, Down, Passing
<1>2. IInv /\ [Next]_vars => IInv'
  <2> SUFFICES ASSUME IInv, [Next]_vars  PROVE IInv'
    OBVIOUS
  <2>1. CASE Next
    BY <2>1, WorkersTyped, RecordsTyped, PassesKept DEF IInv, JobsTypeOK
  <2>2. CASE UNCHANGED vars
    BY <2>2 DEF vars, IInv, JobsTypeOK, Passing, LivePass
  <2> QED  BY <2>1, <2>2
<1> QED  BY <1>1, <1>2, PTL DEF Spec

(* A worker deletes rows only while it holds its job's lock, however many  *)
(* workers run, and whatever stalls, fails or hangs.                       *)
THEOREM NoAbandonedWriterHolds == Spec => NoAbandonedWriter
<1>1. IInv => (\A w \in Worker : DeleteBatch(w) => Holds(w))
  BY NoneAssumption DEF IInv, DeleteBatch, Holds, Passing, LivePass
<1> QED  BY <1>1, Invariant, PTL DEF NoAbandonedWriter

-----------------------------------------------------------------------------
(* Every counter has its expiry, and an expiry has its counter.            *)
Clocked ==
    /\ count \in [Key -> Nat] /\ ttl \in [Key -> 0..Window]
    /\ stage \in [Client -> 0..2]
    /\ \A k \in Key : count[k] = 0 <=> ttl[k] = 0

LEMMA HitClocked ==
    ASSUME Clocked, NEW k \in Key, Hit(k)
    PROVE  /\ count' \in [Key -> Nat] /\ ttl' \in [Key -> 0..Window]
           /\ \A j \in Key : count'[j] = 0 <=> ttl'[j] = 0
           /\ \A j \in Key : count[j] # 0 => ttl'[j] = ttl[j]
<1>1. count' \in [Key -> Nat] /\ ttl' \in [Key -> 0..Window]
  BY RatesAssumption DEF Clocked, Hit
<1>2. ASSUME NEW j \in Key
      PROVE  (count'[j] = 0 <=> ttl'[j] = 0) /\ (count[j] # 0 => ttl'[j] = ttl[j])
  <2>1. CASE j = k
    <3>1. count'[k] # 0
      <4>1. count[k] \in Nat /\ Limit[k] \in Nat
        BY RatesAssumption DEF Clocked
      <4>2. count'[k] = IF count[k] > Limit[k] THEN count[k] ELSE count[k] + 1
        BY DEF Clocked, Hit
      <4>. QED BY <4>1, <4>2
    <3>2. ttl'[k] = IF count[k] = 0 THEN Window ELSE ttl[k]
      BY DEF Clocked, Hit
    <3>. QED BY <2>1, <3>1, <3>2, RatesAssumption DEF Clocked
  <2>2. CASE j # k
    BY <2>2 DEF Clocked, Hit
  <2>. QED BY <2>1, <2>2
<1>. QED BY <1>1, <1>2

LEMMA ElapseClocked ==
    ASSUME Clocked, Elapse
    PROVE  /\ Clocked'
           /\ \A j \in Key : count[j] # 0 => ttl'[j] <= ttl[j]
<1>1. count' \in [Key -> Nat] /\ ttl' \in [Key -> 0..Window] /\ stage' \in [Client -> 0..2]
  BY RatesAssumption DEF Clocked, Elapse
<1>2. ASSUME NEW j \in Key
      PROVE  (count'[j] = 0 <=> ttl'[j] = 0) /\ (count[j] # 0 => ttl'[j] <= ttl[j])
  BY RatesAssumption DEF Clocked, Elapse
<1>. QED BY <1>1, <1>2 DEF Clocked

LEMMA RequestClocked ==
    ASSUME Clocked, NEW r \in Client, Enter(r) \/ Consume(r) \/ StoreFails(r)
    PROVE  /\ Clocked'
           /\ \A j \in Key : count[j] # 0 => ttl'[j] = ttl[j]
<1>1. CASE Enter(r)
  BY <1>1 DEF Clocked, Enter
<1>2. CASE Consume(r) \/ StoreFails(r)
  <2>1. Plan[r][stage[r]] \in Key
    <3>1. stage[r] \in 1..2
      BY <1>2 DEF Clocked, Consume, StoreFails
    <3>. QED BY <3>1, RatesAssumption
  <2>2. Hit(Plan[r][stage[r]]) \/ UNCHANGED <<count, ttl>>
    BY <1>2 DEF Consume, StoreFails
  <2>3. stage' \in [Client -> 0..2]
    BY <1>2 DEF Clocked, Consume, StoreFails, Pass, Refuse
  <2>4. CASE Hit(Plan[r][stage[r]])
    BY <2>1, <2>3, <2>4, HitClocked DEF Clocked
  <2>5. CASE UNCHANGED <<count, ttl>>
    BY <2>3, <2>5 DEF Clocked
  <2>. QED BY <2>2, <2>4, <2>5
<1>. QED BY <1>1, <1>2

LEMMA RateStep ==
    ASSUME Clocked, [RateNext]_rateVars
    PROVE  /\ Clocked'
           /\ \A j \in Key : count[j] # 0 => ttl'[j] <= ttl[j]
<1>0. \A j \in Key : ttl[j] \in Nat
  BY RatesAssumption DEF Clocked
<1>1. CASE UNCHANGED rateVars
  BY <1>0, <1>1 DEF Clocked, rateVars
<1>2. CASE Elapse
  BY <1>2, ElapseClocked
<1>3. ASSUME NEW r \in Client, Enter(r) \/ Consume(r) \/ StoreFails(r)
      PROVE  Clocked' /\ \A j \in Key : count[j] # 0 => ttl'[j] <= ttl[j]
  <2>1. Clocked' /\ \A j \in Key : count[j] # 0 => ttl'[j] = ttl[j]
    BY <1>3, RequestClocked
  <2>. QED BY <2>1, <1>0
<1>. QED BY <1>1, <1>2, <1>3 DEF RateNext

(* A counter above its limit never shuts its owner out for good: whatever  *)
(* the store loses, it has an expiry, which requests never push out        *)
(* (REDIS_FIXED_WINDOW_SCRIPT).                                            *)
THEOREM KeysReopen == RateSpec => KeyReopens
<1>1. RateInit => Clocked
  BY RatesAssumption DEF RateInit, Clocked
<1>2. Clocked /\ [RateNext]_rateVars => Clocked'
  BY RateStep
<1>3. Clocked /\ [RateNext]_rateVars
        => [\A k \in Key : count[k] # 0 =>
              ttl[k] # 0 /\ (count'[k] = 0 \/ ttl'[k] <= ttl[k])]_rateVars
  BY RateStep DEF Clocked
<1>. QED BY <1>1, <1>2, <1>3, PTL DEF RateSpec, KeyReopens

-----------------------------------------------------------------------------
(* Of the requests that "f" counts per tick, those of the ticks a..b.      *)
Stretch(f, a, b) == {p \in (1..Window) \X (Nat \ {0}) : p[1] \in a..b /\ p[2] <= f[p[1]]}

(* A counter started its window Window - tl ticks ago, in the oldest of    *)
(* the first Window - tl + 1 ticks: what those have let through has been   *)
(* counted, and the ticks before them belong to the window before, or to   *)
(* none.                                                                   *)
Windowed(f, n, tl, limit) ==
    /\ IsFiniteSet(Stretch(f, 1, Window))
    /\ tl = 0 => /\ f[1] = 0
                 /\ Cardinality(Stretch(f, 1, Window)) <= limit
    /\ tl # 0 => /\ Cardinality(Stretch(f, 1, Window - tl + 1)) <= limit
                 /\ Cardinality(Stretch(f, 1, Window - tl + 1)) <= n
                 /\ Cardinality(Stretch(f, Window - tl + 2, Window)) <= limit

(* The counts a tick later, and with one more request of this tick.        *)
Elapsed(f) == [t \in 1..Window |-> IF t = 1 THEN 0 ELSE f[t - 1]]
Raised(f) == [f EXCEPT ![1] = @ + 1]

Counted ==
    /\ Clocked
    /\ recent \in [Key -> [1..Window -> Nat]]
    /\ \A k \in Key : Windowed(recent[k], count[k], ttl[k], Limit[k])

(* Part of a finite stretch.                                               *)
LEMMA StretchPart ==
    ASSUME NEW f, NEW a \in Nat, NEW b \in Nat, NEW c \in Nat, NEW d \in Nat,
           IsFiniteSet(Stretch(f, a, b)), a <= c, d <= b
    PROVE  /\ IsFiniteSet(Stretch(f, c, d))
           /\ Cardinality(Stretch(f, c, d)) \in Nat
           /\ Cardinality(Stretch(f, c, d)) <= Cardinality(Stretch(f, a, b))
<1>1. Stretch(f, c, d) \in SUBSET Stretch(f, a, b)
  BY DEF Stretch
<1>2. /\ IsFiniteSet(Stretch(f, c, d))
      /\ Cardinality(Stretch(f, c, d)) <= Cardinality(Stretch(f, a, b))
  BY <1>1, FS_Subset
<1>. QED BY <1>2, FS_CardinalityType

(* What a tick later is the stretch c..d was c - 1..d - 1 before; the      *)
(* newest tick is empty.                                                   *)
LEMMA StretchElapses ==
    ASSUME NEW f \in [1..Window -> Nat], NEW c \in Nat, NEW d \in 1..Window,
           NEW b \in Nat \ {0}, c # 0, b = 1 \/ b = c - 1,
           IsFiniteSet(Stretch(f, 1, Window))
    PROVE  /\ IsFiniteSet(Stretch(Elapsed(f), c, d))
           /\ Cardinality(Stretch(Elapsed(f), c, d)) \in Nat
           /\ Cardinality(Stretch(Elapsed(f), c, d)) <= Cardinality(Stretch(f, b, d - 1))
<1> DEFINE g == Elapsed(f)
           S == Stretch(g, c, d)
           T == Stretch(f, b, d - 1)
           move == [p \in S |-> <<p[1] - 1, p[2]>>]
<1>0. Window \in Nat /\ Window # 0
  BY RatesAssumption
<1>1. IsFiniteSet(T)
  <2>1. d - 1 \in Nat /\ 1 <= b /\ d - 1 <= Window
    BY <1>0
  <2>. QED BY <2>1, <1>0, StretchPart
<1>2. ASSUME NEW p \in S
      PROVE  /\ p = <<p[1], p[2]>> /\ p[1] \in Nat /\ p[2] \in Nat
             /\ <<p[1] - 1, p[2]>> \in T
  <2>1. /\ p = <<p[1], p[2]>> /\ p[1] \in 1..Window /\ p[2] \in Nat \ {0}
        /\ p[1] \in c..d /\ p[2] <= g[p[1]]
    BY DEF Stretch
  <2>2. g[p[1]] = IF p[1] = 1 THEN 0 ELSE f[p[1] - 1]
    BY <2>1 DEF Elapsed
  <2>3. p[1] # 1 /\ p[2] <= f[p[1] - 1]
    BY <2>1, <2>2
  <2>4. p[1] - 1 \in 1..Window /\ p[1] - 1 \in b..d - 1
    BY <2>1, <2>3, <1>0
  <2>5. <<p[1] - 1, p[2]>> \in T
    BY <2>1, <2>3, <2>4 DEF Stretch
  <2>. QED BY <2>1, <2>5
<1> HIDE DEF S, T
<1>3. move \in [S -> T]
  BY <1>2
<1>4. ASSUME NEW p \in S, NEW q \in S, move[p] = move[q]
      PROVE  p = q
  <2>1. p[1] - 1 = q[1] - 1 /\ p[2] = q[2]
    BY <1>4
  <2>2. p[1] \in Nat /\ q[1] \in Nat /\ p = <<p[1], p[2]>> /\ q = <<q[1], q[2]>>
    BY <1>2
  <2>3. p[1] = q[1]
    BY <2>1, <2>2
  <2>. QED BY <2>1, <2>2, <2>3
<1> HIDE DEF move
<1>5. move \in Injection(S, T)
  BY <1>3, <1>4 DEF Injection, IsInjective
<1>6. IsFiniteSet(S) /\ Cardinality(S) <= Cardinality(T)
  BY <1>1, <1>5, FS_Injection
<1>7. Cardinality(S) \in Nat
  BY <1>6, FS_CardinalityType
<1>. QED BY <1>6, <1>7 DEF S, T

(* One more request of this tick.                                          *)
LEMMA StretchGrows ==
    ASSUME NEW f \in [1..Window -> Nat], NEW d \in 1..Window, IsFiniteSet(Stretch(f, 1, Window))
    PROVE  /\ IsFiniteSet(Stretch(Raised(f), 1, d))
           /\ Cardinality(Stretch(Raised(f), 1, d)) = Cardinality(Stretch(f, 1, d)) + 1
           /\ \A c \in 2..Window + 1 : Stretch(Raised(f), c, Window) = Stretch(f, c, Window)
<1> DEFINE g == Raised(f)
<1>0. Window \in Nat /\ Window # 0
  BY RatesAssumption
<1>1. IsFiniteSet(Stretch(f, 1, d))
  BY <1>0, StretchPart
<1>2. f[1] \in Nat /\ g[1] = f[1] + 1 /\ \A t \in 2..Window : g[t] = f[t]
  BY <1>0 DEF Raised
<1> DEFINE x == <<1, f[1] + 1>>
<1>3. x \notin Stretch(f, 1, d)
  BY <1>2 DEF Stretch
<1>4. Stretch(g, 1, d) = Stretch(f, 1, d) \cup {x}
  <2>1. ASSUME NEW p \in (1..Window) \X (Nat \ {0})
        PROVE  p \in Stretch(g, 1, d) <=> p \in Stretch(f, 1, d) \/ p = x
    <3>1. p = <<p[1], p[2]>> /\ p[1] \in 1..Window /\ p[2] \in Nat
      OBVIOUS
    <3>2. CASE p[1] = 1
      BY <3>1, <3>2, <1>2 DEF Stretch
    <3>3. CASE p[1] # 1
      <4>1. p[1] \in 2..Window
        BY <3>1, <3>3, <1>0
      <4>. QED BY <3>3, <4>1, <1>2 DEF Stretch
    <3>. QED BY <3>2, <3>3
  <2>2. x \in (1..Window) \X (Nat \ {0})
    BY <1>0, <1>2
  <2>. QED BY <2>1, <2>2 DEF Stretch
<1>5. ASSUME NEW c \in 2..Window + 1
      PROVE  Stretch(g, c, Window) = Stretch(f, c, Window)
  <2>1. ASSUME NEW p \in (1..Window) \X (Nat \ {0}), p[1] \in c..Window
        PROVE  g[p[1]] = f[p[1]]
    BY <2>1, <1>0, <1>2
  <2>. QED BY <2>1 DEF Stretch
<1> HIDE DEF x, g
<1>6. /\ IsFiniteSet(Stretch(f, 1, d) \cup {x})
      /\ Cardinality(Stretch(f, 1, d) \cup {x}) = Cardinality(Stretch(f, 1, d)) + 1
  BY <1>1, <1>3, FS_AddElement
<1>. QED BY <1>4, <1>5, <1>6 DEF g

(* A tick.                                                                 *)
LEMMA WindowElapses ==
    ASSUME NEW f \in [1..Window -> Nat], NEW n \in Nat, NEW tl \in 0..Window, NEW limit \in Nat,
           Windowed(f, n, tl, limit)
    PROVE  Windowed(Elapsed(f), IF tl = 1 THEN 0 ELSE n, IF tl = 0 THEN 0 ELSE tl - 1, limit)
<1> DEFINE g == Elapsed(f)
<1>0. Window \in Nat /\ Window # 0
  BY RatesAssumption
<1>1. IsFiniteSet(Stretch(f, 1, Window))
  BY DEF Windowed
<1>2. g[1] = 0
  BY <1>0 DEF Elapsed
<1> HIDE DEF g
<1>3. IsFiniteSet(Stretch(g, 1, Window))
  <2>1. 1 \in Nat /\ Window \in 1..Window /\ 1 \in Nat \ {0}
    BY <1>0
  <2>. QED BY <2>1, <1>1, StretchElapses DEF g
<1>4. CASE tl \in {0, 1}
  <2>1. Cardinality(Stretch(f, 1, Window)) <= limit
    BY <1>0, <1>4 DEF Windowed
  <2>2. /\ Cardinality(Stretch(g, 1, Window)) <= Cardinality(Stretch(f, 1, Window - 1))
        /\ Cardinality(Stretch(g, 1, Window)) \in Nat
    <3>1. 1 \in Nat /\ Window \in 1..Window /\ 1 \in Nat \ {0}
      BY <1>0
    <3>. QED BY <3>1, <1>1, StretchElapses DEF g
  <2>3. /\ Cardinality(Stretch(f, 1, Window - 1)) <= Cardinality(Stretch(f, 1, Window))
        /\ Cardinality(Stretch(f, 1, Window - 1)) \in Nat
    BY <1>0, <1>1, StretchPart
  <2>4. Cardinality(Stretch(f, 1, Window)) \in Nat
    BY <1>1, FS_CardinalityType
  <2>5. Cardinality(Stretch(g, 1, Window)) <= limit
    BY <2>1, <2>2, <2>3, <2>4
  <2>6. Windowed(g, IF tl = 1 THEN 0 ELSE n, 0, limit)
    BY <1>2, <1>3, <2>5 DEF Windowed
  <2>7. (IF tl = 0 THEN 0 ELSE tl - 1) = 0
    BY <1>4
  <2>. QED BY <2>6, <2>7 DEF g
<1>5. CASE tl \notin {0, 1}
  <2> DEFINE c == Window - tl + 1
  <2>0. tl \in Nat /\ tl > 1 /\ c \in 1..Window - 1 /\ c + 1 \in 0..Window
        /\ Window - (tl - 1) + 1 = c + 1 /\ Window - (tl - 1) + 2 = c + 2
        /\ Window - tl + 2 = c + 1
    BY <1>0, <1>5
  <2> HIDE DEF c
  <2>1. /\ Cardinality(Stretch(f, 1, c)) <= limit
        /\ Cardinality(Stretch(f, 1, c)) <= n
        /\ Cardinality(Stretch(f, c + 1, Window)) <= limit
    BY <2>0 DEF Windowed, c
  <2>2. /\ Cardinality(Stretch(g, 1, c + 1)) <= Cardinality(Stretch(f, 1, c))
        /\ Cardinality(Stretch(g, 1, c + 1)) \in Nat
    <3>1. 1 \in Nat /\ c + 1 \in 1..Window /\ 1 \in Nat \ {0} /\ (c + 1) - 1 = c
      BY <1>0, <2>0
    <3>2. Cardinality(Stretch(g, 1, c + 1)) <= Cardinality(Stretch(f, 1, (c + 1) - 1))
          /\ Cardinality(Stretch(g, 1, c + 1)) \in Nat
      BY <3>1, <1>1, StretchElapses DEF g
    <3>. QED BY <3>1, <3>2
  <2>3. /\ Cardinality(Stretch(g, c + 2, Window)) <= Cardinality(Stretch(f, c + 1, Window - 1))
        /\ Cardinality(Stretch(g, c + 2, Window)) \in Nat
    <3>1. /\ c + 2 \in Nat /\ c + 2 # 0 /\ c + 1 = (c + 2) - 1 /\ c + 1 \in Nat \ {0}
          /\ Window \in 1..Window
      BY <1>0, <2>0
    <3>. QED BY <3>1, <1>1, StretchElapses DEF g
  <2>4. /\ Cardinality(Stretch(f, c + 1, Window - 1)) <= Cardinality(Stretch(f, c + 1, Window))
        /\ Cardinality(Stretch(f, c + 1, Window - 1)) \in Nat
    <3>1. IsFiniteSet(Stretch(f, c + 1, Window))
      BY <1>0, <1>1, <2>0, StretchPart
    <3>. QED BY <1>0, <2>0, <3>1, StretchPart
  <2>5. Cardinality(Stretch(f, 1, c)) \in Nat /\ Cardinality(Stretch(f, c + 1, Window)) \in Nat
    BY <1>0, <1>1, <2>0, StretchPart
  <2>6. /\ Cardinality(Stretch(g, 1, c + 1)) <= limit
        /\ Cardinality(Stretch(g, 1, c + 1)) <= n
        /\ Cardinality(Stretch(g, c + 2, Window)) <= limit
    BY <2>1, <2>2, <2>3, <2>4, <2>5
  <2>7. Windowed(g, n, tl - 1, limit)
    BY <1>3, <2>0, <2>6 DEF Windowed
  <2>8. (IF tl = 1 THEN 0 ELSE n) = n /\ (IF tl = 0 THEN 0 ELSE tl - 1) = tl - 1
    BY <1>5
  <2>. QED BY <2>7, <2>8 DEF g
<1>. QED BY <1>4, <1>5

(* A request that is counted and refused, or whose answer is lost.         *)
LEMMA WindowCounts ==
    ASSUME NEW f \in [1..Window -> Nat], NEW n \in Nat, NEW tl \in 0..Window, NEW limit \in Nat,
           Windowed(f, n, tl, limit), n = 0 <=> tl = 0
    PROVE  Windowed(f, IF n > limit THEN n ELSE n + 1, IF n = 0 THEN Window ELSE tl, limit)
<1>0. Window \in Nat /\ Window # 0
  BY RatesAssumption
<1>1. IsFiniteSet(Stretch(f, 1, Window))
  BY DEF Windowed
<1>2. CASE tl = 0
  <2>1. f[1] = 0 /\ Cardinality(Stretch(f, 1, Window)) <= limit
    BY <1>2 DEF Windowed
  <2>2. Stretch(f, 1, 1) = {}
    BY <2>1 DEF Stretch
  <2>3. Cardinality(Stretch(f, 1, 1)) = 0
    BY <2>2, FS_EmptySet
  <2>4. /\ Cardinality(Stretch(f, 2, Window)) <= Cardinality(Stretch(f, 1, Window))
        /\ Cardinality(Stretch(f, 2, Window)) \in Nat
    BY <1>0, <1>1, StretchPart
  <2>5. Cardinality(Stretch(f, 1, Window)) \in Nat
    BY <1>1, FS_CardinalityType
  <2>6. Cardinality(Stretch(f, 2, Window)) <= limit
    BY <2>1, <2>4, <2>5
  <2>7. Window - Window + 1 = 1 /\ Window - Window + 2 = 2
    BY <1>0
  <2>. QED BY <1>0, <1>1, <1>2, <2>3, <2>6, <2>7 DEF Windowed
<1>3. CASE tl # 0
  <2>1. n # 0
    BY <1>3
  <2>2. Cardinality(Stretch(f, 1, Window - tl + 1)) \in Nat
    BY <1>0, <1>1, <1>3, StretchPart
  <2>. QED BY <1>1, <1>3, <2>1, <2>2 DEF Windowed
<1>. QED BY <1>2, <1>3

(* A request that is counted and let through.                              *)
LEMMA WindowPasses ==
    ASSUME NEW f \in [1..Window -> Nat], NEW n \in Nat, NEW tl \in 0..Window, NEW limit \in Nat,
           Windowed(f, n, tl, limit), n = 0 <=> tl = 0, n + 1 <= limit
    PROVE  Windowed(Raised(f), IF n > limit THEN n ELSE n + 1, IF n = 0 THEN Window ELSE tl, limit)
<1> DEFINE g == Raised(f)
<1>0. Window \in Nat /\ Window # 0
  BY RatesAssumption
<1>1. IsFiniteSet(Stretch(f, 1, Window))
  BY DEF Windowed
<1>2. IsFiniteSet(Stretch(g, 1, Window))
  <2>1. Window \in 1..Window
    BY <1>0
  <2>. QED BY <1>1, <2>1, StretchGrows DEF g
<1> HIDE DEF g
<1> DEFINE tm == IF n = 0 THEN Window ELSE tl
           c  == Window - tm + 1
<1>3. tm \in 1..Window /\ c \in 1..Window
  BY <1>0
<1>4. Cardinality(Stretch(f, 1, c)) <= n /\ Cardinality(Stretch(f, c + 1, Window)) <= limit
  <2>1. CASE n = 0
    <3>1. f[1] = 0 /\ Cardinality(Stretch(f, 1, Window)) <= limit /\ c = 1
      BY <1>0, <2>1 DEF Windowed
    <3>2. Stretch(f, 1, 1) = {}
      BY <3>1 DEF Stretch
    <3>3. Cardinality(Stretch(f, 1, 1)) = 0
      BY <3>2, FS_EmptySet
    <3>4. /\ Cardinality(Stretch(f, 2, Window)) <= Cardinality(Stretch(f, 1, Window))
          /\ Cardinality(Stretch(f, 2, Window)) \in Nat
      BY <1>0, <1>1, StretchPart
    <3>5. Cardinality(Stretch(f, 1, Window)) \in Nat
      BY <1>1, FS_CardinalityType
    <3> HIDE DEF c
    <3>. QED BY <2>1, <3>1, <3>3, <3>4, <3>5
  <2>2. CASE n # 0
    <3>1. tl # 0 /\ c = Window - tl + 1 /\ c + 1 = Window - tl + 2
      BY <1>0, <2>2
    <3> HIDE DEF c
    <3>. QED BY <3>1 DEF Windowed
  <2>. QED BY <2>1, <2>2
<1>5. /\ Cardinality(Stretch(g, 1, c)) = Cardinality(Stretch(f, 1, c)) + 1
      /\ Stretch(g, c + 1, Window) = Stretch(f, c + 1, Window)
  <2>1. c + 1 \in 2..Window + 1
    BY <1>0, <1>3
  <2> HIDE DEF c
  <2>. QED BY <1>1, <1>3, <2>1, StretchGrows DEF g
<1>6. Cardinality(Stretch(f, 1, c)) \in Nat
  <2> HIDE DEF c
  <2>. QED BY <1>0, <1>1, <1>3, StretchPart
<1>7. Window - tm + 1 = c /\ Window - tm + 2 = c + 1
  BY <1>0, <1>3
<1>8. (IF n > limit THEN n ELSE n + 1) = n + 1
  OBVIOUS
<1> HIDE DEF c, tm
<1>9. /\ Cardinality(Stretch(g, 1, c)) <= limit
      /\ Cardinality(Stretch(g, 1, c)) <= n + 1
      /\ Cardinality(Stretch(g, c + 1, Window)) <= limit
  BY <1>4, <1>5, <1>6
<1>10. Windowed(g, n + 1, tm, limit)
  BY <1>2, <1>3, <1>7, <1>9 DEF Windowed
<1>. QED BY <1>8, <1>10 DEF tm, g

LEMMA CountedInit == RateInit => Counted
<1> SUFFICES ASSUME RateInit PROVE Counted
  OBVIOUS
<1>1. Clocked
  BY RatesAssumption DEF RateInit, Clocked
<1>2. recent \in [Key -> [1..Window -> Nat]]
  BY DEF RateInit
<1>3. ASSUME NEW k \in Key
      PROVE  Windowed(recent[k], count[k], ttl[k], Limit[k])
  <2>1. recent[k] = [t \in 1..Window |-> 0] /\ ttl[k] = 0 /\ recent[k][1] = 0
    BY RatesAssumption DEF RateInit
  <2>2. Stretch(recent[k], 1, Window) = {}
    BY <2>1 DEF Stretch
  <2>3. Limit[k] \in Nat
    BY RatesAssumption
  <2>4. IsFiniteSet({}) /\ Cardinality({}) = 0
    BY FS_EmptySet
  <2>5. 0 <= Limit[k]
    BY <2>3
  <2>. QED BY <2>1, <2>2, <2>4, <2>5 DEF Windowed
<1>. QED BY <1>1, <1>2, <1>3 DEF Counted

LEMMA CountedElapse ==
    ASSUME Counted, Elapse
    PROVE  Counted'
<1>1. Clocked'
  BY ElapseClocked DEF Counted
<1>2. recent' \in [Key -> [1..Window -> Nat]]
  <2>1. ASSUME NEW k \in Key, NEW t \in 1..Window, t # 1
        PROVE  recent[k][t - 1] \in Nat
    <3>1. t - 1 \in 1..Window
      BY <2>1, RatesAssumption
    <3>. QED BY <3>1 DEF Counted
  <2>. QED BY <2>1 DEF Elapse
<1>3. ASSUME NEW k \in Key
      PROVE  Windowed(recent'[k], count'[k], ttl'[k], Limit[k])
  <2>1. /\ recent[k] \in [1..Window -> Nat] /\ count[k] \in Nat /\ ttl[k] \in 0..Window
        /\ Limit[k] \in Nat /\ Windowed(recent[k], count[k], ttl[k], Limit[k])
    BY RatesAssumption DEF Counted, Clocked
  <2>2. /\ recent'[k] = Elapsed(recent[k])
        /\ count'[k] = IF ttl[k] = 1 THEN 0 ELSE count[k]
        /\ ttl'[k] = IF ttl[k] = 0 THEN 0 ELSE ttl[k] - 1
    BY DEF Elapse, Elapsed
  <2>. QED BY <2>1, <2>2, WindowElapses
<1>. QED BY <1>1, <1>2, <1>3 DEF Counted

LEMMA CountedRequest ==
    ASSUME Counted, NEW r \in Client, Enter(r) \/ Consume(r) \/ StoreFails(r)
    PROVE  Counted'
<1>1. Clocked'
  BY RequestClocked DEF Counted
<1>2. CASE UNCHANGED <<count, ttl, recent>>
  BY <1>1, <1>2 DEF Counted
<1>3. CASE stage[r] # 0 /\ Hit(Plan[r][stage[r]]) /\ UNCHANGED recent
  <2> DEFINE k == Plan[r][stage[r]]
  <2>1. k \in Key
    <3>1. stage[r] \in 1..2
      BY <1>3 DEF Counted, Clocked
    <3>. QED BY <3>1, RatesAssumption
  <2> HIDE DEF k
  <2>2. ASSUME NEW j \in Key
        PROVE  Windowed(recent'[j], count'[j], ttl'[j], Limit[j])
    <3>1. /\ recent[j] \in [1..Window -> Nat] /\ count[j] \in Nat /\ ttl[j] \in 0..Window
          /\ Limit[j] \in Nat /\ Windowed(recent[j], count[j], ttl[j], Limit[j])
          /\ count[j] = 0 <=> ttl[j] = 0
      BY RatesAssumption DEF Counted, Clocked
    <3>2. CASE j # k
      <4>1. recent'[j] = recent[j] /\ count'[j] = count[j] /\ ttl'[j] = ttl[j]
        BY <1>3, <2>1, <3>2 DEF Hit, Counted, Clocked, k
      <4>. QED BY <3>1, <4>1
    <3>3. CASE j = k
      <4>1. /\ recent'[j] = recent[j]
            /\ count'[j] = IF count[j] > Limit[j] THEN count[j] ELSE count[j] + 1
            /\ ttl'[j] = IF count[j] = 0 THEN Window ELSE ttl[j]
        BY <1>3, <2>1, <3>3 DEF Hit, Counted, Clocked, k
      <4>. QED BY <3>1, <4>1, WindowCounts
    <3>. QED BY <3>2, <3>3
  <2>3. recent' \in [Key -> [1..Window -> Nat]]
    BY <1>3 DEF Counted
  <2>. QED BY <1>1, <2>2, <2>3 DEF Counted
<1>4. CASE stage[r] # 0 /\ Hit(Plan[r][stage[r]]) /\ Allowed(Plan[r][stage[r]])
            /\ Pass(r, Plan[r][stage[r]])
  <2> DEFINE k == Plan[r][stage[r]]
  <2>1. k \in Key
    <3>1. stage[r] \in 1..2
      BY <1>4 DEF Counted, Clocked
    <3>. QED BY <3>1, RatesAssumption
  <2> HIDE DEF k
  <2>0. 1 \in 1..Window
    BY RatesAssumption
  <2>2. ASSUME NEW j \in Key
        PROVE  Windowed(recent'[j], count'[j], ttl'[j], Limit[j])
    <3>1. /\ recent[j] \in [1..Window -> Nat] /\ count[j] \in Nat /\ ttl[j] \in 0..Window
          /\ Limit[j] \in Nat /\ Windowed(recent[j], count[j], ttl[j], Limit[j])
          /\ count[j] = 0 <=> ttl[j] = 0
      BY RatesAssumption DEF Counted, Clocked
    <3>2. CASE j # k
      <4>1. recent'[j] = recent[j] /\ count'[j] = count[j] /\ ttl'[j] = ttl[j]
        BY <1>4, <2>1, <3>2 DEF Hit, Pass, Counted, Clocked, k
      <4>. QED BY <3>1, <4>1
    <3>3. CASE j = k
      <4>1. /\ recent'[j] = Raised(recent[j])
            /\ count[j] + 1 <= Limit[j]
        BY <1>4, <2>1, <3>3 DEF Allowed, Pass, Counted, Raised, k
      <4>2. /\ count'[j] = IF count[j] > Limit[j] THEN count[j] ELSE count[j] + 1
            /\ ttl'[j] = IF count[j] = 0 THEN Window ELSE ttl[j]
        BY <1>4, <2>1, <3>3 DEF Hit, Counted, Clocked, k
      <4>. QED BY <3>1, <4>1, <4>2, WindowPasses
    <3>. QED BY <3>2, <3>3
  <2>3. recent' \in [Key -> [1..Window -> Nat]]
    <3>1. recent' = [recent EXCEPT ![k][1] = @ + 1] /\ recent \in [Key -> [1..Window -> Nat]]
      BY <1>4 DEF Pass, Counted, k
    <3>2. recent[k][1] \in Nat
      BY <2>0, <2>1 DEF Counted
    <3>. QED BY <2>0, <2>1, <3>1, <3>2
  <2>. QED BY <1>1, <2>2, <2>3 DEF Counted
<1>. QED BY <1>2, <1>3, <1>4 DEF Enter, Consume, StoreFails, Refuse

(* However the requests fall around the boundary of two windows, and       *)
(* whatever the store loses, no stretch of one window's length lets more   *)
(* than twice the limit through (REDIS_FIXED_WINDOW_SCRIPT).               *)
THEOREM TwiceTheLimit == RateSpec => []WindowBound
<1>1. RateInit => Counted
  BY CountedInit
<1>2. Counted /\ [RateNext]_rateVars => Counted'
  <2> SUFFICES ASSUME Counted, [RateNext]_rateVars PROVE Counted'
    OBVIOUS
  <2>1. CASE UNCHANGED rateVars
    BY <2>1 DEF Counted, Clocked, rateVars
  <2>. QED BY <2>1, CountedElapse, CountedRequest DEF RateNext
<1>3. Counted => WindowBound
  <2> SUFFICES ASSUME Counted, NEW k \in Key
               PROVE  Cardinality(LetThrough(k)) <= 2 * Limit[k]
    BY DEF WindowBound
  <2>0. Window \in Nat /\ Window # 0 /\ Limit[k] \in Nat
    BY RatesAssumption
  <2>1. recent[k] \in [1..Window -> Nat] /\ ttl[k] \in 0..Window
        /\ Windowed(recent[k], count[k], ttl[k], Limit[k])
    BY DEF Counted, Clocked
  <2>2. LetThrough(k) = Stretch(recent[k], 1, Window)
    BY <2>0, <2>1 DEF LetThrough, Stretch
  <2>3. CASE ttl[k] = 0
    <3>1. Cardinality(LetThrough(k)) <= Limit[k] /\ Cardinality(LetThrough(k)) \in Nat
      BY <2>1, <2>2, <2>3, FS_CardinalityType DEF Windowed
    <3>. QED BY <2>0, <3>1
  <2>4. CASE ttl[k] # 0
    <3> DEFINE c == Window - ttl[k] + 1
               A == Stretch(recent[k], 1, c)
               B == Stretch(recent[k], c + 1, Window)
    <3>1. c \in 1..Window /\ Window - ttl[k] + 2 = c + 1
      BY <2>0, <2>1, <2>4
    <3>2. Cardinality(A) <= Limit[k] /\ Cardinality(B) <= Limit[k]
      BY <2>1, <2>4, <3>1 DEF Windowed
    <3>3. IsFiniteSet(Stretch(recent[k], 1, Window))
      BY <2>1 DEF Windowed
    <3> HIDE DEF c
    <3>4. IsFiniteSet(A) /\ Cardinality(A) \in Nat /\ IsFiniteSet(B) /\ Cardinality(B) \in Nat
      BY <2>0, <3>1, <3>3, StretchPart
    <3>5. LetThrough(k) = A \cup B
      BY <2>0, <2>2, <3>1 DEF Stretch
    <3> HIDE DEF A, B
    <3>6. A \cap B \in SUBSET A /\ Cardinality(A \cap B) \in Nat
      BY <3>4, FS_Subset, FS_CardinalityType
    <3>7. Cardinality(A \cup B) = Cardinality(A) + Cardinality(B) - Cardinality(A \cap B)
      BY <3>4, FS_Union
    <3>. QED BY <2>0, <3>2, <3>4, <3>5, <3>6, <3>7
  <2>. QED BY <2>3, <2>4
<1>. QED BY <1>1, <1>2, <1>3, PTL DEF RateSpec

-----------------------------------------------------------------------------
(* The round trip with Google. A transaction whose answer has not reached  *)
(* the browser's cookies yet is known to one tab alone; the cookies never  *)
(* hold one of which the browser has got a callback's answer.              *)
KnownToOne ==
    \A t, u \in Tab : TabAt(t, "redirected") /\ u # t => tab[u].url # tab[t].url

Unsettled ==
    /\ cookie \notin settled
    /\ \A t \in Tab : TabAt(t, "redirected") => tab[t].url \notin settled

Numbered ==
    /\ settled \subseteq 1..started
    /\ \A t \in Tab : /\ tab[t].url <= started
                      /\ tab[t].pc \notin {"login", "starting"} => tab[t].url # NoStart

InTime ==
    \A t \in Tab : TabAt(t, "validating") /\ StateMatches(t) => ~tab[t].late

GoogleInv ==
    GoogleTypeOK /\ Numbered /\ KnownToOne /\ Unsettled /\ InTime /\ CodeMeetsItsVerifier

(* A tab that moves leaves the others alone.                               *)
LEMMA MoveOne ==
    ASSUME GoogleTypeOK, NEW t \in Tab, NEW new, Move(t, new)
    PROVE  /\ tab'[t] = new
           /\ \A u \in Tab : u # t => tab'[u] = tab[u]
           /\ new \in TabState => tab' \in [Tab -> TabState]
  BY DEF GoogleTypeOK, Move

(* Every step of a tab moves that tab, to a state of its type.             *)
LEMMA Moves ==
    ASSUME GoogleInv, NEW t \in Tab, GoogleStep(t)
    PROVE  \E new \in TabState : Move(t, new)
<1>. DEFINE s == tab[t]
<1>0. /\ s \in TabState /\ cookie \in Transaction \cup {NoStart}
      /\ s.url \in Transaction \cup {NoStart} /\ s.sent \in Transaction \cup {NoStart}
  BY DEF GoogleInv, GoogleTypeOK, TabState
<1>1. ASSUME ContinueWithGoogle(t)
      PROVE  \E new \in TabState : Move(t, new)
  <2>1. [s EXCEPT !.pc = "starting"] \in TabState
    BY <1>0 DEF TabState
  <2>. QED BY <1>1, <2>1 DEF ContinueWithGoogle
<1>2. Opened \in TabState
  BY DEF Opened, TabState
<1>3. ASSUME GoogleLogin(t)
      PROVE  \E new \in TabState : Move(t, new)
  <2>1. CASE started < MaxStarts /\ Move(t, [s EXCEPT !.pc = "redirected", !.url = started + 1])
    <3>1. started + 1 \in Transaction
      BY <2>1, StartsAssumption DEF GoogleInv, GoogleTypeOK, Transaction
    <3>2. [s EXCEPT !.pc = "redirected", !.url = started + 1] \in TabState
      BY <1>0, <3>1 DEF TabState
    <3>. QED BY <2>1, <3>2
  <2>2. CASE Move(t, Opened)
    BY <1>2, <2>2
  <2>. QED BY <1>3, <2>1, <2>2 DEF GoogleLogin
<1>4. ASSUME Redirected(t)
      PROVE  \E new \in TabState : Move(t, new)
  <2>1. [s EXCEPT !.pc = "consent"] \in TabState
    BY <1>0 DEF TabState
  <2>. QED BY <1>4, <2>1 DEF Redirected
<1>5. ASSUME Consent(t)
      PROVE  \E new \in TabState : Move(t, new)
  <2>1. \A r \in {"code", "access_denied", "server_error"} :
          [s EXCEPT !.pc = "returned", !.result = r] \in TabState
    BY <1>0 DEF TabState
  <2>. QED BY <1>5, <2>1 DEF Consent
<1>6. ASSUME Visit(t)
      PROVE  \E new \in TabState : Move(t, new)
  <2>1. \A late \in BOOLEAN :
          [s EXCEPT !.pc = "validating", !.sent = cookie, !.late = late] \in TabState
    BY <1>0 DEF TabState
  <2>2. (s.url \in settled) \in BOOLEAN
    OBVIOUS
  <2>. QED BY <1>6, <2>1, <2>2 DEF Visit
<1>7. ASSUME NEW status \in {"success", "cancelled", "error", "refused"},
             NEW clears \in BOOLEAN, AnswerCallback(t, status, clears)
      PROVE  \E new \in TabState : Move(t, new)
  <2>1. [s EXCEPT !.pc = "answered", !.status = status, !.clears = clears] \in TabState
    BY <1>0 DEF TabState
  <2>. QED BY <1>7, <2>1 DEF AnswerCallback
<1>8. ASSUME Validate(t)
      PROVE  \E new \in TabState : Move(t, new)
  <2>1. [s EXCEPT !.pc = "exchanging"] \in TabState
    BY <1>0 DEF TabState
  <2>. QED BY <1>7, <1>8, <2>1 DEF Validate
<1>9. ASSUME ExchangeCode(t)
      PROVE  \E new \in TabState : Move(t, new)
  BY <1>7, <1>9 DEF ExchangeCode
<1>10. ASSUME CallbackAnswered(t) \/ Lose(t)
       PROVE  \E new \in TabState : Move(t, new)
  <2>1. /\ [s EXCEPT !.pc = "landing"] \in TabState
        /\ [s EXCEPT !.pc = "landing", !.status = "refused"] \in TabState
    BY <1>0 DEF TabState
  <2>. QED BY <1>10, <2>1 DEF CallbackAnswered, Lose
<1>11. ASSUME Again(t)
       PROVE  \E new \in TabState : Move(t, new)
  <2>1. PICK u \in Tab : Move(t, [tab[u] EXCEPT !.pc = "returned", !.status = "none"])
    BY <1>11 DEF Again
  <2>2. tab[u] \in TabState
    BY DEF GoogleInv, GoogleTypeOK
  <2>3. [tab[u] EXCEPT !.pc = "returned", !.status = "none"] \in TabState
    BY <2>2 DEF TabState
  <2>. QED BY <2>1, <2>3
<1>12. ASSUME Return(t)
       PROVE  \E new \in TabState : Move(t, new)
  BY <1>2, <1>12 DEF Return
<1>. QED BY <1>1, <1>3, <1>4, <1>5, <1>6, <1>8, <1>9, <1>10, <1>11, <1>12 DEF GoogleStep

(* A step leaves the other tabs as they are.                               *)
LEMMA OthersStay ==
    ASSUME GoogleInv, NEW t \in Tab, GoogleStep(t)
    PROVE  /\ tab' \in [Tab -> TabState]
           /\ \A u \in Tab : u # t => tab'[u] = tab[u]
  BY Moves, MoveOne DEF GoogleInv

(* What a step does to the cookies and to the history of the transactions. *)
LEMMA CookiesMove ==
    ASSUME GoogleInv, NEW t \in Tab, GoogleStep(t)
    PROVE  /\ \/ cookie' \in {cookie, NoStart} /\ settled' = settled
              \/ Redirected(t) /\ cookie' = tab[t].url /\ settled' = settled
              \/ TabAt(t, "answered") /\ cookie' = NoStart /\ settled' = settled \cup {tab[t].url}
           /\ \/ started' = started
              \/ GoogleLogin(t) /\ started' = started + 1 /\ started < MaxStarts
  BY DEF GoogleStep, ContinueWithGoogle, GoogleLogin, Redirected, Consent, Visit, Validate,
         ExchangeCode, CallbackAnswered, Lose, Again, Return, TabAt

(* Where the transaction of the tab that moves comes from.                 *)
HasActed(u) == tab[u].pc \in {"validating", "exchanging", "answered", "landing"}

LEMMA TransactionKept ==
    ASSUME GoogleInv, NEW t \in Tab, GoogleStep(t)
    PROVE  \/ tab'[t].url = tab[t].url /\ tab[t].pc \notin {"login", "starting"}
              /\ tab'[t].pc # "redirected"
           \/ tab'[t].url \in {NoStart, tab[t].url} /\ tab'[t].pc \in {"login", "starting"}
           \/ tab'[t].url = started + 1 /\ tab'[t].pc = "redirected" /\ started' = started + 1
           \/ tab'[t].pc = "returned" /\ \E u \in Tab : HasActed(u) /\ tab'[t].url = tab[u].url
<1>. DEFINE s == tab[t]
<1>0. s \in TabState /\ \A u \in Tab : tab[u] \in TabState
  BY DEF GoogleInv, GoogleTypeOK
<1>1. \A new : Move(t, new) => tab'[t] = new
  BY DEF GoogleInv, GoogleTypeOK, Move
<1>2. CASE ContinueWithGoogle(t)
  <2>1. tab'[t] = [s EXCEPT !.pc = "starting"]
    BY <1>1, <1>2 DEF ContinueWithGoogle
  <2>. QED BY <1>0, <2>1 DEF TabState
<1>3. CASE GoogleLogin(t)
  <2>1. \/ tab'[t] = [s EXCEPT !.pc = "redirected", !.url = started + 1] /\ started' = started + 1
        \/ tab'[t] = Opened
    BY <1>1, <1>3 DEF GoogleLogin
  <2>2. CASE tab'[t] = [s EXCEPT !.pc = "redirected", !.url = started + 1] /\ started' = started + 1
    <3>1. tab'[t].url = started + 1 /\ tab'[t].pc = "redirected"
      BY <1>0, <2>2 DEF TabState
    <3>. QED BY <2>2, <3>1
  <2>3. CASE tab'[t] = Opened
    BY <2>3 DEF Opened
  <2>. QED BY <2>1, <2>2, <2>3
<1>4. CASE \/ Redirected(t) \/ Consent(t) \/ Visit(t) \/ Validate(t) \/ ExchangeCode(t)
           \/ CallbackAnswered(t) \/ Lose(t)
  <2>1. tab[t].pc \notin {"login", "starting"}
    BY <1>4 DEF Redirected, Consent, Visit, Validate, ExchangeCode, CallbackAnswered, Lose, TabAt
  <2>2. tab'[t].url = s.url /\ tab'[t].pc # "redirected"
    <3>1. CASE Redirected(t) \/ Consent(t) \/ Visit(t)
      BY <1>0, <1>1, <3>1 DEF Redirected, Consent, Visit, TabState
    <3>2. ASSUME NEW status, NEW clears, AnswerCallback(t, status, clears)
          PROVE  tab'[t].url = s.url /\ tab'[t].pc # "redirected"
      <4>1. tab'[t] = [s EXCEPT !.pc = "answered", !.status = status, !.clears = clears]
        BY <1>1, <3>2 DEF AnswerCallback
      <4>. QED BY <1>0, <4>1 DEF TabState
    <3>3. CASE Validate(t)
      <4>1. CASE Move(t, [s EXCEPT !.pc = "exchanging"])
        BY <1>0, <1>1, <4>1 DEF TabState
      <4>. QED BY <3>2, <3>3, <4>1 DEF Validate
    <3>4. CASE ExchangeCode(t)
      BY <3>2, <3>4 DEF ExchangeCode
    <3>5. CASE CallbackAnswered(t) \/ Lose(t)
      BY <1>0, <1>1, <3>5 DEF CallbackAnswered, Lose, TabState
    <3>. QED BY <1>4, <3>1, <3>3, <3>4, <3>5
  <2>. QED BY <2>1, <2>2
<1>5. CASE Again(t)
  <2>1. PICK u \in Tab : HasActed(u) /\ Move(t, [tab[u] EXCEPT !.pc = "returned", !.status = "none"])
    BY <1>5 DEF Again, HasActed
  <2>2. tab'[t] = [tab[u] EXCEPT !.pc = "returned", !.status = "none"]
    BY <1>1, <2>1
  <2>3. tab'[t].pc = "returned" /\ tab'[t].url = tab[u].url
    BY <1>0, <2>2 DEF TabState
  <2>. QED BY <2>1, <2>3
<1>6. CASE Return(t)
  BY <1>1, <1>6 DEF Return, Opened
<1>. QED BY <1>2, <1>3, <1>4, <1>5, <1>6 DEF GoogleStep

(* How a callback comes to be validated, and its code to be exchanged.     *)
LEMMA CallbackMoves ==
    ASSUME GoogleInv, NEW t \in Tab, GoogleStep(t)
    PROVE  /\ tab'[t].pc = "validating"
                => /\ tab'[t].url = tab[t].url /\ tab'[t].sent = cookie
                   /\ tab'[t].late <=> tab[t].url \in settled
           /\ tab'[t].pc = "exchanging"
                => /\ TabAt(t, "validating") /\ StateMatches(t)
                   /\ tab'[t].url = tab[t].url /\ tab'[t].sent = tab[t].sent
                   /\ tab'[t].late = tab[t].late
<1>. DEFINE s == tab[t]
<1>0. s \in TabState /\ \A u \in Tab : tab[u] \in TabState
  BY DEF GoogleInv, GoogleTypeOK
<1>1. \A new : Move(t, new) => tab'[t] = new
  BY DEF GoogleInv, GoogleTypeOK, Move
<1>2. CASE Visit(t)
  <2>1. tab'[t] = [s EXCEPT !.pc = "validating", !.sent = cookie, !.late = s.url \in settled]
    BY <1>1, <1>2 DEF Visit
  <2>. QED BY <1>0, <2>1 DEF TabState
<1>3. ASSUME NEW status, NEW clears, AnswerCallback(t, status, clears)
      PROVE  tab'[t].pc = "answered"
  <2>1. tab'[t] = [s EXCEPT !.pc = "answered", !.status = status, !.clears = clears]
    BY <1>1, <1>3 DEF AnswerCallback
  <2>. QED BY <1>0, <2>1 DEF TabState
<1>4. CASE Validate(t)
  <2>1. CASE AnswerCallback(t, "refused", FALSE)
    BY <1>3, <2>1
  <2>2. CASE ~AnswerCallback(t, "refused", FALSE) /\ tab'[t].pc # "answered"
    <3>1. /\ TabAt(t, "validating") /\ StateMatches(t)
          /\ tab'[t] = [s EXCEPT !.pc = "exchanging"]
      BY <1>1, <1>3, <1>4, <2>2 DEF Validate
    <3>. QED BY <1>0, <3>1 DEF TabState
  <2>. QED BY <2>1, <2>2
<1>5. CASE ContinueWithGoogle(t) \/ Redirected(t) \/ Consent(t) \/ CallbackAnswered(t) \/ Lose(t)
  <2>1. \E pc \in {"starting", "consent", "returned", "landing"} : tab'[t].pc = pc
    BY <1>0, <1>1, <1>5
       DEF ContinueWithGoogle, Redirected, Consent, CallbackAnswered, Lose, TabState
  <2>. QED BY <2>1
<1>6. CASE GoogleLogin(t) \/ Return(t)
  <2>1. \/ tab'[t] = [s EXCEPT !.pc = "redirected", !.url = started + 1]
        \/ tab'[t] = Opened
    BY <1>1, <1>6 DEF GoogleLogin, Return
  <2>2. CASE tab'[t] = [s EXCEPT !.pc = "redirected", !.url = started + 1]
    <3>1. tab'[t].pc = "redirected"
      BY <1>0, <2>2 DEF TabState
    <3>. QED BY <3>1
  <2>3. CASE tab'[t] = Opened
    BY <2>3 DEF Opened
  <2>. QED BY <2>1, <2>2, <2>3
<1>7. CASE ExchangeCode(t)
  BY <1>3, <1>7 DEF ExchangeCode
<1>8. CASE Again(t)
  <2>1. PICK u \in Tab : Move(t, [tab[u] EXCEPT !.pc = "returned", !.status = "none"])
    BY <1>8 DEF Again
  <2>2. tab'[t] = [tab[u] EXCEPT !.pc = "returned", !.status = "none"]
    BY <1>1, <2>1
  <2>3. tab'[t].pc = "returned"
    BY <1>0, <2>2 DEF TabState
  <2>. QED BY <2>3
<1>. QED BY <1>2, <1>4, <1>5, <1>6, <1>7, <1>8 DEF GoogleStep

LEMMA GoogleTypes ==
    ASSUME GoogleInv, [GoogleNext]_googleVars
    PROVE  GoogleTypeOK'
<1>1. CASE UNCHANGED googleVars
  BY <1>1 DEF GoogleInv, GoogleTypeOK, googleVars
<1>2. CASE CookiesExpire
  BY <1>2 DEF GoogleInv, GoogleTypeOK, CookiesExpire
<1>3. ASSUME NEW t \in Tab, GoogleStep(t)
      PROVE  GoogleTypeOK'
  <2>1. tab[t].url \in Transaction \cup {NoStart}
        /\ (tab[t].pc \notin {"login", "starting"} => tab[t].url \in Transaction)
    BY DEF GoogleInv, GoogleTypeOK, Numbered, TabState
  <2>2. tab' \in [Tab -> TabState]
    BY <1>3, OthersStay
  <2>3. cookie' \in Transaction \cup {NoStart} /\ settled' \subseteq Transaction
    BY <1>3, <2>1, CookiesMove DEF GoogleInv, GoogleTypeOK, TabAt
  <2>4. started' \in 0..MaxStarts
    BY <1>3, CookiesMove, StartsAssumption DEF GoogleInv, GoogleTypeOK
  <2>5. redeemed' \subseteq Transaction
    <3>1. redeemed' = redeemed \/ (TabAt(t, "exchanging")
                                  /\ redeemed' \in {redeemed, redeemed \cup {tab[t].url}})
      BY <1>3 DEF GoogleStep, ContinueWithGoogle, GoogleLogin, Redirected, Consent, Visit, Validate,
                  ExchangeCode, CallbackAnswered, Lose, Again, Return
    <3>. QED BY <2>1, <3>1 DEF GoogleInv, GoogleTypeOK, TabAt
  <2>6. visits' \in 0..MaxVisits
    <3>1. visits' = visits \/ (visits < MaxVisits /\ visits' = visits + 1)
      BY <1>3 DEF GoogleStep, ContinueWithGoogle, GoogleLogin, Redirected, Consent, Visit, Validate,
                  ExchangeCode, CallbackAnswered, Lose, Again, Return
    <3>. QED BY <3>1, StartsAssumption DEF GoogleInv, GoogleTypeOK
  <2>. QED BY <2>2, <2>3, <2>4, <2>5, <2>6 DEF GoogleTypeOK
<1>. QED BY <1>1, <1>2, <1>3 DEF GoogleNext

(* The parts of the invariant that one tab's step may disturb.             *)
LEMMA GoogleSteps ==
    ASSUME GoogleInv, NEW t \in Tab, GoogleStep(t)
    PROVE  Numbered' /\ KnownToOne' /\ Unsettled' /\ InTime' /\ CodeMeetsItsVerifier'
<1>0. /\ started \in Nat /\ started' \in Nat /\ started <= started'
      /\ settled \subseteq 1..started /\ cookie \notin settled
      /\ \A u \in Tab : tab[u].url \in Nat /\ tab[u].url <= started
  BY CookiesMove, StartsAssumption
     DEF GoogleInv, GoogleTypeOK, TabState, Transaction, NoStart, Numbered, Unsettled
<1>1. \A u \in Tab : u # t => tab'[u] = tab[u]
  BY OthersStay
<1>2. tab'[t].url \in {NoStart, tab[t].url, started + 1} \/ \E u \in Tab : tab'[t].url = tab[u].url
  BY TransactionKept
<1>3. Numbered'
  <2>1. settled' \subseteq 1..started'
    <3>1. TabAt(t, "answered") => tab[t].url \in 1..started
      BY <1>0 DEF GoogleInv, Numbered, TabAt, NoStart
    <3>2. settled' \subseteq 1..started
      BY <1>0, <3>1, CookiesMove
    <3>3. 1..started \subseteq 1..started'
      BY <1>0
    <3>. QED BY <3>2, <3>3
  <2>2. tab'[t].url <= started' /\ (tab'[t].pc \notin {"login", "starting"} => tab'[t].url # NoStart)
    <3>1. \A u \in Tab : tab[u].pc \notin {"login", "starting"} => tab[u].url # NoStart
      BY DEF GoogleInv, Numbered
    <3>. QED BY <1>0, <3>1, TransactionKept DEF NoStart, HasActed
  <2>. QED BY <1>0, <1>1, <2>1, <2>2 DEF GoogleInv, Numbered
<1>4. ASSUME NEW v \in Tab, v # t, TabAt(v, "redirected")
      PROVE  tab'[t].url # tab[v].url /\ tab[t].url # tab[v].url
  <2>1. \A u \in Tab : u # v => tab[u].url # tab[v].url
    BY <1>4 DEF GoogleInv, KnownToOne
  <2>2. tab[v].url # NoStart /\ tab[v].url # started + 1
    BY <1>0, <1>4 DEF GoogleInv, Numbered, TabAt
  <2>3. \A u \in Tab : HasActed(u) => u # v
    BY <1>4 DEF HasActed, TabAt
  <2>. QED BY <1>4, <2>1, <2>2, <2>3, TransactionKept
<1>5. tab'[t].pc = "redirected" => tab'[t].url = started + 1
  BY TransactionKept
<1>6. KnownToOne'
  <2>. SUFFICES ASSUME NEW v \in Tab, NEW u \in Tab, tab'[v].pc = "redirected", u # v
                PROVE  tab'[u].url # tab'[v].url
    BY DEF KnownToOne, TabAt
  <2>1. CASE v = t
    BY <1>0, <1>1, <1>5, <2>1
  <2>2. CASE v # t /\ u = t
    BY <1>1, <1>4, <2>2 DEF TabAt
  <2>3. CASE v # t /\ u # t
    BY <1>1, <2>3 DEF GoogleInv, KnownToOne, TabAt
  <2>. QED BY <2>1, <2>2, <2>3
<1>7. Unsettled'
  <2>1. cookie' \notin settled'
    <3>1. NoStart \notin settled /\ (TabAt(t, "answered") => tab[t].url # NoStart)
      BY <1>0 DEF NoStart, GoogleInv, Numbered, TabAt
    <3>2. Redirected(t) => tab[t].url \notin settled
      BY DEF Redirected, GoogleInv, Unsettled
    <3>. QED BY <1>0, <3>1, <3>2, CookiesMove
  <2>2. ASSUME NEW v \in Tab, tab'[v].pc = "redirected"
        PROVE  tab'[v].url \notin settled'
    <3>1. settled' = settled \/ (TabAt(t, "answered") /\ settled' = settled \cup {tab[t].url})
      BY CookiesMove
    <3>2. CASE v = t
      BY <1>0, <1>5, <2>2, <3>1, <3>2
    <3>3. CASE v # t
      <4>1. TabAt(v, "redirected") /\ tab'[v] = tab[v]
        BY <1>1, <2>2, <3>3 DEF TabAt
      <4>2. tab[v].url \notin settled /\ tab[t].url # tab[v].url
        BY <1>4, <3>3, <4>1 DEF GoogleInv, Unsettled
      <4>. QED BY <3>1, <4>1, <4>2
    <3>. QED BY <3>2, <3>3
  <2>. QED BY <2>1, <2>2 DEF Unsettled, TabAt
<1>8. InTime'
  <2>. SUFFICES ASSUME NEW v \in Tab, tab'[v].pc = "validating", tab'[v].sent = tab'[v].url,
                       tab'[v].late
                PROVE  FALSE
    BY DEF InTime, TabAt, StateMatches
  <2>1. CASE v = t
    BY <1>0, <2>1, CallbackMoves
  <2>2. CASE v # t
    <3>1. tab'[v] = tab[v]
      BY <1>1, <2>2
    <3>2. tab[v].pc = "validating"
      BY <3>1
    <3>3. tab[v].url # NoStart
      BY <3>2 DEF GoogleInv, Numbered
    <3>. QED BY <3>1, <3>2, <3>3 DEF GoogleInv, InTime, TabAt, StateMatches
  <2>. QED BY <2>1, <2>2
<1>9. CodeMeetsItsVerifier'
  <2>. SUFFICES ASSUME NEW v \in Tab, tab'[v].pc = "exchanging"
                PROVE  tab'[v].sent = tab'[v].url /\ ~tab'[v].late
    BY DEF CodeMeetsItsVerifier, TabAt
  <2>1. CASE v = t
    <3>1. ~tab[t].late /\ tab[t].sent = tab[t].url
      BY <2>1, CallbackMoves DEF GoogleInv, InTime, StateMatches
    <3>. QED BY <2>1, <3>1, CallbackMoves
  <2>2. CASE v # t
    <3>1. tab'[v] = tab[v]
      BY <1>1, <2>2
    <3>. QED BY <3>1 DEF GoogleInv, CodeMeetsItsVerifier, TabAt
  <2>. QED BY <2>1, <2>2
<1>. QED BY <1>3, <1>6, <1>7, <1>8, <1>9

LEMMA GoogleInitially == GoogleInit => GoogleInv
<1>. SUFFICES ASSUME GoogleInit PROVE GoogleInv
  OBVIOUS
<1>1. Opened \in TabState
  BY DEF Opened, TabState
<1>2. GoogleTypeOK
  BY <1>1, StartsAssumption DEF GoogleInit, GoogleTypeOK
<1>3. \A t \in Tab : tab[t].pc = "login" /\ tab[t].url = NoStart
  BY DEF GoogleInit, Opened
<1>. QED BY <1>2, <1>3 DEF GoogleInv, GoogleInit, Numbered, KnownToOne, Unsettled, InTime,
            CodeMeetsItsVerifier, TabAt, NoStart

LEMMA GoogleInductive == GoogleInv /\ [GoogleNext]_googleVars => GoogleInv'
<1>. SUFFICES ASSUME GoogleInv, [GoogleNext]_googleVars PROVE GoogleInv'
  OBVIOUS
<1>0. GoogleTypeOK'
  BY GoogleTypes
<1>1. CASE UNCHANGED googleVars
  BY <1>1 DEF googleVars, GoogleInv, GoogleTypeOK, Numbered, KnownToOne, Unsettled, InTime,
              CodeMeetsItsVerifier, TabAt, StateMatches
<1>2. CASE CookiesExpire
  <2>1. NoStart \notin settled
    BY DEF GoogleInv, GoogleTypeOK, Transaction, NoStart
  <2>. QED BY <1>0, <1>2, <2>1 DEF CookiesExpire, GoogleInv, Numbered, KnownToOne, Unsettled,
              InTime, CodeMeetsItsVerifier, TabAt, StateMatches
<1>3. ASSUME NEW t \in Tab, GoogleStep(t) PROVE GoogleInv'
  BY <1>0, <1>3, GoogleSteps DEF GoogleInv
<1>. QED BY <1>1, <1>2, <1>3 DEF GoogleNext

(* A code is exchanged with the verifier of the start that asked for it,   *)
(* and never again after the browser has got its callback's answer, however*)
(* many tabs share the cookies (GoogleOAuthTransactionService, verifyState).*)
THEOREM CodesMeetTheirVerifiers == GoogleSpec => []CodeMeetsItsVerifier
<1>1. GoogleInv => CodeMeetsItsVerifier
  BY DEF GoogleInv
<1>. QED BY <1>1, GoogleInitially, GoogleInductive, PTL DEF GoogleSpec

(* The tabs, cookies and codes keep their types.                           *)
THEOREM GoogleTypeCorrect == GoogleSpec => []GoogleTypeOK
<1>1. GoogleInv => GoogleTypeOK
  BY DEF GoogleInv
<1>. QED BY <1>1, GoogleInitially, GoogleInductive, PTL DEF GoogleSpec

-----------------------------------------------------------------------------
(* An upload. What can never again become a whole body, whatever the       *)
(* client goes on to send.                                                 *)
Spoiled ==
    \/ form.extra
    \/ form.at = "closed" /\ ~form.seen
    \/ ~file.good
    \/ file.fed > work.declared
    \/ file.ended /\ file.fed # work.declared

(* The parser: one file at most, and complete only when it was read whole. *)
ParserSound ==
    /\ form.at = "file" \/ file.ended => form.seen
    /\ file.ended => form.at # "file"
    /\ form.extra \/ file.destroyed => form.completed = "failed"
    /\ form.completed = "ok" => form.at = "closed" /\ form.seen /\ file.ended

(* The inspection lets through what is whole.                              *)
InspectionSound ==
    /\ file.inspection = "passed" => file.good /\ file.ended /\ file.fed = work.declared
    /\ work.storage = "stored" => file.inspection = "passed"

(* Nothing is called rejected that might have been whole.                  *)
RejectionSound ==
    form.ready = "rejected" \/ form.completed = "failed" \/ file.inspection = "failed"
      \/ work.answer = "rejected" => Spoiled

(* The handler answers "created" once, after the storage and the parser.   *)
HandlerSound ==
    /\ work.pc \in {"parsing", "checking", "transfer"} => work.answer = "none"
    /\ work.pc = "cleanup" => work.answer # "created"
    /\ work.pc = "transfer" /\ work.storage = "stored" => work.object
    /\ work.answer = "created" => /\ work.pc = "done" /\ work.storage = "stored"
                                  /\ form.completed = "ok" /\ work.object

UploadInv ==
    UploadTypeOK /\ ParserSound /\ InspectionSound /\ RejectionSound /\ HandlerSound

LEMMA UploadInvWhole == UploadInv => UploadWhole
  BY DEF UploadInv, UploadTypeOK, Form, File, Work, ParserSound, InspectionSound, RejectionSound,
         HandlerSound, Spoiled, UploadWhole, WholeBody

(* The parser's failure keeps the types.                                   *)
LEMMA FailedTyped ==
    ASSUME NEW f \in Form, NEW s \in File
    PROVE  Failed(f) \in Form /\ Destroyed(f, s) \in File
<1>1. Failed(f) \in Form
  <2>1. [f EXCEPT !.completed = "failed"] \in Form
    BY DEF Form
  <2>2. [f EXCEPT !.completed = "failed", !.ready = "rejected"] \in Form
    BY DEF Form
  <2>. QED BY <2>1, <2>2 DEF Failed, Form
<1>2. Destroyed(f, s) \in File
  <2>1. [s EXCEPT !.destroyed = TRUE] \in File
    BY DEF File
  <2>2. [s EXCEPT !.destroyed = TRUE, !.inspection = "failed"] \in File
    BY DEF File
  <2>. QED BY <2>1, <2>2 DEF Destroyed, File
<1>. QED BY <1>1, <1>2

LEMMA UploadTypes ==
    ASSUME UploadTypeOK, [UploadNext]_uploadVars
    PROVE  UploadTypeOK'
<1>. USE BlocksAssumption DEF UploadTypeOK
<1>1. CASE FilePart
  <2>1. form' \in Form
    BY <1>1, FailedTyped DEF FilePart, Form
  <2>2. file' \in File
    BY <1>1, FailedTyped DEF FilePart, File
  <2>3. work' \in Work
    BY <1>1 DEF FilePart, Work
  <2>. QED BY <2>1, <2>2, <2>3
<1>2. CASE OtherPart
  <2>0. [form EXCEPT !.extra = TRUE] \in Form
    BY DEF Form
  <2>1. form' \in Form
    BY <1>2, <2>0, FailedTyped DEF OtherPart, Fail
  <2>2. file' \in File
    BY <1>2, <2>0, FailedTyped DEF OtherPart, Fail
  <2>3. work' \in Work
    BY <1>2 DEF OtherPart, Fail, Work
  <2>. QED BY <2>1, <2>2, <2>3
<1>3. CASE Block
  <2>1. form' \in Form
    BY <1>3, FailedTyped DEF Block, Form
  <2>2. file' \in File
    BY <1>3, FailedTyped DEF Block, File
  <2>3. work' \in Work
    BY <1>3 DEF Block, Work
  <2>. QED BY <2>1, <2>2, <2>3
<1>4. CASE EndFile
  <2>1. form' \in Form
    BY <1>4, FailedTyped DEF EndFile, Form
  <2>2. file' \in File
    BY <1>4, FailedTyped DEF EndFile, File
  <2>3. work' \in Work
    BY <1>4 DEF EndFile, Work
  <2>. QED BY <2>1, <2>2, <2>3
<1>5. CASE EndBody
  <2>1. form' \in Form
    BY <1>5, FailedTyped DEF EndBody, Form
  <2>2. file' \in File
    BY <1>5, FailedTyped DEF EndBody, File
  <2>3. work' \in Work
    BY <1>5 DEF EndBody, Work
  <2>. QED BY <2>1, <2>2, <2>3
<1>6. CASE BodyBreaksOff
  <2>0. [form EXCEPT !.at = "closed", !.extra = TRUE] \in Form
    BY DEF Form
  <2>1. form' \in Form
    BY <1>6, <2>0, FailedTyped DEF BodyBreaksOff, Fail
  <2>2. file' \in File
    BY <1>6, <2>0, FailedTyped DEF BodyBreaksOff, Fail
  <2>3. work' \in Work
    BY <1>6 DEF BodyBreaksOff, Fail, Work
  <2>. QED BY <2>1, <2>2, <2>3
<1>7. CASE Close
  <2>. DEFINE closed == [form EXCEPT !.at = "closed"]
  <2>0. closed \in Form
        /\ [closed EXCEPT !.completed = IF @ = "pending" THEN "ok" ELSE @] \in Form
    BY DEF Form
  <2>1. form' \in Form
    <3>1. CASE form.seen
      BY <1>7, <2>0, <3>1 DEF Close
    <3>2. CASE ~form.seen
      BY <1>7, <2>0, <3>2, FailedTyped DEF Close, Fail
    <3>. QED BY <3>1, <3>2
  <2>2. file' \in File
    <3>1. CASE form.seen
      BY <1>7, <3>1 DEF Close
    <3>2. CASE ~form.seen
      BY <1>7, <2>0, <3>2, FailedTyped DEF Close, Fail
    <3>. QED BY <3>1, <3>2
  <2>3. work' \in Work
    BY <1>7 DEF Close, Fail, Work
  <2>. QED BY <2>1, <2>2, <2>3
<1>8. CASE Parsed
  <2>1. form' \in Form
    BY <1>8, FailedTyped DEF Parsed, AnswerUpload, Form
  <2>2. file' \in File
    BY <1>8, FailedTyped DEF Parsed, AnswerUpload, File
  <2>3. work' \in Work
    BY <1>8 DEF Parsed, AnswerUpload, Work
  <2>. QED BY <2>1, <2>2, <2>3
<1>9. CASE Decline
  <2>1. form' \in Form
    BY <1>9, FailedTyped DEF Decline, AnswerUpload, Form
  <2>2. file' \in File
    BY <1>9, FailedTyped DEF Decline, AnswerUpload, File
  <2>3. work' \in Work
    BY <1>9 DEF Decline, AnswerUpload, Work
  <2>. QED BY <2>1, <2>2, <2>3
<1>10. CASE Transfer
  <2>1. form' \in Form
    BY <1>10, FailedTyped DEF Transfer, Form
  <2>2. file' \in File
    BY <1>10, FailedTyped DEF Transfer, File
  <2>3. work' \in Work
    BY <1>10 DEF Transfer, Work
  <2>. QED BY <2>1, <2>2, <2>3
<1>11. CASE Finish
  <2>1. form' \in Form
    BY <1>11, FailedTyped DEF Finish, AnswerUpload, Form
  <2>2. file' \in File
    BY <1>11, FailedTyped DEF Finish, AnswerUpload, File
  <2>3. work' \in Work
    BY <1>11 DEF Finish, AnswerUpload, Work
  <2>. QED BY <2>1, <2>2, <2>3
<1>12. CASE GiveUp
  <2>1. form' \in Form
    BY <1>12, FailedTyped DEF GiveUp, Form
  <2>2. file' \in File
    BY <1>12, FailedTyped DEF GiveUp, File
  <2>3. work' \in Work
    BY <1>12 DEF GiveUp, Work
  <2>. QED BY <2>1, <2>2, <2>3
<1>13. CASE Cleanup
  <2>1. form' \in Form
    BY <1>13, FailedTyped DEF Cleanup, Form
  <2>2. file' \in File
    BY <1>13, FailedTyped DEF Cleanup, File
  <2>3. work' \in Work
    BY <1>13 DEF Cleanup, Work
  <2>. QED BY <2>1, <2>2, <2>3
<1>14. CASE Inspect
  <2>1. form' \in Form
    BY <1>14, FailedTyped DEF Inspect, Form
  <2>2. file' \in File
    <3>1. file.count + 1 \in 0..MaxBlocks + 1
      BY <1>14 DEF Inspect, File
    <3>2. \A inspection \in {"open", "passed", "failed"} :
            [file EXCEPT !.count = file.count + 1, !.inspection = inspection] \in File
      BY <3>1 DEF File
    <3>. QED BY <1>14, <3>2 DEF Inspect, File
  <2>3. work' \in Work
    BY <1>14 DEF Inspect, Work
  <2>. QED BY <2>1, <2>2, <2>3
<1>15. CASE Flush
  <2>1. form' \in Form
    BY <1>15, FailedTyped DEF Flush, Form
  <2>2. file' \in File
    BY <1>15, FailedTyped DEF Flush, File
  <2>3. work' \in Work
    BY <1>15 DEF Flush, Work
  <2>. QED BY <2>1, <2>2, <2>3
<1>16. CASE Stored
  <2>1. form' \in Form
    BY <1>16, FailedTyped DEF Stored, Form
  <2>2. file' \in File
    BY <1>16, FailedTyped DEF Stored, File
  <2>3. work' \in Work
    BY <1>16 DEF Stored, Work
  <2>. QED BY <2>1, <2>2, <2>3
<1>17. CASE Stopped
  <2>1. form' \in Form
    BY <1>17, FailedTyped DEF Stopped, Form
  <2>2. file' \in File
    BY <1>17, FailedTyped DEF Stopped, File
  <2>3. work' \in Work
    BY <1>17 DEF Stopped, Work
  <2>. QED BY <2>1, <2>2, <2>3
<1>18. CASE StorageFails
  <2>1. form' \in Form
    BY <1>18, FailedTyped DEF StorageFails, Form
  <2>2. file' \in File
    BY <1>18, FailedTyped DEF StorageFails, File
  <2>3. work' \in Work
    BY <1>18 DEF StorageFails, Work
  <2>. QED BY <2>1, <2>2, <2>3
<1>19. CASE UNCHANGED uploadVars
  BY <1>19 DEF uploadVars
<1>20. CASE Listen
  <2>1. form' \in Form /\ UNCHANGED <<file, work>>
    BY <1>20 DEF Listen, Form
  <2>. QED BY <2>1
<1>21. CASE LeaveUnheard
  <2>1. form' \in Form /\ UNCHANGED <<file, work>>
    BY <1>21 DEF LeaveUnheard, Form
  <2>. QED BY <2>1
<1>. QED BY <1>1, <1>2, <1>3, <1>4, <1>5, <1>6, <1>7, <1>8, <1>9,
         <1>10, <1>11, <1>12, <1>13, <1>14, <1>15, <1>16,
         <1>17, <1>18, <1>19, <1>20, <1>21
     DEF UploadNext, Sends, Handler

LEMMA Closes ==
    ASSUME UploadTypeOK, Close
    PROVE  /\ form'.at = "closed" /\ form'.seen = form.seen /\ form'.extra = form.extra
           /\ UNCHANGED <<file, work>>
           /\ form.seen => Consumed
           /\ form.seen \/ form.completed # "pending" => form'.ready = form.ready
           /\ form'.completed = IF form.completed # "pending" THEN form.completed
                                ELSE IF form.seen THEN "ok" ELSE "failed"
<1>1. /\ form \in Form /\ UNCHANGED work /\ (form.seen => Consumed)
      /\ IF form.seen
         THEN /\ form' = [form EXCEPT !.at = "closed",
                          !.completed = IF form.completed = "pending" THEN "ok" ELSE form.completed]
              /\ UNCHANGED file
         ELSE Fail([form EXCEPT !.at = "closed"])
  BY DEF Close, UploadTypeOK, Form
<1>2. CASE form.seen
  BY <1>1, <1>2 DEF Form
<1>3. CASE ~form.seen
  <2> DEFINE closed == [form EXCEPT !.at = "closed"]
  <2>1. /\ closed.at = "closed" /\ closed.seen = FALSE /\ closed.extra = form.extra
        /\ closed.completed = form.completed /\ closed.ready = form.ready /\ closed \in Form
    BY <1>1, <1>3 DEF Form
  <2>2. form' = Failed(closed) /\ file' = Destroyed(closed, file)
    BY <1>1, <1>3 DEF Fail
  <2> HIDE DEF closed
  <2>3. file' = file
    BY <2>1, <2>2 DEF Destroyed
  <2>. QED BY <1>1, <1>3, <2>1, <2>2, <2>3 DEF Failed, Form
<1>. QED BY <1>2, <1>3

LEMMA Finishes ==
    ASSUME UploadTypeOK, Finish
    PROVE  /\ UNCHANGED <<form, file>> /\ form.completed = "ok" /\ work.storage = "stored"
           /\ work'.storage = work.storage /\ work'.object = work.object
           /\ work'.declared = work.declared /\ work.pc = "transfer"
           /\ \/ work'.pc = "done" /\ work'.answer = "created"
              \/ work'.pc = "cleanup" /\ work'.answer = "unavailable"
<1>1. CASE AnswerUpload("created")
  BY <1>1 DEF Finish, AnswerUpload, UploadTypeOK, Work
<1>2. CASE work' = [work EXCEPT !.pc = "cleanup", !.answer = "unavailable"]
  BY <1>2 DEF Finish, UploadTypeOK, Work
<1>. QED BY <1>1, <1>2 DEF Finish

LEMMA ParserStep ==
    ASSUME UploadTypeOK, ParserSound, [UploadNext]_uploadVars
    PROVE  ParserSound'
<1>. USE BlocksAssumption DEF UploadTypeOK, ParserSound, Form, File, Work
<1>1. CASE FilePart
  BY <1>1 DEF FilePart
<1>2. CASE OtherPart
  BY <1>2 DEF OtherPart, Fail, Failed, Destroyed
<1>3. CASE Block
  <2>1. /\ form'.at = form.at /\ form'.seen = form.seen /\ form'.extra = form.extra
        /\ file'.ended = file.ended
    BY <1>3 DEF Block, Failed, Destroyed
  <2>2. form.at = "file" /\ form.seen /\ form.completed # "ok" /\ ~file.destroyed
    BY <1>3 DEF Block
  <2>3. form'.completed # "ok" /\ (file'.destroyed \/ form.extra => form'.completed = "failed")
    <3>1. CASE file.fed + 1 > MaxBlocks
      BY <1>3, <2>2, <3>1 DEF Block, Failed, Destroyed
    <3>2. CASE ~(file.fed + 1 > MaxBlocks)
      BY <1>3, <2>2, <3>2 DEF Block
    <3>. QED BY <3>1, <3>2
  <2>. QED BY <2>1, <2>2, <2>3
<1>4. CASE EndFile
  BY <1>4 DEF EndFile
<1>5. CASE EndBody
  BY <1>5 DEF EndBody
<1>6. CASE BodyBreaksOff
  BY <1>6 DEF BodyBreaksOff, Fail, Failed, Destroyed
<1>7. CASE Close
  BY <1>7, Closes DEF Consumed
<1>8. CASE Parsed
  BY <1>8 DEF Parsed, AnswerUpload
<1>9. CASE Decline
  BY <1>9 DEF Decline, AnswerUpload
<1>10. CASE Transfer
  BY <1>10 DEF Transfer
<1>11. CASE Finish
  BY <1>11, Finishes
<1>12. CASE GiveUp
  BY <1>12 DEF GiveUp
<1>13. CASE Cleanup
  BY <1>13 DEF Cleanup
<1>14. CASE Inspect
  BY <1>14 DEF Inspect, Piped
<1>15. CASE Flush
  BY <1>15 DEF Flush, Piped
<1>16. CASE Stored
  BY <1>16 DEF Stored
<1>17. CASE Stopped
  BY <1>17 DEF Stopped
<1>18. CASE StorageFails
  BY <1>18 DEF StorageFails
<1>19. CASE UNCHANGED uploadVars
  BY <1>19 DEF uploadVars
<1>20. CASE Listen
  BY <1>20 DEF Listen
<1>21. CASE LeaveUnheard
  BY <1>21 DEF LeaveUnheard
<1>. QED BY <1>1, <1>2, <1>3, <1>4, <1>5, <1>6, <1>7, <1>8, <1>9,
         <1>10, <1>11, <1>12, <1>13, <1>14, <1>15, <1>16,
         <1>17, <1>18, <1>19, <1>20, <1>21
     DEF UploadNext, Sends, Handler

LEMMA InspectionStep ==
    ASSUME UploadInv, [UploadNext]_uploadVars
    PROVE  InspectionSound'
<1>. USE BlocksAssumption DEF UploadInv, UploadTypeOK, ParserSound, InspectionSound, Form, File, Work
<1>1. CASE FilePart
  BY <1>1 DEF FilePart
<1>2. CASE OtherPart
  BY <1>2 DEF OtherPart, Fail, Failed, Destroyed
<1>3. CASE Block
  BY <1>3 DEF Block, Failed, Destroyed
<1>4. CASE EndFile
  BY <1>4 DEF EndFile
<1>5. CASE EndBody
  BY <1>5 DEF EndBody
<1>6. CASE BodyBreaksOff
  BY <1>6 DEF BodyBreaksOff, Fail, Failed, Destroyed
<1>7. CASE Close
  BY <1>7, Closes DEF Consumed
<1>8. CASE Parsed
  BY <1>8 DEF Parsed, AnswerUpload
<1>9. CASE Decline
  BY <1>9 DEF Decline, AnswerUpload
<1>10. CASE Transfer
  BY <1>10 DEF Transfer
<1>11. CASE Finish
  BY <1>11, Finishes
<1>12. CASE GiveUp
  BY <1>12 DEF GiveUp
<1>13. CASE Cleanup
  BY <1>13 DEF Cleanup
<1>14. CASE Inspect
  BY <1>14 DEF Inspect, Piped
<1>15. CASE Flush
  BY <1>15 DEF Flush, Piped
<1>16. CASE Stored
  BY <1>16 DEF Stored
<1>17. CASE Stopped
  BY <1>17 DEF Stopped
<1>18. CASE StorageFails
  BY <1>18 DEF StorageFails
<1>19. CASE UNCHANGED uploadVars
  BY <1>19 DEF uploadVars
<1>20. CASE Listen
  BY <1>20 DEF Listen
<1>21. CASE LeaveUnheard
  BY <1>21 DEF LeaveUnheard
<1>. QED BY <1>1, <1>2, <1>3, <1>4, <1>5, <1>6, <1>7, <1>8, <1>9,
         <1>10, <1>11, <1>12, <1>13, <1>14, <1>15, <1>16,
         <1>17, <1>18, <1>19, <1>20, <1>21
     DEF UploadNext, Sends, Handler

LEMMA RejectionStep ==
    ASSUME UploadInv, [UploadNext]_uploadVars
    PROVE  RejectionSound'
<1>. USE BlocksAssumption DEF UploadInv, UploadTypeOK, ParserSound, RejectionSound, Spoiled, Form, File, Work
<1>1. CASE FilePart
  BY <1>1 DEF FilePart
<1>2. CASE OtherPart
  BY <1>2 DEF OtherPart, Fail, Failed, Destroyed
<1>3. CASE Block
  <2>1. CASE file.fed + 1 > MaxBlocks
    <3>1. file' = Destroyed(form, [file EXCEPT !.fed = file.fed + 1]) /\ work' = work
      BY <1>3, <2>1 DEF Block
    <3>2. \A s \in File : Destroyed(form, s).fed = s.fed
      BY DEF Destroyed
    <3>3. [file EXCEPT !.fed = file.fed + 1] \in File
      BY <1>3 DEF Block
    <3>4. file'.fed = file.fed + 1
      BY <3>1, <3>2, <3>3
    <3>5. file'.fed > work.declared
      BY <2>1, <3>4
    <3>. QED BY <3>1, <3>5
  <2>2. CASE ~(file.fed + 1 > MaxBlocks)
    <3>1. /\ form' = form /\ work' = work
          /\ file' = [file EXCEPT !.fed = file.fed + 1]
      BY <1>3, <2>2 DEF Block
    <3>2. ~file.ended /\ form.at = "file"
      BY <1>3 DEF Block
    <3>3. Spoiled => Spoiled'
      BY <3>1, <3>2
    <3>. QED BY <3>1, <3>3
  <2>. QED BY <2>1, <2>2
<1>4. CASE EndFile
  BY <1>4 DEF EndFile
<1>5. CASE EndBody
  BY <1>5 DEF EndBody
<1>6. CASE BodyBreaksOff
  BY <1>6 DEF BodyBreaksOff, Fail, Failed, Destroyed
<1>7. CASE Close
  <2>1. CASE form.seen
    <3>1. Spoiled => Spoiled'
      BY <1>7, <2>1, Closes DEF Close
    <3>. QED BY <1>7, <2>1, <3>1, Closes
  <2>2. CASE ~form.seen
    <3>1. Spoiled'
      BY <1>7, <2>2, Closes
    <3>. QED BY <3>1
  <2>. QED BY <2>1, <2>2
<1>8. CASE Parsed
  <2>1. /\ UNCHANGED <<form, file>> /\ work'.declared = work.declared
        /\ work'.answer = "rejected" => form.ready = "rejected" \/ work.answer = "rejected"
    BY <1>8 DEF Parsed, AnswerUpload
  <2>2. Spoiled' <=> Spoiled
    BY <2>1
  <2>. QED BY <2>1, <2>2
<1>9. CASE Decline
  BY <1>9 DEF Decline, AnswerUpload
<1>10. CASE Transfer
  BY <1>10 DEF Transfer
<1>11. CASE Finish
  BY <1>11, Finishes
<1>12. CASE GiveUp
  BY <1>12 DEF GiveUp
<1>13. CASE Cleanup
  BY <1>13 DEF Cleanup
<1>14. CASE Inspect
  BY <1>14 DEF Inspect, Piped
<1>15. CASE Flush
  BY <1>15 DEF Flush, Piped
<1>16. CASE Stored
  BY <1>16 DEF Stored
<1>17. CASE Stopped
  BY <1>17 DEF Stopped
<1>18. CASE StorageFails
  BY <1>18 DEF StorageFails
<1>19. CASE UNCHANGED uploadVars
  BY <1>19 DEF uploadVars
<1>20. CASE Listen
  BY <1>20 DEF Listen
<1>21. CASE LeaveUnheard
  BY <1>21 DEF LeaveUnheard
<1>. QED BY <1>1, <1>2, <1>3, <1>4, <1>5, <1>6, <1>7, <1>8, <1>9,
         <1>10, <1>11, <1>12, <1>13, <1>14, <1>15, <1>16,
         <1>17, <1>18, <1>19, <1>20, <1>21
     DEF UploadNext, Sends, Handler

LEMMA HandlerStep ==
    ASSUME UploadInv, [UploadNext]_uploadVars
    PROVE  HandlerSound'
<1>. USE BlocksAssumption DEF UploadInv, UploadTypeOK, ParserSound, InspectionSound, HandlerSound, Form, File, Work
<1>1. CASE FilePart
  BY <1>1 DEF FilePart
<1>2. CASE OtherPart
  BY <1>2 DEF OtherPart, Fail, Failed, Destroyed
<1>3. CASE Block
  BY <1>3 DEF Block, Failed, Destroyed
<1>4. CASE EndFile
  BY <1>4 DEF EndFile
<1>5. CASE EndBody
  BY <1>5 DEF EndBody
<1>6. CASE BodyBreaksOff
  BY <1>6 DEF BodyBreaksOff, Fail, Failed, Destroyed
<1>7. CASE Close
  BY <1>7, Closes DEF Consumed
<1>8. CASE Parsed
  BY <1>8 DEF Parsed, AnswerUpload
<1>9. CASE Decline
  BY <1>9 DEF Decline, AnswerUpload
<1>10. CASE Transfer
  BY <1>10 DEF Transfer
<1>11. CASE Finish
  BY <1>11, Finishes
<1>12. CASE GiveUp
  BY <1>12 DEF GiveUp
<1>13. CASE Cleanup
  BY <1>13 DEF Cleanup
<1>14. CASE Inspect
  BY <1>14 DEF Inspect, Piped
<1>15. CASE Flush
  BY <1>15 DEF Flush, Piped
<1>16. CASE Stored
  BY <1>16 DEF Stored
<1>17. CASE Stopped
  BY <1>17 DEF Stopped
<1>18. CASE StorageFails
  BY <1>18 DEF StorageFails
<1>19. CASE UNCHANGED uploadVars
  BY <1>19 DEF uploadVars
<1>20. CASE Listen
  BY <1>20 DEF Listen
<1>21. CASE LeaveUnheard
  BY <1>21 DEF LeaveUnheard
<1>. QED BY <1>1, <1>2, <1>3, <1>4, <1>5, <1>6, <1>7, <1>8, <1>9,
         <1>10, <1>11, <1>12, <1>13, <1>14, <1>15, <1>16,
         <1>17, <1>18, <1>19, <1>20, <1>21
     DEF UploadNext, Sends, Handler

(* What is stored under an answer "created" is the whole file of a body    *)
(* that held nothing else, and no whole file is rejected, in whatever order*)
(* the parser, the stream, the storage and the client act                  *)
(* (AttachmentsService.upload, parseAttachmentUpload).                     *)
THEOREM UploadsAreWhole == UploadSpec => []UploadWhole
<1>1. UploadInit => UploadInv
  BY BlocksAssumption
     DEF UploadInit, UploadInv, UploadTypeOK, Form, File, Work, ParserSound, InspectionSound,
         RejectionSound, HandlerSound
<1>2. UploadInv /\ [UploadNext]_uploadVars => UploadInv'
  BY UploadTypes, ParserStep, InspectionStep, RejectionStep, HandlerStep DEF UploadInv
<1>. QED BY <1>1, <1>2, UploadInvWhole, PTL DEF UploadSpec
=============================================================================

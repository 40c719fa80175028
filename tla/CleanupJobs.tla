----------------------------- MODULE CleanupJobs ----------------------------
(***************************************************************************)
(* The background job that deletes expired sessions: JobsRuntime, its      *)
(* control script, and SessionCleanupService.run, on a BullMQ queue in     *)
(* Redis and the sessions in PostgreSQL.                                   *)
(*                                                                         *)
(* BullMQ is external: one record of the schedule and one of the manual    *)
(* run, a global concurrency of one, a lock that a running job's worker    *)
(* renews, and the redelivery of a job whose lock has run out.  Time is    *)
(* counted in ticks of fifteen seconds from the start of a pass, of which  *)
(* one runs at a time: the handler starts no batch once                    *)
(* it is older than Budget ticks (13 s), a transaction lives through one   *)
(* tick at most, and a lock not renewed is lost after LockTicks (30 s),    *)
(* when also the watchdog ends the process.                                *)
(***************************************************************************)
EXTENDS Naturals, FiniteSets, FiniteSetsExt

CONSTANTS
    Worker,
    Session,        \* numbers, in the order of their expiry
    BatchSize,      \* rows per transaction
    MaxBatches,     \* transactions per pass
    Budget, LockTicks,
    MaxFaults,      \* bound on crashes, failed or hung attempts
    MaxControls,    \* bound on the operator's commands and the restarts
    None

(* A transaction begun within the budget ends before the lock can be lost: *)
(* 13 s and a transaction's timeouts, against 30 s.                        *)
ASSUME BudgetAssumption == Budget \in Nat /\ LockTicks \in Nat /\ Budget + 1 < LockTicks

VARIABLES
    mode,       \* "dry-run" or "apply", the same for every worker
    session,    \* "live", "eligible" (expired for the retention period), "gone"
    record,     \* the job records
    scheduled,  \* is the schedule registered?
    paused,     \* is the queue paused?
    worker,     \* the processes
    left        \* faults and commands that may still happen

vars == <<mode, session, record, scheduled, paused, worker, left>>

JobId == {"schedule", "manual"}
ASSUME NoneAssumption == None \notin Worker \cup JobId

Absent == [state |-> "absent", made |-> 0, stalls |-> 0, lock |-> None, age |-> 0]
Down == [pc |-> "down", job |-> None, age |-> 0, open |-> 0, stopping |-> FALSE,
         cutoff |-> {}, cursor |-> 0, selected |-> {}, batches |-> 0]

Init == /\ mode \in {"dry-run", "apply"}
        /\ session = [s \in Session |-> "live"]
        /\ record = [i \in JobId |-> Absent]
        /\ scheduled = FALSE
        /\ paused = FALSE
        /\ worker = [w \in Worker |-> Down]
        /\ left = [faults |-> MaxFaults, controls |-> MaxControls]

-----------------------------------------------------------------------------
(* The queue.                                                              *)

SetRecord(i, r) == record' = [record EXCEPT ![i] = r]
Waiting(r) == [r EXCEPT !.state = "waiting", !.lock = None, !.age = 0]
Fault == left.faults > 0 /\ left' = [left EXCEPT !.faults = @ - 1]
Control == left.controls > 0 /\ left' = [left EXCEPT !.controls = @ - 1]

(* The time of the next scheduled run: a record of its own, once the       *)
(* previous one has ended.                                                 *)
Due ==
    /\ scheduled
    /\ record["schedule"].state \in {"absent", "completed", "failed"}
    /\ SetRecord("schedule", Waiting(Absent))
    /\ UNCHANGED <<mode, session, scheduled, paused, worker, left>>

(* The backoff of a failed attempt ends.                                   *)
Backoff(i) ==
    /\ record[i].state = "delayed"
    /\ SetRecord(i, Waiting(record[i]))
    /\ UNCHANGED <<mode, session, scheduled, paused, worker, left>>

Someone == \E w \in Worker : worker[w].pc # "down"

(* A worker's stalled check: redelivered once, then failed.                *)
Stalled(i) ==
    /\ Someone
    /\ record[i].state = "active" /\ record[i].age >= LockTicks
    /\ SetRecord(i, IF record[i].stalls = 1
                    THEN [record[i] EXCEPT !.state = "failed", !.lock = None, !.age = 0]
                    ELSE [Waiting(record[i]) EXCEPT !.stalls = 1])
    /\ UNCHANGED <<mode, session, scheduled, paused, worker, left>>

(* control.ts: "enqueue" with the manual run's fixed id does nothing while *)
(* a record with that id is kept.                                          *)
Enqueue ==
    /\ Control
    /\ record' = IF record["manual"].state = "absent"
                 THEN [record EXCEPT !["manual"] = Waiting(Absent)] ELSE record
    /\ UNCHANGED <<mode, session, scheduled, paused, worker>>

RetryFailed(i) ==
    /\ Control
    /\ record[i].state = "failed"
    /\ SetRecord(i, Waiting(record[i]))
    /\ UNCHANGED <<mode, session, scheduled, paused, worker>>

RemoveRecord(i) ==
    /\ Control
    /\ record[i].state \in {"completed", "failed"}
    /\ SetRecord(i, Absent)
    /\ UNCHANGED <<mode, session, scheduled, paused, worker>>

PauseOrResume ==
    /\ Control
    /\ paused' = ~ paused
    /\ UNCHANGED <<mode, session, record, scheduled, worker>>

(* The schedule's waiting record goes with it.                             *)
DisableSchedule ==
    /\ Control
    /\ scheduled' = FALSE
    /\ record' = IF record["schedule"].state = "waiting"
                 THEN [record EXCEPT !["schedule"] = Absent] ELSE record
    /\ UNCHANGED <<mode, session, paused, worker>>

-----------------------------------------------------------------------------
(* A worker process.                                                       *)

SetWorker(w, s) == worker' = [worker EXCEPT ![w] = s]
Holds(w) == worker[w].job # None /\ record[worker[w].job].lock = w
Idle(w) == [Down EXCEPT !.pc = "idle", !.stopping = worker[w].stopping]

(* JobsRuntime.initialize registers the schedule, again if it is there.    *)
Start(w) ==
    /\ worker[w].pc = "down"
    /\ SetWorker(w, [Down EXCEPT !.pc = "idle"])
    /\ scheduled' = TRUE
    /\ UNCHANGED <<mode, session, record, paused, left>>

(* SIGTERM: no new job is taken, a running one ends early and drains.      *)
Stop(w) ==
    /\ Control
    /\ worker[w].pc # "down" /\ ~ worker[w].stopping
    /\ SetWorker(w, [worker[w] EXCEPT !.stopping = TRUE])
    /\ UNCHANGED <<mode, session, record, scheduled, paused>>

Drained(w) ==
    /\ worker[w].pc = "idle" /\ worker[w].stopping
    /\ SetWorker(w, Down)
    /\ UNCHANGED <<mode, session, record, scheduled, paused, left>>

(* The process ends; PostgreSQL rolls its transaction back.                *)
Crash(w) ==
    /\ Fault
    /\ worker[w].pc # "down"
    /\ SetWorker(w, Down)
    /\ UNCHANGED <<mode, session, record, scheduled, paused>>

Take(w, i) ==
    /\ worker[w].pc = "idle" /\ ~ worker[w].stopping /\ ~ paused
    /\ record[i].state = "waiting"
    /\ \A k \in JobId : record[k].state # "active"
    /\ SetRecord(i, [record[i] EXCEPT !.state = "active", !.lock = w, !.age = 0])
    /\ SetWorker(w, [Idle(w) EXCEPT !.pc = "clock", !.job = i])
    /\ UNCHANGED <<mode, session, scheduled, paused, left>>

(* Every 15 s, unless Redis cannot be reached.                             *)
Renew(w) ==
    /\ Holds(w) /\ record[worker[w].job].age > 0
    /\ SetRecord(worker[w].job, [record[worker[w].job] EXCEPT !.age = 0])
    /\ UNCHANGED <<mode, session, scheduled, paused, worker, left>>

ReadClock(w) ==
    /\ worker[w].pc = "clock"
    /\ SetWorker(w, [worker[w] EXCEPT !.pc = "batch",
                        !.cutoff = {s \in Session : session[s] # "live"}])
    /\ UNCHANGED <<mode, session, record, scheduled, paused, left>>

(* Mutant: a pass takes all the time it needs.                             *)
OutOfTimeUnlimited(w) == worker[w].stopping

OutOfTime(w) == worker[w].stopping \/ worker[w].age > Budget

Rows(w) == {s \in worker[w].cutoff : /\ session[s] = "eligible"
                                     /\ mode = "dry-run" => s > worker[w].cursor}

Selection(w) == {s \in Rows(w) : Cardinality({r \in Rows(w) : r < s}) < BatchSize}

(* The next transaction selects its rows, or the pass ends.                *)
BeginBatch(w) ==
    /\ worker[w].pc = "batch"
    /\ SetWorker(w,
         IF OutOfTime(w) \/ worker[w].batches = MaxBatches \/ Rows(w) = {}
         THEN [worker[w] EXCEPT !.pc = "report", !.age = 0]
         ELSE [worker[w] EXCEPT !.pc = "delete", !.selected = Selection(w)])
    /\ UNCHANGED <<mode, session, record, scheduled, paused, left>>

(* It deletes those that are still there and commits; a dry run only       *)
(* counts them, and goes on from the last.                                 *)
DeleteBatch(w) ==
    LET selected == worker[w].selected
        deleted == IF mode = "apply" THEN {s \in selected : session[s] = "eligible"} ELSE {}
    IN
    /\ worker[w].pc = "delete"
    /\ session' = [s \in Session |-> IF s \in deleted THEN "gone" ELSE session[s]]
    /\ SetWorker(w, [worker[w] EXCEPT
            !.pc = IF Cardinality(selected) < BatchSize THEN "report" ELSE "batch",
            !.age = IF Cardinality(selected) < BatchSize THEN 0 ELSE @,
            !.batches = @ + 1, !.open = 0, !.selected = {}, !.cursor = Max(selected)])
    /\ UNCHANGED <<mode, record, scheduled, paused, left>>

(* The result is stored if the worker still has the lock.                  *)
Report(w) ==
    /\ worker[w].pc = "report"
    /\ record' = IF Holds(w)
                 THEN [record EXCEPT ![worker[w].job] = [Absent EXCEPT !.state = "completed"]]
                 ELSE record
    /\ SetWorker(w, Idle(w))
    /\ UNCHANGED <<mode, session, scheduled, paused, left>>

AttemptOver(r, next) ==
    [r EXCEPT !.made = r.made + 1, !.lock = None, !.age = 0,
              !.state = IF r.made < 2 THEN next ELSE "failed"]

(* safeJobError: a transient failure is retried, twice; any other ends the *)
(* job.  A commit whose answer was lost fails the attempt after DeleteBatch*)
AttemptFails(w) ==
    /\ Fault
    /\ worker[w].pc \in {"clock", "batch", "delete"}
    /\ \E next \in {"delayed", "failed"} :
         record' = IF ~ Holds(w) THEN record
                   ELSE [record EXCEPT ![worker[w].job] = AttemptOver(@, next)]
    /\ SetWorker(w, Idle(w))
    /\ UNCHANGED <<mode, session, scheduled, paused>>

(* The handler's promise never settles, while the lock is renewed.         *)
Hang(w) ==
    /\ Fault
    /\ worker[w].pc \in {"clock", "batch", "delete"}
    /\ SetWorker(w, [Idle(w) EXCEPT !.pc = "hung", !.job = worker[w].job,
                                    !.age = worker[w].age])
    /\ UNCHANGED <<mode, session, record, scheduled, paused>>

(* Mutant: no watchdog.                                                    *)
OverdueNever(w) == FALSE

Overdue(w) == worker[w].pc \in {"clock", "batch", "delete", "hung"}
                /\ worker[w].age >= LockTicks

(* The watchdog ends the process.                                          *)
Watchdog(w) ==
    /\ Overdue(w)
    /\ SetWorker(w, Down)
    /\ UNCHANGED <<mode, session, record, scheduled, paused, left>>

-----------------------------------------------------------------------------
(* Sessions reach the end of their retention in the order of their expiry. *)
Expire(s) ==
    /\ session[s] = "live"
    /\ \A r \in Session : r < s => session[r] # "live"
    /\ session' = [session EXCEPT ![s] = "eligible"]
    /\ UNCHANGED <<mode, record, scheduled, paused, worker, left>>

(* Fifteen seconds.  The clock is read, and the first batch begun, before  *)
(* they are over; the timeouts of the database end a transaction in the    *)
(* tick after the one it began in; and code that awaits nothing is fast.   *)
Tick ==
    /\ \A w \in Worker : /\ ~ Overdue(w)
                         /\ worker[w].pc \notin {"clock", "batch"}
                         /\ worker[w].pc = "delete" => worker[w].open = 0
    /\ worker' = [w \in Worker |->
           IF worker[w].job = None \/ worker[w].pc = "report" THEN worker[w]
           ELSE [worker[w] EXCEPT !.age = IF @ < LockTicks THEN @ + 1 ELSE @,
                                  !.open = IF worker[w].pc = "delete" THEN 1 ELSE 0]]
    /\ record' = [i \in JobId |->
           IF record[i].state = "active" /\ record[i].age < LockTicks
           THEN [record[i] EXCEPT !.age = @ + 1] ELSE record[i]]
    /\ UNCHANGED <<mode, session, scheduled, paused, left>>

(* What a worker process, and a job's record in Redis, do of themselves.   *)
WorkerStep(w) == Start(w) \/ Drained(w) \/ Watchdog(w) \/ ReadClock(w)
                   \/ BeginBatch(w) \/ DeleteBatch(w) \/ Report(w)
                   \/ (\E i \in JobId : Take(w, i))

RecordStep(i) == Backoff(i) \/ Stalled(i)

Next ==
    \/ Due \/ Enqueue \/ PauseOrResume \/ DisableSchedule \/ Tick
    \/ \E i \in JobId : RecordStep(i) \/ RetryFailed(i) \/ RemoveRecord(i)
    \/ \E w \in Worker : \/ WorkerStep(w) \/ Renew(w) \/ Stop(w)
                         \/ Crash(w) \/ AttemptFails(w) \/ Hang(w)
    \/ \E s \in Session : Expire(s)

(* Time passes, Redis keeps its timers, the supervisor restarts a worker   *)
(* that ended ("restart: unless-stopped"), and a handler that does not hang*)
(* goes on.                                                                *)
Fairness ==
    /\ WF_vars(Tick) /\ WF_vars(Due)
    /\ \A i \in JobId : WF_vars(RecordStep(i))
    /\ \A w \in Worker : WF_vars(WorkerStep(w))

Spec == Init /\ [][Next]_vars /\ Fairness

-----------------------------------------------------------------------------
(* A worker deletes only while it holds the lock of its job: a pass ends   *)
(* before the job can have been redelivered to another worker, however     *)
(* long Redis could not be reached.                                        *)
NoAbandonedWriter ==
    [][\A w \in Worker : DeleteBatch(w) => Holds(w)]_vars

(* Whatever crashes, fails or hangs, the expired sessions go in the end,   *)
(* again and again, unless the operator has paused the queue or removed the*)
(* schedule.                                                               *)
EventuallyDeleted ==
    mode = "apply" => []<>(paused \/ ~ scheduled \/ \A s \in Session : session[s] # "eligible")
=============================================================================

------------------------------- MODULE JobQueue -------------------------------
(***************************************************************************)
(* The durable job queue (access_jobs) and the worker loop that drains it: *)
(* internal/workers.  The connector worker and the workflow engine run the *)
(* same loop, each filtered to the job types it can process.               *)
(*                                                                         *)
(* Granularity.  Claim is one transaction (FOR UPDATE SKIP LOCKED) and so  *)
(* one action; processing a job and writing its outcome are separate, for  *)
(* a worker may stop between them.  What a job does is the Processor's     *)
(* business: here it succeeds or fails.                                    *)
(*                                                                         *)
(* run_after is kept relative to the clock: wait[j] is how long job j is   *)
(* still to be held back, and is negative once it is overdue.              *)
(***************************************************************************)
EXTENDS Integers, FiniteSets

CONSTANTS
    Jobs,        \* access_jobs rows that may be enqueued
    JobTypes,
    TypeOf,      \* the type of each job
    Workers,     \* worker processes
    TypesOf,     \* WithJobTypes of each worker's queue; {} claims every type
    BatchSize,   \* Config.BatchSize
    MaxAttempts, \* Config.MaxAttempts
    BaseBackoff, \* Config.BaseBackoff
    MaxBackoff,  \* the hour that caps the backoff
    MaxAge,      \* bound: overdue jobs are told apart up to this age
    MaxFaults    \* bound: worker stops and failed outcome updates

ASSUME QueueAssumption ==
    /\ TypeOf \in [Jobs -> JobTypes]
    /\ TypesOf \in [Workers -> SUBSET JobTypes]
    /\ BatchSize \in Nat \ {0}
    /\ MaxAttempts \in Nat \ {0}
    /\ BaseBackoff \in Nat \ {0}
    /\ MaxBackoff \in Nat \ {0}
    /\ MaxAge \in Nat
    /\ MaxFaults \in Nat

VARIABLES
    job,    \* the rows: status and attempts
    wait,   \* run_after of each row, relative to now
    worker, \* the drain loop of each worker
    runs,   \* history: per job, the processor runs that succeeded and failed
    lost,   \* history: jobs whose worker stopped, or whose outcome was not written
    faults

vars == <<job, wait, worker, runs, lost, faults>>

Statuses == {"none", "queued", "running", "retry", "done", "dead_letter"}

(* The batch still to be handled, the attempts each of its jobs had when   *)
(* it was claimed, the job being handled and what the processor returned.  *)
Idle == [batch |-> {}, seen |-> [j \in Jobs |-> 0], cur |-> {}, err |-> FALSE]

Init ==
    /\ job = [j \in Jobs |-> [status |-> "none", attempts |-> 0]]
    /\ wait = [j \in Jobs |-> 0]
    /\ worker = [w \in Workers |-> Idle]
    /\ runs = [j \in Jobs |-> [ok |-> 0, failed |-> 0]]
    /\ lost = {}
    /\ faults = 0

-----------------------------------------------------------------------------
(* PostgresQueue.                                                          *)

Enqueue(j) ==
    /\ job[j].status = "none"
    /\ job' = [job EXCEPT ![j].status = "queued"]
    /\ wait' = [wait EXCEPT ![j] = 0]
    /\ UNCHANGED <<worker, runs, lost, faults>>

(* Mutants: rows leased to a worker are handed out again; rows to be       *)
(* retried never are.                                                      *)
MutClaimRunning(j) == job[j].status \in {"queued", "retry", "running"} /\ wait[j] <= 0

MutClaimQueued(j) == job[j].status = "queued" /\ wait[j] <= 0

(* status IN (queued, retry) AND run_after <= now.                         *)
Claimable(j) == job[j].status \in {"queued", "retry"} /\ wait[j] <= 0

Handles(w, j) == TypesOf[w] = {} \/ TypeOf[j] \in TypesOf[w]

Due(w) == {j \in Jobs : Claimable(j) /\ Handles(w, j)}

(* ORDER BY run_after LIMIT max; rows locked by a concurrent claim are     *)
(* skipped, so that a claim may come back with fewer jobs than are due.    *)
Claim(w, batch) ==
    /\ worker[w].batch = {} /\ worker[w].cur = {}
    /\ batch # {} /\ batch \subseteq Due(w)
    /\ Cardinality(batch) <= BatchSize
    /\ \A j \in batch, k \in Due(w) \ batch : wait[j] <= wait[k]
    /\ job' = [j \in Jobs |-> IF j \in batch THEN [job[j] EXCEPT !.status = "running"] ELSE job[j]]
    /\ worker' = [worker EXCEPT ![w].batch = batch,
                                ![w].seen = [j \in Jobs |-> IF j \in batch THEN job[j].attempts ELSE 0]]
    /\ UNCHANGED <<wait, runs, lost, faults>>

-----------------------------------------------------------------------------
(* Worker.handle.                                                          *)

(* The processor returns; err is whether it failed.                        *)
Process(w, j, err) ==
    /\ worker[w].cur = {} /\ j \in worker[w].batch
    /\ worker' = [worker EXCEPT ![w].batch = @ \ {j}, ![w].cur = {j}, ![w].err = err]
    /\ runs' = IF err THEN [runs EXCEPT ![j].failed = @ + 1] ELSE [runs EXCEPT ![j].ok = @ + 1]
    /\ UNCHANGED <<job, wait, lost, faults>>

Handled(w, j) == worker' = [worker EXCEPT ![w].cur = {}, ![w].err = FALSE, ![w].seen[j] = 0]

(* attempts := job.Attempts + 1, from the claim's copy of the row.         *)
Attempts(w, j) == worker[w].seen[j] + 1

Exhausted(n) == n >= MaxAttempts

(* The doubling loop of Worker.backoff.                                    *)
Doubled[n \in Nat] ==
    IF n <= 1 THEN BaseBackoff
    ELSE IF 2 * Doubled[n - 1] >= MaxBackoff THEN MaxBackoff
    ELSE 2 * Doubled[n - 1]

backoff(n) == Doubled[n]

Complete(w, j) ==
    /\ j \in worker[w].cur /\ ~worker[w].err
    /\ job' = [job EXCEPT ![j].status = "done"]
    /\ Handled(w, j)
    /\ UNCHANGED <<wait, runs, lost, faults>>

(* Mutant: the attempt is not counted.                                     *)
MutFail(w, j) ==
    /\ j \in worker[w].cur /\ worker[w].err
    /\ ~Exhausted(Attempts(w, j))
    /\ job' = [job EXCEPT ![j].status = "retry"]
    /\ wait' = [wait EXCEPT ![j] = backoff(Attempts(w, j))]
    /\ Handled(w, j)
    /\ UNCHANGED <<runs, lost, faults>>

Fail(w, j) ==
    /\ j \in worker[w].cur /\ worker[w].err
    /\ ~Exhausted(Attempts(w, j))
    /\ job' = [job EXCEPT ![j] = [status |-> "retry", attempts |-> Attempts(w, j)]]
    /\ wait' = [wait EXCEPT ![j] = backoff(Attempts(w, j))]
    /\ Handled(w, j)
    /\ UNCHANGED <<runs, lost, faults>>

(* Mutant: an exhausted job is only logged.                                *)
MutDropExhausted(w, j) ==
    /\ j \in worker[w].cur /\ worker[w].err
    /\ Exhausted(Attempts(w, j))
    /\ Handled(w, j)
    /\ UNCHANGED <<job, wait, runs, lost, faults>>

DeadLetter(w, j) ==
    /\ j \in worker[w].cur /\ worker[w].err
    /\ Exhausted(Attempts(w, j))
    /\ job' = [job EXCEPT ![j] = [status |-> "dead_letter", attempts |-> Attempts(w, j)]]
    /\ Handled(w, j)
    /\ UNCHANGED <<wait, runs, lost, faults>>

-----------------------------------------------------------------------------
(* The UPDATE of Complete, Fail or DeadLetter fails: logged, and the       *)
(* worker goes on with its batch.                                          *)
UpdateError(w, j) ==
    /\ faults < MaxFaults
    /\ faults' = faults + 1
    /\ j \in worker[w].cur
    /\ Handled(w, j)
    /\ lost' = lost \cup {j}
    /\ UNCHANGED <<job, wait, runs>>

(* A worker dies and restarts, or is told to shut down: its context is     *)
(* cancelled, and with it every query about the jobs it still holds.       *)
Stop(w) ==
    /\ faults < MaxFaults
    /\ faults' = faults + 1
    /\ worker[w].batch # {} \/ worker[w].cur # {}
    /\ lost' = lost \cup worker[w].batch \cup worker[w].cur
    /\ worker' = [worker EXCEPT ![w] = Idle]
    /\ UNCHANGED <<job, wait, runs>>

Waiting(j) == job[j].status \in {"queued", "retry"}

Tick ==
    /\ \E j \in Jobs : Waiting(j) /\ wait[j] > -MaxAge
    /\ wait' = [j \in Jobs |-> IF Waiting(j) /\ wait[j] > -MaxAge THEN wait[j] - 1 ELSE wait[j]]
    /\ UNCHANGED <<job, worker, runs, lost, faults>>

-----------------------------------------------------------------------------
HandleStep(w) == \E j \in Jobs : \/ \E err \in BOOLEAN : Process(w, j, err)
                                 \/ Complete(w, j) \/ Fail(w, j) \/ DeadLetter(w, j)

FaultStep(w) == Stop(w) \/ \E j \in Jobs : UpdateError(w, j)

ClaimStep(w) == \E batch \in SUBSET Jobs : Claim(w, batch)

Next == \/ \E j \in Jobs : Enqueue(j)
        \/ \E w \in Workers : ClaimStep(w) \/ HandleStep(w) \/ FaultStep(w)
        \/ Tick

Spec == Init /\ [][Next]_vars

(* Workers poll for ever, handle what they claimed, and time passes.       *)
(* Nothing makes a processor succeed.                                      *)
Fairness == /\ \A w \in Workers : WF_vars(ClaimStep(w)) /\ WF_vars(HandleStep(w))
            /\ WF_vars(Tick)

FairSpec == Spec /\ Fairness

-----------------------------------------------------------------------------
(* Properties.                                                             *)

LoopState == [batch : SUBSET Jobs, seen : [Jobs -> 0 .. MaxAttempts],
              cur : SUBSET Jobs, err : BOOLEAN]

RowTypes ==
    /\ job \in [Jobs -> [status : Statuses, attempts : 0 .. MaxAttempts]]
    /\ worker \in [Workers -> LoopState]
    /\ runs \in [Jobs -> [ok : Nat, failed : Nat]]
    /\ lost \in SUBSET Jobs
    /\ faults \in 0 .. MaxFaults

(* The cap on the backoff is applied when it is doubled, so that a longer  *)
(* BaseBackoff is used as it is for the first retry.                       *)
LongestWait == IF BaseBackoff > MaxBackoff THEN BaseBackoff ELSE MaxBackoff

(* Type invariant.  No row ever counts more than MaxAttempts attempts, and *)
(* none is held back longer than the longest backoff.                      *)
TypeOK == RowTypes /\ wait \in [Jobs -> -MaxAge .. LongestWait]

Held(w) == worker[w].batch \cup worker[w].cur

(* The processor has succeeded and failed on j this often.                 *)
Ran(j, ok, failed) == runs[j].ok = ok /\ runs[j].failed = failed

(* "Without two workers ever leasing the same row": a job is in the hands  *)
(* of one worker at most, and its row then reads running.                  *)
OneHolder ==
    \A w \in Workers : \A j \in Held(w) :
        /\ job[j].status = "running"
        /\ \A v \in Workers \ {w} : j \notin Held(v)

(* What the status and the attempts of a row say of its job's runs.        *)
Honest(j) ==
    LET n == job[j].attempts
    IN  /\ job[j].status \in {"none", "queued"} => n = 0 /\ Ran(j, 0, 0)
        /\ job[j].status = "retry"       => n > 0 /\ n < MaxAttempts /\ Ran(j, 0, n)
        /\ job[j].status = "dead_letter" => n = MaxAttempts /\ Ran(j, 0, n)
        /\ job[j].status = "done"        => n < MaxAttempts /\ Ran(j, 1, n)
        /\ job[j].status = "running"     =>
              /\ n < MaxAttempts
              /\ Ran(j, 0, n) \/ Ran(j, 1, n) \/ Ran(j, 0, n + 1)

(* The row tells the job's history: it was retried after exactly as many   *)
(* failed runs as it has attempts, was given up after exactly MaxAttempts  *)
(* of them, and a run that succeeded was its last.                         *)
AttemptsHonest == \A j \in Jobs : Honest(j)

(* A job whose row reads running is held by a worker, unless its worker    *)
(* stopped or could not write the outcome.                                 *)
StuckCauses ==
    \A j \in Jobs : job[j].status = "running" => j \in lost \/ \E w \in Workers : j \in Held(w)

(* A done or dead-lettered job is never handed out or rewritten.           *)
FinalStays ==
    [][\A j \in Jobs : job[j].status \in {"done", "dead_letter"} => job'[j] = job[j]]_vars

Finished(j) == job[j].status \in {"done", "dead_letter"}

(* Every job is worked off, done or dead-lettered, unless its worker stops *)
(* or cannot write the outcome: none starves behind the others.            *)
JobsFinish == \A j \in Jobs : (job[j].status # "none") ~> (Finished(j) \/ j \in lost)

(* What IngestSCIMEvent says of the jobs it enqueues: they survive a       *)
(* worker restart and are retried until they succeed or dead-letter.       *)
JobsSurviveRestart == \A j \in Jobs : (job[j].status # "none") ~> Finished(j)
===============================================================================

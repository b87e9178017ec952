---------------------------- MODULE JobQueueProofs ----------------------------
(***************************************************************************)
(* Proofs about JobQueue for any number of jobs, workers, attempts and     *)
(* faults.                                                                 *)
(*                                                                         *)
(* OneHolder, AttemptsHonest and StuckCauses are not inductive: what a     *)
(* worker is about to write depends on the copy of the row it took when it *)
(* claimed the job.  QueueInv adds that the copy is still accurate and     *)
(* what the processor has done since (Copies), and that a worker handles   *)
(* one job at a time (OneAtATime).  The wait of a job plays no part in     *)
(* them; its range needs what the doubling loop computes for every number  *)
(* of attempts, which is shown by induction at the end.                    *)
(***************************************************************************)
EXTENDS JobQueue, WellFoundedInduction, TLAPS

(* The claim's copy of the row still agrees with it, a job waiting in a    *)
(* batch has not run since, and the one being handled has run once.        *)
Copies ==
    \A w \in Workers :
        /\ \A j \in worker[w].batch : /\ worker[w].seen[j] = job[j].attempts
                                      /\ Ran(j, 0, job[j].attempts)
        /\ \A j \in worker[w].cur :
              /\ worker[w].seen[j] = job[j].attempts
              /\ worker[w].err => Ran(j, 0, job[j].attempts + 1)
              /\ ~worker[w].err => Ran(j, 1, job[j].attempts)

OneAtATime ==
    \A w \in Workers : /\ worker[w].batch \cap worker[w].cur = {}
                       /\ \A j, k \in worker[w].cur : j = k

QueueInv == RowTypes /\ OneHolder /\ AttemptsHonest /\ StuckCauses /\ Copies /\ OneAtATime

(* Nothing has happened in an initial state of the queue.                  *)
LEMMA QueueInit == Init => QueueInv
BY QueueAssumption DEF Init, Idle, QueueInv, RowTypes, LoopState, Statuses, OneHolder, AttemptsHonest,
   Honest, StuckCauses, Copies, OneAtATime, Held, Ran

(* A new row is queued with no attempts, and nobody holds it.              *)
LEMMA EnqueueKeeps ==
    ASSUME QueueInv, NEW j \in Jobs, Enqueue(j) PROVE QueueInv'
BY QueueAssumption DEF Enqueue, QueueInv, RowTypes, LoopState, Statuses, OneHolder, AttemptsHonest,
   Honest, StuckCauses, Copies, OneAtATime, Held, Ran

(* A claim takes rows that no worker holds, and copies their attempts.     *)
LEMMA ClaimKeeps ==
    ASSUME QueueInv, NEW w \in Workers, NEW batch \in SUBSET Jobs, Claim(w, batch)
    PROVE  QueueInv'
<1>1. \A j \in batch : job[j].status \in {"queued", "retry"}
  BY DEF Claim, Due, Claimable
<1>2. \A j \in batch : \A v \in Workers : j \notin Held(v)
  BY <1>1 DEF QueueInv, OneHolder
<1>3. /\ \A j \in Jobs \ batch : job'[j] = job[j]
      /\ \A j \in batch : job'[j] = [job[j] EXCEPT !.status = "running"]
  BY DEF Claim
<1>4. /\ worker'[w].batch = batch /\ worker'[w].cur = {} /\ worker'[w].err = worker[w].err
      /\ \A j \in batch : worker'[w].seen[j] = job[j].attempts
      /\ \A v \in Workers \ {w} : worker'[v] = worker[v]
  BY DEF Claim, QueueInv, RowTypes, LoopState
<1>5. RowTypes'
  <2>1. job' \in [Jobs -> [status : Statuses, attempts : 0 .. MaxAttempts]]
    BY DEF Claim, QueueInv, RowTypes, LoopState, Statuses
  <2>2. [j \in Jobs |-> IF j \in batch THEN job[j].attempts ELSE 0] \in [Jobs -> 0 .. MaxAttempts]
    BY QueueAssumption DEF QueueInv, RowTypes, LoopState
  <2>3. worker' \in [Workers -> LoopState]
    <3>1. DEFINE copy == [j \in Jobs |-> IF j \in batch THEN job[j].attempts ELSE 0]
    <3>2. worker \in [Workers -> LoopState]
      BY DEF QueueInv, RowTypes, LoopState
    <3>3. [worker[w] EXCEPT !.batch = batch, !.seen = copy] \in LoopState
      BY <2>2, <3>2 DEF LoopState
    <3>4. worker' = [worker EXCEPT ![w] = [worker[w] EXCEPT !.batch = batch, !.seen = copy]]
      BY <3>2 DEF Claim
    <3>. QED  BY <3>2, <3>3, <3>4
  <2>. QED  BY <2>1, <2>3 DEF Claim, QueueInv, RowTypes, LoopState
<1>6. OneHolder'
  <2>1. Held(w)' = batch /\ \A v \in Workers \ {w} : Held(v)' = Held(v)
    BY <1>4 DEF Held
  <2>2. \A j \in batch : job'[j].status = "running"
    <3>1. \A j \in batch : job[j] \in [status : Statuses, attempts : 0 .. MaxAttempts]
      BY DEF QueueInv, RowTypes, LoopState
    <3>. QED  BY <1>3, <3>1
  <2>3. \A v \in Workers \ {w} : \A j \in Held(v) : job'[j].status = "running" /\ j \notin batch
    BY <1>2, <1>3 DEF QueueInv, RowTypes, LoopState, OneHolder, Held
  <2>. QED  BY <1>2, <2>1, <2>2, <2>3 DEF QueueInv, OneHolder
<1>7. AttemptsHonest'
  BY <1>1, <1>3, QueueAssumption DEF Claim, QueueInv, RowTypes, LoopState, AttemptsHonest, Honest, Ran
<1>8. StuckCauses'
  BY <1>3, <1>4 DEF Claim, QueueInv, StuckCauses, Held
<1>9. Copies' /\ OneAtATime'
  BY <1>1, <1>2, <1>3, <1>4 DEF Claim, QueueInv, RowTypes, LoopState, AttemptsHonest, Honest, Copies, OneAtATime, Held, Ran
<1>. QED  BY <1>5, <1>6, <1>7, <1>8, <1>9 DEF QueueInv

(* Processing a job changes no row.                                        *)
LEMMA ProcessKeeps ==
    ASSUME QueueInv, NEW w \in Workers, NEW j \in Jobs, NEW err \in BOOLEAN, Process(w, j, err)
    PROVE  QueueInv'
<1>1. /\ worker'[w].batch = worker[w].batch \ {j} /\ worker'[w].cur = {j} /\ worker'[w].err = err
      /\ worker'[w].seen = worker[w].seen
      /\ \A v \in Workers \ {w} : worker'[v] = worker[v]
  BY DEF Process, QueueInv, RowTypes, LoopState
<1>2. \A v \in Workers : Held(v)' = Held(v)
  BY <1>1 DEF Process, Held
<1>3. /\ \A k \in Jobs \ {j} : runs'[k] = runs[k]
      /\ err => runs'[j].ok = runs[j].ok /\ runs'[j].failed = runs[j].failed + 1
      /\ ~err => runs'[j].ok = runs[j].ok + 1 /\ runs'[j].failed = runs[j].failed
  BY DEF Process, QueueInv, RowTypes, LoopState
<1>4. job[j].status = "running" /\ Ran(j, 0, job[j].attempts) /\ worker[w].seen[j] = job[j].attempts
  BY DEF Process, QueueInv, OneHolder, Copies, Held
<1>5. RowTypes'
  <2>1. worker' \in [Workers -> LoopState]
    <3>2. worker \in [Workers -> LoopState]
      BY DEF QueueInv, RowTypes, LoopState
    <3>3. [worker[w] EXCEPT !.batch = worker[w].batch \ {j}, !.cur = {j}, !.err = err] \in LoopState
      BY <3>2 DEF LoopState
    <3>4. worker' = [worker EXCEPT ![w] =
               [worker[w] EXCEPT !.batch = worker[w].batch \ {j}, !.cur = {j}, !.err = err]]
      BY <3>2 DEF Process
    <3>. QED  BY <3>2, <3>3, <3>4
  <2>2. runs' \in [Jobs -> [ok : Nat, failed : Nat]]
    BY DEF Process, QueueInv, RowTypes, LoopState
  <2>. QED  BY <2>1, <2>2 DEF Process, QueueInv, RowTypes, LoopState
<1>6. OneHolder' /\ StuckCauses' /\ OneAtATime'
  <2>1. OneHolder' /\ StuckCauses'
    BY <1>2 DEF Process, QueueInv, OneHolder, StuckCauses
  <2>2. OneAtATime'
    BY <1>1 DEF QueueInv, OneAtATime
  <2>. QED  BY <2>1, <2>2
<1>7. AttemptsHonest'
  BY <1>3, <1>4 DEF Process, QueueInv, RowTypes, LoopState, AttemptsHonest, Honest, Ran
<1>8. \A v \in Workers \ {w} : j \notin worker[v].batch /\ j \notin worker[v].cur
  BY DEF Process, QueueInv, OneHolder, Held
<1>9. Copies'
  BY <1>1, <1>3, <1>4, <1>8 DEF Process, QueueInv, RowTypes, LoopState, Copies, Ran
<1>. QED  BY <1>5, <1>6, <1>7, <1>9 DEF QueueInv

(* Dropping the handled job leaves every other job with its holder.        *)
LEMMA HandledFrame ==
    ASSUME QueueInv, NEW w \in Workers, NEW j \in worker[w].cur, Handled(w, j)
    PROVE  /\ worker'[w].batch = worker[w].batch /\ worker'[w].cur = {}
           /\ \A k \in Jobs \ {j} : worker'[w].seen[k] = worker[w].seen[k]
           /\ \A v \in Workers \ {w} : worker'[v] = worker[v]
           /\ Held(w)' = Held(w) \ {j}
           /\ \A v \in Workers \ {w} : Held(v)' = Held(v) /\ j \notin Held(v)
           /\ worker' \in [Workers -> LoopState]
<1>0. j \in Jobs
  BY DEF QueueInv, RowTypes, LoopState
<1>1. /\ worker'[w].batch = worker[w].batch /\ worker'[w].cur = {}
      /\ \A k \in Jobs \ {j} : worker'[w].seen[k] = worker[w].seen[k]
      /\ \A v \in Workers \ {w} : worker'[v] = worker[v]
  BY <1>0 DEF Handled, QueueInv, RowTypes, LoopState
<1>2. worker[w].cur = {j} /\ j \notin worker[w].batch
  BY DEF QueueInv, OneAtATime
<1>3. Held(w)' = Held(w) \ {j}
  BY <1>1, <1>2 DEF Held
<1>4. \A v \in Workers \ {w} : Held(v)' = Held(v) /\ j \notin Held(v)
  BY <1>1 DEF QueueInv, OneHolder, Held
<1>5. worker' \in [Workers -> LoopState]
  <2>1. [worker[w].seen EXCEPT ![j] = 0] \in [Jobs -> 0 .. MaxAttempts]
    BY <1>0, QueueAssumption DEF QueueInv, RowTypes, LoopState
  <2>3. worker \in [Workers -> LoopState]
    BY DEF QueueInv, RowTypes, LoopState
  <2>4. [worker[w] EXCEPT !.cur = {}, !.err = FALSE, !.seen = [worker[w].seen EXCEPT ![j] = 0]] \in LoopState
    BY <2>1, <2>3 DEF LoopState
  <2>5. worker' = [worker EXCEPT ![w] =
             [worker[w] EXCEPT !.cur = {}, !.err = FALSE, !.seen = [worker[w].seen EXCEPT ![j] = 0]]]
    BY <2>3 DEF Handled
  <2>. QED  BY <2>3, <2>4, <2>5
<1>. QED  BY <1>1, <1>3, <1>4, <1>5

(* Writing the outcome of the handled job, or losing it.                   *)
LEMMA OutcomeKeeps ==
    ASSUME QueueInv, NEW w \in Workers, NEW j \in worker[w].cur, Handled(w, j),
           UNCHANGED runs, lost' \in SUBSET Jobs, lost \subseteq lost', faults' \in 0 .. MaxFaults,
           \A k \in Jobs \ {j} : job'[k] = job[k],
           job' \in [Jobs -> [status : Statuses, attempts : 0 .. MaxAttempts]],
           \/ job'[j] = job[j] /\ j \in lost'
           \/ ~worker[w].err /\ job'[j].status = "done" /\ job'[j].attempts = job[j].attempts
           \/ /\ worker[w].err /\ job'[j].attempts = job[j].attempts + 1
              /\ \/ job'[j].status = "retry" /\ job'[j].attempts < MaxAttempts
                 \/ job'[j].status = "dead_letter" /\ job'[j].attempts = MaxAttempts
    PROVE  QueueInv'
<1>0. j \in Jobs
  BY DEF QueueInv, RowTypes, LoopState
<1>a. /\ worker'[w].batch = worker[w].batch /\ worker'[w].cur = {}
      /\ \A k \in Jobs \ {j} : worker'[w].seen[k] = worker[w].seen[k]
      /\ \A v \in Workers \ {w} : worker'[v] = worker[v]
  BY HandledFrame
<1>b. Held(w)' = Held(w) \ {j} /\ \A v \in Workers \ {w} : Held(v)' = Held(v) /\ j \notin Held(v)
  BY HandledFrame
<1>1. RowTypes'
  BY HandledFrame DEF QueueInv, RowTypes, LoopState
<1>2. OneHolder'
  <2>1. \A v \in Workers : Held(v)' \subseteq Held(v) /\ j \notin Held(v)'
    BY <1>b
  <2>2. \A v \in Workers : Held(v) \subseteq Jobs
    BY DEF QueueInv, RowTypes, LoopState, Held
  <2>. QED  BY <2>1, <2>2 DEF QueueInv, OneHolder
<1>3. StuckCauses'
  <2>. SUFFICES ASSUME NEW k \in Jobs, job'[k].status = "running", k \notin lost'
                PROVE  \E v \in Workers : k \in Held(v)'
    BY DEF StuckCauses
  <2>1. k # j
    BY <1>0
  <2>2. PICK v \in Workers : k \in Held(v)
    BY <2>1 DEF QueueInv, StuckCauses
  <2>. QED  BY <1>b, <2>1, <2>2
<1>4. /\ job[j].status = "running"
      /\ worker[w].err => Ran(j, 0, job[j].attempts + 1)
      /\ ~worker[w].err => Ran(j, 1, job[j].attempts)
  BY DEF QueueInv, OneHolder, Copies, Held
<1>5. AttemptsHonest'
  <2>. SUFFICES ASSUME NEW k \in Jobs PROVE Honest(k)'
    BY DEF AttemptsHonest
  <2>1. CASE k # j
    BY <2>1 DEF QueueInv, AttemptsHonest, Honest, Ran
  <2>2. CASE k = j
    BY <1>0, <1>4, <2>2, QueueAssumption DEF QueueInv, RowTypes, LoopState, AttemptsHonest, Honest, Ran
  <2>. QED  BY <2>1, <2>2
<1>6. Copies'
  <2>0. \A v \in Workers : worker[v].batch \subseteq Jobs /\ worker[v].cur \subseteq Jobs
    BY DEF QueueInv, RowTypes, LoopState
  <2>1. \A v \in Workers : j \notin worker'[v].batch /\ j \notin worker'[v].cur
    BY <1>b DEF Held
  <2>2. \A v \in Workers : \A k \in worker'[v].batch :
           /\ k \in worker[v].batch /\ k \in Jobs \ {j}
           /\ worker'[v].seen[k] = worker[v].seen[k] /\ job'[k] = job[k] /\ runs'[k] = runs[k]
    BY <1>a, <2>0, <2>1
  <2>3. \A v \in Workers : \A k \in worker'[v].cur :
           /\ k \in worker[v].cur /\ worker'[v] = worker[v]
           /\ job'[k] = job[k] /\ runs'[k] = runs[k]
    BY <1>a, <2>0, <2>1
  <2>. QED  BY <2>2, <2>3 DEF QueueInv, Copies, Ran
<1>7. OneAtATime'
  BY HandledFrame DEF QueueInv, OneAtATime
<1>. QED  BY <1>1, <1>2, <1>3, <1>5, <1>6, <1>7 DEF QueueInv

(* Every step of the specification preserves the invariant.                *)
LEMMA QueueStep == QueueInv /\ [Next]_vars => QueueInv'
<1>. SUFFICES ASSUME QueueInv, [Next]_vars PROVE QueueInv'
  OBVIOUS
<1>1. ASSUME NEW j \in Jobs, Enqueue(j) PROVE QueueInv'
  BY <1>1, EnqueueKeeps
<1>2. ASSUME NEW w \in Workers, ClaimStep(w) PROVE QueueInv'
  BY <1>2, ClaimKeeps DEF ClaimStep
<1>3. ASSUME NEW w \in Workers, NEW j \in worker[w].cur
      PROVE  /\ j \in Jobs
             /\ Attempts(w, j) = job[j].attempts + 1
             /\ job[j].attempts \in 0 .. MaxAttempts
             /\ job[j].attempts < MaxAttempts
  BY <1>3 DEF QueueInv, RowTypes, LoopState, OneHolder, AttemptsHonest, Honest, Copies, Held, Attempts
<1>4. ASSUME NEW w \in Workers, NEW j \in Jobs, Complete(w, j) PROVE QueueInv'
  <2>1. /\ job' \in [Jobs -> [status : Statuses, attempts : 0 .. MaxAttempts]]
        /\ job'[j].status = "done" /\ job'[j].attempts = job[j].attempts
        /\ \A k \in Jobs \ {j} : job'[k] = job[k]
    BY <1>4 DEF Complete, QueueInv, RowTypes, LoopState, Statuses
  <2>2. /\ j \in worker[w].cur /\ ~worker[w].err /\ Handled(w, j)
        /\ UNCHANGED runs /\ lost' \in SUBSET Jobs /\ lost \subseteq lost' /\ faults' \in 0 .. MaxFaults
    BY <1>4 DEF Complete, QueueInv, RowTypes, LoopState
  <2>. QED  BY <2>1, <2>2, OutcomeKeeps
<1>5. ASSUME NEW w \in Workers, NEW j \in Jobs, Fail(w, j) \/ DeadLetter(w, j) PROVE QueueInv'
  <2>1. j \in worker[w].cur /\ worker[w].err /\ Handled(w, j)
    BY <1>5 DEF Fail, DeadLetter
  <2>2. /\ UNCHANGED runs /\ lost' \in SUBSET Jobs /\ lost \subseteq lost' /\ faults' \in 0 .. MaxFaults
    BY <1>5 DEF Fail, DeadLetter, QueueInv, RowTypes, LoopState
  <2>3. CASE Fail(w, j)
    <3>1. Attempts(w, j) = job[j].attempts + 1 /\ Attempts(w, j) \in 0 .. MaxAttempts
          /\ Attempts(w, j) < MaxAttempts
      BY <1>3, <2>1, <2>3, QueueAssumption DEF Fail, Exhausted
    <3>2. /\ job' \in [Jobs -> [status : Statuses, attempts : 0 .. MaxAttempts]]
          /\ job'[j].status = "retry" /\ job'[j].attempts = Attempts(w, j)
          /\ \A k \in Jobs \ {j} : job'[k] = job[k]
      BY <2>3, <3>1 DEF Fail, QueueInv, RowTypes, LoopState, Statuses
    <3>. QED  BY <2>1, <2>2, <3>1, <3>2, OutcomeKeeps
  <2>4. CASE DeadLetter(w, j)
    <3>1. Attempts(w, j) = job[j].attempts + 1 /\ Attempts(w, j) \in 0 .. MaxAttempts
          /\ Attempts(w, j) = MaxAttempts
      BY <1>3, <2>1, <2>4, QueueAssumption DEF DeadLetter, Exhausted
    <3>2. /\ job' \in [Jobs -> [status : Statuses, attempts : 0 .. MaxAttempts]]
          /\ job'[j].status = "dead_letter" /\ job'[j].attempts = Attempts(w, j)
          /\ \A k \in Jobs \ {j} : job'[k] = job[k]
      BY <2>4, <3>1 DEF DeadLetter, QueueInv, RowTypes, LoopState, Statuses
    <3>. QED  BY <2>1, <2>2, <3>1, <3>2, OutcomeKeeps
  <2>. QED  BY <1>5, <2>3, <2>4
<1>6. ASSUME NEW w \in Workers, NEW j \in Jobs, UpdateError(w, j) PROVE QueueInv'
  <2>1. /\ job' = job /\ job \in [Jobs -> [status : Statuses, attempts : 0 .. MaxAttempts]]
        /\ j \in worker[w].cur /\ Handled(w, j) /\ j \in lost'
        /\ UNCHANGED runs /\ lost' \in SUBSET Jobs /\ lost \subseteq lost' /\ faults' \in 0 .. MaxFaults
    BY <1>6, QueueAssumption DEF UpdateError, QueueInv, RowTypes, LoopState
  <2>. QED  BY <2>1, OutcomeKeeps
<1>7. ASSUME NEW w \in Workers, Stop(w) PROVE QueueInv'
  <2>1. /\ worker'[w].batch = {} /\ worker'[w].cur = {} /\ \A v \in Workers \ {w} : worker'[v] = worker[v]
        /\ job' = job /\ runs' = runs /\ lost' = lost \cup Held(w)
    BY <1>7 DEF Stop, Idle, Held, QueueInv, RowTypes, LoopState
  <2>2. RowTypes'
    BY <1>7, QueueAssumption DEF Stop, Idle, QueueInv, RowTypes, LoopState
  <2>3. OneHolder' /\ StuckCauses'
    BY <2>1 DEF QueueInv, OneHolder, StuckCauses, Held
  <2>4. AttemptsHonest' /\ OneAtATime'
    BY <2>1 DEF QueueInv, AttemptsHonest, Honest, OneAtATime, Ran
  <2>5. Copies'
    BY <2>1 DEF QueueInv, Copies, Ran
  <2>. QED  BY <2>2, <2>3, <2>4, <2>5 DEF QueueInv
<1>8. ASSUME Tick \/ UNCHANGED vars PROVE QueueInv'
  BY <1>8 DEF Tick, vars, QueueInv, RowTypes, LoopState, OneHolder, AttemptsHonest, Honest, StuckCauses,
     Copies, OneAtATime, Held, Ran
<1>9. ASSUME NEW w \in Workers, HandleStep(w) \/ FaultStep(w) PROVE QueueInv'
  BY <1>4, <1>5, <1>6, <1>7, <1>9, ProcessKeeps DEF HandleStep, FaultStep
<1>. QED  BY <1>1, <1>2, <1>8, <1>9 DEF Next

LEMMA QueueInvariant == Spec => []QueueInv
<1>1. Init => QueueInv
  BY QueueInit
<1>2. QueueInv /\ [Next]_vars => QueueInv'
  BY QueueStep
<1>. QED  BY <1>1, <1>2, PTL DEF Spec

(* However many workers drain the queue, a job is in the hands of one of   *)
(* them at most, and its row reads running (PostgresQueue.Claim).          *)
THEOREM LeasedOnce == Spec => []OneHolder
<1>1. QueueInv => OneHolder
  BY DEF QueueInv
<1>. QED  BY <1>1, QueueInvariant, PTL

(* The attempts a row counts are the failed runs of its job; a job is      *)
(* dead-lettered after exactly MaxAttempts of them, and never runs again   *)
(* once it succeeded (Worker.handle).                                      *)
THEOREM AttemptsCounted == Spec => []AttemptsHonest
<1>1. QueueInv => AttemptsHonest
  BY DEF QueueInv
<1>. QED  BY <1>1, QueueInvariant, PTL

(* A row that reads running without a worker is the trace of a stopped     *)
(* worker or of a failed update, and of nothing else.                      *)
THEOREM StuckExplained == Spec => []StuckCauses
<1>1. QueueInv => StuckCauses
  BY DEF QueueInv
<1>. QED  BY <1>1, QueueInvariant, PTL

(* No step hands out or rewrites a done or dead-lettered job, although the *)
(* UPDATE of an outcome is not conditional on the row's status.            *)
THEOREM FinalForGood == Spec => FinalStays
<1>1. ASSUME QueueInv, [Next]_vars
      PROVE  [\A j \in Jobs : job[j].status \in {"done", "dead_letter"} => job'[j] = job[j]]_vars
  <2>. SUFFICES ASSUME NEW j \in Jobs, job[j].status \in {"done", "dead_letter"}, Next
                PROVE  job'[j] = job[j]
    BY <1>1
  <2>0. \A w \in Workers : j \notin worker[w].cur
    BY <1>1 DEF QueueInv, OneHolder, Held
  <2>1. job \in [Jobs -> [status : Statuses, attempts : 0 .. MaxAttempts]]
    BY <1>1 DEF QueueInv, RowTypes, LoopState
  <2>2. ASSUME NEW k \in Jobs, Enqueue(k) PROVE job'[j] = job[j]
    BY <2>1, <2>2 DEF Enqueue
  <2>3. ASSUME NEW w \in Workers, ClaimStep(w) PROVE job'[j] = job[j]
    BY <2>3 DEF ClaimStep, Claim, Due, Claimable
  <2>4. ASSUME NEW w \in Workers, HandleStep(w) PROVE job'[j] = job[j]
    BY <2>0, <2>1, <2>4 DEF HandleStep, Process, Complete, Fail, DeadLetter
  <2>5. ASSUME NEW w \in Workers, FaultStep(w) PROVE job'[j] = job[j]
    BY <2>5 DEF FaultStep, Stop, UpdateError
  <2>6. ASSUME Tick PROVE job'[j] = job[j]
    BY <2>6 DEF Tick
  <2>. QED  BY <2>2, <2>3, <2>4, <2>5, <2>6 DEF Next
<1>. QED  BY <1>1, QueueInvariant, PTL DEF Spec, FinalStays
-----------------------------------------------------------------------------
(* The backoff.  An induction is an appeal to the least element of a set   *)
(* of naturals, for a set, unlike a predicate, can be handed to a lemma.   *)

Less == {s \in Nat \X Nat : s[1] < s[2]}

(* A set of naturals that is not empty has a least element.                *)
LEMMA Least ==
    ASSUME NEW S \in SUBSET Nat, S # {}
    PROVE  \E x \in S : \A y \in S : x <= y
<1>1. IsWellFoundedOn(Less, Nat)
  BY NatLessThanWellFounded DEF OpToRel, Less
<1>2. PICK x \in S : \A y \in S : <<y, x>> \notin Less
  BY <1>1, WFMin
<1>3. ASSUME NEW y \in S PROVE x <= y
  <2>1. x \in Nat /\ y \in Nat /\ <<y, x>> \notin Less
    BY <1>2
  <2>2. y < x => <<y, x>> \in Less
    BY <2>1 DEF Less
  <2>. QED  BY <2>1, <2>2
<1>. QED  BY <1>3

(* Induction: a set with 0, and with n + 1 whenever it has n, has them all. *)
LEMMA Inductive ==
    ASSUME NEW S, 0 \in S, \A n \in Nat : n \in S => n + 1 \in S
    PROVE  Nat \subseteq S
<1>. SUFFICES ASSUME ~(Nat \subseteq S) PROVE FALSE
  OBVIOUS
<1>1. PICK x \in Nat \ S : \A y \in Nat \ S : x <= y
  <2>1. Nat \ S \in SUBSET Nat /\ Nat \ S # {}
    OBVIOUS
  <2>. QED  BY <2>1, Least
<1>2. x \in Nat /\ x - 1 \in Nat /\ (x - 1) + 1 = x
  OBVIOUS
<1>3. x - 1 \in S
  BY <1>1, <1>2
<1>. QED  BY <1>1, <1>2, <1>3

(* The delay before the n-th retry, from the one before it.                *)
After(n, d) == IF n <= 1 THEN BaseBackoff ELSE IF 2 * d >= MaxBackoff THEN MaxBackoff ELSE 2 * d

(* h holds the delays of the first n retries.                              *)
Delays(n, h) == h \in [0 .. n -> Nat] /\ \A i \in 0 .. n : h[i] = After(i, h[i - 1])

LEMMA DelaysExist == \A n \in Nat : \E h : Delays(n, h)
<1>. DEFINE S == {n \in Nat : \E h : Delays(n, h)}
<1>1. 0 \in S
  <2>. DEFINE h == [i \in 0 .. 0 |-> BaseBackoff]
  <2>1. h \in [0 .. 0 -> Nat]
    BY QueueAssumption
  <2>2. Delays(0, h)
    BY <2>1, QueueAssumption DEF Delays, After
  <2>. QED  BY <2>2
<1>2. ASSUME NEW n \in Nat, n \in S PROVE n + 1 \in S
  <2>1. PICK h : Delays(n, h)
    BY <1>2
  <2>. DEFINE k == [i \in 0 .. n + 1 |-> IF i = n + 1 THEN After(n + 1, h[n]) ELSE h[i]]
  <2>2. k \in [0 .. n + 1 -> Nat]
    BY <2>1, QueueAssumption DEF Delays, After
  <2>3. ASSUME NEW i \in 0 .. n + 1 PROVE k[i] = After(i, k[i - 1])
    BY <2>1, <2>2, QueueAssumption DEF Delays, After
  <2>4. Delays(n + 1, k)
    BY <2>2, <2>3 DEF Delays
  <2>. QED  BY <2>4
<1>. HIDE DEF S
<1>3. Nat \subseteq S
  BY <1>1, <1>2, Inductive
<1>. QED  BY <1>3 DEF S

LEMMA DelaysAgree ==
    ASSUME NEW m \in Nat, NEW n \in Nat, m <= n, NEW h, NEW k, Delays(m, h), Delays(n, k)
    PROVE  h[m] = k[m]
<1>. DEFINE S == {i \in Nat : i <= m => h[i] = k[i]}
<1>1. 0 \in S
  BY DEF Delays, After
<1>2. ASSUME NEW i \in Nat, i \in S PROVE i + 1 \in S
  <2>1. CASE i + 1 <= m
    <3>1. h[i] = k[i] /\ i + 1 \in 0 .. m /\ i + 1 \in 0 .. n /\ (i + 1) - 1 = i
      BY <1>2, <2>1
    <3>2. h[i + 1] = After(i + 1, h[i]) /\ k[i + 1] = After(i + 1, k[i])
      BY <3>1 DEF Delays
    <3>. QED  BY <3>1, <3>2
  <2>. QED  BY <2>1
<1>. HIDE DEF S
<1>3. Nat \subseteq S
  BY <1>1, <1>2, Inductive
<1>. QED  BY <1>3 DEF S

(* The recursive definition of Doubled defines a function.                 *)
LEMMA DoubledExists == \E g : g = [n \in Nat |-> After(n, g[n - 1])]
<1>. DEFINE upto(n) == CHOOSE h : Delays(n, h)
            g == [n \in Nat |-> upto(n)[n]]
            e == [n \in Nat |-> After(n, g[n - 1])]
<1>1. \A n \in Nat : Delays(n, upto(n))
  BY DelaysExist
<1>. HIDE DEF upto
<1>2. ASSUME NEW n \in Nat PROVE g[n] = After(n, g[n - 1])
  <2>1. CASE n <= 1
    BY <1>1, <2>1 DEF Delays, After
  <2>2. CASE n > 1
    <3>1. n - 1 \in Nat /\ n \in 0 .. n
      BY <2>2
    <3>2. upto(n)[n - 1] = upto(n - 1)[n - 1]
      BY <1>1, <3>1, DelaysAgree
    <3>3. upto(n)[n] = After(n, upto(n)[n - 1])
      BY <1>1, <3>1 DEF Delays
    <3>. QED  BY <3>1, <3>2, <3>3
  <2>. QED  BY <2>1, <2>2
<1>3. \A n \in Nat : g[n] = e[n]
  BY <1>2
<1>4. g = [n \in Nat |-> g[n]] /\ e = [n \in Nat |-> e[n]]
  OBVIOUS
<1>. HIDE DEF g, e
<1>5. [n \in Nat |-> g[n]] = [n \in Nat |-> e[n]]
  BY <1>3
<1>6. g = [n \in Nat |-> After(n, g[n - 1])]
  BY <1>4, <1>5 DEF e
<1>. QED  BY <1>6

LEMMA DoubledEquation == \A n \in Nat : Doubled[n] = After(n, Doubled[n - 1])
<1>1. Doubled = [n \in Nat |-> IF n <= 1 THEN BaseBackoff
                               ELSE IF 2 * Doubled[n - 1] >= MaxBackoff THEN MaxBackoff
                               ELSE 2 * Doubled[n - 1]]
  BY DoubledExists DEF Doubled, After
<1>. QED  BY <1>1 DEF After

(* "The delay before the n-th retry: BaseBackoff * 2^(n-1), capped at 1h": *)
(* the doubling loop of Worker.backoff computes the geometric sequence g,  *)
(* cut off at the cap, for every number of attempts; only a first delay    *)
(* that is configured beyond the cap is not cut off.                       *)
THEOREM BackoffIsGeometric ==
    ASSUME NEW g \in [Nat -> Nat], g[1] = BaseBackoff, \A n \in Nat \ {0} : g[n + 1] = 2 * g[n]
    PROVE  \A n \in Nat \ {0} :
               n > 1 \/ BaseBackoff <= MaxBackoff
                   => backoff(n) = IF g[n] >= MaxBackoff THEN MaxBackoff ELSE g[n]
<1>. DEFINE capped(n) == IF g[n] >= MaxBackoff THEN MaxBackoff ELSE g[n]
            S == {n \in Nat : \/ n = 0
                              \/ n = 1 /\ Doubled[n] = BaseBackoff
                              \/ n > 1 /\ Doubled[n] = capped(n)}
<1>1. 0 \in S
  OBVIOUS
<1>2. ASSUME NEW n \in Nat, n \in S PROVE n + 1 \in S
  <2>1. Doubled[n + 1] = After(n + 1, Doubled[n])
    BY DoubledEquation
  <2>2. CASE n = 0
    BY <2>1, <2>2 DEF After
  <2>3. CASE n > 0
    <3>1. g[n] \in Nat /\ g[n + 1] = 2 * g[n]
      BY <2>3
    <3>2. Doubled[n] = g[n] \/ (Doubled[n] = MaxBackoff /\ g[n] >= MaxBackoff)
      BY <1>2, <2>3
    <3>3. After(n + 1, Doubled[n]) = capped(n + 1)
      BY <2>3, <3>1, <3>2, QueueAssumption DEF After
    <3>. QED  BY <2>1, <2>3, <3>3
  <2>. QED  BY <2>2, <2>3
<1>. HIDE DEF S
<1>3. Nat \subseteq S
  BY <1>1, <1>2, Inductive
<1>. SUFFICES ASSUME NEW n \in Nat \ {0}, n > 1 \/ BaseBackoff <= MaxBackoff
              PROVE  Doubled[n] = capped(n)
  BY DEF backoff
<1>4. CASE n = 1
  <2>1. Doubled[n] = BaseBackoff
    BY <1>3, <1>4 DEF S
  <2>2. g[n] = BaseBackoff /\ BaseBackoff <= MaxBackoff
    BY <1>4
  <2>3. capped(n) = BaseBackoff
    BY <2>2, QueueAssumption
  <2>. QED  BY <2>1, <2>3
<1>5. CASE n > 1
  BY <1>3, <1>5 DEF S
<1>. QED  BY <1>4, <1>5

(* A delay is positive and no longer than the longest one.                 *)
LEMMA BackoffRange == \A n \in Nat : backoff(n) \in 1 .. LongestWait
<1>. DEFINE S == {n \in Nat : Doubled[n] \in 1 .. LongestWait}
<1>1. 0 \in S
  BY DoubledEquation, QueueAssumption DEF After, LongestWait
<1>2. ASSUME NEW n \in Nat, n \in S PROVE n + 1 \in S
  <2>1. Doubled[n + 1] = After(n + 1, Doubled[n])
    BY DoubledEquation
  <2>2. After(n + 1, Doubled[n]) \in 1 .. LongestWait
    BY <1>2, QueueAssumption DEF After, LongestWait
  <2>. QED  BY <2>1, <2>2
<1>. HIDE DEF S
<1>3. Nat \subseteq S
  BY <1>1, <1>2, Inductive
<1>. QED  BY <1>3 DEF S, backoff

(* Type correctness: no row counts more than MaxAttempts attempts or is    *)
(* held back longer than the longest backoff, after any number of failures *)
(* (Worker.handle, Worker.backoff).                                        *)
THEOREM QueueTypeCorrect == Spec => []TypeOK
<1>. DEFINE Waits == wait \in [Jobs -> -MaxAge .. LongestWait]
<1>0. LongestWait \in Nat \ {0} /\ MaxAge \in Nat
  BY QueueAssumption DEF LongestWait
<1>1. Init => Waits
  BY <1>0 DEF Init
<1>2. ASSUME QueueInv, Waits, [Next]_vars PROVE Waits'
  <2>1. ASSUME NEW j \in Jobs, Enqueue(j) PROVE Waits'
    BY <1>0, <1>2, <2>1 DEF Enqueue
  <2>2. ASSUME NEW w \in Workers, NEW j \in Jobs, Fail(w, j) PROVE Waits'
    <3>1. Attempts(w, j) \in Nat
      BY <1>2, QueueAssumption DEF Attempts, QueueInv, RowTypes, LoopState
    <3>2. backoff(Attempts(w, j)) \in -MaxAge .. LongestWait
      BY <1>0, <3>1, BackoffRange
    <3>. QED  BY <1>2, <2>2, <3>2 DEF Fail
  <2>3. ASSUME Tick PROVE Waits'
    BY <1>0, <1>2, <2>3 DEF Tick
  <2>4. ASSUME UNCHANGED wait PROVE Waits'
    BY <1>2, <2>4
  <2>. QED  BY <1>2, <2>1, <2>2, <2>3, <2>4 DEF Next, vars, ClaimStep, Claim, HandleStep, Process, Complete,
     DeadLetter, FaultStep, Stop, UpdateError
<1>3. QueueInv /\ Waits => TypeOK
  BY DEF QueueInv, TypeOK
<1>. QED  BY <1>1, <1>2, <1>3, QueueInvariant, PTL DEF Spec
===============================================================================

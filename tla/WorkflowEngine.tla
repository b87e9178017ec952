---------------------------- MODULE WorkflowEngine ----------------------------
(***************************************************************************)
(* The workflow engine for one user: routing of a submitted request, the   *)
(* approval chain, the hand-over of an approved request to the job queue,  *)
(* and the two job handlers that race over the user's access, provisioning *)
(* and the leaver kill switch.                                             *)
(*                                                                         *)
(* Granularity.  Approve and Deny are transactions that lock the request   *)
(* row: taking the lock, reading the chain and committing are separate, so *)
(* that the lock has work to do.  Each layer of the kill switch, each      *)
(* grant and each entitlement it revokes is a step.  Provisioning and      *)
(* revocation are coarser here than in AccessGrants, and the queue is      *)
(* coarser than in JobQueue; a worker that stops leaves its job running.   *)
(*                                                                         *)
(* Each request is for an entitlement of its own, so a request also names  *)
(* its entitlement at the provider and its grant row (AccessGrants shows   *)
(* that it never has two).                                                 *)
(***************************************************************************)
EXTENDS Naturals, FiniteSets

CONSTANTS
    Requests,
    NoRequest,
    Approvers,
    Jobs,        \* access_jobs rows that may be enqueued
    MaxAttempts, \* the worker's Config.MaxAttempts
    MaxFaults    \* bound: crashes and failed calls

ASSUME EngineAssumption ==
    /\ NoRequest \notin Requests
    /\ IsFiniteSet(Approvers)
    /\ MaxAttempts \in Nat \ {0}
    /\ MaxFaults \in Nat

VARIABLES
    req,      \* access_requests: state, the lane its risk routes it to, who created it
    decision, \* workflow_approvals: one row per request and approver
    tx,       \* each approver's transaction
    routing,  \* what the call that created a request still has to do with it
    owed,     \* requests approved by the engine and not yet enqueued
    job,      \* access_jobs
    run,      \* what the worker of each job has in hand
    live,     \* requests with a live grant
    account,  \* the user: team member, enabled, with sessions, orphan records; access held
    released, \* history: requests the engine approved
    dropped,  \* history: approved requests whose enqueue was lost
    faults

vars == <<req, decision, tx, routing, owed, job, run, live, account, released, dropped, faults>>

Lanes == {"auto_approve", "manager_approval", "security_review"}

NoTx == [pc |-> "idle", req |-> NoRequest, vote |-> "none", seen |-> "none", ok |-> FALSE]
NoJob == [status |-> "none", kind |-> "none", req |-> NoRequest, attempts |-> 0]

(* todo: what a loop of the kill switch has left; errored: a layer failed; *)
(* lateAccess, lateGrants: what was provisioned after the run had looked.  *)
NoRun == [pc |-> "none", todo |-> {}, errored |-> FALSE, lateAccess |-> {}, lateGrants |-> {}]

Init ==
    /\ req = [r \in Requests |-> [state |-> "absent", lane |-> "none", via |-> "none"]]
    /\ decision = [r \in Requests |-> [a \in Approvers |-> "none"]]
    /\ tx = [a \in Approvers |-> NoTx]
    /\ routing = [r \in Requests |-> "none"]
    /\ owed = {}
    /\ job = [j \in Jobs |-> NoJob]
    /\ run = [j \in Jobs |-> NoRun]
    /\ live = {}
    /\ account = [member |-> TRUE, enabled |-> TRUE, sessions |-> TRUE,
                  orphaned |-> TRUE, access |-> {}]
    /\ released = {} /\ dropped = {}
    /\ faults = 0

queue == <<job, run>>
user == <<live, account>>

Fault == faults < MaxFaults /\ faults' = faults + 1

(* The part of the request state machine these operations use.             *)
Transition(from, to) ==
    CASE from = "requested"        -> to \in {"ai_reviewed", "approved", "denied", "cancelled"}
      [] from = "ai_reviewed"      -> to \in {"approved", "denied", "cancelled"}
      [] from = "approved"         -> to \in {"provisioning", "cancelled"}
      [] from = "provisioning"     -> to \in {"provisioned", "provision_failed"}
      [] from = "provision_failed" -> to = "provisioning"
      [] OTHER                     -> FALSE

May(r, to) == Transition(req[r].state, to)

Set(r, to) == req' = [req EXCEPT ![r].state = to]

(* Mutant: Approve and Deny do not lock the request row.                   *)
MutLocked(r) == FALSE

(* A transaction of another approver holds the request row.                *)
Locked(r) == \E a \in Approvers : tx[a].pc # "idle" /\ tx[a].req = r

-----------------------------------------------------------------------------
(* Creation, routing and the HTTP decisions                                *)

(* What is left to do once the risk is known: nothing unless it is low.    *)
Route(lane) == IF lane = "auto_approve" THEN "approve" ELSE "none"

(* Engine.SubmitRequest assesses the risk first.                           *)
SubmitRequest(r, lane) ==
    /\ req[r].state = "absent"
    /\ req' = [req EXCEPT ![r] = [state |-> "requested", lane |-> lane, via |-> "engine"]]
    /\ routing' = [routing EXCEPT ![r] = Route(lane)]
    /\ UNCHANGED <<decision, tx, owed, queue, user, released, dropped, faults>>

(* The HTTP handler creates the request with no risk and has it reviewed.  *)
CreateRequest(r) ==
    /\ req[r].state = "absent"
    /\ req' = [req EXCEPT ![r] = [state |-> "requested", lane |-> "manager_approval", via |-> "http"]]
    /\ routing' = [routing EXCEPT ![r] = "review"]
    /\ UNCHANGED <<decision, tx, owed, queue, user, released, dropped, faults>>

(* ReviewRequest writes the risk, and with it the lane; refused once       *)
(* somebody has decided.                                                   *)
ReviewRequest(r, lane) ==
    /\ routing[r] = "review" /\ ~Locked(r)
    /\ IF May(r, "ai_reviewed")
       THEN /\ req' = [req EXCEPT ![r].state = "ai_reviewed", ![r].lane = lane]
            /\ routing' = [routing EXCEPT ![r] = Route(lane)]
       ELSE routing' = [routing EXCEPT ![r] = "none"] /\ UNCHANGED req
    /\ UNCHANGED <<decision, tx, owed, queue, user, released, dropped, faults>>

(* ExecuteWorkflow approves it, unless somebody decided in between; only   *)
(* the engine goes on to provision.                                        *)
ExecuteWorkflow(r) ==
    /\ routing[r] = "approve" /\ ~Locked(r)
    /\ routing' = [routing EXCEPT ![r] = "none"]
    /\ IF May(r, "approved") THEN Set(r, "approved") ELSE UNCHANGED req
    /\ IF May(r, "approved") /\ req[r].via = "engine"
       THEN owed' = owed \cup {r} /\ released' = released \cup {r}
       ELSE UNCHANGED <<owed, released>>
    /\ UNCHANGED <<decision, tx, queue, user, dropped, faults>>

(* The process dies with the call.                                         *)
CreatorDies(r) ==
    /\ Fault
    /\ routing[r] # "none"
    /\ routing' = [routing EXCEPT ![r] = "none"]
    /\ UNCHANGED <<req, decision, tx, owed, queue, user, released, dropped>>

(* Approve, deny or cancel over HTTP: the request service itself, which    *)
(* knows no chain and enqueues nothing.                                    *)
DecideRequest(r, to) ==
    /\ ~Locked(r) /\ May(r, to)
    /\ Set(r, to)
    /\ UNCHANGED <<decision, tx, routing, owed, queue, user, released, dropped, faults>>

-----------------------------------------------------------------------------
(* Engine.Approve and Engine.Deny                                          *)

(* Mutant: one approver suffices for every lane.                           *)
MutRequiredApprovals(lane) == IF lane = "auto_approve" THEN 0 ELSE 1

RequiredApprovals(lane) ==
    CASE lane = "auto_approve"    -> 0
      [] lane = "security_review" -> 2
      [] OTHER                    -> 1

Votes(d, vote) == {a \in Approvers : d[a] = vote}

Satisfied(d, lane) ==
    /\ Votes(d, "deny") = {}
    /\ Cardinality(Votes(d, "approve")) >= RequiredApprovals(lane)

(* RecordTx upserts: one row per approver, the latest vote in it.          *)
Record(a) == [decision[tx[a].req] EXCEPT ![a] = tx[a].vote]

LockRequestInTx(a, r, vote) ==
    /\ tx[a].pc = "idle"
    /\ req[r].state # "absent" /\ ~Locked(r)
    /\ tx' = [tx EXCEPT ![a] = [pc |-> "record", req |-> r, vote |-> vote,
                                seen |-> req[r].state, ok |-> FALSE]]
    /\ UNCHANGED <<req, decision, routing, owed, queue, user, released, dropped, faults>>

(* The vote is recorded and the chain derived from the rows the            *)
(* transaction can see: the committed ones and its own.                    *)
StateTx(a) ==
    /\ tx[a].pc = "record"
    /\ tx' = [tx EXCEPT ![a].pc = "commit",
                        ![a].ok = Satisfied(Record(a), req[tx[a].req].lane)]
    /\ UNCHANGED <<req, decision, routing, owed, queue, user, released, dropped, faults>>

CommitVote(a) ==
    /\ decision' = [decision EXCEPT ![tx[a].req] = Record(a)]
    /\ tx' = [tx EXCEPT ![a] = NoTx]
    /\ UNCHANGED <<routing, queue, user, dropped, faults>>

(* The chain is complete and the request still waits for it.               *)
CommitApproval(a) ==
    LET r == tx[a].req IN
    /\ tx[a].pc = "commit" /\ tx[a].vote = "approve"
    /\ tx[a].ok /\ tx[a].seen = "requested" /\ May(r, "approved")
    /\ Set(r, "approved")
    /\ owed' = owed \cup {r} /\ released' = released \cup {r}
    /\ CommitVote(a)

(* The chain is not complete, or the request has moved on.                 *)
CommitVoteOnly(a) ==
    /\ tx[a].pc = "commit" /\ tx[a].vote = "approve"
    /\ ~(tx[a].ok /\ tx[a].seen = "requested")
    /\ CommitVote(a)
    /\ UNCHANGED <<req, owed, released>>

(* One deny is enough; on a request already decided it is only recorded.   *)
CommitDeny(a) ==
    LET r == tx[a].req IN
    /\ tx[a].pc = "commit" /\ tx[a].vote = "deny"
    /\ IF May(r, "denied") THEN Set(r, "denied") ELSE UNCHANGED req
    /\ CommitVote(a)
    /\ UNCHANGED <<owed, released>>

Rollback(a) ==
    /\ Fault
    /\ tx[a].pc # "idle"
    /\ tx' = [tx EXCEPT ![a] = NoTx]
    /\ UNCHANGED <<req, decision, routing, owed, queue, user, released, dropped>>

-----------------------------------------------------------------------------
(* Enqueueing                                                              *)

Insert(j, kind, r) ==
    /\ job[j].status = "none"
    /\ job' = [job EXCEPT ![j] = [status |-> "queued", kind |-> kind, req |-> r, attempts |-> 0]]
    /\ UNCHANGED <<req, decision, tx, routing, run, user, released, faults>>

(* After the commit.                                                       *)
EnqueueProvision(r, j) ==
    /\ r \in owed
    /\ Insert(j, "provision", r)
    /\ owed' = owed \ {r}
    /\ UNCHANGED dropped

(* The engine dies before it, or the queue refuses it.                     *)
EnqueueLost(r) ==
    /\ Fault
    /\ r \in owed
    /\ owed' = owed \ {r}
    /\ dropped' = dropped \cup {r}
    /\ UNCHANGED <<req, decision, tx, routing, queue, user, released>>

(* A caller enqueues a lost one once the queue is back.                    *)
EnqueueAgain(r, j) ==
    /\ r \in dropped
    /\ Insert(j, "provision", r)
    /\ dropped' = dropped \ {r}
    /\ UNCHANGED owed

(* IngestSCIMEvent: the user has left.                                     *)
IngestLeaver(j) == Insert(j, "leaver", NoRequest) /\ UNCHANGED <<owed, dropped>>

-----------------------------------------------------------------------------
(* The worker                                                              *)

Claim(j) ==
    /\ job[j].status \in {"queued", "retry"}
    /\ job' = [job EXCEPT ![j].status = "running"]
    /\ run' = [run EXCEPT ![j] = [NoRun EXCEPT !.pc = job[j].kind]]
    /\ UNCHANGED <<req, decision, tx, routing, owed, user, released, dropped, faults>>

(* Mutant: the processor's error is not reported to the queue.             *)
MutOutcome(j, err) == [job[j] EXCEPT !.status = "done"]

(* Complete, Fail or DeadLetter, by what the processor returned.           *)
Outcome(j, err) ==
    IF ~err THEN [job[j] EXCEPT !.status = "done"]
    ELSE IF job[j].attempts + 1 >= MaxAttempts
         THEN [job[j] EXCEPT !.status = "dead_letter", !.attempts = @ + 1]
         ELSE [job[j] EXCEPT !.status = "retry", !.attempts = @ + 1]

Finish(j, err) == job' = [job EXCEPT ![j] = Outcome(j, err)]

At(j, pc) == job[j].status = "running" /\ run[j].pc = pc

Goto(j, pc) == run' = [run EXCEPT ![j].pc = pc]

(* A worker that stops takes its run with it; the row keeps its status.    *)
WorkerStops(j) ==
    /\ Fault
    /\ job[j].status = "running" /\ run[j].pc # "none"
    /\ run' = [run EXCEPT ![j] = NoRun]
    /\ UNCHANGED <<req, decision, tx, routing, owed, job, user, released, dropped>>

engine == <<decision, tx, routing, owed, released, dropped>>

-----------------------------------------------------------------------------
(* handleProvision                                                         *)

ProvisionBegin(j) ==
    LET r == job[j].req IN
    /\ At(j, "provision") /\ ~Locked(r)
    /\ IF May(r, "provisioning") \/ req[r].state = "provisioning"
       THEN Set(r, "provisioning") /\ Goto(j, "call") /\ UNCHANGED job
       ELSE Finish(j, TRUE) /\ Goto(j, "none") /\ UNCHANGED req
    /\ UNCHANGED <<engine, user, faults>>

(* What the runs of the kill switch that have looked already will miss.    *)
Missed(f(_)) == [k \in Jobs |-> IF job[k].kind = "leaver" THEN f(run[k]) ELSE run[k]]

(* The provider gives the user the entitlement.                            *)
Entitle(j, pc) ==
    LET late(x) == IF x.pc \in {"list", "leaver", "revoke", "teams", "iam", "sessions"} THEN x
                   ELSE [x EXCEPT !.lateAccess = @ \cup {job[j].req}]
    IN
    /\ account' = [account EXCEPT !.access = @ \cup {job[j].req}]
    /\ run' = [Missed(late) EXCEPT ![j].pc = pc]

ProvisionAccess(j) ==
    /\ At(j, "call")
    /\ Entitle(j, "insert")
    /\ UNCHANGED <<req, engine, job, live, faults>>

(* The provider refuses, or times out having done it.                      *)
ProvisionError(j) ==
    LET r == job[j].req IN
    /\ Fault
    /\ At(j, "call") /\ ~Locked(r)
    /\ Entitle(j, "none") \/ (Goto(j, "none") /\ UNCHANGED account)
    /\ IF May(r, "provision_failed") THEN Set(r, "provision_failed") ELSE UNCHANGED req
    /\ Finish(j, TRUE)
    /\ UNCHANGED <<engine, live>>

(* An existing grant is reused; otherwise the grant row and the request's  *)
(* way to active, if the state machine still lets it.                      *)
ProvisionInsert(j) ==
    LET r == job[j].req
        late(x) == [x EXCEPT !.lateGrants = @ \cup {r}]
    IN
    /\ At(j, "insert") /\ ~Locked(r)
    /\ IF r \in live \/ May(r, "provisioned")
       THEN /\ live' = live \cup {r}
            /\ IF May(r, "provisioned") THEN Set(r, "active") ELSE UNCHANGED req
            /\ run' = [IF r \in live THEN run ELSE Missed(late) EXCEPT ![j].pc = "none"]
            /\ Finish(j, FALSE)
       ELSE Finish(j, TRUE) /\ Goto(j, "none") /\ UNCHANGED <<req, live>>
    /\ UNCHANGED <<engine, account, faults>>

(* The transaction of the insert fails: the user has the entitlement, the  *)
(* request stays in provisioning, and the job comes back to it.            *)
ProvisionInsertError(j) ==
    /\ Fault
    /\ At(j, "insert")
    /\ Goto(j, "none")
    /\ Finish(j, TRUE)
    /\ UNCHANGED <<req, engine, user>>

-----------------------------------------------------------------------------
(* handleJMLEvent: RunKillSwitch, layer by layer.  A layer that fails is   *)
(* remembered and the next one runs all the same.  There is one connector, *)
(* which can revoke sessions and entitlements.                             *)

KillLoadGrants(j) ==
    /\ At(j, "leaver")
    /\ run' = [run EXCEPT ![j].pc = "revoke", ![j].todo = live]
    /\ UNCHANGED <<req, engine, job, user, faults>>

(* RevokeGrant: nothing to do when the grant is gone already; otherwise    *)
(* the provider, the row and the request.                                  *)
KillRevoke(j, r) ==
    /\ At(j, "revoke") /\ r \in run[j].todo /\ ~Locked(r)
    /\ run' = [run EXCEPT ![j].todo = @ \ {r}]
    /\ IF r \in live
       THEN /\ live' = live \ {r}
            /\ account' = [account EXCEPT !.access = @ \ {r}]
            /\ IF req[r].state = "active" THEN Set(r, "revoked") ELSE UNCHANGED req
       ELSE UNCHANGED <<req, live, account>>
    /\ UNCHANGED <<engine, job, faults>>

(* An item of a loop fails; the provider may have done it nevertheless.    *)
KillItemError(j, r) ==
    /\ Fault
    /\ run[j].pc \in {"revoke", "scim"} /\ At(j, run[j].pc) /\ r \in run[j].todo
    /\ run' = [run EXCEPT ![j].todo = @ \ {r}, ![j].errored = TRUE]
    /\ \/ account' = [account EXCEPT !.access = @ \ {r}]
       \/ UNCHANGED account
    /\ UNCHANGED <<req, engine, job, live>>

(* The order of the layers.                                                *)
After(pc) ==
    CASE pc = "leaver" -> "teams" [] pc = "revoke" -> "teams" [] pc = "teams" -> "iam"
      [] pc = "iam" -> "sessions" [] pc = "sessions" -> "list" [] pc = "list" -> "scim"
      [] pc = "scim" -> "verify"

KillLoopDone(j) ==
    /\ run[j].pc \in {"revoke", "scim"} /\ At(j, run[j].pc) /\ run[j].todo = {}
    /\ Goto(j, After(run[j].pc))
    /\ UNCHANGED <<req, engine, job, user, faults>>

(* Team memberships; the block in iam-core, where a user it does not know  *)
(* counts as blocked; the sessions at the connector.                       *)
Layered(pc) ==
    CASE pc = "teams"    -> [account EXCEPT !.member = FALSE]
      [] pc = "iam"      -> [account EXCEPT !.enabled = FALSE]
      [] pc = "sessions" -> [account EXCEPT !.sessions = FALSE]
      [] OTHER           -> account

KillLayer(j) ==
    /\ run[j].pc \in {"teams", "iam", "sessions"} /\ At(j, run[j].pc)
    /\ account' = Layered(run[j].pc)
    /\ Goto(j, After(run[j].pc))
    /\ UNCHANGED <<req, engine, job, live, faults>>

(* A layer fails, or took effect and the write of its audit row failed.  A *)
(* connector that cannot be resolved fails both of its layers.             *)
KillLayerError(j) ==
    /\ Fault
    /\ run[j].pc \in {"leaver", "teams", "iam", "sessions", "list"} /\ At(j, run[j].pc)
    /\ \E pc \in {After(run[j].pc)} \cup IF run[j].pc = "sessions" THEN {"verify"} ELSE {} :
         run' = [run EXCEPT ![j].pc = pc, ![j].errored = TRUE]
    /\ account' \in {account, Layered(run[j].pc)}
    /\ UNCHANGED <<req, engine, job, live>>

(* scimDeprovision: every entitlement the provider still reports.          *)
KillList(j) ==
    /\ At(j, "list")
    /\ run' = [run EXCEPT ![j].pc = "scim", ![j].todo = account.access, ![j].lateAccess = {}]
    /\ UNCHANGED <<req, engine, job, user, faults>>

KillScim(j, r) ==
    /\ At(j, "scim") /\ r \in run[j].todo
    /\ account' = [account EXCEPT !.access = @ \ {r}]
    /\ run' = [run EXCEPT ![j].todo = @ \ {r}]
    /\ UNCHANGED <<req, engine, job, live, faults>>

(* Mutant: the final layer does not look for grants that survived.         *)
MutVerified(j) == ~run[j].errored

(* No layer failed, and no active grant is left to be seen.                *)
Verified(j) == ~run[j].errored /\ live = {}

(* layerIdentityDisable disposes of the user's orphan records once no      *)
(* grant is left, whatever the layers before it did.                       *)
KillVerify(j) ==
    /\ At(j, "verify")
    /\ run' = [run EXCEPT ![j].pc = "none", ![j].lateGrants = {}]
    /\ account' = [account EXCEPT !.orphaned = @ /\ live # {}]
    /\ Finish(j, ~Verified(j))
    /\ UNCHANGED <<req, engine, live, faults>>

KillVerifyError(j) ==
    /\ Fault
    /\ At(j, "verify")
    /\ Goto(j, "none")
    /\ Finish(j, TRUE)
    /\ UNCHANGED <<req, engine, user>>

-----------------------------------------------------------------------------

EngineStep ==
    \/ \E r \in Requests, lane \in Lanes : SubmitRequest(r, lane) \/ ReviewRequest(r, lane)
    \/ \E r \in Requests : CreateRequest(r) \/ ExecuteWorkflow(r) \/ CreatorDies(r) \/ EnqueueLost(r)
    \/ \E r \in Requests, to \in {"approved", "denied", "cancelled"} : DecideRequest(r, to)
    \/ \E a \in Approvers, r \in Requests, vote \in {"approve", "deny"} : LockRequestInTx(a, r, vote)
    \/ \E a \in Approvers : \/ StateTx(a) \/ CommitApproval(a) \/ CommitVoteOnly(a)
                            \/ CommitDeny(a) \/ Rollback(a)
    \/ \E r \in Requests, j \in Jobs : EnqueueProvision(r, j) \/ EnqueueAgain(r, j)
    \/ \E j \in Jobs : IngestLeaver(j)

WorkerStep ==
    \E j \in Jobs :
        \/ Claim(j) \/ WorkerStops(j)
        \/ ProvisionBegin(j) \/ ProvisionAccess(j) \/ ProvisionError(j) \/ ProvisionInsert(j)
        \/ ProvisionInsertError(j)
        \/ KillLoadGrants(j) \/ KillLoopDone(j) \/ KillLayer(j) \/ KillLayerError(j)
        \/ KillList(j) \/ KillVerify(j) \/ KillVerifyError(j)
        \/ \E r \in Requests : KillRevoke(j, r) \/ KillItemError(j, r) \/ KillScim(j, r)

Next == EngineStep \/ WorkerStep

Spec == Init /\ [][Next]_vars

-----------------------------------------------------------------------------
(* Properties                                                              *)

(* Rows, transactions and runs are of their types.                         *)
TypeOK ==
    /\ \A r \in Requests :
         req[r].state \in {"absent", "requested", "ai_reviewed", "approved", "denied", "cancelled",
                           "provisioning", "provision_failed", "active", "revoked"}
    /\ decision \in [Requests -> [Approvers -> {"none", "approve", "deny"}]]
    /\ \A j \in Jobs :
         /\ job[j].status \in {"none", "queued", "running", "retry", "done", "dead_letter"}
         /\ job[j].attempts \in 0 .. MaxAttempts
         /\ run[j].todo \subseteq Requests
    /\ live \subseteq Requests /\ account.access \subseteq Requests
    /\ routing \in [Requests -> {"none", "review", "approve"}] /\ owed \subseteq Requests
    /\ faults \in 0 .. MaxFaults

(* A chain that is complete, or that one deny has broken, never sits in    *)
(* requested: of two approvers voting at once one sees the other's row and *)
(* moves the request (the row lock of Approve and Deny).                   *)
ChainNeverStalls ==
    \A r \in Requests :
        /\ req[r].state = "requested"
        /\ \E a \in Approvers : decision[r][a] # "none"
        => /\ Votes(decision[r], "deny") = {}
           /\ ~Satisfied(decision[r], req[r].lane)

(* "security_review needs two DISTINCT approvers": a request the engine    *)
(* released has that many people on record, however votes were repeated,   *)
(* changed or raced.                                                       *)
FourEyes ==
    \A r \in released :
        LET on == {a \in Approvers : decision[r][a] # "none"} IN
        CASE req[r].lane = "security_review"  -> Cardinality(on) >= 2
          [] req[r].lane = "manager_approval" -> on # {}
          [] OTHER                            -> TRUE

(* A request the engine approved is carried on: it is about to be          *)
(* enqueued, a job of it is in the queue, running or dead-lettered, or its *)
(* enqueue was lost between the commit and the queue.                      *)
ReleasedIsDriven ==
    \A r \in released :
        req[r].state \in {"approved", "provisioning", "provision_failed"}
            => \/ r \in owed \cup dropped
               \/ \E j \in Jobs : /\ job[j].kind = "provision" /\ job[j].req = r
                                  /\ job[j].status # "done"

(* A leaver job that is done has cut the user off: every layer took        *)
(* effect, in whichever attempt, and what access or grant there is was     *)
(* provisioned after the last run had listed the entitlements or counted   *)
(* the grants.                                                             *)
LeaverComplete ==
    \A j \in Jobs :
        job[j].kind = "leaver" /\ job[j].status = "done"
            => /\ ~account.member /\ ~account.enabled /\ ~account.sessions /\ ~account.orphaned
               /\ account.access \subseteq run[j].lateAccess
               /\ live \subseteq run[j].lateGrants
=============================================================================

# ShieldNet Access: TLA+ models and proofs

ShieldNet Access is a control plane for zero-trust access and privileged access
management (PAM). Its processes share one Postgres database at READ COMMITTED and
otherwise know little of each other, so almost every guarantee it gives rests on
which rows a transaction locks, on which conditions an `UPDATE` repeats, and on
what happens to the work that is left outside every transaction. That is what
this directory models, checks with TLC and proves with TLAPS.

Paths below are relative to the repository (`src/` in `PROJECT.json`).

## 1. Inventory

### Processes

| binary | role |
|---|---|
| `cmd/ztna-api` | HTTP API; lease request/approve/revoke, access requests, grants, SCIM ingestion; session manager without a live controller |
| `cmd/pam-gateway` | protocol proxies, session hub, reconciler (every 2 s), lease expiry sweep; any number of replicas |
| `cmd/access-workflow-engine` | drains workflow jobs, schedules reviews |
| `cmd/access-connector-worker` | drains connector jobs |
| `cmd/access-target-agent` | dials out to the gateways and carries streams to private targets |
| `cmd/access-ai-agent` | advisory risk scores |

### Components, their state and what makes them correct

| component | state | operations | interacts with | hard behaviours | correctness |
|---|---|---|---|---|---|
| PAM leases (`services/pam/lease_service.go`, `models/pam_lease.go`) | `pam_leases`: created, granted, activated, expired, revoked timestamps, `expires_at` | request, approve, revoke, expiry sweep | broker (validator), session manager (teardown), audit chain | competing sweepers, scan then claim, teardown outside the transaction | strict state machine; window fixed once granted; one audit event per transition; no session outlives its lease |
| connect-token broker (`services/pam/connect_token.go`) | `pam_connect_tokens` | mint, redeem, sweep | leases, sessions, vault, gateway handlers | two redemptions of one token; redemption against revocation | one session per token; a token within its lease |
| PAM sessions (`services/pam/session.go`) | `pam_sessions`: state, paused | open, pause, resume, close, terminate, lease teardown, intents | hub (controller), reconciler, audit chain | close, terminate and teardown at once; pause and resume out of order | one end event; intent reaches the proxy |
| gateway session control (`gateway/session_control.go`, `reconciler.go`, `recorder.go`, `pg_handler.go`, `ssh_handler.go`) | in-memory hub of each gateway, pause gate, forwarding loops, `pam_session_commands` | register, terminate, pause, resume, reconcile, gate, log and forward a command | sessions, proxies | row ended before the handler registered; stale intents; concurrent numbering; process crash | an ended row is cut off; the gate follows the row; nothing unrecorded goes upstream |
| access requests (`services/lifecycle/state_machine.go`, `request_service.go`) | `access_requests.state`, history | create, approve, deny, cancel, review, transition | provisioning, workflow, audit chain | decisions racing under a row lock | terminal states are final |
| provisioning and grants (`provisioning_service.go`, `enforcer.go`) | `access_grants`; the entitlements at providers | provision, revoke, expire, enforce | requests, connectors, scheduler | provider calls outside transactions, ambiguous timeouts, crashes | one grant per request; grant and request agree; no access without a record |
| joiner/mover/leaver (`jml_service.go`) | none of its own | joiner, mover, leaver kill switch of six layers | requests, provisioning, IAM, connectors | redelivered SCIM events, one layer of several failing, provisioning behind the switch's back | no double grant; every layer took effect before the job is done |
| job queue (`internal/workers`) | `access_jobs` | enqueue, claim, complete, fail, dead-letter | workflow engine, connector worker | replicas claiming at once, worker stop, failed update | one holder; honest attempt counts; every job worked off |
| workflow engine (`services/access/workflow_engine`) | `workflow_approvals` | submit, review, approve, deny, enqueue | requests, job queue | votes at once, approve against deny, crash before enqueue | four-eyes; a complete chain moves the request; an approved request is carried on |
| policy rollout (`policy_service.go`, `conflict_detector.go`, `anomaly_detector.go`) | `policies`, cached impact, `access_anomalies` | create, edit, simulate, promote, archive, anomaly sweep | audit chain, workspace advisory lock | edit between simulation and promotion, two contradicting promotions, two lock kinds | no contradiction goes live without an override; no stale impact; no deadlock |
| certification campaigns and access reviews (`compliance/campaign.go`, `lifecycle/review_service.go`) | campaign rows, items with decision and revoke stamp | start, decide, close, re-close, complete, overdue sweep | grants, connectors | decision against close, two reviewers at once, teardown after the commit | decisions are final and recorded once; a decided revocation lands |
| audit chain (`services/lifecycle/audit.go`, `pkg/auditchain`, `compliance/evidence.go`) | `audit_events` with `chain_seq` and hashes | append, verify, verify since an anchor | everything | concurrent appends without a unique index | one unbroken append-only chain per workspace |
| broker and agent tunnels (`internal/broker`) | persisted heartbeats of agents; tunnels in the memory of a relay | heartbeat, open stream, forward | gateways, agents | stale liveness | a stale answer costs a failed dial, nothing more is promised |
| vault and rotation (`pam/vault.go`, `rotation_*.go`, `dynamic_db_creds.go`) | sealed secrets, rotation policies and outcomes, `pam_dynamic_credentials`; the credential and the roles upstream | rotate by hand, on an interval, on check-in; mint and reap ephemeral roles | targets, leases | vault and upstream share no transaction, lost acknowledgements, overlapping rotations, reaper against a late create | the sealed secret is the one that works; no role escapes the reaper |
| usage, billing, tenancy, rate limits, MFA, discovery, compliance, workflow builder | counters, budgets, buckets, evidence | see `PROJECT.json` | | counters at limits, hibernation, replays | |
| connectors, HTTP API, authorization, wire protocols, UI, SDK, deployment | none shared, or I/O | | | | not modelled |

`PROJECT.json` lists every component with its status and, under `hazards`, the
places in the code where something hard to test can go wrong, each with the
properties that cover it or the reason why none does yet.

## 2. Modules

| module | what it is |
|---|---|
| `PamLeaseFSM` | abstract specification: the lease state machine `pam_lease.go` documents |
| `PamAccess` | leases, tokens, sessions, gateway handlers, sweeps, teardowns, reconciler |
| `SessionControl` | pause, resume and termination of one live session: rows, hub, gate, reconciler, forwarding loops, command log, teardown |
| `TargetCredentials` | one target's sealed secret and upstream credential, rotations, ephemeral database roles |
| `AccessGrants` | access requests, provisioning, grants, expiry, the joiner lane |
| `WorkflowEngine` | routing, approval chain, enqueue after the commit, provision jobs against the leaver kill switch |
| `Campaigns` | certification campaigns and access reviews over grants |
| `AuditLog` | abstract specification: an append-only log extended by whole batches |
| `AuditChain` | operators: hash chain, head look-up, next row, full and incremental verification |
| `PolicyRollout` | policy drafts, simulation, promotion, anomaly sweep, as transactions that append to the chain |
| `JobQueue` | the durable queue and the worker loop |
| `MC*` | the instances TLC checks |
| `PamAccessProofs`, `SessionControlProofs`, `TargetCredentialsProofs`, `AccessGrantsProofs`, `WorkflowEngineProofs`, `CampaignsProofs`, `PolicyRolloutProofs`, `JobQueueProofs` | the theorems about the module each is named after |

How they fit together: `PolicyRollout` extends `AuditChain` and is shown to
implement `AuditLog`; `PamAccess` implements `PamLeaseFSM`. `WorkflowEngine`
composes the approval chain with coarser views of the two neighbours it drives,
provisioning (`AccessGrants`) and the queue (`JobQueue`); `Campaigns` takes a
revocation to be one step that succeeds or fails, whose inside is in
`AccessGrants`. `PamAccess` shows when a session's row ends, `SessionControl` what
then happens to its stream.

Common conventions. A transaction that locks the row it decides on, or whose
`UPDATE` repeats its condition, is one action. A read without a lock that the code
acts on later, a provider call, a processor run and each step of a teardown are
actions of their own, because other processes commit between them. A crash
resets a process to its initial state and leaves the rows alone. Workspaces are
not modelled: every query is scoped to one, and no operation spans two.
Definitions whose name begins with `Mut` are deliberately wrong variants of the
definition that follows them; nothing uses them but the mutation tests that show
each property can fail.

### PamAccess

A lease row is the set of its non-null timestamps with `ttl` and `expires`;
`Status`, `IsLive` and `IsTerminal` are those of `PAMLease`. `RequestLease`,
`ApproveLease`, `RevokeLease` are the service's methods; the sweep is `ExpireScan`,
then one `ExpireClaim` per due lease. Both a revocation and a claim go on, outside
their transaction, to `TerminateScan`, and per session `TerminateSever` (the
in-process hub) and `TerminateEnd` (the row). `MintConnectToken` is one
action, for it locks the lease. Redemption is two: `RedeemValidate` reads token and
lease without a lock, `RedeemCommit` consumes the token conditionally, opens the
session and activates the lease. A gateway connection then goes through
`Register`, `StreamEnds`, `CloseSession`, `Deregister`, or ends in `OrphanClose`;
`ReconcileOnce` cuts off a session whose row has ended. `Crash`, `TeardownError`,
`ClaimError` and `CloseError` are the faults. The history variables `late` and
`abandoned` record the two ways a session can be missed by its lease's teardown;
`abandoned` holds the very sessions a fault left behind, so that a session that is
not among them has to be ended although another one of its lease was missed.

Abstractions: a connection names the session it may open; all processes read one
clock; the handler is the Postgres proxy's, whose session skeleton the other
protocol proxies share, except that an SSH handler stays until its client closes
the connection (see `SessionControl`); secrets, addresses and risk scores are
left out.

### SessionControl

One session of a protocol proxy (one loop, which asks the pause gate before every
read) or of the SSH proxy (up to two channels, whose exec loops do not ask it).
An administrator's pause is `SetPauseRead`, `SetPauseCommit` (the conditional
update and its audit event) and, in the gateway's own process, `SetPauseHub`; a
termination is `TerminateInterrupt`, `TerminateCancel`, `TerminateEnd`. The
reconciler reads the row in `ReconcileRead` and acts on that copy in
`ApplyControl`, or `ApplyInterrupt` and `ApplyCancel`. A loop goes through `PassGate`,
`ReadCommand`, `LogRead`, `LogInsert` (or `LogDuplicate`, when another channel took
the number, or `LogError`, which fails closed) and `Forward`; `Refuse` logs a denied
command. The handler ends in `Flush`, `CloseSession` or `CloseError`, `Deregister`.
`GatewayDies` is a crash. `count` and `leaked` are history.

Abstractions: protocol messages that carry no command, and the raw bytes of an
interactive shell, are not modelled; a channel opened after the context was
cancelled is closed at once; the policy's verdict on a command is a free choice.

### TargetCredentials

Vault and upstream share no transaction and nothing keeps two rotations of one
target apart, so every statement to either is an action. `RotateTarget` is
`OpenSecret`, `Connect`, `Alter`, `Verify`, then `Seal` and `WriteOutcome`, or
`Undo` (the executor's own roll-back) or `Restore` (the engine's, after a failed
re-seal); each has its `...Error`, in which the statement fails or only its
acknowledgement does, and `Stop` is a death or a cancelled context. It is triggered
by `RotateNow` and by `SweepPolicies`, whose two phases are the interval and the
check-in sweep. Before it rotates a due target the sweep asks the hibernation gate
and the fair scheduler: a workspace that is dormant or at its budget of concurrent
jobs is passed over and stays due, except that a gate or budget that cannot be read
lets it through (`Runs`). `TenantDeferred` and `TenantAdmitted` make the workspace
so at any time; neither is obliged to happen. Rotations by hand and the reaper are
not gated. `MintBegin`, `MintInsert`, `MintCreate`, `MarkFailed` are
`MintForLease`; `ReapScan`, `DropRole`, `MarkDropped`, `ReapDone` are `ReapDue`.
`blame`, `stale` and `stray` are history: what may have set vault and upstream
apart, leases whose secret has not been replaced since, roles whose creation
failed or came late.

Abstractions: secrets are opaque, and a rotation takes one that nothing refers to;
the policy rotates on an interval and on check-in and mints dynamic credentials,
and is not edited; reading the admin secret is merged with connecting; the time
between sweeps, and so whether an interval has passed, is a free choice.

### AccessGrants

`req` is the state of each request under `allowedTransitions`; `TransitionInTx`
locks the row. `Provision` is `ProvisionRead`, `ProvisionBegin`, the provider
call (`ProvisionAccess`, or `ProvisionError`, which may have taken effect),
`ProvisionFailed`, the idempotency guard's look-up (`ProvisionFind`), and
`ProvisionReuse` or `ProvisionInsert`. `RevokeGrant` and `ExpireGrant` read the
grant, call the provider (`RevokeAccess`, `RevokeError`) and mark grant and
request (`TeardownMark`). `JoinCheck`, `JoinCreate`, `JoinApprove` are
`HandleJoiner`. `provider` is what the user holds at the provider; `stray` records
entitlements that a provider call granted after its request had moved on.

### WorkflowEngine

`SubmitRequest` is the engine's path, `CreateRequest`, `ReviewRequest` and
`ExecuteWorkflow` the HTTP one; `DecideRequest` the direct decisions of the HTTP API.
`Approve` and `Deny` take the row lock (`LockRequestInTx`), read the state (`StateTx`)
and commit (`CommitApproval`, `CommitVoteOnly`, `CommitDeny`) in separate steps, so
that the lock has work to do. `EnqueueProvision` follows the commit and may be lost
(`EnqueueLost`). `Claim`, `Finish` and `WorkerStops` are the queue. A provision job is
`ProvisionBegin`, `ProvisionAccess` or `ProvisionError`, `ProvisionInsert` or
`ProvisionInsertError`; a leaver
job walks the layers with `KillLoadGrants`, `KillRevoke`, `KillLayer`, `KillList`,
`KillScim`, `KillVerify`, each of which may fail without stopping the later ones.

Abstractions: one user and one connector that has both the session and the SCIM
capability, the iam-core client wired; a request names its own entitlement and
grant; provisioning and the queue are coarser than in their own modules.

### Campaigns

A certification decision takes the campaign row `FOR SHARE` (`SubmitShare`), a
review's reads it without a lock (`SubmitRead`); both decide under the item's row
lock (`SubmitDecision`). `CloseCampaign` waits for the shares and snapshots the
staged revokes; `RevokeGrant` and `Stamp` follow its commit. A review revokes at
once and ends with `CompleteCampaign`. `EnforceOverdue`, `CountOpen`, `StampOverdue`
are the sweep, with the little it looks at again under its lock. `Fault` is a failed
connector call or a death; `Disconnect` a client that goes away, and with it the
context of its request. The teardown of a close is detached from that context
(`Detached`), the revoke of a review is not. `cut` is history: the decided revokes
whose teardown was cut short, each with its cause, until a re-close or a repeated
decision takes them up again. `GrantEnds` is everything else that ends a grant.

### AuditChain, AuditLog, PolicyRollout

Rows are kept in commit order; a hash is the list of the events it covers, which
makes it injective. A transaction of `PolicyRollout` buffers its writes until
`Commit`; the workspace's advisory lock (`lockWorkspace`, and `appendAudit` when it
is not yet held) and the policy's row lock are held to the end, and `Abort` may
happen at any statement. `SimulateRead` and `SimulateCache` straddle the
computation of an impact, and `Unedited` is the guard that drops a stale one.
`Promote` re-scans for conflicts under the lock. An impact is represented by the
definition it was computed from; the separation-of-duties verdict is a free choice.
Canonical JSON, timestamps and the rows of the older hash version are not told
apart.

### JobQueue

A row is its status and attempts; `run_after` is kept relative to the clock
(`wait`), which makes time unbounded in a finite model. `Claim` takes a batch of
the longest due rows of the types the worker handles; a concurrent claim may make
it smaller (`SKIP LOCKED`). `Process` lets the processor succeed or fail;
`Complete`, `Fail` and `DeadLetter` write the outcome from the copy of the row
taken at claim time. `Stop` is a crash or a shutdown, whose cancelled context
fails every later query about the batch; `UpdateError` is an outcome that could
not be written and was only logged.

## 3. What TLC checks

| run | instance | shows |
|---|---|---|
| `pam_safety` | 1 lease, 2 tokens, 2 connections, gateway sweep against one API process, one fault | lease state machine refined (`ImplementsLeaseFSM`), `RevokeWins`, `AuditMatchesRows`, `OneSessionPerToken`, `OrphanCauses` |
| `pam_faults` | 1 lease, 1 token, 2 connections, one fault, fairness | `LapsedLeaseSwept`, `RowEndSevers`, `TeardownFinishes` |
| `sessions` | a Postgres session or an SSH session of 2 channels, an administrator in the gateway and one in the API, 3 requests, 2 commands, a gateway crash, fairness | `AuditMatchesRow`, `CommandTrail`, `PauseLeaksAtMostOne`, `GateConverges`, `EndedRowSevers` |
| `credentials` | a database or SSH target, 1 scheduler, 1 lease, 1 rotation by hand or 1 dynamic credential, a workspace that sleeps and wakes, 2 faults, fairness | `LockoutCauses`, `RolesAccounted`, `CheckinSettles`, `RolesReaped` |
| `grants_safety` | 2 requests for one entitlement, 2 callers, 1 enforcer, one fault, fairness | `OneGrantPerRequest`, `GrantMatchesRequest`, `AccessAccounted`, `LapsedGrantEnds` |
| `workflow` | 1 request over either path, 2 approvers, 2 jobs of either kind, 2 attempts, 2 faults | `ChainNeverStalls`, `FourEyes`, `ReleasedIsDriven`, `LeaverComplete` |
| `campaigns` | a campaign of either service over 2 grants, 2 callers whose clients may leave, 2 faults, fairness | `DecidedOnce`, `StampedIsGone`, `OverdueOnce`, `ClosedDecisionsFinal`, `RevocationsLand` |
| `policy` | 2 contradicting policies, 1 anomaly, 2 transactions, 4 audit rows | `VerifierNeverAlarms`, `ConflictsOverridden`, `ImpactFresh`, `AnomalyEvidencedOnce`, `NoLockCycle`, the log refined (`ImplementsLog`) |
| `queue` | 3 jobs of 2 types, 2 workers, batches of 2, 3 attempts, one fault, fairness | `OneHolder`, `AttemptsHonest`, `StuckCauses`, `JobsFinish` |

The properties are explained where they are defined. The more telling ones:

* `OrphanCauses`: an active session on a revoked or swept lease is about to be
  torn down, or was committed by a redemption that had validated the lease before
  it died, or its teardown was cut short by a fault. There is no fourth way.
* `AccessAccounted`: what a user holds at a provider is explained by a live
  grant, by a request that can be retried, or by a provider call that came after
  its request had moved on.
* `AuditMatchesRows`: however many sweepers compete, a lease has one audit event
  for each mark on its row, and none for a mark it does not carry.
* `AttemptsHonest`: the attempts a job row counts are the failed runs of the job.
* `LeaverComplete`: a leaver job that is done has cut the user off in every layer,
  whichever attempt did it, but for what was provisioned after its last look.
* `GateConverges`: hub calls and stale reconciler passes may arrive in any order,
  and the gate still ends where the row is.
* `VerifierNeverAlarms`: the advisory lock alone keeps an untouched chain
  verifiable from every anchor a reader may have stored.
* `RevocationsLand`: a client that leaves cannot keep a closed campaign's revocations
  from landing; it can keep a review's, and the property says so.
* `CheckinSettles`: deferring a rotation does not lose it. It is claimed of a
  workspace that in the end stays awake and within its budget, and of no other.
* `LockoutCauses`: the five ways in which the sealed secret can stop working, and
  by exclusion the failures the rotation survives.

### Disagreements between code and documentation

Three runs state what a comment says and show a behaviour of the code that
violates it; `findings` in `PROJECT.json` quotes the lines.

| run | property | behaviour |
|---|---|---|
| `pam_orphan` | `NoOrphanSession` | a redemption validates the lease, a revocation commits and tears down, the redemption commits: an active session on a revoked lease that nothing will end |
| `grants_double` | `NoDoubleGrant` | two overlapping deliveries of a joiner event create two live grants |
| `queue_restart` | `JobsSurviveRestart` | a job claimed by a worker that stops stays `running`, which no claim selects |

### Observations the models make explicit

These have no run of their own; the properties above are stated so as to admit
them and nothing beyond them.

Sessions.
* A pause lets one command through: a protocol loop that is already past the gate
  forwards what it reads next (`pg_handler.go:402`), and the SSH exec loop never
  asks the gate, although `recorder.go:252-254` says that "nothing further reaches
  the upstream target" and `models/pam.go:176-178` that "no further wire bytes" do.
* `TerminateSession` severs the stream before it updates the row, so the handler's own
  close can win, and a killed session then reads closed, without the name of the
  administrator. A gateway that dies between a redemption's commit and the handler's
  registration leaves a session that reads active until its lease ends.
* The handler and hub entry of a terminated SSH session last until the operator's
  client lets go of the connection.
* The expiry stamp of a lapsed connect token is written in the transaction that
  the returned error rolls back.

Grants, reviews, workflow.
* A revocation and an expiry that both read a grant active leave it expired with
  `revoked_at` set.
* The revoke of a review runs under the context of its HTTP request, without
  `WithoutCancel` and without a deadline of its own (`review_service.go:221`). A client
  that disconnects after the commit leaves a decided revoke on a live grant until
  somebody repeats the decision. The comment above it says that "the caller can
  re-submit the same revoke decision to re-drive it", which a completed review
  refuses (`review_service.go:154`), and completing a review revokes nothing. This is
  what `campaign.go:464-473` guards a close against.
* A review's decision can commit after the review was completed, because the
  review row is read without a lock. `EnforceOverdue` looks again at `overdue_at`
  only, so a campaign closed in between is still stamped overdue, and the number it
  returns counts the campaigns another sweep has stamped first.
* `Engine.Approve` reports an approval without a transition when the request has
  left `requested`. The direct HTTP approval ignores the chain and enqueues nothing.
* The kill switch does not cancel approved requests, so a provision job that comes
  later grants again. A redelivered provision job of an active request ends in an
  error.

Credentials.
* Two overlapping rotations of one target can leave vault and upstream apart
  without any failure (`rotation_engine.go:55-59` says they "can never disagree").
* A client that disconnects, or a shutdown, between change and re-seal fails the
  re-seal and, with the same context, its roll-back. The executor's own undo uses a
  context of its own.
* A failed verification of an SSH key removes the only managed key
  (`rotation_executor.go:509-513`), where the executor's contract leaves the upstream
  on the current one.
* `rotation_scheduler.go:197-198` says `last_rotation_at` advances on every attempt;
  the code stamps successes only, and must: the mutant of `CheckinSettles` is the
  comment's version, and it loses check-ins.
* `CREATE ROLE` followed by a failed `GRANT` marks the row failed, and a role whose
  row is not active is never reaped (`dynamic_db_creds.go:148-150`); a create that
  reaches the database after the reaper also leaves a role behind. `RevokeForLease` is never called. A
  Postgres role carries `VALID UNTIL`, a MySQL user no expiry.
* A lease that ends in the middle of a rotation counts as served by it.
* The check-in rotation of a workspace that fell dormant waits until it wakes,
  however long that is: the secret the last lease saw stays in force. The reaper
  runs for dormant workspaces too.
* Two scheduler loops can keep each other from rotating and reaping for ever, each
  meeting the other in the middle of a rotation.

### Bounds

One lease suffices in `PamAccess` because no operation reads two leases, but
for the sweep's list of due leases, whose members are handled one by one; two
connections and two tokens give the races for a token, between the sessions of
a lease, and between a redemption and a teardown. `MaxTime = 2` with a window of
at most `MaxLeaseTTL = 2` lets a lease be granted, used and lapse, and be approved
late. Two requests and two grants in `AccessGrants` give both two attempts on one
request and two requests for one entitlement. Three jobs and batches of two in
`JobQueue` leave one job behind a full batch; three attempts and a cap below the
second doubling reach the cap of the backoff.

In `SessionControl` one session suffices, for no operation reads two; two SSH
channels compete for a sequence number, three requests give a pause, a resume and
a termination from two processes, and two commands one that passes the gate early
and one it must hold. In `WorkflowEngine` two approvers are what the security lane
needs, two jobs give a provision job against a leaver job or, after a lost enqueue, the same
provision twice, and two attempts with two faults a job that fails, is retried and dead-letters; a second
request would only add entitlements, which the kill switch handles one by one. In
`Campaigns` two callers give a reviewer against another, against a close or against
a completion, two sweeps, and a teardown with whoever takes it up again; two faults
give a re-close that is cut short as well. In `PolicyRollout` a grant and a wildcard deny contradict each
other, two transactions give every pair of operations, and four audit rows hold
two creations and two promotions. In `TargetCredentials` a scheduler and a caller
overlap, and two faults make a roll-back fail that another fault called for. A
behaviour of its instance has a rotation by hand or a dynamic credential, not both
(`MCNext`): either meets the scheduler's rotations, and the two meet only in whether
the sealed secret works. The safety properties are proved without this bound.
Liveness is claimed for one scheduler loop (see the last observation).

`MaxFaults` bounds crashes and failures: liveness is claimed only for finitely
many of them. Symmetry is used for sets whose members the specification treats
alike, in runs without liveness properties (`pam_safety`, `policy`, `workflow`).
`CHECK_DEADLOCK FALSE`: the models may stop, when every token is used
and every request is settled.

### Fairness

`PamAccess`: the sweep and the reconciler run on tickers in every gateway, so
their steps are weakly fair, as are the steps of a teardown that has begun and of
a handler that must register or whose context was cancelled. No operator,
approver, API client or target is obliged to act. `AccessGrants`: the scheduler
runs the enforcer on a ticker and `EnforceExpired` goes on with the next grant
after a failure, so each lapsed grant's expiry and a begun teardown are weakly
fair. `JobQueue`: workers poll, a worker handles the batch it has, and time
passes; nothing makes a processor succeed. `Campaigns`: a request that has begun
takes its next step or its client leaves. The teardown of a close is detached from
the client, and each of its revokes has a deadline, so it goes on or fails; any other
call, a review's revoke among them, has no deadline but the connector's, and a client
that waits for ever is the only one assumed away. Nobody has to decide or to close. `SessionControl`: the
reconciler ticks while the gateway lives, accepted requests and runnable goroutines
run, a read of a closed connection returns; the operator need neither type nor hang
up. `TargetCredentials`: schedulers sweep on a ticker and begun calls come to an end, while
rotations by hand are finitely many; nobody has to mint or to end a lease, and no
workspace has to wake. Logins and `ALTER` statements have a deadline; a command over
SSH and `CREATE` or `DROP ROLE` have none in the scheduler, and one that never returned
would hold its loop for good.
`PolicyRollout` and `WorkflowEngine` are checked for safety only.

## 4. What is proved

TLAPS proves the following for every value of the constants that satisfies the
named assumption of the component's module. Every invariant, action property and
refinement that a passing run checks is stated by a theorem; the runs show them on
a small instance, the theorems for any number of rows, processes and faults.

The assumptions are `NamesAssumption` and `TimeAssumption` (`PamAccess`), `GrantNames`,
`EngineAssumption`, `CampaignAssumption`, `ControlAssumption`, `CredentialAssumption`,
`RolloutAssumption` and `QueueAssumption`. They say that names are distinct, that bounds
are natural numbers, and that the sets of approvers, schedulers and callers the
code ranges over are finite. `RolloutAssumption` says besides that a policy definition names a subject and a resource (validation refuses an empty
one; the overlap of two definitions would not be symmetric otherwise) and that the anomalies a
sweep may find are finite and some, which bounds its batch of events.

| module | theorem | states |
|---|---|---|
| `PamAccessProofs` | `TypeCorrect`, `ReplaySafe`, `EndedOnce`, `OrphansExplained` | `TypeOK`, `OneSessionPerToken`, `OneEndEvent`, `OrphanCauses` |
| | `AuditTrailExact`, `TokensBounded`, `WindowNeverMoves`, `RevokePrevails`, `LeasesFollowFSM` | `AuditMatchesRows`, `TokenWithinLease`, `WindowFixed`, `RevokeWins`, the refinement of `PamLeaseFSM` |
| `SessionControlProofs` | `ControlTypeCorrect`, `AuditTellsRow`, `NothingUnlogged`, `PauseHolds`, `OrphansExplained` | `TypeOK`, `AuditMatchesRow`, `CommandTrail`, `PauseLeaksAtMostOne`, `OrphanRowCauses` |
| `TargetCredentialsProofs` | `LockoutsExplained`, `NoRoleLost` | `LockoutCauses`, `RolesAccounted` |
| `AccessGrantsProofs` | `GrantTypeCorrect`, `GrantedOnce`, `GrantsAndRequestsAgree`, `TerminalForGood`, `NoForgottenAccess` | `TypeOK`, `OneGrantPerRequest`, `GrantMatchesRequest`, `TerminalIsFinal`, `AccessAccounted` |
| `WorkflowEngineProofs` | `EngineTypeCorrect`, `NoStalledChain`, `TwoApprovers`, `NoReleaseForgotten`, `DoneIsCutOff` | `TypeOK`, `ChainNeverStalls`, `FourEyes`, `ReleasedIsDriven`, `LeaverComplete` |
| `CampaignsProofs` | `CampaignTypeCorrect`, `DecisionsFinal`, `StampsTrue`, `ClosedIsFinal`, `OverdueRecordedOnce` | `TypeOK`, `DecidedOnce`, `StampedIsGone`, `ClosedDecisionsFinal`, `OverdueOnce` |
| `PolicyRolloutProofs` | `RolloutTypeCorrect`, `CachedImpactTrue`, `NoDeadlock`, `LiveConflictsOverridden` | `TypeOK`, `ImpactFresh`, `NoLockCycle`, `ConflictsOverridden` |
| | `ChainAlwaysVerifies`, `EvidencedOnce`, `ChainImplementsLog` | `VerifierNeverAlarms`, `AnomalyEvidencedOnce`, the refinement of `AuditLog` |
| `JobQueueProofs` | `LeasedOnce`, `AttemptsCounted`, `StuckExplained`, `FinalForGood` | `OneHolder`, `AttemptsHonest`, `StuckCauses`, `FinalStays` |
| | `QueueTypeCorrect`, `BackoffIsGeometric` | `TypeOK`; the delay before the n-th retry is `BaseBackoff * 2^(n-1)`, capped |

The argument, per module. In each the properties are not inductive as they
stand, because they speak of rows and the danger is in what a process carries
from one step to the next; the strengthening says what a process at each pc knows.

* `PamAccessProofs`. Replay safety needs to know that a handler that has validated
  a token has no session yet and that a session's token is consumed; the orphan
  theorem needs to know what each pc of a worker says of its lease and victims.
  The inductive invariant is the conjunction of the type invariant, these facts
  and the properties themselves. For the lease rows (`LeaseInv`): the stamps of a row
  come in the order of the state machine and each is set by one guarded action;
  the refinement maps a row and the clock to its derived status and shows every
  step to be a move along `Edges` or a stutter.
* `SessionControlProofs`. `ControlInv`: the sequence number a loop has read is taken or
  the next one, and what it is about to forward is on record (`Numbered`); a loop
  that has leaked its command is behind the gate (`Leaks`), so a second leak needs
  the gate to open; the handler leaves the hub only after the row has ended
  (`Ends`). The retry on a duplicate number is what keeps the log without gaps.
* `TargetCredentialsProofs`. `RotationInv`: unless a named cause has struck, at most one
  rotation has altered the upstream and not settled yet, the upstream then has its
  new secret and the vault its old one, and with none there the two agree.
  `RoleInv`: a role does not exist before the call that creates it, and a reaper
  about to close a row has dropped its role, unless the role is a known stray.
* `AccessGrantsProofs`. The crucial fact is that the insert of a grant is gated by
  the transition to `provisioned`, which only one attempt can make. `GrantInv` adds
  what a goroutine holds at each pc (`HoldsRequest`, `HoldsGrant`), that a grant
  names its request (`GrantBound`), that a stamped grant has ended, and that a
  request which was never provisioned has no grant.
* `WorkflowEngineProofs`. `ChainInv`: a transaction that has locked a request is the only
  one on it (`OneHolder`), the request has not moved since (`Undisturbed`), and what
  the chain said when it was derived is what the commit finds (`Derived`). Counting
  approvers needs cardinalities of finite sets, hence the finiteness in
  `EngineAssumption`. `QueueInv`: the layers behind the pc of a kill-switch run that met
  no error took effect (`Layers`), a live grant has an active request
  (`LiveActive`), and the job of a released request stays until the request is
  settled.
* `CampaignsProofs`. `CampaignInv`: whoever is deciding on a certification item holds the
  campaign row for share (`Deciding`, `Sharing`), a closed one is shared with nobody
  (`ClosedUnshared`), and a teardown revokes what was decided so and stamps only
  what it has revoked (`Revoking`, `Stamping`).
* `PolicyRolloutProofs`. `RolloutInv` says of each transaction which steps its operation
  goes through (`Course`), which locks it holds at each (`AdvisoryHeld`, `RowHeld`),
  how its buffered row follows from the committed one (`Buffered`), and which events
  it has recorded and has still to record (`RowPlan`, `AppendPlan`, `SweepPlan`); and
  that the chain, prolonged by the rows of the holder of the advisory lock, is
  linked (`Linking`). While one transaction holds that lock nobody else commits
  anything but the cached impact of a simulation: this is why head, conflicts and
  known anomalies are still what the holder read. Both verifications then follow
  from `Linked`, and so does the refinement, since the events of a commit are the
  suffix it adds. There is no cycle of waits because whoever somebody waits for
  has the advisory lock or is about to commit: a row that is being created, whose
  transaction still has to ask for the lock, is visible to nobody else. `RecordInv`
  counts promotions and evidence on the chain.
* `JobQueueProofs`. `QueueInv` adds that the copy of a row taken at claim time is
  still accurate while the job is held (`Copies`), which is what makes the
  unconditional update safe. What the doubling loop of `Worker.backoff` computes for
  every number of attempts is an induction, made from the least element of a set
  of naturals (`WFMin` of the library): a recursive function exists
  (`DoubledExists`), satisfies its equation, and equals the capped geometric sequence.

The inductive invariants were model-checked on the instances of section 3 before
they were proved. The type invariants, `OneEndEvent`, `WindowFixed`, `TokenWithinLease`, `OrphanRowCauses`,
`TerminalIsFinal` and `FinalStays` are proved and no longer listed in a run: what the proof shows for every instance TLC
need not show for a small one.

Only model-checked: the liveness properties (`RowEndSevers`, `LapsedLeaseSwept`,
`TeardownFinishes`, `LapsedGrantEnds`, `RevocationsLand`, `JobsFinish`, `GateConverges`,
`EndedRowSevers`, `CheckinSettles`, `RolesReaped`), since the prover has no rules for fairness. The
violation runs are behaviours, not theorems.

## 5. Plan

Done: the models of the PAM core, session takeover, credential rotation, the grant
lifecycle, the workflow engine and kill switch, recertification, policy rollout
with the audit chain, and the queue; theorems for every safety property a run
checks.

Left, in this order:

1. The safety half of liveness: for the properties that rest on one process
   carrying on, the invariant that the step which ends the wait stays possible
   until it is taken. The fairness argument itself stays with TLC.
2. Action properties of rows that only the models' comments state so far, such
   as that the state of an access request moves along the edges of the request
   state machine, and a policy from draft to active to archived.

## 6. Not modelled

The modelled services are where processes, threads and failures meet over shared
state. They are a small part of the repository by lines: some two hundred
connectors, ten wire protocols, the HTTP handlers and configuration, the web front
end and the SDK make up most of it.

* Connectors, wire protocols, replay storage, the web-access bridge, UI, SDK,
  manifests: I/O, or no shared state. `AccessGrants`, `WorkflowEngine` and
  `TargetCredentials` model what their callers assume of them, lost answers included.
* HTTP decoding, middleware, authorization and policy evaluation: stateless. MFA:
  cryptography, and one conditional statement as replay guard. The AI agent is
  advisory and fails open.
* Broker and tunnels: liveness comes from persisted heartbeats and a clock, tunnels
  live in a relay's memory; a stale answer costs a failed dial.
* Usage metering and rate limits: counters and filters in front of the modelled
  operations on which no access decision rests. Of tenancy, how activity and running
  jobs are counted; that a workspace sleeps or is at its budget is in
  `TargetCredentials`, whose sweeps are the only modelled ones the gate holds back.
* Contractor grants: an aggregate of the shape of `AccessGrants`, with its own sweep.
  The orphan sweep, discovery and reports read tables others write.
* Workflow builder: an interpreter that calls the modelled services one after the
  other.
* Of the modelled parts: editing of rotation policies (saving an overdue policy
  postpones its rotation), the recorded bytes and evidence of a session, review and
  workflow-run jobs, workspaces.

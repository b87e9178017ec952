-------------------------- MODULE TargetCredentials --------------------------
(***************************************************************************)
(* The credentials of one PAM target: the sealed secret in the vault, the  *)
(* credential its upstream accepts, the rotations that change both (by     *)
(* hand, on an interval, after a lease ended), and the ephemeral database  *)
(* roles that are minted for a lease and reaped after it.                  *)
(*                                                                         *)
(* Granularity.  Vault and upstream share no transaction, and nothing      *)
(* keeps two rotations of a target apart, so each statement sent to either *)
(* is an action.  A connection, once made, outlives a change of the        *)
(* password it was made with.  Secrets are opaque: a rotation takes one    *)
(* that nobody refers to.  The policy rotates on an interval and on        *)
(* check-in and mints dynamic credentials; its editing is left out.        *)
(***************************************************************************)
EXTENDS Naturals, FiniteSets, FiniteSetsExt

CONSTANTS
    Schedulers, \* RotationScheduler loops, one per workflow engine
    Callers,    \* API requests to rotate now
    Leases,     \* leases on the target
    Creds,      \* dynamic credentials that may be minted
    MaxManual,  \* bound: rotations by hand
    MaxFaults   \* bound: failed calls, lost acknowledgements, deaths

ASSUME CredentialAssumption ==
    /\ IsFiniteSet(Schedulers) /\ IsFiniteSet(Callers)
    /\ MaxManual \in Nat /\ MaxFaults \in Nat

VARIABLES
    protocol, \* "db" (PostgreSQL, MySQL) or "ssh"
    vault,    \* the secret sealed in pam_targets
    up,       \* the credential this product keeps upstream; an SSH target may have none
    rot,      \* each rotation: where RotateTarget is, and its two secrets
    ended,    \* leases that have ended
    since,    \* of these, the ones that ended after last_rotation_at
    admitted, \* the workspace is awake and below its budget of concurrent jobs
    sweep,    \* each scheduler loop: its phase and the reaper's work
    row,      \* pam_dynamic_credentials.state
    bound,    \* the lease a dynamic credential is bound to
    mint,     \* where each MintForLease call is
    role,     \* the ephemeral roles that exist upstream
    blame,    \* history: something may have set vault and upstream apart
    stale,    \* history: leases that ended, with no rotation under way, since
              \* the sealed secret was generated
    stray,    \* history: roles created by a call that failed or came late
    count     \* rotations by hand and faults so far

target == <<protocol, vault, up>>
policy == <<ended, since, stale, admitted>>
dynamic == <<row, bound, mint, role, stray>>
vars == <<target, rot, policy, sweep, dynamic, blame, count>>

Rotators == Schedulers \cup Callers

Onboarded == 0 \* the secret the target was onboarded with
Secrets == Onboarded..(2 * Cardinality(Rotators) + 2)

Idle == [pc |-> "idle", cur |-> Onboarded, new |-> Onboarded]
NoSweep == [phase |-> "interval", due |-> {}, cred |-> {}]

Init ==
    /\ protocol \in {"db", "ssh"}
    /\ vault = Onboarded
    /\ up = IF protocol = "db" THEN {Onboarded} ELSE {}
    /\ rot = [r \in Rotators |-> Idle]
    /\ ended = {}
    /\ since = {}
    /\ stale = {}
    /\ admitted = TRUE
    /\ sweep = [s \in Schedulers |-> NoSweep]
    /\ row = [c \in Creds |-> "none"]
    /\ bound \in [Creds -> Leases]
    /\ mint = [c \in Creds |-> "idle"]
    /\ role = {}
    /\ blame = FALSE
    /\ stray = {}
    /\ count = [manual |-> 0, faults |-> 0]

(* An SSH target keeps accepting the password or key it was onboarded      *)
(* with: the executor replaces only the authorized_keys line it manages.   *)
Accepts(secret) ==
    \/ secret \in up
    \/ protocol = "ssh" /\ secret = Onboarded

(* The pcs at which the upstream may be ahead of the vault.                *)
Exposed == {"verify", "undo", "seal", "restore"}

Fault == count.faults < MaxFaults /\ count' = [count EXCEPT !.faults = @ + 1]

-----------------------------------------------------------------------------
(* A lease is revoked, or expires and is swept (PamAccess).                *)
LeaseEnds(l) ==
    /\ l \notin ended
    /\ ended' = ended \cup {l}
    /\ since' = since \cup {l}
    /\ stale' = IF \E r \in Rotators : rot[r].pc \in Exposed \cup {"done"} THEN stale ELSE stale \cup {l}
    /\ UNCHANGED <<target, rot, admitted, sweep, dynamic, blame, count>>

(* The workspace is classified as dormant, or its other jobs exhaust its   *)
(* budget; it wakes, or the jobs end.  Nothing obliges it to either.       *)
TenantDeferred ==
    /\ admitted
    /\ admitted' = FALSE
    /\ UNCHANGED <<target, rot, ended, since, stale, sweep, dynamic, blame, count>>

TenantAdmitted ==
    /\ ~admitted
    /\ admitted' = TRUE
    /\ UNCHANGED <<target, rot, ended, since, stale, sweep, dynamic, blame, count>>

-----------------------------------------------------------------------------
(* RotateTarget, from its triggers to its recorded outcome.                *)

Outcomes == {"done", "failed"}

(* The two secrets are kept while the rotation may still use them.         *)
Step(r, pc) ==
    rot' = [rot EXCEPT ![r] = IF pc \in Outcomes THEN [Idle EXCEPT !.pc = pc] ELSE [@ EXCEPT !.pc = pc]]

RotateNow(r) ==
    /\ rot[r].pc = "idle"
    /\ count.manual < MaxManual
    /\ Step(r, "open")
    /\ count' = [count EXCEPT !.manual = @ + 1]
    /\ UNCHANGED <<target, policy, sweep, dynamic, blame>>

(* sweepInterval, then sweepCheckin: the due policy is selected and its    *)
(* target rotated before the sweep goes on to the next phase.  Any time    *)
(* passes between two sweeps, so next_rotation_at may or may not be past.  *)
Due(phase) == IF phase = "interval" THEN BOOLEAN ELSE {since # {}}

(* PeriodicRunner.Sweep passes over a dormant workspace and one at its     *)
(* budget; a gate or a budget that cannot be read does not hold it back.   *)
Runs == IF admitted THEN {TRUE} ELSE BOOLEAN

(* A target that is passed over stays due.                                 *)
SweepPolicies(s) ==
    /\ sweep[s].phase \in {"interval", "checkin"}
    /\ rot[s].pc = "idle"
    /\ \E due \in Due(sweep[s].phase), runs \in Runs :
         IF due /\ runs THEN Step(s, "open") ELSE UNCHANGED rot
    /\ sweep' = [sweep EXCEPT ![s].phase = IF @ = "interval" THEN "checkin" ELSE "reap"]
    /\ UNCHANGED <<target, policy, dynamic, blame, count>>

OpenSecret(r) ==
    /\ rot[r].pc = "open"
    /\ rot' = [rot EXCEPT ![r] = [pc |-> "connect", cur |-> vault, new |-> rot[r].new]]
    /\ UNCHANGED <<target, policy, sweep, dynamic, blame, count>>

(* The executor authenticates with the secret just opened.                 *)
Connect(r) ==
    /\ rot[r].pc = "connect"
    /\ Step(r, IF Accepts(rot[r].cur) THEN "alter" ELSE "failed")
    /\ UNCHANGED <<target, policy, sweep, dynamic, blame, count>>

ConnectError(r) ==
    /\ rot[r].pc = "connect"
    /\ Fault
    /\ Step(r, "failed")
    /\ UNCHANGED <<target, policy, sweep, dynamic, blame>>

InUse == {vault} \cup up \cup {rot[r].cur : r \in Rotators} \cup {rot[r].new : r \in Rotators}

(* generatePassword, ed25519.GenerateKey.                                  *)
Generated == Min({s \in Secrets \ {Onboarded} : s \notin InUse})

Overlaps(r) ==
    \/ rot[r].cur # vault
    \/ \E q \in Rotators \ {r} : rot[q].pc \in Exposed

(* ALTER ROLE, ALTER USER, installAuthorizedKey.                           *)
Alter(r) ==
    /\ rot[r].pc = "alter"
    /\ up' = {Generated}
    /\ rot' = [rot EXCEPT ![r] = [pc |-> "verify", cur |-> rot[r].cur, new |-> Generated]]
    /\ blame' = (blame \/ Overlaps(r))
    /\ UNCHANGED <<protocol, vault, policy, sweep, dynamic, count>>

(* The statement fails, or only its acknowledgement does.                  *)
AlterError(r) ==
    /\ rot[r].pc = "alter"
    /\ Fault
    /\ Step(r, "failed")
    /\ \/ UNCHANGED <<up, blame>>
       \/ up' = {Generated} /\ blame' = TRUE
    /\ UNCHANGED <<protocol, vault, policy, sweep, dynamic>>

(* A fresh login with the new credential.                                  *)
Verify(r) ==
    /\ rot[r].pc = "verify"
    /\ Step(r, IF Accepts(rot[r].new) THEN "seal" ELSE "undo")
    /\ UNCHANGED <<target, policy, sweep, dynamic, blame, count>>

VerifyError(r) ==
    /\ rot[r].pc = "verify"
    /\ Fault
    /\ Step(r, "undo")
    /\ UNCHANGED <<target, policy, sweep, dynamic, blame>>

(* The executor's own roll-back, over the connection it still has: a       *)
(* database gets the old password back, an SSH target loses the managed    *)
(* line, which had taken the place of the old one.                         *)
Undo(r) ==
    /\ rot[r].pc = "undo"
    /\ up' = IF protocol = "db" THEN {rot[r].cur} ELSE {}
    /\ blame' = (blame \/ (protocol = "ssh" /\ rot[r].cur # Onboarded))
    /\ Step(r, "failed")
    /\ UNCHANGED <<protocol, vault, policy, sweep, dynamic, count>>

UndoError(r) ==
    /\ rot[r].pc = "undo"
    /\ Fault
    /\ blame' = TRUE
    /\ Step(r, "failed")
    /\ UNCHANGED <<target, policy, sweep, dynamic>>

(* Vault.RotateSecret: envelope and audit event in one transaction.        *)
Seal(r) ==
    /\ rot[r].pc = "seal"
    /\ vault' = rot[r].new
    /\ stale' = {}
    /\ Step(r, "done")
    /\ UNCHANGED <<protocol, up, ended, since, admitted, sweep, dynamic, blame, count>>

(* The transaction fails, or only the acknowledgement of its commit does.  *)
SealError(r) ==
    /\ rot[r].pc = "seal"
    /\ Fault
    /\ Step(r, "restore")
    /\ \/ UNCHANGED <<vault, stale, blame>>
       \/ vault' = rot[r].new /\ stale' = {} /\ blame' = TRUE
    /\ UNCHANGED <<protocol, up, ended, since, admitted, sweep, dynamic>>

(* Mutant: the two secrets handed to Restore are swapped.                  *)
MutRestored(r) == {rot[r].new}

(* What Restore installs: the old secret, and for an SSH target without an *)
(* old key nothing.                                                        *)
Restored(r) == IF protocol = "ssh" /\ rot[r].cur = Onboarded THEN {} ELSE {rot[r].cur}

Restore(r) ==
    /\ rot[r].pc = "restore"
    /\ up' = IF Accepts(rot[r].new) THEN Restored(r) ELSE up
    /\ Step(r, "failed")
    /\ UNCHANGED <<protocol, vault, policy, sweep, dynamic, blame, count>>

RestoreError(r) ==
    /\ rot[r].pc = "restore"
    /\ Fault
    /\ blame' = TRUE
    /\ Step(r, "failed")
    /\ UNCHANGED <<target, policy, sweep, dynamic>>

(* Mutant: last_rotation_at is stamped whatever became of the attempt.     *)
MutUnrotated(r) == {}

(* A success stamps last_rotation_at with the present; a failure does not. *)
Unrotated(r) == IF rot[r].pc = "done" THEN {} ELSE since

(* writeOutcome: the event and the policy's health and schedule.           *)
WriteOutcome(r) ==
    /\ rot[r].pc \in Outcomes
    /\ since' = Unrotated(r)
    /\ rot' = [rot EXCEPT ![r] = Idle]
    /\ UNCHANGED <<target, ended, stale, admitted, sweep, dynamic, blame, count>>

OutcomeError(r) ==
    /\ rot[r].pc \in Outcomes
    /\ Fault
    /\ rot' = [rot EXCEPT ![r] = Idle]
    /\ UNCHANGED <<target, policy, sweep, dynamic, blame>>

(* The process dies, or the context of the request is cancelled: every     *)
(* later call fails, Restore and writeOutcome among them.                  *)
Stop(r) ==
    /\ rot[r].pc # "idle" \/ (r \in Schedulers /\ sweep[r] # NoSweep)
    /\ Fault
    /\ blame' = (blame \/ rot[r].pc \in Exposed)
    /\ rot' = [rot EXCEPT ![r] = Idle]
    /\ sweep' = IF r \in Schedulers THEN [sweep EXCEPT ![r] = NoSweep] ELSE sweep
    /\ UNCHANGED <<target, policy, dynamic>>

-----------------------------------------------------------------------------
(* MintForLease, one call per dynamic credential.                          *)

(* ValidateActiveLease and the policy.                                     *)
MintBegin(c) ==
    /\ protocol = "db"
    /\ mint[c] = "idle"
    /\ bound[c] \notin ended
    /\ mint' = [mint EXCEPT ![c] = "insert"]
    /\ UNCHANGED <<target, rot, policy, sweep, row, bound, role, stray, blame, count>>

(* The row is written as active before the role exists.                    *)
MintInsert(c) ==
    /\ mint[c] = "insert"
    /\ row' = [row EXCEPT ![c] = "active"]
    /\ mint' = [mint EXCEPT ![c] = "create"]
    /\ UNCHANGED <<target, rot, policy, sweep, bound, role, stray, blame, count>>

(* The reaper is done with the row, or about to mark it.                   *)
Reaped(c) ==
    \/ row[c] # "active"
    \/ \E s \in Schedulers : sweep[s].phase = "mark" /\ sweep[s].cred = {c}

(* The target's admin secret, CREATE ROLE and GRANT.  (A rotation between  *)
(* the secret and the connection would make it fail, like MintError.)      *)
MintCreate(c) ==
    /\ mint[c] = "create"
    /\ IF Accepts(vault)
       THEN /\ role' = role \cup {c}
            /\ stray' = IF Reaped(c) THEN stray \cup {c} ELSE stray
            /\ mint' = [mint EXCEPT ![c] = "done"]
       ELSE /\ mint' = [mint EXCEPT ![c] = "mark"]
            /\ UNCHANGED <<role, stray>>
    /\ UNCHANGED <<target, rot, policy, sweep, row, bound, blame, count>>

(* Create fails before it did anything, or after the role was created, as  *)
(* when its GRANT is refused.                                              *)
MintError(c) ==
    /\ mint[c] = "create"
    /\ Fault
    /\ mint' = [mint EXCEPT ![c] = "mark"]
    /\ \/ UNCHANGED <<role, stray>>
       \/ /\ Accepts(vault)
          /\ role' = role \cup {c}
          /\ stray' = stray \cup {c}
    /\ UNCHANGED <<target, rot, policy, sweep, row, bound, blame>>

MarkFailed(c) ==
    /\ mint[c] = "mark"
    /\ row' = [row EXCEPT ![c] = "failed"]
    /\ mint' = [mint EXCEPT ![c] = "done"]
    /\ UNCHANGED <<target, rot, policy, sweep, bound, role, stray, blame, count>>

(* The API process dies or the request is cancelled; the statement on its  *)
(* way may still reach the database.                                       *)
MintStop(c) ==
    /\ mint[c] \in {"insert", "create", "mark"}
    /\ Fault
    /\ mint' = [mint EXCEPT ![c] = "done"]
    /\ \/ UNCHANGED <<role, stray>>
       \/ /\ mint[c] = "create" /\ Accepts(vault)
          /\ role' = role \cup {c}
          /\ stray' = IF Reaped(c) THEN stray \cup {c} ELSE stray
    /\ UNCHANGED <<target, rot, policy, sweep, row, bound, blame>>

-----------------------------------------------------------------------------
(* ReapDue, the last phase of a sweep, which no gate holds back.  The TTL  *)
(* of any credential may have lapsed when it looks.                        *)

(* Mutant: the reaper passes over a dormant workspace, like the rotations. *)
MutReapable(c, lapsed) == admitted /\ row[c] = "active" /\ (c \in lapsed \/ bound[c] \in ended)

Reapable(c, lapsed) == row[c] = "active" /\ (c \in lapsed \/ bound[c] \in ended)

ReapScan(s) ==
    /\ sweep[s].phase = "reap"
    /\ rot[s].pc = "idle"
    /\ \E lapsed \in SUBSET Creds :
         sweep' = [sweep EXCEPT ![s].phase = "drop",
                                ![s].due = {c \in Creds : Reapable(c, lapsed)}]
    /\ UNCHANGED <<target, rot, policy, dynamic, blame, count>>

(* Mutant: the row is marked whether or not the role could be dropped.     *)
MutDropped == TRUE

(* A failed drop leaves the row alone: the next sweep finds it again.      *)
Dropped == Accepts(vault)

(* dropOne: the target's admin secret and DROP ROLE IF EXISTS.  (A         *)
(* rotation between the two would make the drop fail, like DropError.)     *)
DropRole(s) ==
    /\ sweep[s].phase = "drop"
    /\ \E c \in sweep[s].due :
         /\ role' = IF Accepts(vault) THEN role \ {c} ELSE role
         /\ sweep' = [sweep EXCEPT ![s] = IF Dropped THEN [phase |-> "mark", due |-> @.due \ {c}, cred |-> {c}]
                                                     ELSE [sweep[s] EXCEPT !.due = sweep[s].due \ {c}]]
    /\ UNCHANGED <<target, rot, policy, row, bound, mint, stray, blame, count>>

(* The row of a dropped role.                                              *)
MarkDropped(s) ==
    /\ sweep[s].phase = "mark"
    /\ row' = [c \in Creds |-> IF c \in sweep[s].cred THEN "dropped" ELSE row[c]]
    /\ sweep' = [sweep EXCEPT ![s] = [@ EXCEPT !.phase = "drop", !.cred = {}]]
    /\ UNCHANGED <<target, rot, policy, bound, mint, role, stray, blame, count>>

(* Either call fails; the sweep goes on with the next credential.          *)
DropError(s) ==
    /\ Fault
    /\ \/ /\ sweep[s].phase = "drop"
          /\ \E c \in sweep[s].due : sweep' = [sweep EXCEPT ![s].due = @ \ {c}]
       \/ /\ sweep[s].phase = "mark"
          /\ sweep' = [sweep EXCEPT ![s] = [@ EXCEPT !.phase = "drop", !.cred = {}]]
    /\ UNCHANGED <<target, rot, policy, dynamic, blame>>

ReapDone(s) ==
    /\ sweep[s].phase = "drop"
    /\ sweep[s].due = {}
    /\ sweep' = [sweep EXCEPT ![s] = NoSweep]
    /\ UNCHANGED <<target, rot, policy, dynamic, blame, count>>

-----------------------------------------------------------------------------
Rotate(r) ==
    \/ OpenSecret(r) \/ Connect(r) \/ Alter(r) \/ Verify(r) \/ Undo(r)
    \/ Seal(r) \/ Restore(r) \/ WriteOutcome(r)

RotateFault(r) ==
    \/ ConnectError(r) \/ AlterError(r) \/ VerifyError(r) \/ UndoError(r)
    \/ SealError(r) \/ RestoreError(r) \/ OutcomeError(r) \/ Stop(r)

Sweep(s) == SweepPolicies(s) \/ ReapScan(s) \/ DropRole(s) \/ MarkDropped(s) \/ ReapDone(s)

MintForLease(c) == MintInsert(c) \/ MintCreate(c) \/ MarkFailed(c)

Next ==
    \/ \E l \in Leases : LeaseEnds(l)
    \/ TenantDeferred \/ TenantAdmitted
    \/ \E r \in Callers : RotateNow(r)
    \/ \E r \in Rotators : Rotate(r) \/ RotateFault(r)
    \/ \E s \in Schedulers : Sweep(s) \/ DropError(s)
    \/ \E c \in Creds : MintBegin(c) \/ MintForLease(c) \/ MintError(c) \/ MintStop(c)

Spec == Init /\ [][Next]_vars

(* Schedulers sweep on a ticker, and a call that was begun comes to an     *)
(* end.  (Logins and ALTER statements have a deadline.  An SSH command and *)
(* CREATE or DROP ROLE have none: it is assumed that they return.)  Nobody *)
(* has to rotate by hand, to mint, or to end a lease, and no workspace has *)
(* to wake.                                                                *)
Fairness ==
    /\ \A r \in Rotators : WF_vars(Rotate(r))
    /\ \A s \in Schedulers : WF_vars(Sweep(s))
    /\ \A c \in Creds : WF_vars(MintForLease(c))

FairSpec == Spec /\ Fairness

-----------------------------------------------------------------------------
(* No rotation is on its way between its change of the upstream and its    *)
(* re-seal, or about to start one over a connection it has.                *)
Quiet == \A r \in Rotators : rot[r].pc \notin Exposed \cup {"alter"}

LockedOut == Quiet /\ ~Accepts(vault)

(* RotateTarget: with no rotation under way, the upstream accepts the      *)
(* sealed secret, unless two rotations overlapped, a change or a commit    *)
(* went unacknowledged, the roll-back itself failed, the rotation was cut  *)
(* short between change and re-seal, or a failed verification removed the  *)
(* only managed key of an SSH target.  A failed verification of a database *)
(* password, a failed re-seal, an unreachable target and a lost outcome    *)
(* are all survived.                                                       *)
LockoutCauses == LockedOut => blame

(* MintForLease and ReapDue: an ephemeral role that exists upstream has an *)
(* active row, by which the reaper will find it, unless its creation       *)
(* reported an error or was overtaken by the reaper.  A failed drop, a     *)
(* dying minter or a rotation of the admin secret loses no role.           *)
RolesAccounted == \A c \in role : row[c] = "active" \/ c \in stray

(* The check-in sweep: in a workspace that from some time on stays awake   *)
(* and within its budget, a lease that ended is followed by a re-sealed    *)
(* secret that was generated after its end, however often the sweep was    *)
(* deferred and the first attempts failed, unless the vault is locked out  *)
(* of the target or the lease ended in the middle of a rotation.  This and *)
(* the next property are claimed for one scheduler loop: of two, each may  *)
(* meet the other in the middle of a rotation, and fail, every time.       *)
CheckinSettles ==
    <>[]admitted => \A l \in Leases : l \in ended ~> LockedOut \/ l \notin stale

(* The reaper: a lease that ended leaves no dynamic credential on the      *)
(* books, whether or not its workspace is awake, however the first drops   *)
(* fail, unless the vault is locked out of the target.                     *)
RolesReaped ==
    \A l \in Leases :
        l \in ended ~> LockedOut \/ \A c \in Creds : bound[c] = l => row[c] # "active"
=============================================================================

------------------------------ MODULE PamAccess ------------------------------
(***************************************************************************)
(* Just-in-time privileged access: the PAM lease rows, the one-shot        *)
(* connect tokens minted against them, the session rows a redemption       *)
(* opens, the gateway connections that proxy those sessions, and the       *)
(* workers that tear sessions down when their lease dies.                  *)
(*                                                                         *)
(* Granularity.  A database transaction that locks the row it decides on   *)
(* (approve, revoke, mint, every conditional UPDATE) is one action.        *)
(* Redemption is two: Postgres runs at READ COMMITTED and ValidateLeaseTx  *)
(* takes no lock, so other transactions commit between its read of the     *)
(* lease (RedeemValidate) and the commit of the session (RedeemCommit).    *)
(* The expiry sweep's scan, each claim, and each step of a teardown are    *)
(* separate actions too: no transaction spans them.                        *)
(*                                                                         *)
(* A connection redeems at most one token, so the session row it opens is  *)
(* named by the connection.  Workspace, subject and target are fixed: a    *)
(* lease, its tokens and its sessions agree on all three.                  *)
(***************************************************************************)
EXTENDS Naturals, FiniteSets

CONSTANTS
    Leases,      \* pam_leases rows that may be requested
    NoLease,     \* lease_id of a legacy token minted without a lease
    Tokens,      \* pam_connect_tokens rows that may be minted
    NoToken,     \* a connection that has presented no token yet
    Conns,       \* operator connections; each names the session it may open
    Gateways,    \* pam-gateway processes: proxies, reconciler, sweeper
    Apis,        \* ztna-api processes handling revoke / expire requests
    GatewayOf,   \* the gateway process that accepted each connection
    Durations,   \* lease durations a caller may ask for; 0 is "unset"
    TargetTTL,   \* target.LeaseTTLSeconds; 0 is "unset"
    DefaultTTL,  \* defaultRequestTTL
    DefaultTokenTTL, \* the broker's defaultTTL
    MaxLeaseTTL, \* maxLeaseTTL
    RequireMFA,  \* target.RequireMFA
    MaxTime,     \* bound: the clock stops here
    MaxFaults    \* bound: crashes and failed teardown queries

ASSUME NamesAssumption ==
    /\ NoLease \notin Leases
    /\ NoToken \notin Tokens
    /\ Gateways \cap Apis = {}
    /\ GatewayOf \in [Conns -> Gateways]

ASSUME TimeAssumption ==
    /\ Durations \subseteq Nat
    /\ TargetTTL \in Nat
    /\ DefaultTTL \in Nat \ {0}
    /\ DefaultTokenTTL \in Nat \ {0}
    /\ MaxLeaseTTL \in Nat \ {0}
    /\ RequireMFA \in BOOLEAN
    /\ MaxTime \in Nat
    /\ MaxFaults \in Nat

VARIABLES
    clock,      \* the database and process clocks, taken to agree
    lease,      \* the lease rows
    leaseAudit, \* per lease, how many audit events of each kind were appended
    token,      \* the connect-token rows
    session,    \* the session rows
    endEvents,  \* per session, how many close/terminate audit events
    conn,       \* the connection handlers of the gateways
    cancelled,  \* connections whose session context has been cancelled
    worker,     \* the sweep of each gateway, the revoke/expire calls of each API
    late,       \* history: sessions committed after their lease had died
    abandoned,  \* history: sessions a fault kept their lease's teardown from ending
    faults

leaseVars == <<lease, leaseAudit>>
sessionVars == <<session, endEvents>>
connVars == <<conn, cancelled>>
history == <<late, abandoned>>

vars == <<clock, leaseVars, token, sessionVars, connVars, worker, history, faults>>

Workers == Gateways \cup Apis

LeaseEvents == {"requested", "approved", "revoked", "expired"}

-----------------------------------------------------------------------------
(* The rows.  A lease row is the set of its timestamps that are not null,  *)
(* its requested TTL and the value of expires_at, which is written with    *)
(* granted_at.                                                             *)

Stamps == {"created", "granted", "activated", "expired", "revoked"}

Created(row)   == "created" \in row.stamps
Granted(row)   == "granted" \in row.stamps
Activated(row) == "activated" \in row.stamps
Swept(row)     == "expired" \in row.stamps
Revoked(row)   == "revoked" \in row.stamps

NoRow == [stamps |-> {}, ttl |-> 0, expires |-> 0]

(* A connection handler that has returned.                                 *)
Returned == [pc |-> "done", tok |-> NoToken]

IdleWorker == [pc |-> "idle", due |-> {}, lease |-> NoLease,
               victims |-> {}, cur |-> {}]

Init ==
    /\ clock = 0
    /\ lease = [l \in Leases |-> NoRow]
    /\ leaseAudit = [l \in Leases |-> [e \in LeaseEvents |-> 0]]
    /\ token = [t \in Tokens |-> [state |-> "none", lease |-> NoLease, exp |-> 0]]
    /\ session = [c \in Conns |-> [state |-> "none", lease |-> NoLease, tok |-> NoToken]]
    /\ endEvents = [c \in Conns |-> 0]
    /\ conn = [c \in Conns |-> [pc |-> "idle", tok |-> NoToken]]
    /\ cancelled = {}
    /\ worker = [w \in Workers |-> IdleWorker]
    /\ late = {}
    /\ abandoned = {}
    /\ faults = 0

-----------------------------------------------------------------------------
(* PAMLease.Status, IsLive and IsTerminal.                                 *)

Lapsed(row, now) == row.expires <= now

Status(row, now) ==
    IF ~Created(row)         THEN "absent"
    ELSE IF Revoked(row)     THEN "revoked"
    ELSE IF ~Granted(row)    THEN "requested"
    ELSE IF Lapsed(row, now) THEN "expired"
    ELSE IF Activated(row)   THEN "active"
    ELSE                          "approved"

IsLive(row, now) == Granted(row) /\ ~Revoked(row) /\ ~Lapsed(row, now)

IsTerminal(row, now) == Status(row, now) \in {"revoked", "expired"}

(* Appends one event to the lease's audit trail.                           *)
Audited(l, e) == [leaseAudit EXCEPT ![l][e] = @ + 1]

Least(a, b) == IF a < b THEN a ELSE b

FirstSet(a, b) == IF a > 0 THEN a ELSE b

resolveRequestTTL(req) ==
    Least(FirstSet(FirstSet(req, TargetTTL), DefaultTTL), MaxLeaseTTL)

resolveApprovalTTL(override, requested) ==
    Least(FirstSet(FirstSet(override, requested), DefaultTTL), MaxLeaseTTL)

-----------------------------------------------------------------------------
(* PAMLeaseService: request, approve, revoke.                              *)

RequestLease(l, req) ==
    /\ ~Created(lease[l])
    /\ lease' = [lease EXCEPT ![l] = [stamps |-> {"created"}, ttl |-> resolveRequestTTL(req),
                                      expires |-> 0]]
    /\ leaseAudit' = Audited(l, "requested")
    /\ UNCHANGED <<clock, token, sessionVars, connVars, worker, history, faults>>

(* Mutant: a lapsed lease can be approved again.                           *)
MutApproveLapsed(row) == Created(row) /\ ~IsLive(row, clock) /\ ~Revoked(row)

(* An approval retried on a live lease returns it unchanged; a revoked or  *)
(* lapsed lease is refused.  Neither changes a row.                        *)
ApproveGuard(row) == /\ Created(row)
                     /\ ~IsLive(row, clock)
                     /\ ~IsTerminal(row, clock)

ApproveLease(l, override) ==
    /\ ApproveGuard(lease[l])
    /\ lease' = [lease EXCEPT ![l].stamps = @ \cup {"granted"},
                              ![l].expires = clock + resolveApprovalTTL(override, lease[l].ttl)]
    /\ leaseAudit' = Audited(l, "approved")
    /\ UNCHANGED <<clock, token, sessionVars, connVars, worker, history, faults>>

(* Revoking commits first; the teardown of the lease's sessions follows    *)
(* outside the transaction, and only in the call that did the revoking.    *)
RevokeLease(w, l) ==
    /\ worker[w].pc = "idle"
    /\ Created(lease[l])
    /\ ~Revoked(lease[l])
    /\ lease' = [lease EXCEPT ![l].stamps = @ \cup {"revoked"}]
    /\ leaseAudit' = Audited(l, "revoked")
    /\ worker' = [worker EXCEPT ![w].pc = "scan", ![w].lease = l]
    /\ UNCHANGED <<clock, token, sessionVars, connVars, history, faults>>

-----------------------------------------------------------------------------
(* PAMLeaseService.ExpireLeases: the TTL sweep of every gateway, and the   *)
(* on-demand endpoint of the API.                                          *)

(* Mutant: the sweep only looks at leases somebody opened a session on.    *)
MutDueActivated == {l \in Leases : /\ Activated(lease[l])
                                   /\ ~Revoked(lease[l])
                                   /\ ~Swept(lease[l])
                                   /\ lease[l].expires <= clock}

DueLeases == {l \in Leases : /\ Granted(lease[l])
                             /\ ~Revoked(lease[l])
                             /\ ~Swept(lease[l])
                             /\ lease[l].expires <= clock}

ExpireScan(w) ==
    /\ worker[w].pc = "idle"
    /\ DueLeases # {}
    /\ worker' = [worker EXCEPT ![w].pc = "claim", ![w].due = DueLeases]
    /\ UNCHANGED <<clock, leaseVars, token, sessionVars, connVars, history, faults>>

(* Mutants: the claim trusts the scan about one of the two markers.        *)
MutClaimTwice(row) == ~Revoked(row)

MutClaimRevoked(row) == ~Swept(row)

(* WHERE expired_at IS NULL AND revoked_at IS NULL, re-checked in the      *)
(* claiming transaction because the scan held no lock.                     *)
Claimable(row) == ~Swept(row) /\ ~Revoked(row)

ExpireClaim(w, l) ==
    /\ worker[w].pc = "claim"
    /\ l \in worker[w].due
    /\ IF Claimable(lease[l])
       THEN /\ lease' = [lease EXCEPT ![l].stamps = @ \cup {"expired"}]
            /\ leaseAudit' = Audited(l, "expired")
            /\ worker' = [worker EXCEPT ![w].pc = "scan", ![w].lease = l, ![w].due = @ \ {l}]
       ELSE /\ worker' = [worker EXCEPT ![w].due = @ \ {l}]
            /\ UNCHANGED leaseVars
    /\ UNCHANGED <<clock, token, sessionVars, connVars, history, faults>>

ExpireDone(w) ==
    /\ worker[w].pc = "claim"
    /\ worker[w].due = {}
    /\ worker' = [worker EXCEPT ![w].pc = "idle"]
    /\ UNCHANGED <<clock, leaseVars, token, sessionVars, connVars, history, faults>>

-----------------------------------------------------------------------------
(* SessionManager: teardown of a dead lease's sessions, and the shared     *)
(* end-of-session transaction.                                             *)

(* A connection is in its gateway's hub from Register until the deferred   *)
(* deregister, which runs after CloseSession.                              *)
InHub(c) == conn[c].pc \in {"proxying", "closing", "closed"}

(* The conditional UPDATE ... WHERE state = 'active' and its audit event:  *)
(* a session already ended is left alone and not audited again.            *)
EndSession(c, state) ==
    IF session[c].state = "active"
    THEN /\ session' = [session EXCEPT ![c].state = state]
         /\ endEvents' = [endEvents EXCEPT ![c] = @ + 1]
    ELSE UNCHANGED sessionVars

(* Mutant: only sessions whose proxy is already running are torn down.     *)
MutProxiedSessions(l) == {c \in Conns : /\ session[c].state = "active"
                                        /\ session[c].lease = l
                                        /\ InHub(c)}

(* The active sessions bound to a lease, which TerminateLeaseSessions ends. *)
LeaseSessions(l) == {c \in Conns : session[c].state = "active" /\ session[c].lease = l}

TerminateScan(w) ==
    /\ worker[w].pc = "scan"
    /\ worker' = [worker EXCEPT ![w].pc = "kill", ![w].victims = LeaseSessions(worker[w].lease)]
    /\ UNCHANGED <<clock, leaseVars, token, sessionVars, connVars, history, faults>>

(* TerminateSession severs the live stream first, through the hub of its   *)
(* own process; the API's session manager has no controller.               *)
TerminateSever(w, c) ==
    /\ worker[w].pc = "kill"
    /\ c \in worker[w].victims
    /\ worker' = [worker EXCEPT ![w].pc = "end", ![w].cur = {c}]
    /\ cancelled' = IF InHub(c) /\ GatewayOf[c] = w THEN cancelled \cup {c} ELSE cancelled
    /\ UNCHANGED <<clock, conn, leaseVars, token, sessionVars, history, faults>>

TerminateEnd(w, c) ==
    /\ worker[w].pc = "end"
    /\ c \in worker[w].cur
    /\ EndSession(c, "terminated")
    /\ worker' = [worker EXCEPT ![w].pc = "kill", ![w].cur = {}, ![w].victims = @ \ {c}]
    /\ UNCHANGED <<clock, leaseVars, token, connVars, history, faults>>

(* Back to the remaining due leases of the sweep, or done.                 *)
TerminateDone(w) ==
    /\ worker[w].pc = "kill"
    /\ worker[w].victims = {}
    /\ worker' = [worker EXCEPT ![w].pc = "claim", ![w].lease = NoLease]
    /\ UNCHANGED <<clock, leaseVars, token, sessionVars, connVars, history, faults>>

(* An administrator's TerminateSession through the API.                    *)
AdminTerminate(c) ==
    /\ session[c].state = "active"
    /\ EndSession(c, "terminated")
    /\ UNCHANGED <<clock, leaseVars, token, connVars, worker, history, faults>>

-----------------------------------------------------------------------------
(* Broker: mint and redeem.                                                *)

TokenTTL == FirstSet(TargetTTL, DefaultTokenTTL)

(* The token never outlives the (locked) lease.                            *)
ClampToLease(l) == IF l = NoLease THEN clock + TokenTTL
                   ELSE Least(clock + TokenTTL, lease[l].expires)

MintConnectToken(t, l, stepUp) ==
    /\ token[t].state = "none"
    /\ RequireMFA => stepUp
    /\ l # NoLease => IsLive(lease[l], clock)
    /\ token' = [token EXCEPT ![t] = [state |-> "pending", lease |-> l, exp |-> ClampToLease(l)]]
    /\ UNCHANGED <<clock, leaseVars, sessionVars, connVars, worker, history, faults>>

(* validateLease, on the lease a token is bound to.                        *)
ValidateLease(l) == l # NoLease => IsLive(lease[l], clock)

(* First half of RedeemConnectToken: everything it checks.  An unknown or  *)
(* spent token, or a dead lease, rolls the transaction back.               *)
RedeemValidate(c, t) ==
    /\ conn[c].pc = "idle"
    /\ ~(token[t].state = "pending" /\ clock > token[t].exp)
    /\ IF token[t].state = "pending" /\ ValidateLease(token[t].lease)
       THEN conn' = [conn EXCEPT ![c].pc = "validated", ![c].tok = t]
       ELSE conn' = [conn EXCEPT ![c] = Returned]
    /\ UNCHANGED <<clock, cancelled, leaseVars, token, sessionVars, worker, history, faults>>

(* A lapsed pending token: the transaction stamps it expired and then      *)
(* returns ErrConnectToken, which rolls the stamp back.                    *)
RedeemLapsed(c, t) ==
    /\ conn[c].pc = "idle"
    /\ token[t].state = "pending"
    /\ clock > token[t].exp
    /\ conn' = [conn EXCEPT ![c].pc = "lapsed", ![c].tok = t]
    /\ UNCHANGED <<clock, cancelled, leaseVars, token, sessionVars, worker, history, faults>>

(* Whether the lease's teardown may already have scanned for sessions.     *)
Dead(l) == l # NoLease /\ (Revoked(lease[l]) \/ Swept(lease[l]))

(* Mutant: the consuming UPDATE does not re-check the token's state.       *)
MutConsumeAny(t) == TRUE

(* WHERE id = ? AND state = 'pending' of the consuming UPDATE.             *)
StillPending(t) == token[t].state = "pending"

(* Second half: insert the session, consume the token if it is still       *)
(* pending, activate the lease, audit, commit.                             *)
RedeemCommit(c) ==
    LET t == conn[c].tok
        l == token[t].lease
    IN  /\ conn[c].pc = "validated"
        /\ IF StillPending(t)
           THEN /\ token' = [token EXCEPT ![t].state = "consumed"]
                /\ session' = [session EXCEPT ![c] = [state |-> "active", lease |-> l, tok |-> t]]
                /\ lease' = IF l = NoLease THEN lease ELSE [lease EXCEPT ![l].stamps = @ \cup {"activated"}]
                /\ conn' = [conn EXCEPT ![c].pc = "opened", ![c].tok = NoToken]
                /\ late' = IF Dead(l) THEN late \cup {c} ELSE late
           ELSE /\ conn' = [conn EXCEPT ![c] = Returned]
                /\ UNCHANGED <<token, session, lease, late>>
        /\ UNCHANGED <<clock, cancelled, leaseAudit, endEvents, worker, abandoned, faults>>

(* A redemption whose later steps fail (the vault, the audit append) rolls *)
(* back and leaves the token pending.                                      *)
RedeemRollback(c) ==
    /\ conn[c].pc = "validated"
    /\ conn' = [conn EXCEPT ![c] = Returned]
    /\ UNCHANGED <<clock, cancelled, leaseVars, token, sessionVars, worker, history, faults>>

(* SessionManager.ExpireLeases: the token sweep.                           *)
SweepTokens ==
    /\ token' = [t \in Tokens |-> IF token[t].state = "pending" /\ token[t].exp < clock
                                  THEN [token[t] EXCEPT !.state = "expired"]
                                  ELSE token[t]]
    /\ UNCHANGED <<clock, leaseVars, sessionVars, connVars, worker, history, faults>>

-----------------------------------------------------------------------------
(* The gateway's connection handler after a redemption, its hub, and the   *)
(* reconciler.                                                             *)

(* The wrong listener, or a failed handshake: reconcileOrphanSession.      *)
OrphanClose(c) ==
    /\ conn[c].pc = "opened"
    /\ EndSession(c, "closed")
    /\ conn' = [conn EXCEPT ![c] = Returned]
    /\ UNCHANGED <<clock, cancelled, leaseVars, token, worker, history, faults>>

Register(c) ==
    /\ conn[c].pc = "opened"
    /\ conn' = [conn EXCEPT ![c].pc = "proxying"]
    /\ UNCHANGED <<clock, cancelled, leaseVars, token, sessionVars, worker, history, faults>>

(* The stream ends: the operator or the target hung up, or cancel ran.     *)
StreamEnds(c) ==
    /\ conn[c].pc = "proxying"
    /\ conn' = [conn EXCEPT ![c].pc = "closing"]
    /\ UNCHANGED <<clock, cancelled, leaseVars, token, sessionVars, worker, history, faults>>

(* The deferred CloseSession, then the deferred deregister.                *)
CloseSession(c) ==
    /\ conn[c].pc = "closing"
    /\ EndSession(c, "closed")
    /\ conn' = [conn EXCEPT ![c].pc = "closed"]
    /\ UNCHANGED <<clock, cancelled, leaseVars, token, worker, history, faults>>

Deregister(c) ==
    /\ conn[c].pc = "closed"
    /\ conn' = [conn EXCEPT ![c] = Returned]
    /\ cancelled' = cancelled \ {c}
    /\ UNCHANGED <<clock, leaseVars, token, sessionVars, worker, history, faults>>

(* Mutant: the reconciler acts only on rows that read closed.              *)
MutSeverClosed(c) == session[c].state = "closed"

(* SessionIntent.Active is false.                                          *)
MustSever(c) == session[c].state # "active"

(* reconcileOnce, for one session of the hub whose row is no longer        *)
(* active.  Rows never become active again, so the age of the intent it    *)
(* read does not matter.                                                   *)
ReconcileOnce(c) ==
    /\ InHub(c)
    /\ MustSever(c)
    /\ c \notin cancelled
    /\ cancelled' = cancelled \cup {c}
    /\ UNCHANGED <<clock, conn, leaseVars, token, sessionVars, worker, history, faults>>

-----------------------------------------------------------------------------
(* Faults.                                                                 *)

(* The sessions a teardown has still to end.                               *)
TeardownLeft(w) == IF worker[w].pc = "scan" THEN LeaseSessions(worker[w].lease) ELSE worker[w].victims

(* A process dies and restarts: its connections drop, its hub is empty,    *)
(* its sweep or request is gone; uncommitted redemptions roll back.        *)
Crash(w) ==
    /\ faults < MaxFaults
    /\ faults' = faults + 1
    /\ worker' = [worker EXCEPT ![w] = IdleWorker]
    /\ abandoned' = abandoned \cup TeardownLeft(w)
    /\ conn' = [c \in Conns |-> IF GatewayOf[c] = w /\ conn[c].pc # "idle"
                                THEN Returned ELSE conn[c]]
    /\ cancelled' = {c \in cancelled : GatewayOf[c] # w}
    /\ UNCHANGED <<clock, leaseVars, token, sessionVars, late>>

(* A teardown query fails: TerminateLeaseSessions is best-effort, the      *)
(* error is logged and the worker goes on with the next session or lease.  *)
TeardownError(w) ==
    /\ faults < MaxFaults
    /\ faults' = faults + 1
    /\ worker[w].pc \in {"scan", "end"}
    /\ worker' = [worker EXCEPT ![w].pc = "kill", ![w].cur = {},
                                ![w].victims = @ \ worker[w].cur]
    /\ abandoned' = abandoned \cup IF worker[w].pc = "scan" THEN TeardownLeft(w) ELSE worker[w].cur
    /\ UNCHANGED <<clock, leaseVars, token, sessionVars, connVars, late>>

(* The claiming transaction, or its audit append, fails: logged, and left  *)
(* to the next sweep.                                                      *)
ClaimError(w) ==
    /\ faults < MaxFaults
    /\ faults' = faults + 1
    /\ worker[w].pc = "claim"
    /\ \E l \in worker[w].due : worker' = [worker EXCEPT ![w].due = @ \ {l}]
    /\ UNCHANGED <<clock, leaseVars, token, sessionVars, connVars, history>>

(* CloseSession fails, in the deferred close or in reconcileOrphanSession: *)
(* logged, and the handler goes on with the row still active.              *)
CloseError(c) ==
    /\ faults < MaxFaults
    /\ faults' = faults + 1
    /\ \/ conn[c].pc = "closing" /\ conn' = [conn EXCEPT ![c].pc = "closed"]
       \/ conn[c].pc = "opened" /\ conn' = [conn EXCEPT ![c] = Returned]
    /\ UNCHANGED <<clock, cancelled, leaseVars, token, sessionVars, worker, history>>

Tick ==
    /\ clock < MaxTime
    /\ clock' = clock + 1
    /\ UNCHANGED <<leaseVars, token, sessionVars, connVars, worker, history, faults>>

-----------------------------------------------------------------------------
LeaseStep(l) == \/ \E d \in Durations : RequestLease(l, d) \/ ApproveLease(l, d)
                \/ \E w \in Apis : RevokeLease(w, l)

WorkerStep(w) == \/ ExpireScan(w)
                 \/ \E l \in Leases : ExpireClaim(w, l)
                 \/ ExpireDone(w)
                 \/ TerminateScan(w)
                 \/ \E c \in Conns : TerminateSever(w, c) \/ TerminateEnd(w, c)
                 \/ TerminateDone(w)

TokenStep == \/ \E t \in Tokens, l \in Leases \cup {NoLease}, m \in BOOLEAN :
                    MintConnectToken(t, l, m)
             \/ SweepTokens

ConnStep(c) == \/ \E t \in Tokens : RedeemValidate(c, t) \/ RedeemLapsed(c, t)
               \/ RedeemCommit(c) \/ RedeemRollback(c)
               \/ OrphanClose(c) \/ Register(c) \/ StreamEnds(c)
               \/ CloseSession(c) \/ Deregister(c) \/ ReconcileOnce(c)
               \/ AdminTerminate(c) \/ CloseError(c)

FaultStep(w) == Crash(w) \/ TeardownError(w) \/ ClaimError(w)

Next == \/ Tick
        \/ \E l \in Leases : LeaseStep(l)
        \/ \E w \in Workers : WorkerStep(w) \/ FaultStep(w)
        \/ TokenStep
        \/ \E c \in Conns : ConnStep(c)

Spec == Init /\ [][Next]_vars

(* Fairness.  Every gateway runs its sweep on a ticker and its reconciler  *)
(* every two seconds; a request handler of the API and a connection        *)
(* handler that has work to do are goroutines the runtime keeps            *)
(* scheduling.  Nothing obliges operators, approvers or targets to act.    *)
Fairness ==
    /\ \A w \in Gateways : WF_vars(WorkerStep(w))
    /\ \A w \in Apis : WF_vars(~(worker[w].pc = "idle") /\ WorkerStep(w))
    /\ \A c \in Conns : /\ WF_vars(ReconcileOnce(c))
                         /\ WF_vars(Register(c) \/ OrphanClose(c))
                         /\ WF_vars(c \in cancelled /\ StreamEnds(c))

FairSpec == Spec /\ Fairness

-----------------------------------------------------------------------------
(* Properties.                                                             *)

Ended == {"closed", "terminated"}

LeaseRow == [stamps : SUBSET Stamps, ttl : 0 .. MaxLeaseTTL,
             expires : 0 .. (MaxTime + MaxLeaseTTL)]

TokenRow == [state : {"none", "pending", "consumed", "expired"},
             lease : Leases \cup {NoLease}, exp : Nat]

SessionRow == [state : {"none", "active"} \cup Ended,
               lease : Leases \cup {NoLease}, tok : Tokens \cup {NoToken}]

Handler == [pc : {"idle", "validated", "lapsed", "opened", "proxying",
                  "closing", "closed", "done"},
            tok : Tokens \cup {NoToken}]

Worker == [pc : {"idle", "claim", "scan", "kill", "end"}, due : SUBSET Leases,
           lease : Leases \cup {NoLease}, victims : SUBSET Conns, cur : SUBSET Conns]

(* Type invariant.  No lease is granted past the clock's bound plus the    *)
(* maxLeaseTTL cap that resolveApprovalTTL enforces on every override.     *)
TypeOK ==
    /\ clock \in 0 .. MaxTime
    /\ lease \in [Leases -> LeaseRow]
    /\ leaseAudit \in [Leases -> [LeaseEvents -> Nat]]
    /\ token \in [Tokens -> TokenRow]
    /\ session \in [Conns -> SessionRow]
    /\ endEvents \in [Conns -> Nat]
    /\ conn \in [Conns -> Handler]
    /\ cancelled \in SUBSET Conns
    /\ worker \in [Workers -> Worker]
    /\ late \in SUBSET Conns
    /\ abandoned \in SUBSET Conns
    /\ faults \in 0 .. MaxFaults

(* Replay safety of RedeemConnectToken: a consumed token opened exactly    *)
(* one session, and any other token none, however redemptions interleave.  *)
OneSessionPerToken ==
    /\ \A t \in Tokens : (token[t].state = "consumed")
                              <=> (\E c \in Conns : session[c].tok = t)
    /\ \A c, d \in Conns : session[c].tok = session[d].tok /\ session[c].tok # NoToken
                              => c = d

(* The audit trail of a lease agrees with its row: each of approve, revoke *)
(* and expire is recorded exactly when, and exactly once if, the row       *)
(* carries its marker, although sweepers in several processes compete.     *)
AuditMatchesRows ==
    \A l \in Leases :
        /\ leaseAudit[l]["requested"] = (IF Created(lease[l]) THEN 1 ELSE 0)
        /\ leaseAudit[l]["approved"] = (IF Granted(lease[l]) THEN 1 ELSE 0)
        /\ leaseAudit[l]["revoked"] = (IF Revoked(lease[l]) THEN 1 ELSE 0)
        /\ leaseAudit[l]["expired"] = (IF Swept(lease[l]) THEN 1 ELSE 0)

(* A session that ended has exactly one end event, one that has not has    *)
(* none: the deferred close, an admin terminate and a teardown that race   *)
(* leave a single close-or-terminate record (endSession).                  *)
OneEndEvent ==
    \A c \in Conns : endEvents[c] = (IF session[c].state \in Ended THEN 1 ELSE 0)

(* A lease-bound token belongs to a granted lease and never outlives its   *)
(* window (the clamp of MintConnectToken).                                 *)
TokenWithinLease ==
    \A t \in Tokens :
        token[t].lease # NoLease =>
            /\ Granted(lease[token[t].lease])
            /\ token[t].exp <= lease[token[t].lease].expires

(* A teardown of session c's lease that will still reach c.                *)
TeardownPending(c) ==
    \E w \in Workers :
        /\ worker[w].lease = session[c].lease
        /\ \/ worker[w].pc = "scan"
           \/ worker[w].pc \in {"kill", "end"} /\ c \in worker[w].victims

(* The only ways an active session outlives its lease: a teardown is still *)
(* on its way to it, its redemption committed after the lease had died     *)
(* (late), or a fault met its own end in the teardown (abandoned): a       *)
(* failure to end one session keeps no other one alive.                    *)
OrphanCauses ==
    \A c \in Conns :
        session[c].state = "active" /\ Dead(session[c].lease)
            => c \in late \/ c \in abandoned \/ TeardownPending(c)

(* What connect_token.go and pam_lease.go say: a lease that was revoked or *)
(* swept has no session left but the ones its teardown is about to end.    *)
NoOrphanSession ==
    \A c \in Conns :
        session[c].state = "active" /\ Dead(session[c].lease) => TeardownPending(c)

(* "Revoke wins": once revoked, a lease is never also stamped and audited  *)
(* as expired, even by a sweep whose scan saw it still live.               *)
RevokeWins ==
    [][\A l \in Leases : Revoked(lease[l]) => Swept(lease'[l]) = Swept(lease[l])]_vars

(* A granted window is never extended or moved, whatever approvals are     *)
(* retried and whenever they arrive.                                       *)
WindowFixed ==
    [][\A l \in Leases : Granted(lease[l]) =>
            Granted(lease'[l]) /\ lease'[l].expires = lease[l].expires]_vars

LeaseFSM == INSTANCE PamLeaseFSM WITH
                status <- [l \in Leases |-> Status(lease[l], clock)]

(* The lease rows and the clock implement the strict lease state machine.  *)
ImplementsLeaseFSM == LeaseFSM!Spec

(* A session whose row has ended, by whoever in whatever process, is cut   *)
(* off at the gateway that proxies or is about to proxy it.                *)
RowEndSevers ==
    \A c \in Conns :
        (session[c].state \in Ended /\ conn[c].pc \in {"opened", "proxying"})
            ~> (conn[c].pc \notin {"opened", "proxying"})

(* A lease whose window has lapsed is eventually swept, or revoked.        *)
LapsedLeaseSwept ==
    \A l \in Leases :
        (Status(lease[l], clock) = "expired") ~> (Swept(lease[l]) \/ Revoked(lease[l]))

(* A session that was open when its lease died is eventually ended, unless *)
(* a fault cuts the teardown short.                                        *)
TeardownFinishes ==
    \A c \in Conns :
        (session[c].state = "active" /\ Dead(session[c].lease) /\ c \notin late)
            ~> (session[c].state \in Ended \/ c \in abandoned)
=============================================================================

----------------------------- MODULE AccessGrants -----------------------------
(***************************************************************************)
(* The access lifecycle of one user: access requests and their state       *)
(* machine, the provisioning of an approved request on the provider, the   *)
(* grant rows that record it, their revocation and expiry, and the SCIM    *)
(* joiner lane that raises requests by itself.                             *)
(*                                                                         *)
(* Granularity.  TransitionInTx locks the request row, so a transition is  *)
(* one action.  A provider call happens outside every transaction and is   *)
(* an action of its own, with all its retries; so is each unlocked read    *)
(* the code acts on later: the request state read by Provision, the live   *)
(* grant it looks for before inserting one, the grant read by RevokeGrant  *)
(* and ExpireGrant, and the joiner's count of live grants.                 *)
(***************************************************************************)
EXTENDS Naturals, FiniteSets

CONSTANTS
    Requests,     \* access_requests rows that may be created
    NoRequest,
    Grants,       \* access_grants rows that may be created
    NoGrant,
    Entitlements, \* resource and role pairs on the connectors
    EntOf,        \* the entitlement each request asks for
    Callers,      \* goroutines: API handlers, job processors, the SCIM lane
    Enforcers,    \* expiry enforcers of the lifecycle scheduler
    MaxFaults     \* bound: crashes and failed provider calls

ASSUME GrantNames ==
    /\ NoRequest \notin Requests
    /\ NoGrant \notin Grants
    /\ EntOf \in [Requests -> Entitlements]
    /\ MaxFaults \in Nat

VARIABLES
    req,       \* access_requests.state
    scim,      \* requests whose requester_id is "scim": the joiner lane's
    grant,     \* the grant rows
    revokedAt, \* grants whose revoked_at is not null
    due,       \* grants past their expires_at
    provider,  \* entitlements the user holds at the provider
    proc,      \* the goroutines
    stray,     \* history: entitlements provisioned for a request that had moved on
    faults

rows == <<req, scim, grant, revokedAt>>

vars == <<rows, due, provider, proc, stray, faults>>

Procs == Callers \cup Enforcers

-----------------------------------------------------------------------------
(* The request state machine.  "absent" is a request not yet created.      *)

RequestStates == {"absent", "requested", "ai_reviewed", "approved", "denied", "cancelled",
                  "provisioning", "provision_failed", "provisioned", "active",
                  "revoked", "expired"}

(* Mutant: an active request may be provisioned again.                     *)
MutReprovision(from) ==
    CASE from = "requested"        -> {"ai_reviewed", "approved", "denied", "cancelled"}
      [] from = "ai_reviewed"      -> {"approved", "denied", "cancelled"}
      [] from = "approved"         -> {"provisioning", "cancelled"}
      [] from = "provisioning"     -> {"provisioned", "provision_failed"}
      [] from = "provision_failed" -> {"provisioning"}
      [] from = "provisioned"      -> {"active"}
      [] from = "active"           -> {"revoked", "expired", "provisioned"}
      [] OTHER                     -> {}

allowedTransitions(from) ==
    CASE from = "requested"        -> {"ai_reviewed", "approved", "denied", "cancelled"}
      [] from = "ai_reviewed"      -> {"approved", "denied", "cancelled"}
      [] from = "approved"         -> {"provisioning", "cancelled"}
      [] from = "provisioning"     -> {"provisioned", "provision_failed"}
      [] from = "provision_failed" -> {"provisioning"}
      [] from = "provisioned"      -> {"active"}
      [] from = "active"           -> {"revoked", "expired"}
      [] OTHER                     -> {}

Transition(from, to) == to \in allowedTransitions(from)

(* A refused transition changes nothing.                                   *)
TransitionInTx(r, to) ==
    req' = IF Transition(req[r], to) THEN [req EXCEPT ![r] = to] ELSE req

-----------------------------------------------------------------------------
NoRow == [state |-> "none", req |-> NoRequest]

Idle == [pc |-> "idle", req |-> NoRequest, grant |-> NoGrant, goal |-> "none"]

Init ==
    /\ req = [r \in Requests |-> "absent"]
    /\ scim = {}
    /\ grant = [g \in Grants |-> NoRow]
    /\ revokedAt = {}
    /\ due = {}
    /\ provider = {}
    /\ proc = [p \in Procs |-> Idle]
    /\ stray = {}
    /\ faults = 0

(* state = 'active' AND revoked_at IS NULL.                                *)
Live(g) == grant[g].state = "active" /\ g \notin revokedAt

LiveFor(r) == {g \in Grants : Live(g) /\ grant[g].req = r}

Finish(p) == proc' = [proc EXCEPT ![p] = Idle]

Goto(p, pc) == proc' = [proc EXCEPT ![p].pc = pc]

-----------------------------------------------------------------------------
(* AccessRequestService.                                                   *)

CreateRequest(r) ==
    /\ req[r] = "absent"
    /\ req' = [req EXCEPT ![r] = "requested"]
    /\ UNCHANGED <<scim, grant, revokedAt, due, provider, proc, stray, faults>>

(* The risk review, an approver's decision, a cancellation.                *)
DecideRequest(r, to) ==
    /\ Transition(req[r], to)
    /\ TransitionInTx(r, to)
    /\ UNCHANGED <<scim, grant, revokedAt, due, provider, proc, stray, faults>>

-----------------------------------------------------------------------------
(* JMLService.HandleJoiner: a baseline entitlement for a new user.         *)

(* The event asks for the entitlement of r; its row is drawn later.        *)
JoinCheck(p, r) ==
    /\ proc[p].pc = "idle"
    /\ ~ \E g \in Grants : Live(g) /\ EntOf[grant[g].req] = EntOf[r]
    /\ proc' = [proc EXCEPT ![p].pc = "join", ![p].req = r]
    /\ UNCHANGED <<rows, due, provider, stray, faults>>

(* CreateRequest with risk "low".                                          *)
JoinCreate(p, r) ==
    /\ proc[p].pc = "join"
    /\ req[r] = "absent" /\ EntOf[r] = EntOf[proc[p].req]
    /\ req' = [req EXCEPT ![r] = "requested"]
    /\ scim' = scim \cup {r}
    /\ proc' = [proc EXCEPT ![p].pc = "approve", ![p].req = r]
    /\ UNCHANGED <<grant, revokedAt, due, provider, stray, faults>>

(* ExecuteWorkflow's auto_approve lane; somebody may have decided first.   *)
JoinApprove(p) ==
    /\ proc[p].pc = "approve"
    /\ TransitionInTx(proc[p].req, "approved")
    /\ IF Transition(req[proc[p].req], "approved") THEN Goto(p, "read") ELSE Finish(p)
    /\ UNCHANGED <<scim, grant, revokedAt, due, provider, stray, faults>>

-----------------------------------------------------------------------------
(* AccessProvisioningService.Provision.                                    *)

ProvisionCall(p, r) ==
    /\ proc[p].pc = "idle"
    /\ req[r] # "absent"
    /\ proc' = [proc EXCEPT ![p].pc = "read", ![p].req = r]
    /\ UNCHANGED <<rows, due, provider, stray, faults>>

(* GetRequest, and the switch on the state it read.  A request found       *)
(* already provisioning is taken for a crashed attempt and continued.      *)
ProvisionRead(p) ==
    /\ proc[p].pc = "read"
    /\ CASE req[proc[p].req] \in {"approved", "provision_failed"} -> Goto(p, "begin")
         [] req[proc[p].req] = "provisioning"                     -> Goto(p, "call")
         [] OTHER                                                 -> Finish(p)
    /\ UNCHANGED <<rows, due, provider, stray, faults>>

ProvisionBegin(p) ==
    /\ proc[p].pc = "begin"
    /\ TransitionInTx(proc[p].req, "provisioning")
    /\ IF Transition(req[proc[p].req], "provisioning") THEN Goto(p, "call") ELSE Finish(p)
    /\ UNCHANGED <<scim, grant, revokedAt, due, provider, stray, faults>>

(* What a provider call leaves behind in the history of late calls.        *)
Strayed(r) == IF req[r] = "provisioning" THEN stray ELSE stray \cup {EntOf[r]}

ProvisionAccess(p) ==
    /\ proc[p].pc = "call"
    /\ provider' = provider \cup {EntOf[proc[p].req]}
    /\ stray' = Strayed(proc[p].req)
    /\ Goto(p, "find")
    /\ UNCHANGED <<rows, due, faults>>

(* Resolve failed, or every attempt at the provider did; a call that timed *)
(* out may have taken effect all the same.                                 *)
ProvisionError(p) ==
    /\ faults < MaxFaults
    /\ faults' = faults + 1
    /\ proc[p].pc = "call"
    /\ \/ UNCHANGED <<provider, stray>>
       \/ /\ provider' = provider \cup {EntOf[proc[p].req]}
          /\ stray' = Strayed(proc[p].req)
    /\ Goto(p, "fail")
    /\ UNCHANGED <<rows, due>>

ProvisionFailed(p) ==
    /\ proc[p].pc = "fail"
    /\ TransitionInTx(proc[p].req, "provision_failed")
    /\ Finish(p)
    /\ UNCHANGED <<scim, grant, revokedAt, due, provider, stray, faults>>

(* The idempotency guard's look for a live grant of the request.           *)
ProvisionFind(p) ==
    /\ proc[p].pc = "find"
    /\ Goto(p, IF LiveFor(proc[p].req) # {} THEN "reuse" ELSE "insert")
    /\ UNCHANGED <<rows, due, provider, stray, faults>>

(* reconcileToActive.                                                      *)
ProvisionReuse(p) ==
    /\ proc[p].pc = "reuse"
    /\ req' = IF req[proc[p].req] \in {"provisioning", "provisioned"}
              THEN [req EXCEPT ![proc[p].req] = "active"] ELSE req
    /\ Finish(p)
    /\ UNCHANGED <<scim, grant, revokedAt, due, provider, stray, faults>>

(* provisioned, the grant row, active: one transaction, gated by the lock  *)
(* and the state machine, which refuses whoever comes second.              *)
ProvisionInsert(p, g) ==
    /\ proc[p].pc = "insert"
    /\ grant[g].state = "none"
    /\ IF Transition(req[proc[p].req], "provisioned")
       THEN /\ grant' = [grant EXCEPT ![g] = [state |-> "active", req |-> proc[p].req]]
            /\ req' = [req EXCEPT ![proc[p].req] = "active"]
       ELSE UNCHANGED <<grant, req>>
    /\ Finish(p)
    /\ UNCHANGED <<scim, revokedAt, due, provider, stray, faults>>

-----------------------------------------------------------------------------
(* RevokeGrant, by an administrator, a reviewer, a campaign or the kill    *)
(* switch, and ExpireGrant, by the enforcer's sweep or its endpoint.       *)

Lapse(g) ==
    /\ grant[g].state = "active"
    /\ g \notin due
    /\ due' = due \cup {g}
    /\ UNCHANGED <<rows, provider, proc, stray, faults>>

(* Both start by reading the grant, and do nothing unless it is active.    *)
TeardownRead(p, g, goal) ==
    /\ proc[p].pc = "idle"
    /\ grant[g].state = "active"
    /\ proc' = [proc EXCEPT ![p].pc = "teardown", ![p].grant = g, ![p].goal = goal]
    /\ UNCHANGED <<rows, due, provider, stray, faults>>

RevokeGrant(p, g) == TeardownRead(p, g, "revoked")

(* Mutant: the sweep skips grants somebody is still using.                 *)
MutExpiresSome(g) == g \in due /\ EntOf[grant[g].req] \notin provider

(* state = 'active' AND revoked_at IS NULL AND expires_at < now.           *)
Expires(g) == g \in due /\ g \notin revokedAt

ExpireGrant(p, g) == Expires(g) /\ TeardownRead(p, g, "expired")

Torn(p) == EntOf[grant[proc[p].grant].req]

RevokeAccess(p) ==
    /\ proc[p].pc = "teardown"
    /\ provider' = provider \ {Torn(p)}
    /\ stray' = stray \ {Torn(p)}
    /\ Goto(p, "mark")
    /\ UNCHANGED <<rows, due, faults>>

(* Mutant: the grant is marked although the provider did not answer.       *)
MutMarkAnyway(p) ==
    /\ faults < MaxFaults
    /\ faults' = faults + 1
    /\ proc[p].pc = "teardown"
    /\ Goto(p, "mark")
    /\ UNCHANGED <<rows, due, provider, stray>>

(* Every attempt failed; the last may have taken effect.  The grant stays  *)
(* active for the caller, or the next sweep, to retry.                     *)
RevokeError(p) ==
    /\ faults < MaxFaults
    /\ faults' = faults + 1
    /\ proc[p].pc = "teardown"
    /\ \/ UNCHANGED <<provider, stray>>
       \/ provider' = provider \ {Torn(p)} /\ stray' = stray \ {Torn(p)}
    /\ Finish(p)
    /\ UNCHANGED <<rows, due>>

(* Mutant: the request is left behind.                                     *)
MutMarkGrantOnly(g, goal) ==
    /\ grant' = [grant EXCEPT ![g].state = goal]
    /\ revokedAt' = IF goal = "revoked" THEN revokedAt \cup {g} ELSE revokedAt
    /\ UNCHANGED req

(* The UPDATE is not conditional on the grant still being active; the      *)
(* request moves only if it is.                                            *)
markGrantTerminal(g, goal) ==
    /\ grant' = [grant EXCEPT ![g].state = goal]
    /\ revokedAt' = IF goal = "revoked" THEN revokedAt \cup {g} ELSE revokedAt
    /\ req' = IF req[grant[g].req] = "active" THEN [req EXCEPT ![grant[g].req] = goal] ELSE req

TeardownMark(p) ==
    /\ proc[p].pc = "mark"
    /\ markGrantTerminal(proc[p].grant, proc[p].goal)
    /\ Finish(p)
    /\ UNCHANGED <<scim, due, provider, stray, faults>>

-----------------------------------------------------------------------------
(* A process dies at any point; the row states are all that is left.       *)
Crash(p) ==
    /\ faults < MaxFaults
    /\ faults' = faults + 1
    /\ proc[p].pc # "idle"
    /\ Finish(p)
    /\ UNCHANGED <<rows, due, provider, stray>>

Decisions == {"ai_reviewed", "approved", "denied", "cancelled"}

RequestStep(r) == CreateRequest(r) \/ \E to \in Decisions : DecideRequest(r, to)

ProvisionStep(p) ==
    \/ \E r \in Requests : JoinCheck(p, r) \/ JoinCreate(p, r) \/ ProvisionCall(p, r)
    \/ JoinApprove(p)
    \/ ProvisionRead(p) \/ ProvisionBegin(p) \/ ProvisionAccess(p) \/ ProvisionError(p)
    \/ ProvisionFailed(p) \/ ProvisionFind(p) \/ ProvisionReuse(p)
    \/ \E g \in Grants : ProvisionInsert(p, g)

TeardownStep(p) == RevokeAccess(p) \/ TeardownMark(p)

Next == \/ \E r \in Requests : RequestStep(r)
        \/ \E g \in Grants : Lapse(g)
        \/ \E p \in Callers : ProvisionStep(p) \/ \E g \in Grants : RevokeGrant(p, g)
        \/ \E p \in Enforcers, g \in Grants : ExpireGrant(p, g)
        \/ \E p \in Procs : TeardownStep(p) \/ RevokeError(p) \/ Crash(p)

Spec == Init /\ [][Next]_vars

(* The scheduler runs the enforcer on a ticker and a sweep works through   *)
(* every grant it finds; failed provider calls are finitely many.          *)
Fairness == \A p \in Enforcers :
                /\ \A g \in Grants : WF_vars(ExpireGrant(p, g))
                /\ WF_vars(TeardownStep(p))

FairSpec == Spec /\ Fairness

-----------------------------------------------------------------------------
(* Properties.                                                             *)

Terminal == {"denied", "cancelled", "revoked", "expired"}

(* Type invariant.                                                         *)
TypeOK ==
    /\ req \in [Requests -> RequestStates]
    /\ scim \in SUBSET Requests
    /\ grant \in [Grants -> [state : {"none", "active", "revoked", "expired"},
                             req : Requests \cup {NoRequest}]]
    /\ revokedAt \in SUBSET Grants
    /\ due \in SUBSET Grants
    /\ provider \in SUBSET Entitlements
    /\ proc \in [Procs -> [pc : {"idle", "join", "approve", "read", "begin", "call", "fail",
                                 "find", "reuse", "insert", "teardown", "mark"},
                           req : Requests \cup {NoRequest}, grant : Grants \cup {NoGrant},
                           goal : {"none", "revoked", "expired"}]]
    /\ stray \in SUBSET Entitlements
    /\ faults \in 0 .. MaxFaults

(* However many callers provision a request, and whatever crashes, it gets *)
(* at most one grant row in its whole life.                                *)
OneGrantPerRequest ==
    \A g, h \in Grants :
        (grant[g].state # "none" /\ grant[h].state # "none" /\ grant[g].req = grant[h].req)
            => g = h

(* "A materialized grant always has a matching request": a request is      *)
(* active exactly while it has a live grant.                               *)
GrantMatchesRequest ==
    \A r \in Requests : (req[r] = "active") <=> (LiveFor(r) # {})

(* The user holds an entitlement at the provider only on account of a live *)
(* grant, of a request whose provisioning was cut short and can be retried,*)
(* or of a provision call that came after its request had moved on.        *)
AccessAccounted ==
    \A e \in provider :
        \/ e \in stray
        \/ \E r \in Requests : /\ EntOf[r] = e
                               /\ \/ LiveFor(r) # {}
                                  \/ req[r] \in {"provisioning", "provision_failed"}

(* What HandleJoiner says: a redelivered joiner event will not             *)
(* double-grant.                                                           *)
NoDoubleGrant ==
    \A g, h \in Grants :
        /\ Live(g) /\ grant[g].req \in scim
        /\ Live(h) /\ grant[h].req \in scim
        /\ EntOf[grant[g].req] = EntOf[grant[h].req]
        => g = h

(* A request that was denied, cancelled, revoked or expired stays so, even *)
(* when a slow provisioning attempt for it finishes afterwards.            *)
TerminalIsFinal ==
    [][\A r \in Requests : req[r] \in Terminal => req'[r] = req[r]]_vars

(* A grant past its expiry is eventually torn down, although provider      *)
(* calls fail and enforcers crash on the way.                              *)
LapsedGrantEnds ==
    \A g \in Grants : (g \in due /\ Live(g)) ~> ~Live(g)
=============================================================================

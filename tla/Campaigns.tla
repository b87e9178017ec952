------------------------------ MODULE Campaigns ------------------------------
(***************************************************************************)
(* The two recertification services over one workspace's grants:           *)
(* compliance.CertificationService, whose revoke decisions are staged      *)
(* until the campaign is closed, and lifecycle.ReviewService, whose revoke *)
(* decisions are carried out at once.                                      *)
(*                                                                         *)
(* Granularity.  What a transaction does under the row lock that orders it *)
(* against the others is one action; what it read before, and everything   *)
(* that follows its commit (the calls to the connector, the stamps), are   *)
(* actions of their own.  RevokeGrant is one action that succeeds or fails *)
(* (AccessGrants models its inside).  Audit events are counted.            *)
(***************************************************************************)
EXTENDS Integers, FiniteSets

CONSTANTS
    Grants,
    Campaigns, \* campaigns that may be started, of either service
    Callers,   \* concurrent requests
    MaxFaults  \* bound: connector errors and caller deaths

ASSUME CampaignAssumption == MaxFaults \in Nat

VARIABLES
    grant,    \* access_grants.state
    campaign, \* the row of a certification campaign or an access review; overdue
              \* counts the times overdue_at was stamped and put on record
    item,     \* its items, by grant: the decision and whether the revoke is stamped
    share,    \* the callers holding the campaign row FOR SHARE
    call,     \* each caller's request
    decided,  \* history: audit events of terminal decisions, by campaign and grant
    cut,      \* history: decided revokes whose teardown was cut short and not taken
              \* up again, each with the cause: a fault, or a client that left
    faults

vars == <<grant, campaign, item, share, call, decided, cut, faults>>

Decisions == {"certify", "revoke", "escalate"}
Terminal == {"certify", "revoke"}
Causes == {"fault", "client"}

IsReview(k) == campaign[k].kind = "review"
IsCertification(k) == campaign[k].kind = "certification"

NoItem == [decision |-> "none", stamped |-> FALSE]

Idle == [pc |-> "idle", k |-> {}, g |-> {}, d |-> "none", todo |-> {}]

Init ==
    /\ grant = [g \in Grants |-> "active"]
    /\ campaign = [k \in Campaigns |-> [kind |-> "none", state |-> "none", due |-> FALSE, overdue |-> 0]]
    /\ item = [k \in Campaigns |-> [g \in Grants |-> NoItem]]
    /\ share = [k \in Campaigns |-> {}]
    /\ call = [c \in Callers |-> Idle]
    /\ decided = [k \in Campaigns |-> [g \in Grants |-> 0]]
    /\ cut = {}
    /\ faults = 0

-----------------------------------------------------------------------------
(* Grants end for other reasons too: expiry, the kill switch, an operator. *)

GrantEnds(g) ==
    /\ grant[g] = "active"
    /\ grant' = [grant EXCEPT ![g] = "ended"]
    /\ UNCHANGED <<campaign, item, share, call, decided, cut, faults>>

(* A review takes every live grant, a campaign those its scope matches.    *)
StartCampaign(k) ==
    \E kind \in {"certification", "review"}, scope \in SUBSET Grants :
        /\ campaign[k].state = "none"
        /\ kind = "review" => scope = Grants
        /\ campaign' = [campaign EXCEPT ![k].kind = kind, ![k].state = "running"]
        /\ item' = [item EXCEPT ![k] = [g \in Grants |->
              IF g \in scope /\ grant[g] = "active"
              THEN [NoItem EXCEPT !.decision = "pending"] ELSE NoItem]]
        /\ UNCHANGED <<grant, share, call, decided, cut, faults>>

(* The due date of a certification campaign passes.                        *)
DuePasses(k) ==
    /\ IsCertification(k)
    /\ ~campaign[k].due
    /\ campaign' = [campaign EXCEPT ![k].due = TRUE]
    /\ UNCHANGED <<grant, item, share, call, decided, cut, faults>>

-----------------------------------------------------------------------------
(* Decisions                                                               *)

Is(c, pc) == call[c].pc = pc

Reviewing(c, k, g, d) ==
    /\ Is(c, "idle")
    /\ campaign[k].state = "running"
    /\ item[k][g].decision # "none"
    /\ call' = [call EXCEPT ![c] = [Idle EXCEPT !.pc = "decide", !.k = {k}, !.g = {g}, !.d = d]]

(* Mutant: the campaign is read without a lock.                            *)
MutSubmitShare(c) ==
    \E k \in Campaigns, g \in Grants, d \in Decisions :
        /\ IsCertification(k)
        /\ Reviewing(c, k, g, d)
        /\ UNCHANGED <<grant, campaign, item, share, decided, cut, faults>>

(* CertificationService.SubmitDecision locks the campaign FOR SHARE: it    *)
(* waits for a close and keeps one waiting.                                *)
SubmitShare(c) ==
    \E k \in Campaigns, g \in Grants, d \in Decisions :
        /\ IsCertification(k)
        /\ Reviewing(c, k, g, d)
        /\ share' = [share EXCEPT ![k] = @ \cup {c}]
        /\ UNCHANGED <<grant, campaign, item, decided, cut, faults>>

(* ReviewService.SubmitDecision reads the review without a lock.           *)
SubmitRead(c) ==
    \E k \in Campaigns, g \in Grants, d \in Decisions :
        /\ IsReview(k)
        /\ Reviewing(c, k, g, d)
        /\ UNCHANGED <<grant, campaign, item, share, decided, cut, faults>>

(* Mutant: a repeated decision is recorded again.                          *)
MutRecorded(old) == TRUE

(* A terminal decision stays; the same one again is recorded no second     *)
(* time; an escalation is recorded as often as it is made.                 *)
Accepted(old, d) == old \in Terminal => old = d

Recorded(old) == old \notin Terminal

Released(c) == [k \in Campaigns |-> share[k] \ {c}]

(* The rest of the transaction, from the item's row lock to the commit.    *)
(* After it the review service goes on to revoke, even for a decision that *)
(* was there already.                                                      *)
SubmitDecision(c, k, g, d) ==
    LET old == item[k][g].decision
        revokes == IsReview(k) /\ Accepted(old, d) /\ d = "revoke" IN
    /\ IF Accepted(old, d) /\ Recorded(old)
       THEN /\ item' = [item EXCEPT ![k][g].decision = d]
            /\ decided' = IF d \in Terminal
                          THEN [decided EXCEPT ![k][g] = @ + 1] ELSE decided
       ELSE UNCHANGED <<item, decided>>
    /\ share' = Released(c)
    /\ call' = [call EXCEPT ![c] =
          IF revokes THEN [Idle EXCEPT !.pc = "revoke", !.k = {k}, !.todo = {g}] ELSE Idle]
    /\ cut' = IF revokes THEN cut \ ({k} \X {g} \X Causes) ELSE cut
    /\ UNCHANGED <<grant, campaign, faults>>

Submit(c) ==
    /\ Is(c, "decide")
    /\ \E k \in call[c].k, g \in call[c].g : SubmitDecision(c, k, g, call[c].d)

-----------------------------------------------------------------------------
(* Closing                                                                 *)

stagedRevokes(k) ==
    {g \in Grants : item[k][g].decision = "revoke" /\ ~item[k][g].stamped}

(* The exclusive lock, the snapshot, the flip and the commit.  A campaign  *)
(* that is closed already only yields what is still to be revoked.         *)
CloseCampaign(c) ==
    \E k \in Campaigns :
        /\ Is(c, "idle")
        /\ IsCertification(k)
        /\ share[k] = {}
        /\ campaign' = [campaign EXCEPT ![k].state = "closed"]
        /\ call' = [call EXCEPT ![c] =
              IF stagedRevokes(k) = {} THEN Idle
              ELSE [Idle EXCEPT !.pc = "revoke", !.k = {k}, !.todo = stagedRevokes(k)]]
        /\ cut' = cut \ ({k} \X Grants \X Causes)
        /\ UNCHANGED <<grant, item, share, decided, faults>>

(* ReviewService.CompleteCampaign revokes nothing.                         *)
CompleteCampaign(k) ==
    /\ IsReview(k)
    /\ campaign' = [campaign EXCEPT ![k].state = "closed"]
    /\ UNCHANGED <<grant, item, share, call, decided, cut, faults>>

(* Mutant: an error of the connector is swallowed.                         *)
MutRevokeSwallow(c) ==
    /\ Is(c, "revoke")
    /\ \E k \in call[c].k, g \in call[c].todo :
         /\ grant' \in {grant, [grant EXCEPT ![g] = "ended"]}
         /\ call' = [call EXCEPT ![c] =
               IF IsCertification(k) THEN [@ EXCEPT !.pc = "stamp", !.g = {g}] ELSE Idle]
    /\ UNCHANGED <<campaign, item, share, decided, cut, faults>>

(* One RevokeGrant of the teardown that follows the commit.  A certified   *)
(* revoke is then stamped, in a statement of its own.                      *)
RevokeGrant(c) ==
    /\ Is(c, "revoke")
    /\ \E k \in call[c].k, g \in call[c].todo :
         /\ grant' = [grant EXCEPT ![g] = "ended"]
         /\ call' = [call EXCEPT ![c] =
               IF IsCertification(k) THEN [@ EXCEPT !.pc = "stamp", !.g = {g}] ELSE Idle]
    /\ UNCHANGED <<campaign, item, share, decided, cut, faults>>

Stamp(c) ==
    /\ Is(c, "stamp")
    /\ \E k \in call[c].k, g \in call[c].g :
         /\ item' = [item EXCEPT ![k][g].stamped = TRUE]
         /\ call' = [call EXCEPT ![c] =
               IF @.todo = {g} THEN Idle
               ELSE [@ EXCEPT !.pc = "revoke", !.g = {}, !.todo = call[c].todo \ {g}]]
    /\ UNCHANGED <<grant, campaign, share, decided, cut, faults>>

(* A request ends where it is: its transaction rolls back, and what its    *)
(* teardown had still to revoke is left behind.                            *)
CutShort(c, cause) ==
    /\ ~Is(c, "idle")
    /\ cut' = cut \cup (IF call[c].pc \in {"revoke", "stamp"}
                       THEN call[c].k \X call[c].todo \X {cause} ELSE {})
    /\ share' = Released(c)
    /\ call' = [call EXCEPT ![c] = Idle]
    /\ UNCHANGED <<grant, campaign, item, decided>>

(* The connector refuses or times out, the stamp fails, or the process     *)
(* dies.                                                                   *)
Fault(c) ==
    /\ faults < MaxFaults
    /\ faults' = faults + 1
    /\ CutShort(c, "fault")

(* Mutant: the teardown of a close runs under the request's context.       *)
MutDetached(c) == FALSE

(* The teardown of a closed campaign is detached from the request that     *)
(* closed it.  The revoke of a review, like every transaction, is not.     *)
Detached(c) == call[c].pc \in {"revoke", "stamp"} /\ \A k \in call[c].k : IsCertification(k)

(* The client goes away, and with it the context of its request.           *)
Disconnect(c) ==
    /\ ~Detached(c)
    /\ CutShort(c, "client")
    /\ UNCHANGED faults

-----------------------------------------------------------------------------
(* The overdue sweep                                                       *)

Unstamped(k) == campaign[k].state = "running" /\ campaign[k].due /\ campaign[k].overdue = 0

EnforceOverdue(c) ==
    LET due == {k \in Campaigns : Unstamped(k)} IN
    /\ Is(c, "idle")
    /\ due # {}
    /\ call' = [call EXCEPT ![c] = [Idle EXCEPT !.pc = "count", !.todo = due]]
    /\ UNCHANGED <<grant, campaign, item, share, decided, cut, faults>>

OpenItems(k) == {g \in Grants : item[k][g].decision \in {"pending", "escalate"}}

NextOverdue(c, k) ==
    IF call[c].todo = {k} THEN Idle
    ELSE [Idle EXCEPT !.pc = "count", !.todo = call[c].todo \ {k}]

CountOpen(c) ==
    /\ Is(c, "count")
    /\ \E k \in call[c].todo :
         call' = [call EXCEPT ![c] =
             IF OpenItems(k) = {} THEN NextOverdue(c, k)
             ELSE [@ EXCEPT !.pc = "overdue", !.k = {k}]]
    /\ UNCHANGED <<grant, campaign, item, share, decided, cut, faults>>

(* Mutant: nothing is looked at again.                                     *)
MutStillUnstamped(k) == TRUE

(* What is looked at again under the row lock: the stamp, and not whether  *)
(* the campaign still runs or an item is still open.                       *)
StillUnstamped(k) == campaign[k].overdue = 0

StampOverdue(c) ==
    /\ Is(c, "overdue")
    /\ \E k \in call[c].k :
         /\ share[k] = {}
         /\ IF StillUnstamped(k)
            THEN campaign' = [campaign EXCEPT ![k].overdue = @ + 1]
            ELSE UNCHANGED campaign
         /\ call' = [call EXCEPT ![c] = NextOverdue(c, k)]
    /\ UNCHANGED <<grant, item, share, decided, cut, faults>>

-----------------------------------------------------------------------------

Progress(c) == Submit(c) \/ RevokeGrant(c) \/ Stamp(c) \/ CountOpen(c) \/ StampOverdue(c)

Next ==
    \/ \E g \in Grants : GrantEnds(g)
    \/ \E k \in Campaigns : StartCampaign(k) \/ DuePasses(k) \/ CompleteCampaign(k)
    \/ \E c \in Callers :
         SubmitShare(c) \/ SubmitRead(c) \/ CloseCampaign(c) \/ EnforceOverdue(c)
           \/ Progress(c) \/ Fault(c) \/ Disconnect(c)

Spec == Init /\ [][Next]_vars

(* A request that has begun comes to an end.  The detached teardown of a   *)
(* close has a deadline for every revoke, after which it fails (Fault).    *)
(* Any other call has its connector's time-out only, and else lasts until  *)
(* its client gives up: it takes its next step or is disconnected.         *)
FairSpec == Spec /\ \A c \in Callers : WF_vars(Progress(c) \/ Disconnect(c))

-----------------------------------------------------------------------------
(* Properties                                                              *)

(* The columns hold what they may.                                         *)
TypeOK ==
    /\ grant \in [Grants -> {"active", "ended"}]
    /\ \A k \in Campaigns :
         /\ campaign[k] \in [kind : {"none", "certification", "review"}, state : {"none", "running", "closed"},
                           due : BOOLEAN, overdue : Nat]
         /\ share[k] \subseteq {c \in Callers : Is(c, "decide") /\ call[c].k = {k}}
    /\ \A k \in Campaigns, g \in Grants :
         item[k][g] \in [decision : Decisions \cup {"none", "pending"}, stamped : BOOLEAN]
    /\ \A c \in Callers : call[c].pc \in {"idle", "decide", "revoke", "stamp", "count", "overdue"}

(* A terminal decision is final and on record once, whoever decides at the *)
(* same moment and whatever is retried: no torn down grant ends up marked  *)
(* certified (the terminal-decision guard of both SubmitDecisions).        *)
DecidedOnce ==
    \A k \in Campaigns, g \in Grants :
        decided[k][g] = IF item[k][g].decision \in Terminal THEN 1 ELSE 0

(* A stamped revoke is one whose grant is gone, so that a re-close passes  *)
(* over nothing that is still live (applyStagedRevoke's order).            *)
StampedIsGone ==
    \A k \in Campaigns, g \in Grants :
        item[k][g].stamped => item[k][g].decision = "revoke" /\ grant[g] # "active"

(* Two sweeps that have both found a campaign overdue stamp it and put it  *)
(* on record once between them (EnforceOverdue's look under the row lock). *)
OverdueOnce == \A k \in Campaigns : campaign[k].overdue <= 1

(* Closed means final: after a certification campaign is closed none of    *)
(* its decisions changes, so no revoke is staged that the close's snapshot *)
(* has missed (FOR SHARE against FOR UPDATE).                              *)
ClosedDecisionsFinal ==
    [][\A k \in Campaigns, g \in Grants :
          IsCertification(k) /\ campaign[k].state = "closed" =>
          item'[k][g].decision = item[k][g].decision]_vars

(* Revocations land: a revoke decided in a closed campaign is followed by  *)
(* the end of the grant, whether or not the client that closed it stays,   *)
(* unless a fault met its teardown and nobody closed again; in a review    *)
(* the client's leaving before the revoke is done is an exception too      *)
(* (CloseCampaign's detached loop, and SubmitDecision's last step).        *)
RevocationsLand ==
    \A k \in Campaigns, g \in Grants :
        (item[k][g].decision = "revoke" /\ (IsCertification(k) => campaign[k].state = "closed"))
            ~> \/ grant[g] # "active"
               \/ <<k, g, "fault">> \in cut
               \/ IsReview(k) /\ <<k, g, "client">> \in cut
=============================================================================

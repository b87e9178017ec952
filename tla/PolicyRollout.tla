---------------------------- MODULE PolicyRollout ----------------------------
(***************************************************************************)
(* Policy drafts, their simulation and their promotion                     *)
(* (lifecycle.PolicyService), the standing anomaly sweep                   *)
(* (lifecycle.AnomalyDetector) and the plain audit appenders, as           *)
(* transactions of one workspace that share its audit chain.               *)
(*                                                                         *)
(* Granularity.  A caller runs one transaction at a time.  Taking a lock,  *)
(* the statements under it, each audit append and the commit are separate  *)
(* actions; what a transaction wrote is in its buffer until it commits, so *)
(* that another one reads the committed rows only (READ COMMITTED).  The   *)
(* two locks are the workspace's advisory lock and the policy's row lock;  *)
(* both are held to the end of the transaction.                            *)
(***************************************************************************)
EXTENDS AuditChain

CONSTANTS
    Policies,
    Defs,      \* parsed definitions: [action, subjects, resources]
    Star,      \* the wildcard resource
    Anomalies, \* fingerprints of the standing violations that may be found
    Callers,   \* concurrent requests, sweeps and appenders
    MaxEvents  \* bound: rows of the audit chain

ASSUME RolloutAssumption ==
    /\ \A d \in Defs : /\ d.action \in {"grant", "deny"}
                       /\ d.subjects # {} /\ d.resources # {}
    /\ IsFiniteSet(Anomalies) /\ Anomalies # {}
    /\ MaxEvents \in Nat

VARIABLES
    policy,   \* the committed policy rows
    anomaly,  \* the committed access_anomalies, by fingerprint
    chain,    \* the committed audit rows, in commit order
    advisory, \* the holder of the workspace's advisory lock, as a set
    rowLock,  \* the holder of each policy's row lock, as a set
    tx        \* each caller's transaction

vars == <<policy, anomaly, chain, advisory, rowLock, tx>>

NoDef == [action |-> "none", subjects |-> {}, resources |-> {}]
NoImpact == NoDef
Nobody == {}

Missing == [state |-> "none", def |-> NoDef, impact |-> NoImpact]

Idle == [pc |-> "idle", op |-> "none", args |-> <<>>, row |-> {}, todo |-> <<>>,
         rows |-> <<>>, found |-> {}]

Init ==
    /\ policy = [p \in Policies |-> Missing]
    /\ anomaly = {}
    /\ chain = <<>>
    /\ advisory = Nobody
    /\ rowLock = [p \in Policies |-> Nobody]
    /\ tx = [c \in Callers |-> Idle]

-----------------------------------------------------------------------------
(* The conflict scan                                                       *)

(* A subject of both, and a resource of the other that is also this one's, *)
(* unless either side names the wildcard.                                  *)
Overlap(def, other) ==
    /\ def.subjects \cap other.subjects # {}
    /\ \E r \in other.resources : r \in def.resources \/ Star \in def.resources \/ r = Star

hardConflicts(p, def) ==
    {q \in Policies \ {p} : /\ policy[q].state = "active"
                            /\ Overlap(def, policy[q].def)
                            /\ policy[q].def.action # def.action}

-----------------------------------------------------------------------------
(* Transactions                                                            *)

(* What a caller asks for, and the step its transaction starts with.       *)
Begin(c, op, args, pc) ==
    /\ tx[c].pc = "idle"
    /\ tx' = [tx EXCEPT ![c] = [Idle EXCEPT !.pc = pc, !.op = op, !.args = args]]
    /\ UNCHANGED <<policy, anomaly, chain, advisory, rowLock>>

(* Mutants: the row is locked first and the advisory lock taken only by    *)
(* the audit append, for an edit and for a promotion.                      *)
MutBeginUpdate(c) ==
    \E p \in Policies, d \in Defs : Begin(c, "update", [p |-> p, def |-> d], "load")

BeginUpdate(c) ==
    \E p \in Policies, d \in Defs : Begin(c, "update", [p |-> p, def |-> d], "lock")

MutBeginPromote(c) ==
    \E p \in Policies, f \in BOOLEAN : Begin(c, "promote", [p |-> p, force |-> f], "load")

(* Forced without a reason is refused whenever it would have mattered, and *)
(* so counts as not forced.                                                *)
BeginPromote(c) ==
    \E p \in Policies, f \in BOOLEAN : Begin(c, "promote", [p |-> p, force |-> f], "lock")

BeginArchive(c) ==
    \E p \in Policies : Begin(c, "archive", [p |-> p], "lock")

(* A caller with no row of its own to write: AppendAudit.                  *)
BeginAppend(c) == Begin(c, "append", [p |-> "none"], "audit")

Locks(c) ==
    /\ advisory' = advisory \ {c}
    /\ rowLock' = [p \in Policies |-> rowLock[p] \ {c}]

(* The transaction ends with nothing written: a refusal, a no-op, a failed *)
(* statement, a lost connection or the caller's death.                     *)
Rollback(c) ==
    /\ tx' = [tx EXCEPT ![c] = Idle]
    /\ Locks(c)
    /\ UNCHANGED <<policy, anomaly, chain>>

lockWorkspace(c) ==
    /\ tx[c].pc = "lock"
    /\ advisory = Nobody
    /\ advisory' = {c}
    /\ tx' = [tx EXCEPT ![c].pc = IF tx[c].op = "detect" THEN "record" ELSE "load"]
    /\ UNCHANGED <<policy, anomaly, chain, rowLock>>

(* The row is locked, read and found fit; its new form and the event that  *)
(* records the change are in the transaction.                              *)
Write(c, p, row, events) ==
    /\ rowLock' = [rowLock EXCEPT ![p] = {c}]
    /\ tx' = [tx EXCEPT ![c].row = {row}, ![c].todo = events,
                        ![c].pc = IF events = <<>> THEN "commit" ELSE "audit"]
    /\ UNCHANGED <<policy, anomaly, chain, advisory>>

AuditEvent(action, target) == [action |-> action, target |-> target]

(* A new row is nobody else's to lock.                                     *)
CreatePolicyTx(c) ==
    \E p \in Policies, d \in Defs :
        /\ tx[c].pc = "idle"
        /\ policy[p].state = "none"
        /\ rowLock[p] = Nobody
        /\ rowLock' = [rowLock EXCEPT ![p] = {c}]
        /\ tx' = [tx EXCEPT ![c] =
                    [Idle EXCEPT !.pc = "audit", !.op = "create", !.args = [p |-> p],
                                 !.row = {[state |-> "draft", def |-> d, impact |-> NoImpact]},
                                 !.todo = <<AuditEvent("policy.created", p)>>]]
        /\ UNCHANGED <<policy, anomaly, chain, advisory>>

(* loadPolicyTx waits for the row lock; a policy not there yet has no row  *)
(* to wait for.                                                            *)
RowHolder(c) ==
    LET p == tx[c].args.p IN IF policy[p].state = "none" THEN Nobody ELSE rowLock[p]

Loaded(c, op) == tx[c].pc = "load" /\ tx[c].op = op /\ RowHolder(c) = Nobody

Editable(p) == policy[p].state = "draft"

UpdateDraft(c) ==
    /\ Loaded(c, "update")
    /\ LET p == tx[c].args.p IN
         IF Editable(p)
         THEN Write(c, p, [policy[p] EXCEPT !.def = tx[c].args.def, !.impact = NoImpact],
                    <<AuditEvent("policy.draft_updated", p)>>)
         ELSE Rollback(c)

(* What stands in the way of a draft: an overlapping live policy of the    *)
(* other kind, or a toxic combination in the grants (which the model does  *)
(* not hold, so it may be there or not).                                   *)
Blocked(p, toxic) == toxic \/ hardConflicts(p, policy[p].def) # {}

Promotable(p, force, toxic) ==
    /\ policy[p].state = "draft"
    /\ policy[p].impact # NoImpact
    /\ Blocked(p, toxic) => force

(* Promoting an active policy, too, ends with nothing written.             *)
Promote(c) ==
    /\ Loaded(c, "promote")
    /\ \E toxic \in BOOLEAN :
         LET p == tx[c].args.p IN
         IF Promotable(p, tx[c].args.force, toxic)
         THEN Write(c, p, [policy[p] EXCEPT !.state = "active", !.impact = NoImpact],
                    <<AuditEvent(IF Blocked(p, toxic) THEN "policy.promoted_with_override"
                                                 ELSE "policy.promoted", p)>>)
         ELSE Rollback(c)

Archive(c) ==
    /\ Loaded(c, "archive")
    /\ LET p == tx[c].args.p IN
         IF policy[p].state \in {"draft", "active"}
         THEN Write(c, p, [policy[p] EXCEPT !.state = "archived"],
                    <<AuditEvent("policy.archived", p)>>)
         ELSE Rollback(c)

(* Simulate reads the row without a lock, works out the impact, and starts *)
(* a transaction only to cache it on a draft.                              *)
SimulateRead(c) ==
    \E p \in Policies :
        /\ policy[p].state = "draft"
        /\ Begin(c, "simulate", [p |-> p, def |-> policy[p].def], "load")

(* Mutant: the impact is cached on whatever the draft has become.          *)
MutUnedited(c) == policy[tx[c].args.p].state = "draft"

Unedited(c) ==
    LET p == tx[c].args.p
    IN  policy[p].state = "draft" /\ policy[p].def = tx[c].args.def

SimulateCache(c) ==
    /\ Loaded(c, "simulate")
    /\ LET p == tx[c].args.p IN
         IF Unedited(c)
         THEN Write(c, p, [policy[p] EXCEPT !.impact = tx[c].args.def], <<>>)
         ELSE Rollback(c)

(* DetectAndRecord reads the violations before its transaction.            *)
DetectRead(c) ==
    \E found \in SUBSET Anomalies :
        /\ found # {}
        /\ Begin(c, "detect", [p |-> "none", found |-> found], "lock")

Fresh(c) == tx[c].args.found \ anomaly

(* The events recordOne appends for the findings s, one after the other.   *)
Recorded(s, i) ==
    IF i % 2 = 1 THEN AuditEvent("orphan.detected", s[(i + 1) \div 2])
    ELSE AuditEvent("orphan.disposition.flagged", s[i \div 2])

(* recordOne, for every violation without an anomaly yet: a row and two    *)
(* events for each, in some order.                                         *)
Evidence(c) ==
    LET n == Cardinality(Fresh(c))
        orders == {s \in [1 .. n -> Fresh(c)] : \A f \in Fresh(c) : \E i \in 1 .. n : s[i] = f}
    IN  {[i \in 1 .. 2 * n |-> Recorded(s, i)] : s \in orders}

(* Mutant: the anomaly rows are written outside the transaction.           *)
MutDetectRecord(c) ==
    /\ tx[c].pc = "record"
    /\ IF Fresh(c) = {} THEN Rollback(c)
       ELSE /\ \E events \in Evidence(c) :
                 tx' = [tx EXCEPT ![c].todo = events, ![c].pc = "audit"]
            /\ anomaly' = anomaly \cup Fresh(c)
            /\ UNCHANGED <<policy, chain, advisory, rowLock>>

DetectRecord(c) ==
    /\ tx[c].pc = "record"
    /\ IF Fresh(c) = {} THEN Rollback(c)
       ELSE /\ \E events \in Evidence(c) :
                 tx' = [tx EXCEPT ![c].found = Fresh(c), ![c].todo = events, ![c].pc = "audit"]
            /\ UNCHANGED <<policy, anomaly, chain, advisory, rowLock>>

(* Mutant: the append does not take the advisory lock.                     *)
MutMayAppend(c) == TRUE

(* appendAudit takes the advisory lock, a no-op for its holder, and links  *)
(* the row to the head it reads: committed rows and the transaction's own. *)
MayAppend(c) == advisory \subseteq {c}

Todo(c) == IF tx[c].op = "append" THEN <<AuditEvent("session.event", "none")>> ELSE tx[c].todo

appendAudit(c) ==
    /\ tx[c].pc = "audit"
    /\ MayAppend(c)
    /\ HeadOf(chain \o tx[c].rows).seq < MaxEvents
    /\ advisory' = advisory \cup {c}
    /\ tx' = [tx EXCEPT
          ![c].rows = Append(tx[c].rows, NextRow(chain \o tx[c].rows, Head(Todo(c)))),
          ![c].todo = Tail(Todo(c)),
          ![c].pc   = IF Len(Todo(c)) = 1 THEN "commit" ELSE "audit"]
    /\ UNCHANGED <<policy, anomaly, chain, rowLock>>

Commit(c) ==
    /\ tx[c].pc = "commit"
    /\ policy' = [p \in Policies |->
                    IF tx[c].row # {} /\ p = tx[c].args.p
                    THEN CHOOSE r \in tx[c].row : TRUE ELSE policy[p]]
    /\ anomaly' = anomaly \cup tx[c].found
    /\ chain' = chain \o tx[c].rows
    /\ tx' = [tx EXCEPT ![c] = Idle]
    /\ Locks(c)

(* Any statement of an open transaction may fail, the commit included.     *)
Abort(c) == tx[c].pc # "idle" /\ Rollback(c)

-----------------------------------------------------------------------------

Next ==
    \E c \in Callers :
         \/ BeginUpdate(c) \/ BeginPromote(c) \/ BeginArchive(c) \/ BeginAppend(c)
         \/ CreatePolicyTx(c) \/ SimulateRead(c) \/ DetectRead(c)
         \/ lockWorkspace(c) \/ UpdateDraft(c) \/ Promote(c) \/ Archive(c)
         \/ SimulateCache(c) \/ DetectRecord(c) \/ appendAudit(c) \/ Commit(c) \/ Abort(c)

Spec == Init /\ [][Next]_vars

-----------------------------------------------------------------------------
(* Properties                                                              *)

(* The rows hold what their columns may, and only an open transaction      *)
(* holds a lock.                                                           *)
TypeOK ==
    /\ \A p \in Policies :
         /\ policy[p].state \in {"none", "draft", "active", "archived"}
         /\ policy[p].def \in Defs \cup {NoDef}
         /\ policy[p].impact \in Defs \cup {NoImpact}
         /\ rowLock[p] \subseteq Callers /\ Cardinality(rowLock[p]) <= 1
    /\ anomaly \subseteq Anomalies
    /\ \A c \in Callers : tx[c].pc \in {"idle", "lock", "load", "record", "audit", "commit"}
    /\ \A c \in Callers : tx[c].pc = "idle" =>
         c \notin advisory /\ \A p \in Policies : c \notin rowLock[p]

Rows == {chain[i] : i \in DOMAIN chain}

(* However appenders interleave and fail, the full verification accepts    *)
(* the chain and so does the incremental one from every head a reader may  *)
(* ever have anchored on: an untouched chain is never reported tampered,   *)
(* an anchor never stale (audit.go's advisory lock is all there is: the    *)
(* table has no unique index on chain_seq).                                *)
VerifierNeverAlarms ==
    \A a \in Rows \cup {Start} :
        HeadVerdict(chain, a) = "scan" /\ ScanVerdict(chain, a) = "consistent"

Promotions(p) ==
    {r \in Rows : /\ r.event.target = p
                  /\ r.event.action \in {"policy.promoted", "policy.promoted_with_override"}}

(* Test before rollout: every live policy has exactly one promotion on     *)
(* record, and of two live policies that contradict each other the one     *)
(* promoted last was promoted over the operator's explicit override        *)
(* (Promote's re-scan under the workspace lock).                           *)
ConflictsOverridden ==
    \A p \in Policies : policy[p].state = "active" =>
        /\ Cardinality(Promotions(p)) = 1
        /\ \A q \in hardConflicts(p, policy[p].def) :
             \E r \in Promotions(p) \cup Promotions(q) :
                /\ \A s \in Promotions(p) \cup Promotions(q) : s.seq <= r.seq
                /\ r.event.action = "policy.promoted_with_override"

(* A cached impact is always that of the definition beside it, and a live  *)
(* policy carries none: a draft that was edited between a simulation's     *)
(* read and its write does not look simulated, unless it was edited back   *)
(* to the definition that was simulated (Simulate's guard).                *)
ImpactFresh ==
    \A p \in Policies :
        /\ policy[p].impact # NoImpact => policy[p].impact = policy[p].def
        /\ policy[p].state = "active" => policy[p].impact = NoImpact

(* Every anomaly is evidenced once, by a detection and a disposition, and  *)
(* nothing is evidenced without its row, whatever sweeps run side by side. *)
AnomalyEvidencedOnce ==
    \A f \in Anomalies : \A a \in {"orphan.detected", "orphan.disposition.flagged"} :
        Cardinality({r \in Rows : r.event = AuditEvent(a, f)}) = IF f \in anomaly THEN 1 ELSE 0

WaitsFor(c, d) ==
    /\ c # d
    /\ \/ tx[c].pc = "lock" /\ d \in advisory
       \/ tx[c].pc = "audit" /\ c \notin advisory /\ d \in advisory
       \/ tx[c].pc = "load" /\ d \in RowHolder(c)

(* No set of transactions waits for itself: Promote, UpdateDraft, Archive  *)
(* and the sweep take the advisory lock first, and Simulate never takes it *)
(* (the AB/BA deadlock the comments in policy_service.go rule out).        *)
NoLockCycle ==
    \A S \in SUBSET Callers : S # {} => \E c \in S : \A d \in S : ~WaitsFor(c, d)

(* The chain, read in chain order, is the append-only log of AuditLog: no  *)
(* commit rewrites, reorders or drops what an earlier one recorded.        *)
Events ==
    [action : {"policy.created", "policy.draft_updated", "policy.promoted",
               "policy.promoted_with_override", "policy.archived"}, target : Policies]
    \cup [action : {"orphan.detected", "orphan.disposition.flagged"}, target : Anomalies]
    \cup {AuditEvent("session.event", "none")}

Abstract == INSTANCE AuditLog WITH log <- EventsOf(chain), Recordable <- Events,
                                   MaxBatch <- 2 * Cardinality(Anomalies)

ImplementsLog == Abstract!Spec
=============================================================================

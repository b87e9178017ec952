--------------------------- MODULE PamAccessProofs ---------------------------
(***************************************************************************)
(* Proofs about PamAccess for any number of leases, tokens, connections,   *)
(* gateways and API processes, any durations and any bounds.               *)
(***************************************************************************)
EXTENDS PamAccess, TLAPS

-----------------------------------------------------------------------------
(* The two TTL resolvers stay within maxLeaseTTL.                          *)
LEMMA RequestTTLBounded ==
    ASSUME NEW req \in Nat
    PROVE  resolveRequestTTL(req) \in 0 .. MaxLeaseTTL
BY TimeAssumption DEF resolveRequestTTL, Least, FirstSet

LEMMA ApprovalTTLBounded ==
    ASSUME NEW override \in Nat, NEW ttl \in Nat
    PROVE  resolveApprovalTTL(override, ttl) \in 0 .. MaxLeaseTTL
BY TimeAssumption DEF resolveApprovalTTL, Least, FirstSet

(* An approval that changes a row is the first one.                        *)
LEMMA ApproveOnce ==
    ASSUME NEW row, ApproveGuard(row)
    PROVE  Created(row) /\ ~Granted(row) /\ ~Revoked(row)
BY DEF ApproveGuard, IsLive, IsTerminal, Status

(* Tuples of variables that an action leaves alone.                        *)
LEMMA Unfold ==
    /\ UNCHANGED leaseVars <=> lease' = lease /\ leaseAudit' = leaseAudit
    /\ UNCHANGED sessionVars <=> session' = session /\ endEvents' = endEvents
    /\ UNCHANGED connVars <=> conn' = conn /\ cancelled' = cancelled
    /\ UNCHANGED history <=> late' = late /\ abandoned' = abandoned
BY DEF leaseVars, sessionVars, connVars, history

-----------------------------------------------------------------------------
(* A validated connection holds a token; needed to type its redemption.    *)
HoldsToken == \A c \in Conns : conn[c].pc = "validated" => conn[c].tok \in Tokens

(* Type correctness.                                                       *)
LEMMA InitTypeOK == Init => TypeOK /\ HoldsToken
<1> SUFFICES ASSUME Init PROVE TypeOK /\ HoldsToken
  OBVIOUS
<1>1. NoRow \in LeaseRow
  BY TimeAssumption DEF NoRow, LeaseRow, Stamps
<1>2. IdleWorker \in Worker
  BY DEF IdleWorker, Worker
<1>3. [state |-> "none", lease |-> NoLease, exp |-> 0] \in TokenRow
  BY DEF TokenRow
<1>4. [state |-> "none", lease |-> NoLease, tok |-> NoToken] \in SessionRow
  BY DEF SessionRow
<1>5. [pc |-> "idle", tok |-> NoToken] \in Handler
  BY DEF Handler
<1>6. TypeOK
  BY <1>1, <1>2, <1>3, <1>4, <1>5, TimeAssumption DEF Init, TypeOK
<1>7. HoldsToken
  BY DEF Init, HoldsToken
<1>8. QED
  BY <1>6, <1>7

LEMMA LeaseStepType ==
    ASSUME TypeOK, NEW l \in Leases, LeaseStep(l)
    PROVE  TypeOK'
<1>1. ASSUME NEW d \in Durations, RequestLease(l, d) PROVE TypeOK'
  <2>1. resolveRequestTTL(d) \in 0 .. MaxLeaseTTL /\ 0 \in 0 .. (MaxTime + MaxLeaseTTL)
    BY RequestTTLBounded, TimeAssumption
  <2>2. [stamps |-> {"created"}, ttl |-> resolveRequestTTL(d), expires |-> 0] \in LeaseRow
    BY <2>1, Unfold DEF TypeOK, LeaseRow, Stamps
  <2>3. lease' \in [Leases -> LeaseRow]
    BY <1>1, <2>2, Unfold DEF TypeOK, RequestLease
  <2>4. leaseAudit' \in [Leases -> [LeaseEvents -> Nat]]
    BY <1>1, Unfold DEF TypeOK, RequestLease, Audited, LeaseEvents
  <2>5. QED
    BY <1>1, Unfold, <2>1, <2>2, <2>3, <2>4 DEF TypeOK, RequestLease
<1>2. ASSUME NEW d \in Durations, ApproveLease(l, d) PROVE TypeOK'
  <2>1. lease[l].ttl \in Nat
    BY DEF TypeOK, LeaseRow
  <2>2. resolveApprovalTTL(d, lease[l].ttl) \in 0 .. MaxLeaseTTL
    BY <2>1, ApprovalTTLBounded, TimeAssumption
  <2>3. clock + resolveApprovalTTL(d, lease[l].ttl) \in 0 .. (MaxTime + MaxLeaseTTL)
    BY <2>2, TimeAssumption DEF TypeOK
  <2>4. [lease[l] EXCEPT !.stamps = @ \cup {"granted"},
                       !.expires = clock + resolveApprovalTTL(d, lease[l].ttl)] \in LeaseRow
    BY <2>1, <2>2, <2>3, Unfold DEF TypeOK, LeaseRow, Stamps
  <2>5. lease' \in [Leases -> LeaseRow]
    BY <1>2, <2>4, Unfold DEF TypeOK, ApproveLease
  <2>6. leaseAudit' \in [Leases -> [LeaseEvents -> Nat]]
    BY <1>2, Unfold DEF TypeOK, ApproveLease, Audited, LeaseEvents
  <2>7. QED
    BY <1>2, Unfold, <2>1, <2>2, <2>3, <2>4, <2>5, <2>6 DEF TypeOK, ApproveLease
<1>3. ASSUME NEW w \in Apis, RevokeLease(w, l) PROVE TypeOK'
  <2>1. [lease[l] EXCEPT !.stamps = @ \cup {"revoked"}] \in LeaseRow
    BY Unfold DEF TypeOK, LeaseRow, Stamps
  <2>2. lease' \in [Leases -> LeaseRow]
    BY <1>3, <2>1, Unfold DEF TypeOK, RevokeLease, Workers
  <2>3. leaseAudit' \in [Leases -> [LeaseEvents -> Nat]]
    BY <1>3, Unfold DEF TypeOK, RevokeLease, Audited, LeaseEvents
  <2>4. [worker[w] EXCEPT !.pc = "scan", !.lease = l] \in Worker
    BY Unfold DEF TypeOK, Worker, Workers
  <2>5. worker' \in [Workers -> Worker]
    BY <1>3, <2>4, Unfold DEF TypeOK, RevokeLease, Workers
  <2>6. QED
    BY <1>3, Unfold, <2>1, <2>2, <2>3, <2>4, <2>5 DEF TypeOK, RevokeLease
<1>4. QED
  BY <1>1, <1>2, <1>3 DEF LeaseStep

LEMMA WorkerStepType ==
    ASSUME TypeOK, NEW w \in Workers, WorkerStep(w) \/ FaultStep(w)
    PROVE  TypeOK'
<1>1. CASE ExpireScan(w)
  <2>1. [worker[w] EXCEPT !.pc = "claim", !.due = DueLeases] \in Worker
    BY Unfold DEF TypeOK, Worker, DueLeases
  <2>2. worker' \in [Workers -> Worker]
    BY <1>1, <2>1, Unfold DEF TypeOK, ExpireScan
  <2>3. QED
    BY <1>1, Unfold, <2>1, <2>2 DEF TypeOK, ExpireScan
<1>2. ASSUME NEW l \in Leases, ExpireClaim(w, l) PROVE TypeOK'
  <2>1. CASE Claimable(lease[l])
    <3>1. [lease[l] EXCEPT !.stamps = @ \cup {"expired"}] \in LeaseRow
      BY DEF TypeOK, LeaseRow, Stamps
    <3>2. lease' \in [Leases -> LeaseRow]
      BY <1>2, <2>1, <3>1 DEF TypeOK, ExpireClaim
    <3>3. leaseAudit' \in [Leases -> [LeaseEvents -> Nat]]
      BY <1>2, <2>1 DEF TypeOK, ExpireClaim, Audited, LeaseEvents
    <3>4. [worker[w] EXCEPT !.pc = "scan", !.lease = l, !.due = @ \ {l}] \in Worker
      BY DEF TypeOK, Worker
    <3>5. worker' \in [Workers -> Worker]
      BY <1>2, <2>1, <3>4 DEF TypeOK, ExpireClaim
    <3>6. QED
      BY <1>2, <2>1, <3>2, <3>3, <3>5, Unfold DEF TypeOK, ExpireClaim
  <2>2. CASE ~Claimable(lease[l])
    <3>1. [worker[w] EXCEPT !.due = @ \ {l}] \in Worker
      BY DEF TypeOK, Worker
    <3>2. worker' \in [Workers -> Worker]
      BY <1>2, <2>2, <3>1 DEF TypeOK, ExpireClaim
    <3>3. QED
      BY <1>2, <2>2, <3>2, Unfold DEF TypeOK, ExpireClaim
  <2>3. QED
    BY <2>1, <2>2
<1>3. CASE ExpireDone(w)
  <2>1. [worker[w] EXCEPT !.pc = "idle"] \in Worker
    BY Unfold DEF TypeOK, Worker
  <2>2. worker' \in [Workers -> Worker]
    BY <1>3, <2>1, Unfold DEF TypeOK, ExpireDone
  <2>3. QED
    BY <1>3, Unfold, <2>1, <2>2 DEF TypeOK, ExpireDone
<1>4. CASE TerminateScan(w)
  <2>1. [worker[w] EXCEPT !.pc = "kill", !.victims = LeaseSessions(worker[w].lease)] \in Worker
    BY Unfold DEF TypeOK, Worker, LeaseSessions
  <2>2. worker' \in [Workers -> Worker]
    BY <1>4, <2>1, Unfold DEF TypeOK, TerminateScan
  <2>3. QED
    BY <1>4, Unfold, <2>1, <2>2 DEF TypeOK, TerminateScan
<1>5. ASSUME NEW c \in Conns, TerminateSever(w, c) PROVE TypeOK'
  <2>1. [worker[w] EXCEPT !.pc = "end", !.cur = {c}] \in Worker
    BY Unfold DEF TypeOK, Worker
  <2>2. worker' \in [Workers -> Worker]
    BY <1>5, <2>1, Unfold DEF TypeOK, TerminateSever
  <2>3. cancelled' \in SUBSET Conns
    BY <1>5, Unfold DEF TypeOK, TerminateSever
  <2>4. QED
    BY <1>5, Unfold, <2>1, <2>2, <2>3 DEF TypeOK, TerminateSever
<1>6. ASSUME NEW c \in Conns, TerminateEnd(w, c) PROVE TypeOK'
  <2>1. [worker[w] EXCEPT !.pc = "kill", !.cur = {}, !.victims = @ \ {c}] \in Worker
    BY Unfold DEF TypeOK, Worker
  <2>2. worker' \in [Workers -> Worker]
    BY <1>6, <2>1, Unfold DEF TypeOK, TerminateEnd
  <2>3. [session[c] EXCEPT !.state = "terminated"] \in SessionRow
    BY Unfold DEF TypeOK, SessionRow, Ended
  <2>4. session' \in [Conns -> SessionRow]
    BY <1>6, <2>3, Unfold DEF TypeOK, TerminateEnd, EndSession
  <2>5. endEvents' \in [Conns -> Nat]
    BY <1>6, Unfold DEF TypeOK, TerminateEnd, EndSession
  <2>6. QED
    BY <1>6, Unfold, <2>1, <2>2, <2>3, <2>4, <2>5 DEF TypeOK, TerminateEnd
<1>7. CASE TerminateDone(w)
  <2>1. [worker[w] EXCEPT !.pc = "claim", !.lease = NoLease] \in Worker
    BY Unfold DEF TypeOK, Worker
  <2>2. worker' \in [Workers -> Worker]
    BY <1>7, <2>1, Unfold DEF TypeOK, TerminateDone
  <2>3. QED
    BY <1>7, Unfold, <2>1, <2>2 DEF TypeOK, TerminateDone
<1>8. CASE Crash(w)
  <2>1. faults' \in 0 .. MaxFaults
    BY <1>8, TimeAssumption DEF TypeOK, Crash
  <2>2. IdleWorker \in Worker
    BY <2>1, Unfold DEF TypeOK, Worker, IdleWorker
  <2>3. worker' \in [Workers -> Worker]
    BY <1>8, <2>2, Unfold DEF TypeOK, Crash
  <2>4. Returned \in Handler
    BY <2>1, Unfold DEF TypeOK, Handler, Returned
  <2>5. conn' \in [Conns -> Handler]
    BY <1>8, <2>4, Unfold DEF TypeOK, Crash
  <2>6. cancelled' \in SUBSET Conns
    BY <1>8, Unfold DEF TypeOK, Crash
  <2>7. abandoned' \in SUBSET Conns
    BY <1>8, Unfold DEF TypeOK, Crash, TeardownLeft, LeaseSessions, Worker
  <2>8. QED
    BY <1>8, Unfold, <2>1, <2>2, <2>3, <2>4, <2>5, <2>6, <2>7 DEF TypeOK, Crash
<1>9. CASE TeardownError(w)
  <2>1. faults' \in 0 .. MaxFaults
    BY <1>9, TimeAssumption DEF TypeOK, TeardownError
  <2>2. [worker[w] EXCEPT !.pc = "kill", !.cur = {}, !.victims = @ \ worker[w].cur] \in Worker
    BY <2>1, Unfold DEF TypeOK, Worker
  <2>3. worker' \in [Workers -> Worker]
    BY <1>9, <2>2, Unfold DEF TypeOK, TeardownError
  <2>4. abandoned' \in SUBSET Conns
    BY <1>9, Unfold DEF TypeOK, TeardownError, TeardownLeft, LeaseSessions, Worker
  <2>5. QED
    BY <1>9, Unfold, <2>1, <2>2, <2>3, <2>4 DEF TypeOK, TeardownError
<1>10. CASE ClaimError(w)
  <2>1. faults' \in 0 .. MaxFaults
    BY <1>10, TimeAssumption DEF TypeOK, ClaimError
  <2>2. \A l : [worker[w] EXCEPT !.due = @ \ {l}] \in Worker
    BY DEF TypeOK, Worker
  <2>3. PICK l \in worker[w].due : worker' = [worker EXCEPT ![w].due = @ \ {l}]
    BY <1>10 DEF ClaimError
  <2>4. [worker[w] EXCEPT !.due = @ \ {l}] \in Worker
    BY <2>2
  <2>5. worker' \in [Workers -> Worker]
    BY <2>3, <2>4 DEF TypeOK
  <2>6. QED
    BY <1>10, Unfold, <2>1, <2>5 DEF TypeOK, ClaimError
<1>11. QED
  BY <1>1, <1>2, <1>3, <1>4, <1>5, <1>6, <1>7, <1>8, <1>9, <1>10 DEF WorkerStep, FaultStep

LEMMA TokenStepType ==
    ASSUME TypeOK, TokenStep
    PROVE  TypeOK'
<1>1. ASSUME NEW t \in Tokens, NEW l \in Leases \cup {NoLease}, NEW m \in BOOLEAN,
             MintConnectToken(t, l, m)
      PROVE  TypeOK'
  <2>1. ClampToLease(l) \in Nat
    BY TimeAssumption DEF TypeOK, LeaseRow, ClampToLease, TokenTTL, FirstSet, Least
  <2>2. [state |-> "pending", lease |-> l, exp |-> ClampToLease(l)] \in TokenRow
    BY <2>1, Unfold DEF TypeOK, TokenRow
  <2>3. token' \in [Tokens -> TokenRow]
    BY <1>1, <2>2, Unfold DEF TypeOK, MintConnectToken
  <2>4. QED
    BY <1>1, Unfold, <2>1, <2>2, <2>3 DEF TypeOK, MintConnectToken
<1>2. CASE SweepTokens
  <2>1. token' \in [Tokens -> TokenRow]
    BY <1>2 DEF TypeOK, SweepTokens, TokenRow
  <2>2. QED
    BY <1>2, <2>1, Unfold DEF TypeOK, SweepTokens
<1>3. QED
  BY <1>1, <1>2 DEF TokenStep

LEMMA ConnStepType ==
    ASSUME TypeOK, HoldsToken, NEW c \in Conns, ConnStep(c)
    PROVE  TypeOK'
<1>0. Returned \in Handler
  BY DEF Returned, Handler
<1>1. ASSUME NEW t \in Tokens, RedeemValidate(c, t) PROVE TypeOK'
  <2>1. [conn[c] EXCEPT !.pc = "validated", !.tok = t] \in Handler
    BY DEF TypeOK, Handler
  <2>2. conn' \in [Conns -> Handler]
    BY <1>0, <1>1, <2>1 DEF TypeOK, RedeemValidate
  <2>3. QED
    BY <1>1, <2>2, Unfold DEF TypeOK, RedeemValidate
<1>2. ASSUME NEW t \in Tokens, RedeemLapsed(c, t) PROVE TypeOK'
  <2>1. [conn[c] EXCEPT !.pc = "lapsed", !.tok = t] \in Handler
    BY Unfold DEF TypeOK, Handler
  <2>2. conn' \in [Conns -> Handler]
    BY <1>2, <2>1, Unfold DEF TypeOK, RedeemLapsed
  <2>3. QED
    BY <1>2, Unfold, <2>1, <2>2 DEF TypeOK, RedeemLapsed
<1>3. CASE RedeemCommit(c)
  <2>1. conn[c].tok \in Tokens
    BY <1>3 DEF RedeemCommit, HoldsToken
  <2>2. CASE StillPending(conn[c].tok)
    <3> DEFINE t == conn[c].tok
               l == token[t].lease
    <3>1. l \in Leases \cup {NoLease} /\ [token[t] EXCEPT !.state = "consumed"] \in TokenRow
      BY <2>1 DEF TypeOK, TokenRow
    <3>2. token' \in [Tokens -> TokenRow]
      BY <1>3, <2>1, <2>2, <3>1 DEF TypeOK, RedeemCommit
    <3>3. [state |-> "active", lease |-> l, tok |-> t] \in SessionRow
      BY <2>1, <3>1 DEF SessionRow
    <3>4. session' \in [Conns -> SessionRow]
      BY <1>3, <2>2, <3>3 DEF TypeOK, RedeemCommit
    <3>5. ASSUME l \in Leases
          PROVE  [lease[l] EXCEPT !.stamps = @ \cup {"activated"}] \in LeaseRow
      BY <3>5 DEF TypeOK, LeaseRow, Stamps
    <3>6. lease' \in [Leases -> LeaseRow]
      BY <1>3, <2>2, <3>1, <3>5 DEF TypeOK, RedeemCommit
    <3>7. [conn[c] EXCEPT !.pc = "opened", !.tok = NoToken] \in Handler
      BY DEF TypeOK, Handler
    <3>8. conn' \in [Conns -> Handler]
      BY <1>3, <2>2, <3>7 DEF TypeOK, RedeemCommit
    <3>9. late' \in SUBSET Conns
      BY <1>3, <2>2 DEF TypeOK, RedeemCommit
    <3>10. QED
      BY <1>3, <3>2, <3>4, <3>6, <3>8, <3>9 DEF TypeOK, RedeemCommit
  <2>3. CASE ~StillPending(conn[c].tok)
    <3>1. conn' \in [Conns -> Handler]
      BY <1>0, <1>3, <2>3 DEF TypeOK, RedeemCommit
    <3>2. QED
      BY <1>3, <2>3, <3>1 DEF TypeOK, RedeemCommit
  <2>4. QED
    BY <2>2, <2>3
<1>4. CASE RedeemRollback(c)
  <2>1. Returned \in Handler
    BY Unfold DEF TypeOK, Handler, Returned
  <2>2. conn' \in [Conns -> Handler]
    BY <1>4, <2>1, Unfold DEF TypeOK, RedeemRollback
  <2>3. QED
    BY <1>4, Unfold, <2>1, <2>2 DEF TypeOK, RedeemRollback
<1>5. CASE OrphanClose(c)
  <2>1. Returned \in Handler
    BY Unfold DEF TypeOK, Handler, Returned
  <2>2. conn' \in [Conns -> Handler]
    BY <1>5, <2>1, Unfold DEF TypeOK, OrphanClose
  <2>3. [session[c] EXCEPT !.state = "closed"] \in SessionRow
    BY Unfold DEF TypeOK, SessionRow, Ended
  <2>4. session' \in [Conns -> SessionRow]
    BY <1>5, <2>3, Unfold DEF TypeOK, OrphanClose, EndSession
  <2>5. endEvents' \in [Conns -> Nat]
    BY <1>5, Unfold DEF TypeOK, OrphanClose, EndSession
  <2>6. QED
    BY <1>5, Unfold, <2>1, <2>2, <2>3, <2>4, <2>5 DEF TypeOK, OrphanClose
<1>6. CASE Register(c)
  <2>1. [conn[c] EXCEPT !.pc = "proxying"] \in Handler
    BY Unfold DEF TypeOK, Handler
  <2>2. conn' \in [Conns -> Handler]
    BY <1>6, <2>1, Unfold DEF TypeOK, Register
  <2>3. QED
    BY <1>6, Unfold, <2>1, <2>2 DEF TypeOK, Register
<1>7. CASE StreamEnds(c)
  <2>1. [conn[c] EXCEPT !.pc = "closing"] \in Handler
    BY Unfold DEF TypeOK, Handler
  <2>2. conn' \in [Conns -> Handler]
    BY <1>7, <2>1, Unfold DEF TypeOK, StreamEnds
  <2>3. QED
    BY <1>7, Unfold, <2>1, <2>2 DEF TypeOK, StreamEnds
<1>8. CASE CloseSession(c)
  <2>1. [conn[c] EXCEPT !.pc = "closed"] \in Handler
    BY Unfold DEF TypeOK, Handler
  <2>2. conn' \in [Conns -> Handler]
    BY <1>8, <2>1, Unfold DEF TypeOK, CloseSession
  <2>3. [session[c] EXCEPT !.state = "closed"] \in SessionRow
    BY Unfold DEF TypeOK, SessionRow, Ended
  <2>4. session' \in [Conns -> SessionRow]
    BY <1>8, <2>3, Unfold DEF TypeOK, CloseSession, EndSession
  <2>5. endEvents' \in [Conns -> Nat]
    BY <1>8, Unfold DEF TypeOK, CloseSession, EndSession
  <2>6. QED
    BY <1>8, Unfold, <2>1, <2>2, <2>3, <2>4, <2>5 DEF TypeOK, CloseSession
<1>9. CASE Deregister(c)
  <2>1. Returned \in Handler
    BY Unfold DEF TypeOK, Handler, Returned
  <2>2. conn' \in [Conns -> Handler]
    BY <1>9, <2>1, Unfold DEF TypeOK, Deregister
  <2>3. cancelled' \in SUBSET Conns
    BY <1>9, Unfold DEF TypeOK, Deregister
  <2>4. QED
    BY <1>9, Unfold, <2>1, <2>2, <2>3 DEF TypeOK, Deregister
<1>10. CASE ReconcileOnce(c)
  <2>1. cancelled' \in SUBSET Conns
    BY <1>10, Unfold DEF TypeOK, ReconcileOnce
  <2>2. QED
    BY <1>10, Unfold, <2>1 DEF TypeOK, ReconcileOnce
<1>11. CASE AdminTerminate(c)
  <2>1. [session[c] EXCEPT !.state = "terminated"] \in SessionRow
    BY Unfold DEF TypeOK, SessionRow, Ended
  <2>2. session' \in [Conns -> SessionRow]
    BY <1>11, <2>1, Unfold DEF TypeOK, AdminTerminate, EndSession
  <2>3. endEvents' \in [Conns -> Nat]
    BY <1>11, Unfold DEF TypeOK, AdminTerminate, EndSession
  <2>4. QED
    BY <1>11, Unfold, <2>1, <2>2, <2>3 DEF TypeOK, AdminTerminate
<1>12. CASE CloseError(c)
  <2>1. faults' \in 0 .. MaxFaults
    BY <1>12, TimeAssumption DEF TypeOK, CloseError
  <2>2. [conn[c] EXCEPT !.pc = "closed"] \in Handler
    BY <2>1, Unfold DEF TypeOK, Handler
  <2>3. conn' \in [Conns -> Handler]
    BY <1>0, <1>12, <2>2, Unfold DEF TypeOK, CloseError
  <2>4. QED
    BY <1>12, Unfold, <2>1, <2>2, <2>3 DEF TypeOK, CloseError
<1>13. QED
  BY <1>1, <1>2, <1>3, <1>4, <1>5, <1>6, <1>7, <1>8, <1>9, <1>10, <1>11, <1>12 DEF ConnStep

-----------------------------------------------------------------------------
(* The steps that can change a connection handler, a session or a token:   *)
(* every other step leaves the three alone.                                *)
LEMMA AccessFrame ==
    ASSUME [Next]_vars
    PROVE  \/ UNCHANGED <<token, session, endEvents, conn>>
           \/ TokenStep
           \/ \E w \in Workers : Crash(w)
           \/ \E w \in Workers, c \in Conns : TerminateEnd(w, c)
           \/ \E c \in Conns : ConnStep(c)
<1>1. CASE UNCHANGED vars
  BY <1>1, Unfold DEF vars
<1>2. CASE Tick
  BY <1>2, Unfold DEF Tick
<1>3. ASSUME NEW l \in Leases, LeaseStep(l) PROVE UNCHANGED <<token, session, endEvents, conn>>
  BY <1>3, Unfold DEF LeaseStep, RequestLease, ApproveLease, RevokeLease
<1>4. ASSUME NEW w \in Workers, WorkerStep(w), ~ \E c \in Conns : TerminateEnd(w, c)
      PROVE  UNCHANGED <<token, session, endEvents, conn>>
  BY <1>4, Unfold DEF WorkerStep, ExpireScan, ExpireClaim, ExpireDone, TerminateScan,
                      TerminateSever, TerminateDone
<1>5. ASSUME NEW w \in Workers, TeardownError(w) \/ ClaimError(w)
      PROVE  UNCHANGED <<token, session, endEvents, conn>>
  BY <1>5, Unfold DEF TeardownError, ClaimError
<1>6. QED
  BY <1>1, <1>2, <1>3, <1>4, <1>5 DEF Next, FaultStep

(* The type invariant holds in every reachable state.                      *)
LEMMA HoldsTokenStep ==
    ASSUME TypeOK, HoldsToken, [Next]_vars
    PROVE  HoldsToken'
<1>1. CASE UNCHANGED <<token, session, endEvents, conn>>
  BY <1>1 DEF HoldsToken
<1>2. CASE TokenStep
  BY <1>2, Unfold DEF HoldsToken, TokenStep, MintConnectToken, SweepTokens
<1>3. ASSUME NEW w \in Workers, Crash(w) PROVE HoldsToken'
  BY <1>3 DEF TypeOK, HoldsToken, Crash, Returned
<1>4. ASSUME NEW w \in Workers, NEW c \in Conns, TerminateEnd(w, c) PROVE HoldsToken'
  BY <1>4, Unfold DEF HoldsToken, TerminateEnd
<1>5. ASSUME NEW c \in Conns, ConnStep(c) PROVE HoldsToken'
  <2>1. ASSUME NEW t \in Tokens, RedeemValidate(c, t) PROVE HoldsToken'
    BY <2>1 DEF TypeOK, Handler, HoldsToken, RedeemValidate, Returned
  <2>2. ASSUME NEW t \in Tokens, RedeemLapsed(c, t) PROVE HoldsToken'
    BY <2>2 DEF TypeOK, Handler, HoldsToken, RedeemLapsed
  <2>3. CASE RedeemCommit(c)
    BY <2>3 DEF TypeOK, Handler, HoldsToken, RedeemCommit, Returned
  <2>4. CASE RedeemRollback(c)
    BY <2>4 DEF TypeOK, Handler, HoldsToken, RedeemRollback, Returned
  <2>5. CASE OrphanClose(c)
    BY <2>5 DEF TypeOK, Handler, HoldsToken, OrphanClose, Returned
  <2>6. CASE Register(c)
    BY <2>6 DEF TypeOK, Handler, HoldsToken, Register
  <2>7. CASE StreamEnds(c)
    BY <2>7 DEF TypeOK, Handler, HoldsToken, StreamEnds
  <2>8. CASE CloseSession(c)
    BY <2>8 DEF TypeOK, Handler, HoldsToken, CloseSession
  <2>9. CASE Deregister(c)
    BY <2>9 DEF TypeOK, Handler, HoldsToken, Deregister, Returned
  <2>10. CASE CloseError(c)
    BY <2>10 DEF TypeOK, Handler, HoldsToken, CloseError, Returned
  <2>11. CASE ReconcileOnce(c) \/ AdminTerminate(c)
    BY <2>11, Unfold DEF HoldsToken, ReconcileOnce, AdminTerminate
  <2>12. QED
    BY <1>5, <2>1, <2>2, <2>3, <2>4, <2>5, <2>6, <2>7, <2>8, <2>9, <2>10, <2>11 DEF ConnStep
<1>6. QED
  BY <1>1, <1>2, <1>3, <1>4, <1>5, AccessFrame

LEMMA TypeStep ==
    ASSUME TypeOK, HoldsToken, [Next]_vars
    PROVE  TypeOK' /\ HoldsToken'
<1>1. ASSUME UNCHANGED vars PROVE TypeOK'
  BY <1>1, Unfold DEF TypeOK, vars
<1>2. ASSUME Tick PROVE TypeOK'
  <2>1. clock' \in 0 .. MaxTime
    BY <1>2, TimeAssumption DEF Tick, TypeOK
  <2>2. QED
    BY <1>2, <2>1, Unfold DEF TypeOK, Tick
<1>3. TypeOK'
  BY <1>1, <1>2, LeaseStepType, WorkerStepType, TokenStepType, ConnStepType DEF Next
<1>4. QED
  BY <1>3, HoldsTokenStep

(* Type correctness: among other things, no approval, whatever its         *)
(* override, opens a window longer than maxLeaseTTL.                       *)
THEOREM TypeCorrect == Spec => []TypeOK
<1>1. Init => TypeOK /\ HoldsToken
  BY InitTypeOK
<1>2. TypeOK /\ HoldsToken /\ [Next]_vars => (TypeOK /\ HoldsToken)'
  BY TypeStep
<1>3. QED
  BY <1>1, <1>2, PTL DEF Spec

-----------------------------------------------------------------------------
(* Replay safety and the single end event.                                 *)

(* A connection that has not committed a redemption has no session row,    *)
(* and a session row exists exactly when it names the token it came from.  *)
SessionFresh ==
    \A c \in Conns :
        /\ conn[c].pc \in {"idle", "validated", "lapsed"} => session[c].state = "none"
        /\ session[c].state = "none" <=> session[c].tok = NoToken

AccessInv == SessionFresh /\ OneSessionPerToken /\ OneEndEvent

(* Ending a session keeps its token and lease, and counts once.            *)
LEMMA EndSessionKeeps ==
    ASSUME TypeOK, AccessInv, NEW c \in Conns, NEW st \in Ended, EndSession(c, st)
    PROVE  /\ \A d \in Conns : /\ session'[d].tok = session[d].tok
                               /\ session'[d].lease = session[d].lease
                               /\ session'[d].state = "none" <=> session[d].state = "none"
                               /\ session'[d].state = "active" => session[d].state = "active"
           /\ session'[c].state # "active"
           /\ OneEndEvent'
<1>1. CASE session[c].state = "active"
  <2>1. session' = [session EXCEPT ![c].state = st] /\ endEvents' = [endEvents EXCEPT ![c] = @ + 1]
    BY <1>1 DEF EndSession
  <2>2. st # "none" /\ st # "active"
    BY DEF Ended
  <2>3. \A d \in Conns : /\ session'[d].tok = session[d].tok
                         /\ session'[d].lease = session[d].lease
                         /\ session'[d].state = (IF d = c THEN st ELSE session[d].state)
    BY <2>1 DEF TypeOK, SessionRow
  <2>4. \A d \in Conns : endEvents'[d] = (IF d = c THEN endEvents[c] + 1 ELSE endEvents[d])
    BY <2>1 DEF TypeOK
  <2>5. endEvents[c] = 0
    BY <1>1 DEF AccessInv, OneEndEvent, Ended
  <2>6. OneEndEvent'
    BY <2>3, <2>4, <2>5 DEF AccessInv, OneEndEvent
  <2>7. QED
    BY <1>1, <2>2, <2>3, <2>6
<1>2. CASE session[c].state # "active"
  BY <1>2, Unfold DEF EndSession, AccessInv, OneEndEvent
<1>3. QED
  BY <1>1, <1>2

(* Ending a session while its handler moves on or returns.                 *)
LEMMA EndSessionAccess ==
    ASSUME TypeOK, AccessInv, NEW c \in Conns, NEW st \in Ended, EndSession(c, st),
           token' = token,
           \A d \in Conns : conn'[d].pc \in {"idle", "validated", "lapsed"}
                               => conn[d].pc \in {"idle", "validated", "lapsed"}
    PROVE  AccessInv'
<1>1. SessionFresh'
  BY EndSessionKeeps DEF AccessInv, SessionFresh
<1>2. OneSessionPerToken'
  BY EndSessionKeeps DEF AccessInv, OneSessionPerToken
<1>3. QED
  BY <1>1, <1>2, EndSessionKeeps DEF AccessInv

(* A handler moving on without touching rows.                              *)
LEMMA HandlerAccess ==
    ASSUME AccessInv, UNCHANGED <<token, session, endEvents>>,
           \A d \in Conns : conn'[d].pc \in {"idle", "validated", "lapsed"}
                               => conn[d].pc \in {"idle", "validated", "lapsed"}
    PROVE  AccessInv'
BY DEF AccessInv, SessionFresh, OneSessionPerToken, OneEndEvent

(* The commit of a redemption: the token was pending, so no session names  *)
(* it yet, and this connection's row is new.                               *)
LEMMA RedeemCommitAccess ==
    ASSUME TypeOK, HoldsToken, AccessInv, NEW c \in Conns, RedeemCommit(c)
    PROVE  AccessInv'
<1> DEFINE t == conn[c].tok
<1>1. t \in Tokens
  BY DEF RedeemCommit, HoldsToken
<1>2. CASE StillPending(t)
  <2>1. /\ token' = [token EXCEPT ![t].state = "consumed"]
        /\ session' = [session EXCEPT ![c] = [state |-> "active", lease |-> token[t].lease, tok |-> t]]
        /\ conn' = [conn EXCEPT ![c].pc = "opened", ![c].tok = NoToken]
        /\ endEvents' = endEvents
    BY <1>2 DEF RedeemCommit
  <2>2. session[c].state = "none"
    BY DEF RedeemCommit, AccessInv, SessionFresh
  <2>3. \A d \in Conns : session[d].tok # t
    BY <1>1, <1>2 DEF StillPending, AccessInv, OneSessionPerToken
  <2>4. \A d \in Conns : session'[d] = IF d = c THEN [state |-> "active", lease |-> token[t].lease, tok |-> t]
                                               ELSE session[d]
    BY <2>1 DEF TypeOK
  <2>5. \A u \in Tokens : token'[u].state = IF u = t THEN "consumed" ELSE token[u].state
    BY <1>1, <2>1 DEF TypeOK, TokenRow
  <2>6. conn'[c].pc = "opened" /\ \A d \in Conns : d # c => conn'[d] = conn[d]
    BY <2>1 DEF TypeOK, Handler
  <2>7. t # NoToken
    BY <1>1, NamesAssumption
  <2>8. SessionFresh'
    BY <2>4, <2>6, <2>7 DEF AccessInv, SessionFresh
  <2>9. OneSessionPerToken'
    <3>1. \A d \in Conns : session'[d].tok = IF d = c THEN t ELSE session[d].tok
      BY <2>4
    <3>2. ASSUME NEW u \in Tokens
          PROVE  (token'[u].state = "consumed") <=> (\E d \in Conns : session'[d].tok = u)
      <4>1. CASE u = t
        BY <4>1, <2>5, <3>1
      <4>2. CASE u # t
        BY <4>2, <2>2, <2>5, <2>7, <3>1, NamesAssumption
           DEF AccessInv, OneSessionPerToken, SessionFresh
      <4>3. QED
        BY <4>1, <4>2
    <3>3. ASSUME NEW d \in Conns, NEW e \in Conns, session'[d].tok = session'[e].tok,
                 session'[d].tok # NoToken
          PROVE  d = e
      BY <2>3, <3>1, <3>3 DEF AccessInv, OneSessionPerToken
    <3>4. QED
      BY <3>2, <3>3 DEF OneSessionPerToken
  <2>10. OneEndEvent'
    BY <2>1, <2>2, <2>4 DEF AccessInv, OneEndEvent, Ended
  <2>11. QED
    BY <2>8, <2>9, <2>10 DEF AccessInv
<1>3. CASE ~StillPending(t)
  <2>1. conn' = [conn EXCEPT ![c] = Returned] /\ UNCHANGED <<token, session, endEvents>>
    BY <1>3 DEF RedeemCommit
  <2>2. QED
    BY <2>1, HandlerAccess DEF TypeOK, Returned
<1>4. QED
  BY <1>2, <1>3

LEMMA ConnStepAccess ==
    ASSUME TypeOK, HoldsToken, AccessInv, NEW c \in Conns, ConnStep(c)
    PROVE  AccessInv'
<1> DEFINE Early == {"idle", "validated", "lapsed"}
<1>1. ASSUME NEW t \in Tokens, RedeemValidate(c, t) PROVE AccessInv'
  <2>1. \A d \in Conns : conn'[d].pc \in Early => conn[d].pc \in Early
    BY <1>1 DEF TypeOK, Handler, RedeemValidate, Returned
  <2>2. QED
    BY <1>1, <2>1, HandlerAccess, Unfold DEF RedeemValidate
<1>2. ASSUME NEW t \in Tokens, RedeemLapsed(c, t) PROVE AccessInv'
  <2>1. \A d \in Conns : conn'[d].pc \in Early => conn[d].pc \in Early
    BY <1>2 DEF TypeOK, Handler, RedeemLapsed
  <2>2. QED
    BY <1>2, <2>1, HandlerAccess, Unfold DEF RedeemLapsed
<1>3. CASE RedeemCommit(c)
  BY <1>3, RedeemCommitAccess
<1>4. CASE RedeemRollback(c)
  <2>1. \A d \in Conns : conn'[d].pc \in Early => conn[d].pc \in Early
    BY <1>4 DEF TypeOK, Handler, RedeemRollback, Returned
  <2>2. QED
    BY <1>4, <2>1, HandlerAccess, Unfold DEF RedeemRollback
<1>5. CASE Register(c)
  <2>1. \A d \in Conns : conn'[d].pc \in Early => conn[d].pc \in Early
    BY <1>5 DEF TypeOK, Handler, Register
  <2>2. QED
    BY <1>5, <2>1, HandlerAccess, Unfold DEF Register
<1>6. CASE StreamEnds(c)
  <2>1. \A d \in Conns : conn'[d].pc \in Early => conn[d].pc \in Early
    BY <1>6 DEF TypeOK, Handler, StreamEnds
  <2>2. QED
    BY <1>6, <2>1, HandlerAccess, Unfold DEF StreamEnds
<1>7. CASE Deregister(c)
  <2>1. \A d \in Conns : conn'[d].pc \in Early => conn[d].pc \in Early
    BY <1>7 DEF TypeOK, Handler, Deregister, Returned
  <2>2. QED
    BY <1>7, <2>1, HandlerAccess, Unfold DEF Deregister
<1>8. CASE CloseError(c)
  <2>1. \A d \in Conns : conn'[d].pc \in Early => conn[d].pc \in Early
    BY <1>8 DEF TypeOK, Handler, CloseError, Returned
  <2>2. QED
    BY <1>8, <2>1, HandlerAccess, Unfold DEF CloseError
<1>9. CASE OrphanClose(c)
  <2>1. \A d \in Conns : conn'[d].pc \in Early => conn[d].pc \in Early
    BY <1>9 DEF TypeOK, Handler, OrphanClose, Returned
  <2>2. "closed" \in Ended /\ EndSession(c, "closed") /\ token' = token
    BY <1>9 DEF OrphanClose, Ended
  <2>3. QED
    BY <2>1, <2>2, EndSessionAccess
<1>10. CASE CloseSession(c)
  <2>1. \A d \in Conns : conn'[d].pc \in Early => conn[d].pc \in Early
    BY <1>10 DEF TypeOK, Handler, CloseSession
  <2>2. "closed" \in Ended /\ EndSession(c, "closed") /\ token' = token
    BY <1>10 DEF CloseSession, Ended
  <2>3. QED
    BY <2>1, <2>2, EndSessionAccess
<1>11. CASE AdminTerminate(c)
  <2>1. "terminated" \in Ended /\ EndSession(c, "terminated") /\ token' = token /\ conn' = conn
    BY <1>11, Unfold DEF AdminTerminate, Ended
  <2>2. QED
    BY <2>1, EndSessionAccess
<1>12. CASE ReconcileOnce(c)
  BY <1>12, HandlerAccess, Unfold DEF ReconcileOnce
<1>13. QED
  BY <1>1, <1>2, <1>3, <1>4, <1>5, <1>6, <1>7, <1>8, <1>9, <1>10, <1>11, <1>12 DEF ConnStep

LEMMA AccessStep ==
    ASSUME TypeOK, HoldsToken, AccessInv, [Next]_vars
    PROVE  AccessInv'
<1>1. CASE UNCHANGED <<token, session, endEvents, conn>>
  BY <1>1, HandlerAccess
<1>2. CASE TokenStep
  <2>1. \A t \in Tokens : token'[t].state = "consumed" <=> token[t].state = "consumed"
    <3>1. ASSUME NEW u \in Tokens, NEW l \in Leases \cup {NoLease}, NEW m \in BOOLEAN,
                 MintConnectToken(u, l, m), NEW t \in Tokens
          PROVE  token'[t].state = "consumed" <=> token[t].state = "consumed"
      BY <3>1 DEF TypeOK, TokenRow, MintConnectToken
    <3>2. ASSUME SweepTokens, NEW t \in Tokens
          PROVE  token'[t].state = "consumed" <=> token[t].state = "consumed"
      BY <3>2 DEF TypeOK, TokenRow, SweepTokens
    <3>3. QED
      BY <1>2, <3>1, <3>2 DEF TokenStep
  <2>2. UNCHANGED <<session, endEvents, conn>>
    BY <1>2, Unfold DEF TokenStep, MintConnectToken, SweepTokens
  <2>3. QED
    BY <2>1, <2>2 DEF AccessInv, SessionFresh, OneSessionPerToken, OneEndEvent
<1>3. ASSUME NEW w \in Workers, Crash(w) PROVE AccessInv'
  BY <1>3, HandlerAccess, Unfold DEF Crash, Returned
<1>4. ASSUME NEW w \in Workers, NEW c \in Conns, TerminateEnd(w, c) PROVE AccessInv'
  <2>1. "terminated" \in Ended /\ EndSession(c, "terminated") /\ token' = token /\ conn' = conn
    BY <1>4, Unfold DEF TerminateEnd, Ended
  <2>2. QED
    BY <2>1, EndSessionAccess
<1>5. QED
  BY <1>1, <1>2, <1>3, <1>4, AccessFrame, ConnStepAccess

LEMMA InitAccess == Init => AccessInv
<1> SUFFICES ASSUME Init PROVE AccessInv
  OBVIOUS
<1>1. SessionFresh
  BY DEF Init, SessionFresh
<1>2. OneSessionPerToken
  BY NamesAssumption DEF Init, OneSessionPerToken
<1>3. OneEndEvent
  BY DEF Init, OneEndEvent, Ended
<1>4. QED
  BY <1>1, <1>2, <1>3 DEF AccessInv

(* However many redemptions of the same token interleave, at most one      *)
(* opens a session, and it is the one that consumed the token.             *)
THEOREM ReplaySafe == Spec => []OneSessionPerToken
<1>1. Init => TypeOK /\ HoldsToken /\ AccessInv
  BY InitTypeOK, InitAccess
<1>2. TypeOK /\ HoldsToken /\ AccessInv /\ [Next]_vars => (TypeOK /\ HoldsToken /\ AccessInv)'
  BY TypeStep, AccessStep
<1>3. AccessInv => OneSessionPerToken
  BY DEF AccessInv
<1>4. QED
  BY <1>1, <1>2, <1>3, PTL DEF Spec

(* However closes, terminates and teardowns of a session race, it is       *)
(* audited as ended exactly once.                                          *)
THEOREM EndedOnce == Spec => []OneEndEvent
<1>1. Init => TypeOK /\ HoldsToken /\ AccessInv
  BY InitTypeOK, InitAccess
<1>2. TypeOK /\ HoldsToken /\ AccessInv /\ [Next]_vars => (TypeOK /\ HoldsToken /\ AccessInv)'
  BY TypeStep, AccessStep
<1>3. AccessInv => OneEndEvent
  BY DEF AccessInv
<1>4. QED
  BY <1>1, <1>2, <1>3, PTL DEF Spec

-----------------------------------------------------------------------------
(* Which sessions can outlive their lease.                                 *)

(* Worker w's teardown will still reach session c.                         *)
Reaches(w, c) == /\ worker[w].lease = session[c].lease
                 /\ \/ worker[w].pc = "scan"
                    \/ worker[w].pc \in {"kill", "end"} /\ c \in worker[w].victims

LEMMA PendingReaches ==
    /\ \A c \in Conns : TeardownPending(c) <=> \E w \in Workers : Reaches(w, c)
    /\ \A c \in Conns : TeardownPending(c)' <=> \E w \in Workers : Reaches(w, c)'
BY DEF TeardownPending, Reaches

(* A step that kills no lease and opens no session keeps OrphanCauses if   *)
(* every teardown that reached a still active session still reaches it,    *)
(* or has been recorded as abandoned.                                      *)
LEMMA OrphanKept ==
    ASSUME OrphanCauses, late \subseteq late', abandoned \subseteq abandoned',
           \A c \in Conns : session'[c].lease = session[c].lease
                            /\ (session'[c].state = "active" => session[c].state = "active"),
           \A c \in Conns : Dead(session[c].lease)' => Dead(session[c].lease),
           \A w \in Workers, c \in Conns :
               Reaches(w, c) /\ session'[c].state = "active"
                   => Reaches(w, c)' \/ c \in abandoned'
    PROVE  OrphanCauses'
<1> SUFFICES ASSUME NEW c \in Conns, session'[c].state = "active", Dead(session[c].lease)'
             PROVE  c \in late' \/ c \in abandoned' \/ TeardownPending(c)'
  BY DEF OrphanCauses
<1>1. session[c].state = "active" /\ Dead(session[c].lease)
  OBVIOUS
<1>2. c \in late \/ c \in abandoned \/ TeardownPending(c)
  BY <1>1 DEF OrphanCauses
<1>3. QED
  BY <1>2, PendingReaches

(* A step that leaves rows, workers and history alone.                     *)
LEMMA OrphanFrame ==
    ASSUME OrphanCauses, UNCHANGED <<lease, session, worker, late, abandoned>>
    PROVE  OrphanCauses'
BY DEF OrphanCauses, TeardownPending, Dead, Revoked, Swept

(* Killing lease l and starting its teardown in w, which reached nothing.  *)
LEMMA KillAndScan ==
    ASSUME TypeOK, OrphanCauses, NEW w \in Workers, NEW l \in Leases,
           worker[w].pc \notin {"scan", "kill", "end"},
           worker'[w].pc = "scan", worker'[w].lease = l,
           \A x \in Workers : x # w => worker'[x] = worker[x],
           \A k \in Leases : k # l => lease'[k] = lease[k],
           UNCHANGED <<session, late, abandoned>>
    PROVE  OrphanCauses'
<1> SUFFICES ASSUME NEW c \in Conns, session[c].state = "active", Dead(session[c].lease)'
             PROVE  c \in late \/ c \in abandoned \/ TeardownPending(c)'
  BY DEF OrphanCauses
<1>1. CASE session[c].lease = l
  <2>1. Reaches(w, c)'
    BY <1>1 DEF Reaches
  <2>2. QED
    BY <2>1, PendingReaches
<1>2. CASE session[c].lease # l
  <2>1. session[c].lease \in Leases \cup {NoLease}
    BY DEF TypeOK, SessionRow
  <2>2. Dead(session[c].lease)
    BY <1>2, <2>1 DEF Dead, Revoked, Swept
  <2>3. ASSUME NEW x \in Workers, Reaches(x, c) PROVE Reaches(x, c)'
    BY <2>3 DEF Reaches
  <2>4. QED
    BY <2>2, <2>3, PendingReaches DEF OrphanCauses
<1>3. QED
  BY <1>1, <1>2

LEMMA LeaseStepOrphan ==
    ASSUME TypeOK, OrphanCauses, NEW l \in Leases, LeaseStep(l)
    PROVE  OrphanCauses'
<1>1. ASSUME NEW d \in Durations, RequestLease(l, d) \/ ApproveLease(l, d) PROVE OrphanCauses'
  <2>1. UNCHANGED <<session, worker, late, abandoned>>
    BY <1>1, Unfold DEF RequestLease, ApproveLease
  <2>2. ASSUME NEW k \in Leases
        PROVE  /\ Revoked(lease'[k]) => Revoked(lease[k])
               /\ Swept(lease'[k]) => Swept(lease[k])
    <3>1. CASE RequestLease(l, d)
      BY <3>1 DEF TypeOK, LeaseRow, RequestLease, Revoked, Swept
    <3>2. CASE ApproveLease(l, d)
      BY <3>2 DEF TypeOK, LeaseRow, ApproveLease, Revoked, Swept
    <3>3. QED
      BY <1>1, <3>1, <3>2
  <2>3. \A c \in Conns : session[c].lease \in Leases \cup {NoLease}
    BY DEF TypeOK, SessionRow
  <2>4. \A c \in Conns : Dead(session[c].lease)' => Dead(session[c].lease)
    BY <2>1, <2>2, <2>3 DEF Dead
  <2>5. \A w \in Workers, c \in Conns : Reaches(w, c) => Reaches(w, c)'
    BY <2>1 DEF Reaches
  <2>6. QED
    BY <2>1, <2>4, <2>5, OrphanKept
<1>2. ASSUME NEW w \in Apis, RevokeLease(w, l) PROVE OrphanCauses'
  <2>1. w \in Workers
    BY DEF Workers
  <2>2. /\ worker'[w].pc = "scan" /\ worker'[w].lease = l
        /\ \A x \in Workers : x # w => worker'[x] = worker[x]
    BY <1>2, <2>1 DEF TypeOK, Worker, RevokeLease
  <2>3. \A k \in Leases : k # l => lease'[k] = lease[k]
    BY <1>2 DEF TypeOK, RevokeLease
  <2>4. worker[w].pc \notin {"scan", "kill", "end"} /\ UNCHANGED <<session, late, abandoned>>
    BY <1>2, Unfold DEF RevokeLease
  <2>5. QED
    BY <2>1, <2>2, <2>3, <2>4, KillAndScan
<1>3. QED
  BY <1>1, <1>2 DEF LeaseStep

(* A worker that moves while rows and history stay.                        *)
LEMMA WorkerMoves ==
    ASSUME OrphanCauses, NEW w \in Workers,
           UNCHANGED <<lease, session, late>>, abandoned \subseteq abandoned',
           \A x \in Workers : x # w => worker'[x] = worker[x],
           \A c \in Conns : Reaches(w, c) /\ session[c].state = "active"
                                => Reaches(w, c)' \/ c \in abandoned'
    PROVE  OrphanCauses'
<1>1. \A x \in Workers, c \in Conns : Reaches(x, c) /\ session'[c].state = "active"
          => Reaches(x, c)' \/ c \in abandoned'
  BY DEF Reaches
<1>2. \A c \in Conns : Dead(session[c].lease)' => Dead(session[c].lease)
  BY DEF Dead, Revoked, Swept
<1>3. QED
  BY <1>1, <1>2, OrphanKept

LEMMA WorkerStepOrphan ==
    ASSUME TypeOK, AccessInv, OrphanCauses, NEW w \in Workers, WorkerStep(w) \/ FaultStep(w)
    PROVE  OrphanCauses'
<1>0. worker[w] \in Worker /\ worker \in [Workers -> Worker]
  BY DEF TypeOK
<1>1. CASE ExpireScan(w)
  <2>1. \A x \in Workers : x # w => worker'[x] = worker[x]
    BY <1>0, <1>1 DEF ExpireScan
  <2>2. \A c \in Conns : Reaches(w, c) /\ session[c].state = "active" => Reaches(w, c)'
    BY <1>0, <1>1, Unfold DEF ExpireScan, Reaches, Worker
  <2>3. QED
    BY <1>1, <2>1, <2>2, Unfold, WorkerMoves DEF ExpireScan
<1>2. ASSUME NEW l \in Leases, ExpireClaim(w, l) PROVE OrphanCauses'
  <2>1. \A x \in Workers : x # w => worker'[x] = worker[x]
    BY <1>0, <1>2 DEF ExpireClaim
  <2>2. CASE Claimable(lease[l])
    <3>1. worker'[w].pc = "scan" /\ worker'[w].lease = l
      BY <1>0, <1>2, <2>2 DEF ExpireClaim, Worker
    <3>2. \A k \in Leases : k # l => lease'[k] = lease[k]
      BY <1>2, <2>2 DEF TypeOK, ExpireClaim
    <3>3. worker[w].pc \notin {"scan", "kill", "end"} /\ UNCHANGED <<session, late, abandoned>>
      BY <1>2, Unfold DEF ExpireClaim
    <3>4. QED
      BY <2>1, <3>1, <3>2, <3>3, KillAndScan
  <2>3. CASE ~Claimable(lease[l])
    <3>1. \A c \in Conns : ~Reaches(w, c)
      BY <1>2 DEF ExpireClaim, Reaches
    <3>2. UNCHANGED <<lease, session, late, abandoned>>
      BY <1>2, <2>3, Unfold DEF ExpireClaim
    <3>3. QED
      BY <2>1, <3>1, <3>2, WorkerMoves
  <2>4. QED
    BY <2>2, <2>3
<1>3. CASE ExpireDone(w)
  <2>1. \A x \in Workers : x # w => worker'[x] = worker[x]
    BY <1>0, <1>3 DEF ExpireDone
  <2>2. \A c \in Conns : Reaches(w, c) /\ session[c].state = "active" => Reaches(w, c)'
    BY <1>0, <1>3, Unfold DEF ExpireDone, Reaches, Worker
  <2>3. QED
    BY <1>3, <2>1, <2>2, Unfold, WorkerMoves DEF ExpireDone
<1>4. CASE TerminateScan(w)
  <2>1. \A x \in Workers : x # w => worker'[x] = worker[x]
    BY <1>0, <1>4 DEF TerminateScan
  <2>2. \A c \in Conns : Reaches(w, c) /\ session[c].state = "active" => Reaches(w, c)'
    BY <1>0, <1>4, Unfold DEF TerminateScan, Reaches, Worker, LeaseSessions
  <2>3. QED
    BY <1>4, <2>1, <2>2, Unfold, WorkerMoves DEF TerminateScan
<1>5. ASSUME NEW c \in Conns, TerminateSever(w, c) PROVE OrphanCauses'
  <2>1. \A x \in Workers : x # w => worker'[x] = worker[x]
    BY <1>0, <1>5 DEF TerminateSever
  <2>2. \A d \in Conns : Reaches(w, d) => Reaches(w, d)'
    BY <1>0, <1>5, Unfold DEF TerminateSever, Reaches, Worker
  <2>3. QED
    BY <1>5, <2>1, <2>2, Unfold, WorkerMoves DEF TerminateSever
<1>6. ASSUME NEW c \in Conns, TerminateEnd(w, c) PROVE OrphanCauses'
  <2>1. EndSession(c, "terminated") /\ "terminated" \in Ended
    BY <1>6 DEF TerminateEnd, Ended
  <2>2. /\ session'[c].state # "active"
        /\ \A d \in Conns : /\ session'[d].lease = session[d].lease
                            /\ session'[d].state = "active" => session[d].state = "active"
    BY <2>1, EndSessionKeeps
  <2>3. UNCHANGED <<lease, late, abandoned>>
    BY <1>6, Unfold DEF TerminateEnd
  <2>4. \A x \in Workers : x # w => worker'[x] = worker[x]
    BY <1>0, <1>6 DEF TerminateEnd
  <2>5. /\ worker'[w].lease = worker[w].lease /\ worker'[w].pc = "kill"
        /\ worker'[w].victims = worker[w].victims \ {c}
        /\ worker[w].pc = "end"
    BY <1>0, <1>6 DEF TerminateEnd, Worker
  <2>6. \A x \in Workers, d \in Conns : Reaches(x, d) /\ session'[d].state = "active"
            => Reaches(x, d)'
    BY <2>2, <2>4, <2>5 DEF Reaches
  <2>7. \A d \in Conns : Dead(session[d].lease)' => Dead(session[d].lease)
    BY <2>2, <2>3 DEF Dead, Revoked, Swept
  <2>8. QED
    BY <2>2, <2>3, <2>6, <2>7, OrphanKept
<1>7. CASE TerminateDone(w)
  <2>1. \A x \in Workers : x # w => worker'[x] = worker[x]
    BY <1>0, <1>7 DEF TerminateDone
  <2>2. \A c \in Conns : Reaches(w, c) /\ session[c].state = "active" => Reaches(w, c)'
    BY <1>0, <1>7, Unfold DEF TerminateDone, Reaches, Worker
  <2>3. QED
    BY <1>7, <2>1, <2>2, Unfold, WorkerMoves DEF TerminateDone
<1>8. CASE Crash(w)
  <2>1. \A x \in Workers : x # w => worker'[x] = worker[x]
    BY <1>0, <1>8 DEF Crash
  <2>2. \A c \in Conns : Reaches(w, c) /\ session[c].state = "active" => c \in abandoned'
    BY <1>8 DEF Crash, Reaches, TeardownLeft, LeaseSessions
  <2>3. UNCHANGED <<lease, session, late>> /\ abandoned \subseteq abandoned'
    BY <1>8, Unfold DEF Crash
  <2>4. QED
    BY <2>1, <2>2, <2>3, WorkerMoves
<1>9. CASE TeardownError(w)
  <2>1. \A x \in Workers : x # w => worker'[x] = worker[x]
    BY <1>0, <1>9 DEF TeardownError
  <2>2. ASSUME NEW c \in Conns, Reaches(w, c), session[c].state = "active"
        PROVE  Reaches(w, c)' \/ c \in abandoned'
    <3>1. CASE worker[w].pc = "scan"
      BY <1>9, <2>2, <3>1 DEF TeardownError, Reaches, TeardownLeft, LeaseSessions
    <3>2. CASE worker[w].pc = "end"
      <4>1. /\ worker'[w].pc = "kill" /\ worker'[w].lease = worker[w].lease
            /\ worker'[w].victims = worker[w].victims \ worker[w].cur
            /\ abandoned' = abandoned \cup worker[w].cur
        BY <1>0, <1>9, <3>2, Unfold DEF TeardownError, Worker
      <4>2. c \in worker[w].victims /\ UNCHANGED session
        BY <1>9, <2>2, <3>2, Unfold DEF Reaches, TeardownError
      <4>. QED  BY <2>2, <4>1, <4>2 DEF Reaches
    <3>. QED  BY <1>9, <3>1, <3>2 DEF TeardownError
  <2>3. UNCHANGED <<lease, session, late>> /\ abandoned \subseteq abandoned'
    BY <1>9, Unfold DEF TeardownError
  <2>4. QED
    BY <2>1, <2>2, <2>3, WorkerMoves
<1>10. CASE ClaimError(w)
  <2>1. \A x \in Workers : x # w => worker'[x] = worker[x]
    BY <1>0, <1>10 DEF ClaimError
  <2>2. \A c \in Conns : ~Reaches(w, c)
    BY <1>10 DEF ClaimError, Reaches
  <2>3. UNCHANGED <<lease, session, late, abandoned>>
    BY <1>10, Unfold DEF ClaimError
  <2>4. QED
    BY <2>1, <2>2, <2>3, WorkerMoves
<1>11. QED
  BY <1>1, <1>2, <1>3, <1>4, <1>5, <1>6, <1>7, <1>8, <1>9, <1>10 DEF WorkerStep, FaultStep

LEMMA ConnStepOrphan ==
    ASSUME TypeOK, HoldsToken, AccessInv, OrphanCauses, NEW c \in Conns, ConnStep(c)
    PROVE  OrphanCauses'
<1>1. ASSUME NEW st \in Ended, EndSession(c, st), UNCHANGED <<lease, worker, late, abandoned>>
      PROVE  OrphanCauses'
  <2>1. \A d \in Conns : /\ session'[d].lease = session[d].lease
                         /\ session'[d].state = "active" => session[d].state = "active"
    BY <1>1, EndSessionKeeps
  <2>2. \A x \in Workers, d \in Conns : Reaches(x, d) => Reaches(x, d)'
    BY <1>1, <2>1 DEF Reaches
  <2>3. \A d \in Conns : Dead(session[d].lease)' => Dead(session[d].lease)
    BY <1>1, <2>1 DEF Dead, Revoked, Swept
  <2>4. QED
    BY <1>1, <2>1, <2>2, <2>3, OrphanKept
<1>2. CASE OrphanClose(c) \/ CloseSession(c)
  BY <1>1, <1>2, Unfold DEF OrphanClose, CloseSession, Ended
<1>3. CASE AdminTerminate(c)
  BY <1>1, <1>3, Unfold DEF AdminTerminate, Ended
<1>4. ASSUME NEW t \in Tokens, RedeemValidate(c, t) \/ RedeemLapsed(c, t) PROVE OrphanCauses'
  BY <1>4, Unfold, OrphanFrame DEF RedeemValidate, RedeemLapsed
<1>5. CASE \/ RedeemRollback(c) \/ Register(c) \/ StreamEnds(c) \/ Deregister(c)
           \/ ReconcileOnce(c) \/ CloseError(c)
  BY <1>5, Unfold, OrphanFrame DEF RedeemRollback, Register, StreamEnds, Deregister,
                                   ReconcileOnce, CloseError
<1>6. CASE RedeemCommit(c)
  <2> DEFINE t == conn[c].tok
             l == token[t].lease
  <2>1. CASE ~StillPending(t)
    BY <1>6, <2>1, Unfold, OrphanFrame DEF RedeemCommit
  <2>2. CASE StillPending(t)
    <3>1. t \in Tokens /\ l \in Leases \cup {NoLease}
      BY <1>6 DEF RedeemCommit, HoldsToken, TypeOK, TokenRow
    <3>2. /\ session'[c].lease = l
          /\ \A d \in Conns : d # c => session'[d] = session[d]
      BY <1>6, <2>2 DEF RedeemCommit, TypeOK
    <3>3. /\ UNCHANGED <<worker, abandoned>>
          /\ late' = IF Dead(l) THEN late \cup {c} ELSE late
      BY <1>6, <2>2 DEF RedeemCommit
    <3>4. ASSUME NEW k \in Leases
          PROVE  (Revoked(lease'[k]) => Revoked(lease[k])) /\ (Swept(lease'[k]) => Swept(lease[k]))
      <4>1. lease' = lease \/ (l \in Leases /\ lease' = [lease EXCEPT ![l].stamps = @ \cup {"activated"}])
        BY <1>6, <2>2, <3>1 DEF RedeemCommit
      <4>2. lease'[k].stamps \subseteq lease[k].stamps \cup {"activated"}
        BY <4>1 DEF TypeOK, LeaseRow
      <4>3. QED
        BY <4>2 DEF Revoked, Swept
    <3>5. ASSUME NEW k \in Leases \cup {NoLease}
          PROVE  (k # NoLease /\ (Revoked(lease'[k]) \/ Swept(lease'[k]))) => Dead(k)
      BY <3>4 DEF Dead
    <3>6. SUFFICES ASSUME NEW d \in Conns, session'[d].state = "active",
                          Dead(session[d].lease)'
                   PROVE  \/ d \in late' \/ d \in abandoned'
                          \/ TeardownPending(d)'
      BY DEF OrphanCauses
    <3>7. session'[d].lease \in Leases \cup {NoLease}
      BY <3>1, <3>2 DEF TypeOK, SessionRow
    <3>8. Dead(session'[d].lease)
      BY <3>5, <3>6, <3>7 DEF Dead
    <3>9. CASE d = c
      BY <3>2, <3>3, <3>8, <3>9
    <3>10. CASE d # c
      <4>1. session'[d] = session[d]
        BY <3>2, <3>10
      <4>2. d \in late \/ d \in abandoned \/ TeardownPending(d)
        BY <3>6, <3>8, <4>1 DEF OrphanCauses
      <4>3. TeardownPending(d) => TeardownPending(d)'
        BY <3>3, <4>1 DEF TeardownPending
      <4>4. QED
        BY <3>3, <4>1, <4>2, <4>3
    <3>11. QED
      BY <3>9, <3>10
  <2>3. QED
    BY <2>1, <2>2
<1>7. QED
  BY <1>2, <1>3, <1>4, <1>5, <1>6 DEF ConnStep

LEMMA OrphanStep ==
    ASSUME TypeOK, HoldsToken, AccessInv, OrphanCauses, [Next]_vars
    PROVE  OrphanCauses'
<1>1. CASE UNCHANGED vars
  BY <1>1, Unfold, OrphanFrame DEF vars
<1>2. CASE Tick
  BY <1>2, Unfold, OrphanFrame DEF Tick
<1>3. CASE TokenStep
  BY <1>3, Unfold, OrphanFrame DEF TokenStep, MintConnectToken, SweepTokens
<1>4. QED
  BY <1>1, <1>2, <1>3, LeaseStepOrphan, WorkerStepOrphan, ConnStepOrphan DEF Next

(* The only ways a session outlives a revoked or swept lease are a         *)
(* redemption that committed after the lease died and a fault that cut     *)
(* its teardown short; every other session is ended or about to be.        *)
THEOREM OrphansExplained == Spec => []OrphanCauses
<1>1. Init => TypeOK /\ HoldsToken /\ AccessInv /\ OrphanCauses
  <2>1. Init => OrphanCauses
    BY DEF Init, OrphanCauses
  <2>2. QED
    BY <2>1, InitTypeOK, InitAccess
<1>2. TypeOK /\ HoldsToken /\ AccessInv /\ OrphanCauses /\ [Next]_vars
        => (TypeOK /\ HoldsToken /\ AccessInv /\ OrphanCauses)'
  BY TypeStep, AccessStep, OrphanStep
<1>3. QED
  BY <1>1, <1>2, PTL DEF Spec

-----------------------------------------------------------------------------
(* The lease rows: their audit trail, the window they grant, the tokens    *)
(* bound to them, and that they implement the state machine PamLeaseFSM.   *)

(* A lease's row exists before any other timestamp is stamped on it, and   *)
(* a sweep only holds leases that exist.                                   *)
RowShape == \A l \in Leases : ~Created(lease[l]) => lease[l].stamps = {}

DueCreated == \A w \in Workers : \A l \in worker[w].due : Created(lease[l])

(* Only a redemption activates a lease, and its token needs a grant.       *)
ActivatedGranted == \A l \in Leases : Activated(lease[l]) => Granted(lease[l])

LeaseInv == /\ RowShape
            /\ DueCreated
            /\ ActivatedGranted
            /\ AuditMatchesRows
            /\ TokenWithinLease

-----------------------------------------------------------------------------
(* What a step may do to the lease rows and their trails: request, approve,*)
(* revoke or sweep one of them, activate one, or nothing.                  *)
Stamped(l, e) == lease' = [lease EXCEPT ![l].stamps = @ \cup {e}]

LEMMA LeaseFrame ==
    ASSUME TypeOK, HoldsToken, [Next]_vars
    PROVE  \/ UNCHANGED <<lease, leaseAudit>>
           \/ \E l \in Leases, d \in Durations : RequestLease(l, d)
           \/ \E l \in Leases, d \in Durations : ApproveLease(l, d)
           \/ \E l \in Leases, w \in Workers : RevokeLease(w, l)
           \/ \E l \in Leases, w \in Workers : ExpireClaim(w, l) /\ Claimable(lease[l])
           \/ \E c \in Conns : /\ RedeemCommit(c)
                               /\ token[conn[c].tok].lease \in Leases
                               /\ Stamped(token[conn[c].tok].lease, "activated")
                               /\ leaseAudit' = leaseAudit
<1>1. CASE UNCHANGED vars
  BY <1>1, Unfold DEF vars
<1>2. CASE Tick
  BY <1>2, Unfold DEF Tick
<1>3. ASSUME NEW l \in Leases, LeaseStep(l)
      PROVE  \/ \E d \in Durations : RequestLease(l, d)
             \/ \E d \in Durations : ApproveLease(l, d)
             \/ \E w \in Workers : RevokeLease(w, l)
  BY <1>3 DEF LeaseStep, Workers
<1>4. ASSUME NEW w \in Workers, WorkerStep(w),
             ~ \E l \in Leases : ExpireClaim(w, l) /\ Claimable(lease[l])
      PROVE  UNCHANGED <<lease, leaseAudit>>
  BY <1>4, Unfold DEF WorkerStep, ExpireScan, ExpireClaim, ExpireDone, TerminateScan,
                      TerminateSever, TerminateEnd, TerminateDone
<1>5. ASSUME NEW w \in Workers, FaultStep(w) PROVE UNCHANGED <<lease, leaseAudit>>
  BY <1>5, Unfold DEF FaultStep, Crash, TeardownError, ClaimError
<1>6. CASE TokenStep
  BY <1>6, Unfold DEF TokenStep, MintConnectToken, SweepTokens
<1>7. ASSUME NEW c \in Conns, RedeemCommit(c)
      PROVE  \/ UNCHANGED <<lease, leaseAudit>>
             \/ /\ token[conn[c].tok].lease \in Leases
                /\ Stamped(token[conn[c].tok].lease, "activated")
                /\ leaseAudit' = leaseAudit
  <2>1. conn[c].tok \in Tokens
    BY <1>7 DEF RedeemCommit, HoldsToken
  <2>2. token[conn[c].tok].lease \in Leases \cup {NoLease}
    BY <2>1 DEF TypeOK, TokenRow
  <2>3. QED
    BY <1>7, <2>2 DEF RedeemCommit, Stamped
<1>8. ASSUME NEW c \in Conns, ConnStep(c), ~RedeemCommit(c) PROVE UNCHANGED <<lease, leaseAudit>>
  BY <1>8, Unfold DEF ConnStep, RedeemValidate, RedeemLapsed, RedeemRollback, OrphanClose,
                      Register, StreamEnds, CloseSession, Deregister, ReconcileOnce,
                      AdminTerminate, CloseError
<1>9. QED
  BY <1>1, <1>2, <1>3, <1>4, <1>5, <1>6, <1>7, <1>8 DEF Next

(* Stamping one timestamp leaves the other leases, the TTL and the window  *)
(* alone.                                                                  *)
LEMMA StampedRow ==
    ASSUME TypeOK, NEW l \in Leases, NEW e, Stamped(l, e)
    PROVE  \A k \in Leases :
               /\ k = l => /\ lease'[k].stamps = lease[k].stamps \cup {e}
                           /\ lease'[k].expires = lease[k].expires
               /\ k # l => lease'[k] = lease[k]
BY DEF TypeOK, LeaseRow, Stamped

LEMMA AuditedRow ==
    ASSUME TypeOK, NEW l \in Leases, NEW e \in LeaseEvents, leaseAudit' = Audited(l, e)
    PROVE  \A k \in Leases, f \in LeaseEvents :
               leaseAudit'[k][f] = IF k = l /\ f = e THEN leaseAudit[k][f] + 1
                                                     ELSE leaseAudit[k][f]
BY DEF TypeOK, Audited

(* Requesting a lease that has no row yet.                                 *)
LEMMA RequestedRow ==
    ASSUME TypeOK, NEW l \in Leases, NEW d \in Durations, RequestLease(l, d)
    PROVE  \A k \in Leases :
               /\ k = l => lease'[k].stamps = {"created"}
               /\ k # l => lease'[k] = lease[k]
BY DEF TypeOK, LeaseRow, RequestLease

LEMMA ApprovedRow ==
    ASSUME TypeOK, NEW l \in Leases, NEW d \in Durations, ApproveLease(l, d)
    PROVE  \A k \in Leases :
               /\ k = l => /\ lease'[k].stamps = lease[k].stamps \cup {"granted"}
                           /\ lease'[k].expires = clock + resolveApprovalTTL(d, lease[k].ttl)
               /\ k # l => lease'[k] = lease[k]
BY DEF TypeOK, LeaseRow, ApproveLease

(* Rows only gain timestamps, and a granted window stays where it is.      *)
LEMMA RowsGrow ==
    ASSUME TypeOK, HoldsToken, RowShape, [Next]_vars, NEW k \in Leases
    PROVE  /\ lease[k].stamps \subseteq lease'[k].stamps
           /\ Granted(lease[k]) => lease'[k].expires = lease[k].expires
<1>1. CASE UNCHANGED <<lease, leaseAudit>>
  BY <1>1
<1>2. ASSUME NEW l \in Leases, NEW d \in Durations, RequestLease(l, d)
      PROVE  /\ lease[k].stamps \subseteq lease'[k].stamps
             /\ Granted(lease[k]) => lease'[k].expires = lease[k].expires
  <2>1. ~Created(lease[l])
    BY <1>2 DEF RequestLease
  <2>2. lease[l].stamps = {} /\ ~Granted(lease[l])
    BY <2>1 DEF RowShape, Granted
  <2>3. QED
    BY <1>2, <2>2, RequestedRow
<1>3. ASSUME NEW l \in Leases, NEW d \in Durations, ApproveLease(l, d)
      PROVE  /\ lease[k].stamps \subseteq lease'[k].stamps
             /\ Granted(lease[k]) => lease'[k].expires = lease[k].expires
  <2>1. ~Granted(lease[l])
    BY <1>3, ApproveOnce DEF ApproveLease
  <2>2. QED
    BY <1>3, <2>1, ApprovedRow
<1>4. ASSUME NEW l \in Leases, NEW e, Stamped(l, e)
      PROVE  /\ lease[k].stamps \subseteq lease'[k].stamps
             /\ Granted(lease[k]) => lease'[k].expires = lease[k].expires
  BY <1>4, StampedRow
<1>5. ASSUME NEW l \in Leases, NEW w \in Workers, RevokeLease(w, l)
      PROVE  Stamped(l, "revoked")
  BY <1>5 DEF RevokeLease, Stamped
<1>6. ASSUME NEW l \in Leases, NEW w \in Workers, ExpireClaim(w, l), Claimable(lease[l])
      PROVE  Stamped(l, "expired")
  BY <1>6 DEF ExpireClaim, Stamped
<1>7. QED
  BY <1>1, <1>2, <1>3, <1>4, <1>5, <1>6, LeaseFrame

-----------------------------------------------------------------------------
(* The parts of LeaseInv, one lemma each.                                  *)

LEMMA RowShapeStep ==
    ASSUME TypeOK, HoldsToken, LeaseInv, [Next]_vars
    PROVE  RowShape'
<1> SUFFICES ASSUME NEW k \in Leases, ~Created(lease'[k]) PROVE lease'[k].stamps = {}
  BY DEF RowShape, Created
<1>0. RowShape
  BY DEF LeaseInv
<1>1. ~Created(lease[k])
  BY <1>0, RowsGrow DEF Created
<1>2. lease[k].stamps = {}
  BY <1>0, <1>1 DEF RowShape
<1>3. CASE UNCHANGED <<lease, leaseAudit>>
  BY <1>2, <1>3
<1>4. ASSUME NEW l \in Leases, NEW d \in Durations, RequestLease(l, d) PROVE lease'[k].stamps = {}
  BY <1>2, <1>4, RequestedRow DEF Created
<1>5. ASSUME NEW l \in Leases, NEW d \in Durations, ApproveLease(l, d) PROVE lease'[k].stamps = {}
  <2>1. Created(lease[l])
    BY <1>5, ApproveOnce DEF ApproveLease
  <2>2. QED
    BY <1>1, <1>2, <1>5, <2>1, ApprovedRow
<1>6. ASSUME NEW l \in Leases, NEW e, Stamped(l, e), Created(lease[l]) PROVE lease'[k].stamps = {}
  BY <1>1, <1>2, <1>6, StampedRow
<1>7. ASSUME NEW l \in Leases, NEW w \in Workers, RevokeLease(w, l)
      PROVE  Stamped(l, "revoked") /\ Created(lease[l])
  BY <1>7 DEF RevokeLease, Stamped
<1>8. ASSUME NEW l \in Leases, NEW w \in Workers, ExpireClaim(w, l), Claimable(lease[l])
      PROVE  Stamped(l, "expired") /\ Created(lease[l])
  BY <1>8 DEF ExpireClaim, Stamped, LeaseInv, DueCreated
<1>9. ASSUME NEW c \in Conns, RedeemCommit(c), token[conn[c].tok].lease \in Leases
      PROVE  Created(lease[token[conn[c].tok].lease])
  <2>1. conn[c].tok \in Tokens
    BY <1>9 DEF RedeemCommit, HoldsToken
  <2>2. Granted(lease[token[conn[c].tok].lease])
    BY <1>9, <2>1, NamesAssumption DEF LeaseInv, TokenWithinLease
  <2>3. QED
    BY <1>0, <1>9, <2>2 DEF RowShape, Granted
<1>10. QED
  BY <1>3, <1>4, <1>5, <1>6, <1>7, <1>8, <1>9, LeaseFrame

LEMMA ActivatedStep ==
    ASSUME TypeOK, HoldsToken, LeaseInv, [Next]_vars
    PROVE  ActivatedGranted'
<1> SUFFICES ASSUME NEW k \in Leases PROVE Activated(lease'[k]) => Granted(lease'[k])
  BY DEF ActivatedGranted, Activated, Granted
<1>0. RowShape /\ (Activated(lease[k]) => Granted(lease[k]))
  BY DEF LeaseInv, ActivatedGranted
<1> USE DEF Activated, Granted
<1>1. CASE UNCHANGED <<lease, leaseAudit>>
  BY <1>0, <1>1
<1>2. ASSUME NEW l \in Leases, NEW d \in Durations, RequestLease(l, d)
      PROVE  Activated(lease'[k]) => Granted(lease'[k])
  BY <1>0, <1>2, RequestedRow
<1>3. ASSUME NEW l \in Leases, NEW d \in Durations, ApproveLease(l, d)
      PROVE  Activated(lease'[k]) => Granted(lease'[k])
  BY <1>0, <1>3, ApprovedRow
<1>4. ASSUME NEW l \in Leases, NEW w \in Workers, RevokeLease(w, l)
      PROVE  Activated(lease'[k]) => Granted(lease'[k])
  <2>1. Stamped(l, "revoked")
    BY <1>4 DEF RevokeLease, Stamped
  <2>2. QED
    BY <1>0, <2>1, StampedRow
<1>5. ASSUME NEW l \in Leases, NEW w \in Workers, ExpireClaim(w, l), Claimable(lease[l])
      PROVE  Activated(lease'[k]) => Granted(lease'[k])
  <2>1. Stamped(l, "expired")
    BY <1>5 DEF ExpireClaim, Stamped
  <2>2. QED
    BY <1>0, <2>1, StampedRow
<1>6. ASSUME NEW c \in Conns, RedeemCommit(c), token[conn[c].tok].lease \in Leases,
             Stamped(token[conn[c].tok].lease, "activated")
      PROVE  Activated(lease'[k]) => Granted(lease'[k])
  <2>1. conn[c].tok \in Tokens
    BY <1>6 DEF RedeemCommit, HoldsToken
  <2>2. "granted" \in lease[token[conn[c].tok].lease].stamps
    BY <1>6, <2>1, NamesAssumption DEF LeaseInv, TokenWithinLease
  <2>3. QED
    BY <1>0, <1>6, <2>2, StampedRow
<1>7. QED
  BY <1>1, <1>2, <1>3, <1>4, <1>5, <1>6, LeaseFrame

(* A sweep's batch only shrinks, or is refilled by a new scan.             *)
LEMMA DueFrame ==
    ASSUME TypeOK, [Next]_vars, NEW w \in Workers
    PROVE  worker'[w].due \subseteq worker[w].due \cup DueLeases
<1>0. worker \in [Workers -> Worker]
  BY DEF TypeOK
<1>1. CASE UNCHANGED vars
  BY <1>1 DEF vars
<1>2. CASE Tick
  BY <1>2 DEF Tick
<1>3. ASSUME NEW l \in Leases, LeaseStep(l) PROVE worker'[w].due = worker[w].due
  <2>1. ASSUME NEW d \in Durations, RequestLease(l, d) \/ ApproveLease(l, d)
        PROVE  worker'[w].due = worker[w].due
    BY <2>1 DEF RequestLease, ApproveLease
  <2>2. ASSUME NEW x \in Apis, RevokeLease(x, l) PROVE worker'[w].due = worker[w].due
    BY <1>0, <2>2 DEF RevokeLease, Worker
  <2>3. QED
    BY <1>3, <2>1, <2>2 DEF LeaseStep
<1>4. ASSUME NEW x \in Workers, WorkerStep(x)
      PROVE  worker'[w].due \subseteq worker[w].due \cup DueLeases
  <2>1. CASE ExpireScan(x)
    BY <2>1 DEF ExpireScan, TypeOK, Worker
  <2>2. ASSUME NEW l \in Leases, ExpireClaim(x, l) PROVE worker'[w].due \subseteq worker[w].due
    BY <2>2 DEF ExpireClaim, TypeOK, Worker
  <2>3. CASE ExpireDone(x)
    BY <1>0, <2>3 DEF ExpireDone, Worker
  <2>4. CASE TerminateScan(x)
    BY <1>0, <2>4 DEF TerminateScan, Worker
  <2>5. CASE TerminateDone(x)
    BY <1>0, <2>5 DEF TerminateDone, Worker
  <2>6. ASSUME NEW c \in Conns, TerminateSever(x, c) PROVE worker'[w].due = worker[w].due
    BY <1>0, <2>6 DEF TerminateSever, Worker
  <2>7. ASSUME NEW c \in Conns, TerminateEnd(x, c) PROVE worker'[w].due = worker[w].due
    BY <1>0, <2>7 DEF TerminateEnd, Worker
  <2>8. QED
    BY <1>4, <2>1, <2>2, <2>3, <2>4, <2>5, <2>6, <2>7 DEF WorkerStep
<1>5. ASSUME NEW x \in Workers, FaultStep(x) PROVE worker'[w].due \subseteq worker[w].due
  <2>1. CASE Crash(x)
    BY <1>0, <2>1 DEF Crash, IdleWorker, Worker
  <2>2. CASE TeardownError(x)
    BY <1>0, <2>2 DEF TeardownError, Worker
  <2>3. CASE ClaimError(x)
    BY <1>0, <2>3 DEF ClaimError, Worker
  <2>4. QED
    BY <1>5, <2>1, <2>2, <2>3 DEF FaultStep
<1>6. CASE TokenStep
  BY <1>6 DEF TokenStep, MintConnectToken, SweepTokens
<1>7. ASSUME NEW c \in Conns, ConnStep(c) PROVE worker' = worker
  BY <1>7 DEF ConnStep, RedeemValidate, RedeemLapsed, RedeemCommit, RedeemRollback, OrphanClose,
              Register, StreamEnds, CloseSession, Deregister, ReconcileOnce, AdminTerminate,
              CloseError
<1>8. QED
  BY <1>1, <1>2, <1>3, <1>4, <1>5, <1>6, <1>7 DEF Next

LEMMA DueCreatedStep ==
    ASSUME TypeOK, HoldsToken, LeaseInv, [Next]_vars
    PROVE  DueCreated'
<1> SUFFICES ASSUME NEW w \in Workers, NEW l \in worker'[w].due PROVE Created(lease'[l])
  BY DEF DueCreated, Created
<1>1. l \in worker[w].due \cup DueLeases
  BY DueFrame
<1>2. l \in Leases
  BY <1>1 DEF TypeOK, Worker, DueLeases
<1>3. Created(lease[l])
  BY <1>1, <1>2 DEF LeaseInv, DueCreated, DueLeases, RowShape, Granted
<1>4. QED
  BY <1>2, <1>3, RowsGrow DEF LeaseInv, Created

LEMMA AuditStep ==
    ASSUME TypeOK, HoldsToken, LeaseInv, [Next]_vars
    PROVE  AuditMatchesRows'
<1> USE DEF Created, Granted, Revoked, Swept
<1>0. RowShape /\ AuditMatchesRows
  BY DEF LeaseInv
<1>1. CASE UNCHANGED <<lease, leaseAudit>>
  BY <1>0, <1>1 DEF AuditMatchesRows
<1>2. ASSUME NEW l \in Leases, NEW d \in Durations, RequestLease(l, d) PROVE AuditMatchesRows'
  <2>1. leaseAudit' = Audited(l, "requested") /\ lease[l].stamps = {}
    BY <1>0, <1>2 DEF RequestLease, RowShape
  <2>2. QED
    BY <1>0, <1>2, <2>1, RequestedRow, AuditedRow DEF AuditMatchesRows, LeaseEvents
<1>3. ASSUME NEW l \in Leases, NEW d \in Durations, ApproveLease(l, d) PROVE AuditMatchesRows'
  <2>1. leaseAudit' = Audited(l, "approved") /\ "granted" \notin lease[l].stamps
    BY <1>3, ApproveOnce DEF ApproveLease
  <2>2. QED
    BY <1>0, <1>3, <2>1, ApprovedRow, AuditedRow DEF AuditMatchesRows, LeaseEvents
<1>4. ASSUME NEW l \in Leases, NEW w \in Workers, RevokeLease(w, l) PROVE AuditMatchesRows'
  <2>1. /\ leaseAudit' = Audited(l, "revoked")
        /\ Stamped(l, "revoked")
        /\ "revoked" \notin lease[l].stamps
    BY <1>4 DEF RevokeLease, Stamped
  <2>2. \A k \in Leases :
            /\ k = l => lease'[k].stamps = lease[k].stamps \cup {"revoked"}
            /\ k # l => lease'[k] = lease[k]
    BY <2>1, StampedRow
  <2>3. QED
    BY <1>0, <2>1, <2>2, AuditedRow DEF AuditMatchesRows, LeaseEvents
<1>5. ASSUME NEW l \in Leases, NEW w \in Workers, ExpireClaim(w, l), Claimable(lease[l])
      PROVE  AuditMatchesRows'
  <2>1. /\ leaseAudit' = Audited(l, "expired")
        /\ Stamped(l, "expired")
        /\ "expired" \notin lease[l].stamps
    BY <1>5 DEF ExpireClaim, Claimable, Stamped
  <2>2. \A k \in Leases :
            /\ k = l => lease'[k].stamps = lease[k].stamps \cup {"expired"}
            /\ k # l => lease'[k] = lease[k]
    BY <2>1, StampedRow
  <2>3. QED
    BY <1>0, <2>1, <2>2, AuditedRow DEF AuditMatchesRows, LeaseEvents
<1>6. ASSUME NEW l \in Leases, Stamped(l, "activated"), leaseAudit' = leaseAudit
      PROVE  AuditMatchesRows'
  <2>1. \A k \in Leases :
            /\ k = l => lease'[k].stamps = lease[k].stamps \cup {"activated"}
            /\ k # l => lease'[k] = lease[k]
    BY <1>6, StampedRow
  <2>2. QED
    BY <1>0, <1>6, <2>1 DEF AuditMatchesRows
<1>7. QED
  BY <1>1, <1>2, <1>3, <1>4, <1>5, <1>6, LeaseFrame

(* A token row keeps its lease and expiry, except the one just minted,     *)
(* which the clamp keeps within its live lease.                            *)
Bounded(row) == row.lease # NoLease => /\ Granted(lease[row.lease])
                                       /\ row.exp <= lease[row.lease].expires

LEMMA TokenFrame ==
    ASSUME TypeOK, HoldsToken, [Next]_vars, NEW t \in Tokens
    PROVE  \/ token'[t].lease = token[t].lease /\ token'[t].exp = token[t].exp
           \/ lease' = lease /\ Bounded(token'[t])
<1>0. token \in [Tokens -> TokenRow]
  BY DEF TypeOK
<1>1. CASE UNCHANGED <<token, session, endEvents, conn>>
  BY <1>1
<1>2. ASSUME NEW s \in Tokens, NEW l \in Leases \cup {NoLease}, NEW m \in BOOLEAN,
             MintConnectToken(s, l, m)
      PROVE  \/ token'[t] = token[t]
             \/ lease' = lease /\ Bounded(token'[t])
  <2>1. CASE s # t
    BY <1>0, <1>2, <2>1 DEF MintConnectToken
  <2>2. CASE s = t
    <3>1. token'[t] = [state |-> "pending", lease |-> l, exp |-> ClampToLease(l)]
      BY <1>0, <1>2, <2>2 DEF MintConnectToken
    <3>2. lease' = lease /\ (l # NoLease => Granted(lease[l]))
      BY <1>2, Unfold DEF MintConnectToken, IsLive
    <3>3. ASSUME l # NoLease PROVE ClampToLease(l) <= lease[l].expires
      <4>1. lease[l].expires \in Nat /\ clock \in Nat /\ TokenTTL \in Nat
        BY <3>3, TimeAssumption DEF TypeOK, LeaseRow, TokenTTL, FirstSet
      <4>2. QED
        BY <3>3, <4>1 DEF ClampToLease, Least
    <3>4. QED
      BY <3>1, <3>2, <3>3 DEF Bounded
  <2>3. QED
    BY <2>1, <2>2
<1>3. CASE SweepTokens
  BY <1>0, <1>3 DEF SweepTokens, TokenRow
<1>4. ASSUME NEW w \in Workers, Crash(w) PROVE token' = token
  BY <1>4 DEF Crash
<1>5. ASSUME NEW w \in Workers, NEW c \in Conns, TerminateEnd(w, c) PROVE token' = token
  BY <1>5 DEF TerminateEnd
<1>6. ASSUME NEW c \in Conns, RedeemCommit(c)
      PROVE  token'[t].lease = token[t].lease /\ token'[t].exp = token[t].exp
  BY <1>0, <1>6 DEF RedeemCommit, HoldsToken, TokenRow
<1>7. ASSUME NEW c \in Conns, ConnStep(c), ~RedeemCommit(c) PROVE token' = token
  BY <1>7 DEF ConnStep, RedeemValidate, RedeemLapsed, RedeemRollback, OrphanClose,
              Register, StreamEnds, CloseSession, Deregister, ReconcileOnce,
              AdminTerminate, CloseError
<1>8. QED
  BY <1>1, <1>2, <1>3, <1>4, <1>5, <1>6, <1>7, AccessFrame DEF TokenStep

LEMMA TokenWithinStep ==
    ASSUME TypeOK, HoldsToken, LeaseInv, [Next]_vars
    PROVE  TokenWithinLease'
<1> SUFFICES ASSUME NEW t \in Tokens, token'[t].lease # NoLease
             PROVE  /\ Granted(lease'[token'[t].lease])
                    /\ token'[t].exp <= lease'[token'[t].lease].expires
  BY DEF TokenWithinLease, Granted
<1>1. CASE lease' = lease /\ Bounded(token'[t])
  BY <1>1 DEF Bounded
<1>2. CASE token'[t].lease = token[t].lease /\ token'[t].exp = token[t].exp
  <2>1. token[t].lease \in Leases
    BY <1>2 DEF TypeOK, TokenRow
  <2>2. Granted(lease[token[t].lease]) /\ token[t].exp <= lease[token[t].lease].expires
    BY <1>2 DEF LeaseInv, TokenWithinLease
  <2>3. QED
    BY <1>2, <2>1, <2>2, RowsGrow DEF LeaseInv, Granted
<1>3. QED
  BY <1>1, <1>2, TokenFrame

LEMMA InitLeaseInv == Init => LeaseInv
<1> SUFFICES ASSUME Init PROVE LeaseInv
  OBVIOUS
<1>1. RowShape /\ ActivatedGranted /\ AuditMatchesRows
  BY DEF Init, NoRow, RowShape, ActivatedGranted, AuditMatchesRows, LeaseEvents, Created, Granted,
         Activated, Revoked, Swept
<1>2. DueCreated
  BY DEF Init, IdleWorker, DueCreated
<1>3. TokenWithinLease
  BY DEF Init, TokenWithinLease
<1>4. QED
  BY <1>1, <1>2, <1>3 DEF LeaseInv

LEMMA LeaseInvariant == Spec => [](TypeOK /\ HoldsToken /\ LeaseInv)
<1>1. Init => TypeOK /\ HoldsToken /\ LeaseInv
  BY InitTypeOK, InitLeaseInv
<1>2. TypeOK /\ HoldsToken /\ LeaseInv /\ [Next]_vars => (TypeOK /\ HoldsToken /\ LeaseInv)'
  <2>1. ASSUME TypeOK, HoldsToken, LeaseInv, [Next]_vars PROVE LeaseInv'
    BY <2>1, RowShapeStep, DueCreatedStep, ActivatedStep, AuditStep, TokenWithinStep DEF LeaseInv
  <2>2. QED
    BY <2>1, TypeStep
<1>3. QED
  BY <1>1, <1>2, PTL DEF Spec

-----------------------------------------------------------------------------
(* The audit trail of every lease agrees with its row, however many        *)
(* sweepers and revokers compete for it.                                   *)
THEOREM AuditTrailExact == Spec => []AuditMatchesRows
<1>1. LeaseInv => AuditMatchesRows
  BY DEF LeaseInv
<1>2. QED
  BY <1>1, LeaseInvariant, PTL

(* No connect token outlives the lease it was minted against.              *)
THEOREM TokensBounded == Spec => []TokenWithinLease
<1>1. LeaseInv => TokenWithinLease
  BY DEF LeaseInv
<1>2. QED
  BY <1>1, LeaseInvariant, PTL

(* No approval, retried or late, moves a window already granted.           *)
THEOREM WindowNeverMoves == Spec => WindowFixed
<1>1. ASSUME TypeOK, HoldsToken, LeaseInv, [Next]_vars
      PROVE  [\A l \in Leases : Granted(lease[l]) =>
                 Granted(lease'[l]) /\ lease'[l].expires = lease[l].expires]_vars
  BY <1>1, RowsGrow DEF LeaseInv, Granted
<1>2. QED
  BY <1>1, LeaseInvariant, PTL DEF Spec, WindowFixed

(* "Revoke wins": no sweep stamps or audits a lease as expired once it has *)
(* been revoked.                                                           *)
THEOREM RevokePrevails == Spec => RevokeWins
<1>1. ASSUME TypeOK, HoldsToken, LeaseInv, [Next]_vars
      PROVE  [\A l \in Leases : Revoked(lease[l]) => Swept(lease'[l]) = Swept(lease[l])]_vars
  <2>1. SUFFICES ASSUME NEW k \in Leases, Revoked(lease[k])
                 PROVE  ("expired" \in lease'[k].stamps) = ("expired" \in lease[k].stamps)
    BY DEF Swept
  <2>2. CASE UNCHANGED <<lease, leaseAudit>>
    BY <2>2
  <2>3. ASSUME NEW l \in Leases, NEW d \in Durations, RequestLease(l, d)
        PROVE  lease'[k].stamps = lease[k].stamps
    <3>1. l # k
      BY <1>1, <2>1, <2>3 DEF RequestLease, LeaseInv, RowShape, Revoked
    <3>2. QED
      BY <1>1, <2>3, <3>1, RequestedRow
  <2>4. ASSUME NEW l \in Leases, NEW d \in Durations, ApproveLease(l, d)
        PROVE  ("expired" \in lease'[k].stamps) = ("expired" \in lease[k].stamps)
    BY <1>1, <2>4, ApprovedRow
  <2>5. ASSUME NEW l \in Leases, Stamped(l, "revoked")
        PROVE  ("expired" \in lease'[k].stamps) = ("expired" \in lease[k].stamps)
    BY <1>1, <2>5, StampedRow
  <2>6. ASSUME NEW l \in Leases, Stamped(l, "activated")
        PROVE  ("expired" \in lease'[k].stamps) = ("expired" \in lease[k].stamps)
    BY <1>1, <2>6, StampedRow
  <2>7. ASSUME NEW l \in Leases, NEW w \in Workers, ExpireClaim(w, l), Claimable(lease[l])
        PROVE  lease'[k] = lease[k]
    <3>1. l # k
      BY <2>1, <2>7 DEF Claimable
    <3>2. QED
      BY <1>1, <2>7, <3>1 DEF ExpireClaim, TypeOK
  <2>8. ASSUME NEW l \in Leases, NEW w \in Workers, RevokeLease(w, l)
        PROVE  Stamped(l, "revoked")
    BY <2>8 DEF RevokeLease, Stamped
  <2>9. QED
    BY <1>1, <2>2, <2>3, <2>4, <2>5, <2>6, <2>7, <2>8, LeaseFrame
<1>2. QED
  BY <1>1, LeaseInvariant, PTL DEF Spec, RevokeWins

-----------------------------------------------------------------------------
(* Refinement.                                                             *)

(* Where a row may move in the abstract machine when it gains a timestamp  *)
(* and the clock stands still, or when only the clock moves.               *)
Move(before, after) == before = after \/ <<before, after>> \in LeaseFSM!Edges

LEMMA StatusTyped ==
    ASSUME NEW row, NEW now PROVE Status(row, now) \in LeaseFSM!States
BY DEF Status, LeaseFSM!States

LEMMA ClockMoves ==
    ASSUME TypeOK, Tick, NEW k \in Leases
    PROVE  Move(Status(lease[k], clock), Status(lease[k], clock'))
<1>1. lease[k].expires \in Nat /\ clock \in Nat /\ clock' = clock + 1
  BY TimeAssumption DEF TypeOK, LeaseRow, Tick
<1>2. Lapsed(lease[k], clock) => Lapsed(lease[k], clock')
  BY <1>1 DEF Lapsed
<1>3. QED
  BY <1>2 DEF Move, Status, LeaseFSM!Edges

(* Stamping an existing row moves it along an edge; the activation stamp   *)
(* needs a granted lease, which TokenWithinLease provides.                 *)
LEMMA StampMoves ==
    ASSUME TypeOK, NEW k \in Leases, NEW e \in {"revoked", "expired", "activated"},
           Stamped(k, e), Created(lease[k]), e = "activated" => Granted(lease[k])
    PROVE  Move(Status(lease[k], clock), Status(lease'[k], clock))
<1>1. /\ lease'[k].stamps = lease[k].stamps \cup {e}
      /\ lease'[k].expires = lease[k].expires
  BY StampedRow
<1>2. QED
  BY <1>1 DEF Move, Status, LeaseFSM!Edges, Lapsed, Created, Granted, Revoked, Activated

LEMMA GrantMoves ==
    ASSUME TypeOK, LeaseInv, NEW k \in Leases, NEW d \in Durations, ApproveLease(k, d)
    PROVE  Move(Status(lease[k], clock), Status(lease'[k], clock))
<1>1. Created(lease[k]) /\ ~Granted(lease[k]) /\ ~Revoked(lease[k])
  BY ApproveOnce DEF ApproveLease
<1>2. lease[k].ttl \in Nat /\ clock \in Nat
  BY TimeAssumption DEF TypeOK, LeaseRow
<1>3. resolveApprovalTTL(d, lease[k].ttl) \in Nat \ {0}
  BY <1>2, TimeAssumption DEF resolveApprovalTTL, Least, FirstSet
<1>4. /\ lease'[k].stamps = lease[k].stamps \cup {"granted"}
      /\ lease'[k].expires = clock + resolveApprovalTTL(d, lease[k].ttl)
  BY ApprovedRow
<1>5. ~Lapsed(lease'[k], clock)
  BY <1>2, <1>3, <1>4 DEF Lapsed
<1>6. ~Activated(lease[k])
  BY <1>1 DEF LeaseInv, ActivatedGranted
<1>7. Status(lease'[k], clock) = "approved"
  BY <1>1, <1>4, <1>5, <1>6 DEF Status, Created, Granted, Revoked, Activated
<1>8. QED
  BY <1>1, <1>7 DEF Move, Status, LeaseFSM!Edges

LEMMA RequestMoves ==
    ASSUME TypeOK, NEW k \in Leases, NEW d \in Durations, RequestLease(k, d)
    PROVE  Move(Status(lease[k], clock), Status(lease'[k], clock))
<1>1. ~Created(lease[k]) /\ lease'[k].stamps = {"created"}
  BY RequestedRow DEF RequestLease
<1>2. QED
  BY <1>1 DEF Move, Status, LeaseFSM!Edges, Created, Granted, Revoked

LEMMA LeaseMoves ==
    ASSUME TypeOK, HoldsToken, LeaseInv, [Next]_vars, NEW k \in Leases
    PROVE  Move(Status(lease[k], clock), Status(lease'[k], clock'))
<1> DEFINE Goal == Move(Status(lease[k], clock), Status(lease'[k], clock'))
<1>1. ASSUME lease'[k] = lease[k], clock' = clock PROVE Goal
  BY <1>1 DEF Move
<1>2. CASE Tick
  <2>1. lease' = lease
    BY <1>2, Unfold DEF Tick
  <2>2. QED
    BY <1>2, <2>1, ClockMoves
<1>3. CASE ~Tick
  <2>1. clock' = clock
    BY <1>3 DEF Next, vars, LeaseStep, RequestLease, ApproveLease, RevokeLease, WorkerStep,
                ExpireScan, ExpireClaim, ExpireDone, TerminateScan, TerminateSever, TerminateEnd,
                TerminateDone, FaultStep, Crash, TeardownError, ClaimError, TokenStep,
                MintConnectToken, SweepTokens, ConnStep, RedeemValidate, RedeemLapsed, RedeemCommit, RedeemRollback,
                OrphanClose, Register, StreamEnds, CloseSession, Deregister, ReconcileOnce,
                AdminTerminate, CloseError
  <2>2. CASE UNCHANGED <<lease, leaseAudit>>
    BY <1>1, <2>1, <2>2
  <2>3. ASSUME NEW l \in Leases, NEW d \in Durations, RequestLease(l, d) PROVE Goal
    BY <1>1, <2>1, <2>3, RequestedRow, RequestMoves
  <2>4. ASSUME NEW l \in Leases, NEW d \in Durations, ApproveLease(l, d) PROVE Goal
    BY <1>1, <2>1, <2>4, ApprovedRow, GrantMoves
  <2>5. ASSUME NEW l \in Leases, NEW e \in {"revoked", "expired", "activated"}, Stamped(l, e),
               Created(lease[l]), e = "activated" => Granted(lease[l])
        PROVE  Goal
    BY <1>1, <2>1, <2>5, StampedRow, StampMoves
  <2>6. ASSUME NEW l \in Leases, NEW w \in Workers, RevokeLease(w, l) PROVE Goal
    <3>1. Stamped(l, "revoked") /\ Created(lease[l])
      BY <2>6 DEF RevokeLease, Stamped
    <3>2. QED
      BY <2>5, <3>1
  <2>7. ASSUME NEW l \in Leases, NEW w \in Workers, ExpireClaim(w, l), Claimable(lease[l])
        PROVE  Goal
    <3>1. Stamped(l, "expired") /\ Created(lease[l])
      BY <2>7 DEF ExpireClaim, Stamped, LeaseInv, DueCreated
    <3>2. QED
      BY <2>5, <3>1
  <2>8. ASSUME NEW c \in Conns, RedeemCommit(c), token[conn[c].tok].lease \in Leases,
               Stamped(token[conn[c].tok].lease, "activated")
        PROVE  Goal
    <3>1. conn[c].tok \in Tokens
      BY <2>8 DEF RedeemCommit, HoldsToken
    <3>2. Granted(lease[token[conn[c].tok].lease])
      BY <2>8, <3>1, NamesAssumption DEF LeaseInv, TokenWithinLease
    <3>3. Created(lease[token[conn[c].tok].lease])
      BY <2>8, <3>2 DEF LeaseInv, RowShape, Granted
    <3>4. QED
      BY <2>5, <2>8, <3>2, <3>3
  <2>9. QED
    BY <2>2, <2>3, <2>4, <2>6, <2>7, <2>8, LeaseFrame
<1>4. QED
  BY <1>2, <1>3

(* The lease rows, stamped by independent processes, and the clock that    *)
(* lapses them implement the strict state machine of pam_lease.go.         *)
THEOREM LeasesFollowFSM == Spec => ImplementsLeaseFSM
<1> DEFINE st == [l \in Leases |-> Status(lease[l], clock)]
<1>1. Init => LeaseFSM!Init
  BY DEF Init, LeaseFSM!Init, NoRow, Status, Created
<1>2. ASSUME TypeOK, HoldsToken, LeaseInv, [Next]_vars PROVE [LeaseFSM!Next]_st
  <2>1. st' \in [Leases -> LeaseFSM!States]
    BY StatusTyped
  <2>2. \A l \in Leases : Move(st[l], st'[l])
    BY <1>2, LeaseMoves
  <2>3. QED
    BY <2>1, <2>2 DEF LeaseFSM!Next, Move
<1>3. QED
  BY <1>1, <1>2, LeaseInvariant, PTL DEF Spec, ImplementsLeaseFSM, LeaseFSM!Spec
=============================================================================

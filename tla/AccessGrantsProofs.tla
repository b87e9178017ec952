-------------------------- MODULE AccessGrantsProofs --------------------------
(***************************************************************************)
(* Proofs about AccessGrants for any requests, grants, entitlements,       *)
(* callers and enforcers.                                                  *)
(***************************************************************************)
EXTENDS AccessGrants, TLAPS

GrantRow == [state : {"none", "active", "revoked", "expired"}, req : Requests \cup {NoRequest}]

Proc == [pc : {"idle", "join", "approve", "read", "begin", "call", "fail",
               "find", "reuse", "insert", "teardown", "mark"},
         req : Requests \cup {NoRequest}, grant : Grants \cup {NoGrant},
         goal : {"none", "revoked", "expired"}]

(* A goroutine in the middle of Provision holds a request.                 *)
HoldsRequest ==
    \A p \in Procs : proc[p].pc \in {"join", "approve", "read", "begin", "call", "fail",
                                     "find", "reuse", "insert"}
                        => proc[p].req \in Requests

(* One in the middle of a teardown holds a grant row that exists.          *)
HoldsGrant ==
    \A p \in Procs : proc[p].pc \in {"teardown", "mark"}
                        => /\ proc[p].grant \in Grants
                           /\ grant[proc[p].grant].state # "none"
                           /\ proc[p].goal \in {"revoked", "expired"}

(* A grant row belongs to a request that was activated with it.            *)
GrantBound ==
    \A g \in Grants : grant[g].state # "none"
                        => /\ grant[g].req \in Requests
                           /\ req[grant[g].req] \in {"active", "revoked", "expired"}

(* Only a torn-down grant carries revoked_at.                              *)
StampedEnded == \A g \in revokedAt : grant[g].state \in {"revoked", "expired"}

(* "provisioned" only exists inside ProvisionInsert's transaction.         *)
NeverProvisioned == \A r \in Requests : req[r] # "provisioned"

(* A grant found by the idempotency guard settles its request for good.    *)
ReuseSettled ==
    \A p \in Procs : proc[p].pc = "reuse"
                        => req[proc[p].req] \in {"active", "revoked", "expired"}

GrantInv == /\ TypeOK
            /\ HoldsRequest
            /\ HoldsGrant
            /\ GrantBound
            /\ StampedEnded
            /\ NeverProvisioned
            /\ ReuseSettled
            /\ OneGrantPerRequest
            /\ GrantMatchesRequest

(* What backs an entitlement, not counting a live grant whose teardown has *)
(* already been carried out at the provider.                               *)
Backed(r) ==
    \/ req[r] \in {"provisioning", "provision_failed"}
    \/ /\ LiveFor(r) # {}
       /\ \A p \in Procs : proc[p].pc = "mark" => proc[p].grant \notin LiveFor(r)

AccessBacked ==
    \A e \in provider : e \in stray \/ \E r \in Requests : EntOf[r] = e /\ Backed(r)

-----------------------------------------------------------------------------
(* How a goroutine moves.                                                  *)
LEMMA Moves ==
    ASSUME proc \in [Procs -> Proc], NEW p \in Procs
    PROVE  /\ Finish(p) => /\ proc' \in [Procs -> Proc]
                           /\ proc'[p] = Idle
                           /\ \A q \in Procs : q # p => proc'[q] = proc[q]
           /\ \A pc \in {"approve", "read", "begin", "call", "fail", "find", "reuse", "insert",
                         "mark"} :
                 Goto(p, pc) => /\ proc' \in [Procs -> Proc]
                                /\ proc'[p].pc = pc
                                /\ proc'[p].req = proc[p].req
                                /\ proc'[p].grant = proc[p].grant
                                /\ proc'[p].goal = proc[p].goal
                                /\ \A q \in Procs : q # p => proc'[q] = proc[q]
<1>1. Idle \in Proc
  BY DEF Idle, Proc
<1>2. ASSUME Finish(p)
      PROVE  /\ proc' \in [Procs -> Proc] /\ proc'[p] = Idle
             /\ \A q \in Procs : q # p => proc'[q] = proc[q]
  BY <1>1, <1>2 DEF Finish
<1>3. ASSUME NEW pc \in {"approve", "read", "begin", "call", "fail", "find", "reuse", "insert",
                         "mark"}, Goto(p, pc)
      PROVE  /\ proc' \in [Procs -> Proc]
             /\ proc'[p] = [proc[p] EXCEPT !.pc = pc]
             /\ \A q \in Procs : q # p => proc'[q] = proc[q]
  <2>1. [proc[p] EXCEPT !.pc = pc] \in Proc
    BY DEF Proc
  <2>2. QED
    BY <1>3, <2>1 DEF Goto
<1>4. ASSUME NEW pc \in {"approve", "read", "begin", "call", "fail", "find", "reuse", "insert",
                         "mark"}, Goto(p, pc)
      PROVE  /\ proc' \in [Procs -> Proc]
             /\ proc'[p].pc = pc
             /\ proc'[p].req = proc[p].req
             /\ proc'[p].grant = proc[p].grant
             /\ proc'[p].goal = proc[p].goal
             /\ \A q \in Procs : q # p => proc'[q] = proc[q]
  <2>1. proc[p] \in Proc /\ proc'[p] = [proc[p] EXCEPT !.pc = pc]
    BY <1>3, <1>4
  <2>2. /\ proc'[p].pc = pc
        /\ proc'[p].req = proc[p].req
        /\ proc'[p].grant = proc[p].grant
        /\ proc'[p].goal = proc[p].goal
    BY <2>1 DEF Proc
  <2>3. QED
    BY <1>3, <1>4, <2>2
<1>5. QED
  BY <1>2, <1>4

LEMMA Types ==
    ASSUME TypeOK
    PROVE  /\ req \in [Requests -> RequestStates]
           /\ grant \in [Grants -> GrantRow]
           /\ proc \in [Procs -> Proc]
           /\ revokedAt \subseteq Grants
BY DEF TypeOK, GrantRow, Proc

(* What a step may do to the goroutines: one of them moves.                *)
Starts(p, q) ==
    \/ q.pc \in {"join", "read", "approve"} /\ q.req \in Requests
    \/ /\ q.pc = "teardown" /\ q.grant \in Grants /\ grant[q.grant].state = "active"
       /\ q.goal \in {"revoked", "expired"}

Advances(p, q) ==
    /\ q.req = proc[p].req /\ q.grant = proc[p].grant /\ q.goal = proc[p].goal
    /\ \/ /\ proc[p].pc \in {"approve", "read", "begin", "call", "find"}
          /\ q.pc \in {"read", "begin", "call", "fail", "find", "insert"}
       \/ proc[p].pc = "find" /\ q.pc = "reuse" /\ LiveFor(proc[p].req) # {}
       \/ proc[p].pc = "teardown" /\ q.pc = "mark" /\ provider' = provider \ {Torn(p)}

LEMMA ProcFrame ==
    ASSUME TypeOK, HoldsRequest, [Next]_vars
    PROVE  /\ proc' \in [Procs -> Proc]
           /\ \/ proc' = proc
              \/ \E p \in Procs : /\ \A q \in Procs : q # p => proc'[q] = proc[q]
                                  /\ \/ proc'[p] = Idle
                                     \/ Starts(p, proc'[p])
                                     \/ Advances(p, proc'[p])
<1> DEFINE G(p) == /\ proc' \in [Procs -> Proc]
                   /\ \A q \in Procs : q # p => proc'[q] = proc[q]
                   /\ proc'[p] = Idle \/ Starts(p, proc'[p]) \/ Advances(p, proc'[p])
<1>0. proc \in [Procs -> Proc]
  BY Types
<1>1. CASE UNCHANGED proc
  BY <1>0, <1>1
<1>2. ASSUME NEW r \in Requests, RequestStep(r) PROVE proc' = proc
  BY <1>2 DEF RequestStep, CreateRequest, DecideRequest
<1>3. ASSUME NEW g \in Grants, Lapse(g) PROVE proc' = proc
  BY <1>3 DEF Lapse
<1>4. ASSUME NEW p \in Procs, Finish(p) PROVE G(p)
  BY <1>0, <1>4, Moves
<1>5. ASSUME NEW p \in Procs, NEW r \in Requests, JoinCheck(p, r) PROVE G(p)
  <2>1. [proc[p] EXCEPT !.pc = "join", !.req = r] \in Proc
    BY <1>0 DEF Proc
  <2>2. /\ proc' \in [Procs -> Proc] /\ proc'[p] = [proc[p] EXCEPT !.pc = "join", !.req = r]
        /\ \A q \in Procs : q # p => proc'[q] = proc[q]
    BY <1>0, <1>5, <2>1 DEF JoinCheck
  <2>3. Starts(p, proc'[p])
    BY <1>0, <2>2 DEF Starts, Proc
  <2>4. QED
    BY <2>2, <2>3
<1>6. ASSUME NEW p \in Procs, NEW r \in Requests, JoinCreate(p, r) PROVE G(p)
  <2>1. [proc[p] EXCEPT !.pc = "approve", !.req = r] \in Proc
    BY <1>0 DEF Proc
  <2>2. /\ proc' \in [Procs -> Proc] /\ proc'[p] = [proc[p] EXCEPT !.pc = "approve", !.req = r]
        /\ \A q \in Procs : q # p => proc'[q] = proc[q]
    BY <1>0, <1>6, <2>1 DEF JoinCreate
  <2>3. Starts(p, proc'[p])
    BY <1>0, <2>2 DEF Starts, Proc
  <2>4. QED
    BY <2>2, <2>3
<1>7. ASSUME NEW p \in Procs, NEW r \in Requests, ProvisionCall(p, r) PROVE G(p)
  <2>1. [proc[p] EXCEPT !.pc = "read", !.req = r] \in Proc
    BY <1>0 DEF Proc
  <2>2. /\ proc' \in [Procs -> Proc] /\ proc'[p] = [proc[p] EXCEPT !.pc = "read", !.req = r]
        /\ \A q \in Procs : q # p => proc'[q] = proc[q]
    BY <1>0, <1>7, <2>1 DEF ProvisionCall
  <2>3. Starts(p, proc'[p])
    BY <1>0, <2>2 DEF Starts, Proc
  <2>4. QED
    BY <2>2, <2>3
<1>8. ASSUME NEW p \in Procs, NEW pc \in {"read", "begin", "call", "fail", "find", "insert"},
             proc[p].pc \in {"approve", "read", "begin", "call", "find"}, Goto(p, pc)
      PROVE  G(p)
  <2>1. /\ proc' \in [Procs -> Proc]
        /\ proc'[p].pc = pc /\ proc'[p].req = proc[p].req
        /\ proc'[p].grant = proc[p].grant /\ proc'[p].goal = proc[p].goal
        /\ \A q \in Procs : q # p => proc'[q] = proc[q]
    BY <1>0, <1>8, Moves
  <2>2. Advances(p, proc'[p])
    BY <1>8, <2>1 DEF Advances
  <2>3. QED
    BY <2>1, <2>2
<1>9. ASSUME NEW p \in Procs, JoinApprove(p) \/ ProvisionRead(p) \/ ProvisionBegin(p)
                              \/ ProvisionAccess(p) \/ ProvisionError(p)
      PROVE  G(p)
  <2>1. CASE JoinApprove(p)
    BY <1>4, <1>8, <2>1 DEF JoinApprove
  <2>2. CASE ProvisionRead(p)
    BY <1>4, <1>8, <2>2 DEF ProvisionRead
  <2>3. CASE ProvisionBegin(p)
    BY <1>4, <1>8, <2>3 DEF ProvisionBegin
  <2>4. CASE ProvisionAccess(p)
    BY <1>8, <2>4 DEF ProvisionAccess
  <2>5. CASE ProvisionError(p)
    BY <1>8, <2>5 DEF ProvisionError
  <2>6. QED
    BY <1>9, <2>1, <2>2, <2>3, <2>4, <2>5
<1>10. ASSUME NEW p \in Procs, ProvisionFind(p) PROVE G(p)
  <2>1. CASE LiveFor(proc[p].req) # {}
    <3>1. Goto(p, "reuse") /\ proc[p].pc = "find"
      BY <1>10, <2>1 DEF ProvisionFind
    <3>2. /\ proc' \in [Procs -> Proc]
          /\ proc'[p].pc = "reuse" /\ proc'[p].req = proc[p].req
          /\ proc'[p].grant = proc[p].grant /\ proc'[p].goal = proc[p].goal
          /\ \A q \in Procs : q # p => proc'[q] = proc[q]
      BY <1>0, <3>1, Moves
    <3>3. Advances(p, proc'[p])
      BY <2>1, <3>1, <3>2 DEF Advances
    <3>4. QED
      BY <3>2, <3>3
  <2>2. CASE LiveFor(proc[p].req) = {}
    <3>1. Goto(p, "insert") /\ proc[p].pc = "find"
      BY <1>10, <2>2 DEF ProvisionFind
    <3>2. QED
      BY <1>8, <3>1
  <2>3. QED
    BY <2>1, <2>2
<1>11. ASSUME NEW p \in Procs, NEW g \in Grants, NEW goal \in {"revoked", "expired"},
              TeardownRead(p, g, goal)
       PROVE  G(p)
  <2>1. [proc[p] EXCEPT !.pc = "teardown", !.grant = g, !.goal = goal] \in Proc
    BY <1>0 DEF Proc
  <2>2. /\ proc' \in [Procs -> Proc]
        /\ proc'[p] = [proc[p] EXCEPT !.pc = "teardown", !.grant = g, !.goal = goal]
        /\ \A q \in Procs : q # p => proc'[q] = proc[q]
    BY <1>0, <1>11, <2>1 DEF TeardownRead
  <2>3. proc'[p].pc = "teardown" /\ proc'[p].grant = g /\ proc'[p].goal = goal
    BY <1>0, <2>2 DEF Proc
  <2>4. Starts(p, proc'[p])
    BY <1>11, <2>3 DEF Starts, TeardownRead
  <2>5. QED
    BY <2>2, <2>4
<1>12. ASSUME NEW p \in Procs, RevokeAccess(p) PROVE G(p)
  <2>1. Goto(p, "mark") /\ proc[p].pc = "teardown" /\ provider' = provider \ {Torn(p)}
    BY <1>12 DEF RevokeAccess
  <2>2. /\ proc' \in [Procs -> Proc]
        /\ proc'[p].pc = "mark" /\ proc'[p].req = proc[p].req
        /\ proc'[p].grant = proc[p].grant /\ proc'[p].goal = proc[p].goal
        /\ \A q \in Procs : q # p => proc'[q] = proc[q]
    BY <1>0, <2>1, Moves
  <2>3. Advances(p, proc'[p])
    BY <2>1, <2>2 DEF Advances
  <2>4. QED
    BY <2>2, <2>3
<1>13. ASSUME NEW p \in Callers, ProvisionStep(p) \/ \E g \in Grants : RevokeGrant(p, g) PROVE G(p)
  <2>0. p \in Procs
    BY DEF Procs
  <2>1. ASSUME ProvisionFailed(p) \/ ProvisionReuse(p) \/ \E g \in Grants : ProvisionInsert(p, g)
        PROVE  Finish(p)
    BY <2>1 DEF ProvisionFailed, ProvisionReuse, ProvisionInsert
  <2>2. QED
    BY <1>4, <1>5, <1>6, <1>7, <1>9, <1>10, <1>11, <1>13, <2>0, <2>1 DEF ProvisionStep, RevokeGrant
<1>14. ASSUME NEW p \in Enforcers, NEW g \in Grants, ExpireGrant(p, g) PROVE G(p)
  <2>1. p \in Procs
    BY DEF Procs
  <2>2. QED
    BY <1>11, <1>14, <2>1 DEF ExpireGrant
<1>15. ASSUME NEW p \in Procs, TeardownStep(p) \/ RevokeError(p) \/ Crash(p) PROVE G(p)
  <2>1. ASSUME TeardownMark(p) \/ RevokeError(p) \/ Crash(p) PROVE Finish(p)
    BY <2>1 DEF TeardownMark, RevokeError, Crash
  <2>2. QED
    BY <1>4, <1>12, <1>15, <2>1 DEF TeardownStep
<1>16. ASSUME \E p \in Procs : G(p)
       PROVE  /\ proc' \in [Procs -> Proc]
              /\ \E p \in Procs : /\ \A q \in Procs : q # p => proc'[q] = proc[q]
                                  /\ \/ proc'[p] = Idle
                                     \/ Starts(p, proc'[p])
                                     \/ Advances(p, proc'[p])
  BY <1>16
<1>17. CASE UNCHANGED vars
  BY <1>1, <1>17 DEF vars
<1>18. CASE Next
  <2>1. CASE \E r \in Requests : RequestStep(r)
    BY <1>1, <1>2, <2>1
  <2>2. CASE \E g \in Grants : Lapse(g)
    BY <1>1, <1>3, <2>2
  <2>3. ASSUME NEW p \in Callers, ProvisionStep(p) \/ \E g \in Grants : RevokeGrant(p, g)
        PROVE  \E x \in Procs : G(x)
    BY <1>13, <2>3 DEF Procs
  <2>4. ASSUME NEW p \in Enforcers, NEW g \in Grants, ExpireGrant(p, g)
        PROVE  \E x \in Procs : G(x)
    BY <1>14, <2>4 DEF Procs
  <2>5. ASSUME NEW p \in Procs, TeardownStep(p) \/ RevokeError(p) \/ Crash(p)
        PROVE  \E x \in Procs : G(x)
    BY <1>15, <2>5
  <2>6. QED
    BY <1>16, <1>18, <2>1, <2>2, <2>3, <2>4, <2>5 DEF Next
<1>19. QED
  BY <1>17, <1>18

-----------------------------------------------------------------------------
(* What a step may do to the rows.                                         *)

Moved(r, to) ==
    /\ req' = [req EXCEPT ![r] = to]
    /\ req[r] \notin Terminal \cup {"active"}
    /\ to \in RequestStates \ {"active", "revoked", "expired", "provisioned"}
    /\ req[r] \in {"provisioning", "provision_failed"} => to \in {"provisioning", "provision_failed"}
    /\ grant' = grant /\ revokedAt' = revokedAt

Inserted(p, g) ==
    /\ proc[p].req \in Requests /\ req[proc[p].req] = "provisioning"
    /\ grant[g].state = "none"
    /\ grant' = [grant EXCEPT ![g] = [state |-> "active", req |-> proc[p].req]]
    /\ req' = [req EXCEPT ![proc[p].req] = "active"]
    /\ revokedAt' = revokedAt

Marked(p) == proc[p].pc = "mark" /\ markGrantTerminal(proc[p].grant, proc[p].goal)

LEMMA RowFrame ==
    ASSUME TypeOK, HoldsRequest, NeverProvisioned, ReuseSettled, [Next]_vars
    PROVE  \/ UNCHANGED <<req, grant, revokedAt>>
           \/ \E r \in Requests : \E to \in RequestStates : Moved(r, to)
           \/ \E p \in Procs, g \in Grants : Inserted(p, g)
           \/ \E p \in Procs : Marked(p)
<1> DEFINE G == \/ UNCHANGED <<req, grant, revokedAt>>
                \/ \E r \in Requests : \E to \in RequestStates : Moved(r, to)
                \/ \E p \in Procs, g \in Grants : Inserted(p, g)
                \/ \E p \in Procs : Marked(p)
<1>0. /\ req \in [Requests -> RequestStates]
      /\ \A p \in Callers : p \in Procs
      /\ \A p \in Enforcers : p \in Procs
  BY Types DEF Procs
<1>1. CASE UNCHANGED vars
  BY <1>1 DEF vars, rows
<1>2. ASSUME NEW r \in Requests, CreateRequest(r) PROVE G
  <2>1. Moved(r, "requested")
    BY <1>0, <1>2 DEF CreateRequest, Moved, RequestStates, Terminal
  <2>2. QED
    BY <2>1 DEF RequestStates
<1>3. ASSUME NEW r \in Requests, NEW to \in {"ai_reviewed", "approved", "denied", "cancelled",
                                            "provisioning", "provision_failed"},
             Transition(req[r], to), req' = [req EXCEPT ![r] = to], UNCHANGED <<grant, revokedAt>>
      PROVE  G
  <2>1. req[r] \in RequestStates
    BY <1>0
  <2>2. /\ req[r] \notin Terminal \cup {"active"}
        /\ req[r] \in {"provisioning", "provision_failed"} => to \in {"provisioning", "provision_failed"}
    BY <1>3, <2>1 DEF Transition, allowedTransitions, RequestStates, Terminal
  <2>3. Moved(r, to)
    BY <1>3, <2>2 DEF Moved, RequestStates
  <2>4. QED
    BY <2>3 DEF RequestStates
<1>4. ASSUME NEW r \in Requests, NEW to \in {"ai_reviewed", "approved", "denied", "cancelled",
                                            "provisioning", "provision_failed"},
             TransitionInTx(r, to), UNCHANGED <<grant, revokedAt>>
      PROVE  G
  BY <1>3, <1>4 DEF TransitionInTx
<1>5. ASSUME NEW r \in Requests, RequestStep(r) PROVE G
  BY <1>2, <1>4, <1>5 DEF RequestStep, Decisions, DecideRequest
<1>6. ASSUME NEW p \in Callers, ProvisionStep(p) PROVE G
  <2>1. CASE JoinApprove(p) \/ ProvisionBegin(p) \/ ProvisionFailed(p)
    BY <1>0, <1>4, <2>1 DEF JoinApprove, ProvisionBegin, ProvisionFailed, HoldsRequest
  <2>2. CASE \E r \in Requests : JoinCheck(p, r) \/ ProvisionCall(p, r)
    BY <2>2 DEF JoinCheck, ProvisionCall, rows
  <2>3. ASSUME NEW r \in Requests, JoinCreate(p, r) PROVE G
    <3>1. Moved(r, "requested")
      BY <1>0, <2>3 DEF JoinCreate, Moved, RequestStates, Terminal
    <3>2. QED
      BY <3>1 DEF RequestStates
  <2>4. CASE ProvisionRead(p) \/ ProvisionAccess(p) \/ ProvisionFind(p) \/ ProvisionError(p)
    BY <2>4 DEF ProvisionRead, ProvisionAccess, ProvisionFind, ProvisionError, rows
  <2>5. CASE ProvisionReuse(p)
    <3>1. req[proc[p].req] \in {"active", "revoked", "expired"}
      BY <1>0, <2>5 DEF ProvisionReuse, ReuseSettled
    <3>2. QED
      BY <2>5, <3>1 DEF ProvisionReuse
  <2>6. ASSUME NEW g \in Grants, ProvisionInsert(p, g) PROVE G
    <3>1. proc[p].req \in Requests /\ req[proc[p].req] \in RequestStates
      BY <1>0, <2>6 DEF ProvisionInsert, HoldsRequest
    <3>2. CASE Transition(req[proc[p].req], "provisioned")
      <4>1. req[proc[p].req] = "provisioning"
        BY <3>1, <3>2 DEF Transition, allowedTransitions, RequestStates
      <4>2. Inserted(p, g)
        BY <2>6, <3>1, <3>2, <4>1 DEF ProvisionInsert, Inserted
      <4>3. QED
        BY <1>0, <4>2
    <3>3. CASE ~Transition(req[proc[p].req], "provisioned")
      BY <2>6, <3>3 DEF ProvisionInsert
    <3>4. QED
      BY <3>2, <3>3
  <2>7. QED
    BY <1>6, <2>1, <2>2, <2>3, <2>4, <2>5, <2>6 DEF ProvisionStep
<1>7. ASSUME NEW p \in Procs, TeardownMark(p) PROVE G
  BY <1>7 DEF TeardownMark, Marked
<1>8. CASE Next
  <2>1. ASSUME NEW p \in Procs, TeardownStep(p) \/ RevokeError(p) \/ Crash(p) PROVE G
    BY <1>7, <2>1 DEF TeardownStep, RevokeAccess, RevokeError, Crash, rows
  <2>2. CASE \E g \in Grants : Lapse(g)
    BY <2>2 DEF Lapse, rows
  <2>3. ASSUME NEW p \in Procs, NEW g \in Grants, RevokeGrant(p, g) \/ ExpireGrant(p, g) PROVE G
    BY <2>3 DEF RevokeGrant, ExpireGrant, TeardownRead, rows
  <2>4. QED
    BY <1>0, <1>5, <1>6, <1>8, <2>1, <2>2, <2>3 DEF Next
<1>9. QED
  BY <1>1, <1>8

-----------------------------------------------------------------------------
(* The other variables keep their types.                                   *)
OtherTypes == /\ scim \in SUBSET Requests
              /\ due \in SUBSET Grants
              /\ provider \in SUBSET Entitlements
              /\ stray \in SUBSET Entitlements
              /\ faults \in 0 .. MaxFaults

LEMMA OtherFrame ==
    ASSUME TypeOK, HoldsRequest, [Next]_vars
    PROVE  OtherTypes'
<1>0. OtherTypes /\ MaxFaults \in Nat /\ EntOf \in [Requests -> Entitlements]
  BY GrantNames DEF OtherTypes, TypeOK
<1>1. CASE UNCHANGED <<scim, due, provider, stray, faults>>
  BY <1>0, <1>1 DEF OtherTypes
<1>2. ASSUME NEW p \in Procs, ProvisionAccess(p) \/ ProvisionError(p) PROVE OtherTypes'
  <2>1. proc[p].req \in Requests
    BY <1>2 DEF ProvisionAccess, ProvisionError, HoldsRequest
  <2>2. provider \cup {EntOf[proc[p].req]} \in SUBSET Entitlements
        /\ Strayed(proc[p].req) \in SUBSET Entitlements
    BY <1>0, <2>1 DEF OtherTypes, Strayed
  <2>3. CASE ProvisionAccess(p)
    BY <1>0, <2>2, <2>3 DEF ProvisionAccess, OtherTypes, rows
  <2>4. CASE ProvisionError(p)
    BY <1>0, <2>2, <2>4 DEF ProvisionError, OtherTypes, rows
  <2>5. QED
    BY <1>2, <2>3, <2>4
<1>3. ASSUME NEW p \in Callers, ProvisionStep(p) PROVE OtherTypes'
  <2>1. CASE JoinApprove(p) \/ ProvisionBegin(p) \/ ProvisionFailed(p) \/ ProvisionRead(p)
             \/ ProvisionFind(p) \/ ProvisionReuse(p)
    BY <1>1, <2>1 DEF JoinApprove, ProvisionBegin, ProvisionFailed, ProvisionRead, ProvisionFind,
                      ProvisionReuse, rows
  <2>2. CASE \E r \in Requests : JoinCheck(p, r) \/ ProvisionCall(p, r)
    BY <1>1, <2>2 DEF JoinCheck, ProvisionCall, rows
  <2>3. CASE \E r \in Requests : JoinCreate(p, r)
    BY <1>0, <2>3 DEF JoinCreate, OtherTypes
  <2>4. CASE \E g \in Grants : ProvisionInsert(p, g)
    BY <1>1, <2>4 DEF ProvisionInsert
  <2>5. QED
    BY <1>2, <1>3, <2>1, <2>2, <2>3, <2>4 DEF ProvisionStep, Procs
<1>4. ASSUME NEW p \in Procs, TeardownStep(p) \/ RevokeError(p) \/ Crash(p) PROVE OtherTypes'
  <2>1. CASE TeardownMark(p)
    BY <1>1, <2>1 DEF TeardownMark
  <2>2. CASE RevokeAccess(p)
    BY <1>0, <2>2 DEF RevokeAccess, OtherTypes, rows
  <2>3. CASE RevokeError(p)
    BY <1>0, <2>3 DEF RevokeError, OtherTypes, rows
  <2>4. CASE Crash(p)
    BY <1>0, <2>4 DEF Crash, OtherTypes, rows
  <2>5. QED
    BY <1>4, <2>1, <2>2, <2>3, <2>4 DEF TeardownStep
<1>5. CASE \E r \in Requests : RequestStep(r)
  BY <1>1, <1>5 DEF RequestStep, CreateRequest, DecideRequest
<1>6. CASE \E g \in Grants : Lapse(g)
  BY <1>0, <1>6 DEF Lapse, OtherTypes, rows
<1>7. ASSUME NEW p \in Procs, NEW g \in Grants, RevokeGrant(p, g) \/ ExpireGrant(p, g)
      PROVE  OtherTypes'
  BY <1>1, <1>7 DEF RevokeGrant, ExpireGrant, TeardownRead, rows
<1>8. CASE UNCHANGED vars
  BY <1>1, <1>8 DEF vars, rows
<1>9. QED
  BY <1>3, <1>4, <1>5, <1>6, <1>7, <1>8 DEF Next, Procs

-----------------------------------------------------------------------------
(* What the rows keep across a step.                                       *)
RowInv == /\ req \in [Requests -> RequestStates]
          /\ grant \in [Grants -> GrantRow]
          /\ revokedAt \subseteq Grants
          /\ GrantBound
          /\ StampedEnded
          /\ NeverProvisioned
          /\ OneGrantPerRequest
          /\ GrantMatchesRequest

(* What a step never undoes.                                               *)
Kept == /\ \A r \in Requests : req[r] \in {"active", "revoked", "expired"}
                                => req'[r] \in {"active", "revoked", "expired"}
        /\ \A g \in Grants : grant[g].state # "none" => /\ grant'[g].state # "none"
                                                       /\ grant'[g].req = grant[g].req
        /\ \A g \in Grants : grant[g].state \in {"revoked", "expired"}
                                => grant'[g].state \in {"revoked", "expired"}
        /\ \A r \in Requests : req[r] \in Terminal => req'[r] = req[r]

LEMMA MovedKeeps ==
    ASSUME RowInv, NEW r \in Requests, NEW to \in RequestStates, Moved(r, to)
    PROVE  RowInv' /\ Kept
<1>1. /\ req' \in [Requests -> RequestStates]
      /\ req'[r] = to
      /\ \A q \in Requests : q # r => req'[q] = req[q]
      /\ req[r] \notin Terminal /\ req[r] # "active"
      /\ to \notin {"active", "revoked", "expired", "provisioned"}
      /\ grant' = grant /\ revokedAt' = revokedAt
  BY DEF RowInv, Moved
<1>2. \A g \in Grants : grant[g].state # "none" => grant[g].req \in Requests /\ grant[g].req # r
  BY <1>1 DEF RowInv, GrantBound, Terminal
<1>3. GrantBound' /\ StampedEnded' /\ NeverProvisioned' /\ OneGrantPerRequest'
  BY <1>1, <1>2 DEF RowInv, GrantBound, StampedEnded, NeverProvisioned, OneGrantPerRequest
<1>4. GrantMatchesRequest'
  <2>1. \A q \in Requests : LiveFor(q)' = LiveFor(q)
    BY <1>1 DEF LiveFor, Live
  <2>2. QED
    BY <1>1, <2>1 DEF RowInv, GrantMatchesRequest
<1>5. Kept
  BY <1>1 DEF Kept, Terminal
<1>6. QED
  BY <1>1, <1>3, <1>4, <1>5 DEF RowInv

LEMMA InsertedKeeps ==
    ASSUME RowInv, NEW p \in Procs, NEW g \in Grants, Inserted(p, g)
    PROVE  RowInv' /\ Kept
<1>0. PICK r \in Requests : r = proc[p].req
  BY DEF Inserted
<1>1. req[r] = "provisioning" /\ grant[g].state = "none"
  BY <1>0 DEF Inserted
<1>2. [state |-> "active", req |-> r] \in GrantRow
  BY <1>1 DEF GrantRow
<1>3. /\ grant' \in [Grants -> GrantRow]
      /\ grant'[g] = [state |-> "active", req |-> r]
      /\ \A h \in Grants : h # g => grant'[h] = grant[h]
  BY <1>0, <1>2 DEF Inserted, RowInv
<1>4. /\ req' \in [Requests -> RequestStates]
      /\ req'[r] = "active"
      /\ \A q \in Requests : q # r => req'[q] = req[q]
      /\ revokedAt' = revokedAt
  BY <1>0, <1>1 DEF Inserted, RowInv, RequestStates
<1>5. grant'[g].state = "active" /\ grant'[g].req = r
  BY <1>3
<1>6. \A h \in Grants : grant[h].state # "none" => grant[h].req \in Requests /\ grant[h].req # r
  BY <1>1 DEF RowInv, GrantBound
<1>7. g \notin revokedAt
  BY <1>1 DEF RowInv, StampedEnded
<1>8. GrantBound'
  BY <1>3, <1>4, <1>5, <1>6 DEF RowInv, GrantBound
<1>9. StampedEnded' /\ NeverProvisioned'
  BY <1>3, <1>4, <1>7 DEF RowInv, StampedEnded, NeverProvisioned
<1>10. OneGrantPerRequest'
  BY <1>3, <1>5, <1>6 DEF RowInv, OneGrantPerRequest
<1>11. GrantMatchesRequest'
  <2>1. g \in LiveFor(r)'
    BY <1>4, <1>5, <1>7 DEF LiveFor, Live
  <2>2. ASSUME NEW q \in Requests, q # r PROVE LiveFor(q)' = LiveFor(q)
    BY <1>1, <1>3, <1>4, <1>5, <2>2 DEF LiveFor, Live
  <2>3. QED
    BY <1>4, <2>1, <2>2 DEF RowInv, GrantMatchesRequest
<1>12. Kept
  BY <1>1, <1>3, <1>4 DEF Kept, Terminal
<1>13. QED
  BY <1>3, <1>4, <1>8, <1>9, <1>10, <1>11, <1>12 DEF RowInv

LEMMA MarkedKeeps ==
    ASSUME RowInv, HoldsGrant, NEW p \in Procs, Marked(p)
    PROVE  RowInv' /\ Kept
<1>a. PICK g \in Grants : g = proc[p].grant
  BY DEF Marked, HoldsGrant
<1>b. PICK goal \in {"revoked", "expired"} : goal = proc[p].goal
  BY DEF Marked, HoldsGrant
<1>1. grant[g].state # "none" /\ markGrantTerminal(g, goal)
  BY <1>a, <1>b DEF Marked, HoldsGrant
<1>2. PICK r \in Requests : r = grant[g].req /\ req[r] \in {"active", "revoked", "expired"}
  BY <1>1 DEF RowInv, GrantBound
<1>3. [grant[g] EXCEPT !.state = goal] \in GrantRow
  BY <1>1 DEF RowInv, GrantRow
<1>4. /\ grant' \in [Grants -> GrantRow]
      /\ grant'[g] = [grant[g] EXCEPT !.state = goal]
      /\ \A h \in Grants : h # g => grant'[h] = grant[h]
  BY <1>1, <1>3 DEF markGrantTerminal, RowInv
<1>5. grant'[g].state = goal /\ grant'[g].req = r
  BY <1>1, <1>2, <1>4 DEF RowInv, GrantRow
<1>6. /\ req' \in [Requests -> RequestStates]
      /\ req'[r] \in {"revoked", "expired"}
      /\ req[r] # "active" => req'[r] = req[r]
      /\ \A q \in Requests : q # r => req'[q] = req[q]
  BY <1>1, <1>2 DEF markGrantTerminal, RowInv, RequestStates
<1>7. revokedAt \subseteq revokedAt' /\ revokedAt' \subseteq revokedAt \cup {g}
  BY <1>1 DEF markGrantTerminal
<1>c. ASSUME NEW h \in Grants
      PROVE  /\ grant'[h].req = grant[h].req
             /\ grant'[h].state # "none" <=> grant[h].state # "none"
  BY <1>1, <1>2, <1>4, <1>5
<1>d. ASSUME NEW q \in Requests, req[q] \in {"active", "revoked", "expired"}
      PROVE  req'[q] \in {"active", "revoked", "expired"}
  BY <1>6, <1>d
<1>8. GrantBound'
  BY <1>c, <1>d DEF RowInv, GrantBound
<1>9. StampedEnded' /\ NeverProvisioned' /\ revokedAt' \subseteq Grants
  BY <1>1, <1>4, <1>5, <1>6, <1>7 DEF RowInv, StampedEnded, NeverProvisioned
<1>10. OneGrantPerRequest'
  BY <1>c DEF RowInv, OneGrantPerRequest
<1>11. GrantMatchesRequest'
  <2>1. LiveFor(r)' = {}
    BY <1>1, <1>2, <1>4, <1>5 DEF LiveFor, Live, RowInv, OneGrantPerRequest
  <2>2. ASSUME NEW q \in Requests, q # r PROVE LiveFor(q)' = LiveFor(q)
    BY <1>1, <1>2, <1>4, <1>5, <1>7, <2>2 DEF LiveFor, Live
  <2>3. QED
    BY <1>6, <2>1, <2>2 DEF RowInv, GrantMatchesRequest
<1>12. Kept
  BY <1>1, <1>2, <1>4, <1>5, <1>6 DEF Kept, Terminal
<1>13. QED
  BY <1>4, <1>6, <1>8, <1>9, <1>10, <1>11, <1>12 DEF RowInv

LEMMA RowsKeep ==
    ASSUME GrantInv, [Next]_vars
    PROVE  RowInv' /\ Kept
<1>1. RowInv /\ HoldsGrant
  BY Types DEF RowInv, GrantInv
<1>2. CASE UNCHANGED <<req, grant, revokedAt>>
  <2>1. \A r \in Requests : LiveFor(r)' = LiveFor(r)
    BY <1>2 DEF LiveFor, Live
  <2>2. QED
    BY <1>1, <1>2, <2>1 DEF RowInv, Kept, GrantBound, StampedEnded, NeverProvisioned,
                            OneGrantPerRequest, GrantMatchesRequest
<1>3. QED
  BY <1>1, <1>2, RowFrame, MovedKeeps, InsertedKeeps, MarkedKeeps DEF GrantInv

-----------------------------------------------------------------------------
LEMMA GrantInit == ASSUME Init PROVE GrantInv
<1>1. NoRow \in GrantRow /\ Idle \in Proc
  BY DEF NoRow, Idle, GrantRow, Proc
<1>2. TypeOK
  BY <1>1, GrantNames DEF Init, TypeOK, RequestStates, GrantRow, Proc
<1>3. HoldsRequest /\ HoldsGrant /\ ReuseSettled
  BY DEF Init, HoldsRequest, HoldsGrant, ReuseSettled, Idle
<1>4. GrantBound /\ StampedEnded /\ NeverProvisioned /\ OneGrantPerRequest
  BY DEF Init, GrantBound, StampedEnded, NeverProvisioned, OneGrantPerRequest, NoRow
<1>5. GrantMatchesRequest
  BY DEF Init, GrantMatchesRequest, LiveFor, Live, NoRow
<1>6. QED
  BY <1>2, <1>3, <1>4, <1>5 DEF GrantInv

LEMMA GrantStep == ASSUME GrantInv, [Next]_vars PROVE GrantInv'
<1>1. RowInv' /\ Kept
  BY RowsKeep
<1>2. /\ proc' \in [Procs -> Proc]
      /\ \/ proc' = proc
         \/ \E p \in Procs : /\ \A q \in Procs : q # p => proc'[q] = proc[q]
                             /\ \/ proc'[p] = Idle
                                \/ Starts(p, proc'[p])
                                \/ Advances(p, proc'[p])
  BY ProcFrame DEF GrantInv
<1>3. TypeOK'
  BY <1>1, <1>2, OtherFrame DEF GrantInv, TypeOK, RowInv, OtherTypes, GrantRow, Proc
<1>4. ASSUME NEW q \in Procs, proc'[q] = proc[q]
      PROVE  /\ proc'[q].pc \in {"join", "approve", "read", "begin", "call", "fail",
                                  "find", "reuse", "insert"} => proc'[q].req \in Requests
             /\ proc'[q].pc \in {"teardown", "mark"}
                   => /\ proc'[q].grant \in Grants
                      /\ grant'[proc'[q].grant].state # "none"
                      /\ proc'[q].goal \in {"revoked", "expired"}
             /\ proc'[q].pc = "reuse" => req'[proc'[q].req] \in {"active", "revoked", "expired"}
  BY <1>1, <1>4 DEF GrantInv, HoldsRequest, HoldsGrant, ReuseSettled, Kept
<1>5. ASSUME NEW q \in Procs, proc'[q] = Idle
      PROVE  proc'[q].pc = "idle"
  BY <1>5 DEF Idle
<1>6. ASSUME NEW q \in Procs, Starts(q, proc'[q])
      PROVE  /\ proc'[q].pc \in {"join", "read", "approve", "teardown"}
             /\ proc'[q].pc # "teardown" => proc'[q].req \in Requests
             /\ proc'[q].pc = "teardown"
                   => /\ proc'[q].grant \in Grants
                      /\ grant'[proc'[q].grant].state # "none"
                      /\ proc'[q].goal \in {"revoked", "expired"}
  BY <1>1, <1>6 DEF Starts, Kept
<1>7. ASSUME NEW q \in Procs, Advances(q, proc'[q])
      PROVE  /\ proc'[q].pc \in {"join", "approve", "read", "begin", "call", "fail",
                                  "find", "reuse", "insert"} => proc'[q].req \in Requests
             /\ proc'[q].pc \in {"teardown", "mark"}
                   => /\ proc'[q].grant \in Grants
                      /\ grant'[proc'[q].grant].state # "none"
                      /\ proc'[q].goal \in {"revoked", "expired"}
             /\ proc'[q].pc = "reuse" => req'[proc'[q].req] \in {"active", "revoked", "expired"}
  <2>1. HoldsRequest /\ HoldsGrant /\ GrantMatchesRequest
    BY DEF GrantInv
  <2>2. CASE /\ proc[q].pc \in {"approve", "read", "begin", "call", "find"}
             /\ proc'[q].pc \in {"read", "begin", "call", "fail", "find", "insert"}
    BY <1>7, <2>1, <2>2 DEF Advances, HoldsRequest
  <2>3. CASE proc[q].pc = "find" /\ proc'[q].pc = "reuse" /\ LiveFor(proc[q].req) # {}
    <3>1. proc[q].req \in Requests /\ proc'[q].req = proc[q].req
      BY <1>7, <2>1, <2>3 DEF Advances, HoldsRequest
    <3>2. req[proc[q].req] = "active"
      BY <2>1, <2>3, <3>1 DEF GrantMatchesRequest
    <3>3. QED
      BY <1>1, <2>3, <3>1, <3>2 DEF Kept
  <2>4. CASE proc[q].pc = "teardown" /\ proc'[q].pc = "mark"
    BY <1>1, <1>7, <2>1, <2>4 DEF Advances, HoldsGrant, Kept
  <2>5. QED
    BY <1>7, <2>2, <2>3, <2>4 DEF Advances
<1>8. ASSUME NEW q \in Procs
      PROVE  /\ proc'[q].pc \in {"join", "approve", "read", "begin", "call", "fail",
                                  "find", "reuse", "insert"} => proc'[q].req \in Requests
             /\ proc'[q].pc \in {"teardown", "mark"}
                   => /\ proc'[q].grant \in Grants
                      /\ grant'[proc'[q].grant].state # "none"
                      /\ proc'[q].goal \in {"revoked", "expired"}
             /\ proc'[q].pc = "reuse" => req'[proc'[q].req] \in {"active", "revoked", "expired"}
  <2>1. \/ proc'[q] = proc[q] \/ proc'[q] = Idle \/ Starts(q, proc'[q]) \/ Advances(q, proc'[q])
    BY <1>2
  <2>2. QED
    BY <1>4, <1>5, <1>6, <1>7, <2>1
<1>9. HoldsRequest' /\ HoldsGrant' /\ ReuseSettled'
  BY <1>8 DEF HoldsRequest, HoldsGrant, ReuseSettled
<1>10. QED
  BY <1>1, <1>3, <1>9 DEF GrantInv, RowInv

LEMMA GrantInvariant == Spec => []GrantInv
<1>1. GrantInv /\ [Next]_vars => GrantInv'
  BY GrantStep
<1>2. QED
  BY <1>1, GrantInit, PTL DEF Spec

(* Type correctness of the request, grant and goroutine states, for any    *)
(* number of requests, grants, callers and faults.                         *)
THEOREM GrantTypeCorrect == Spec => []TypeOK
<1>1. GrantInv => TypeOK
  BY DEF GrantInv
<1>2. QED
  BY <1>1, GrantInvariant, PTL

(* Provision's idempotency: however many callers provision a request, with *)
(* whatever crashes and retries, it gets at most one grant row.            *)
THEOREM GrantedOnce == Spec => []OneGrantPerRequest
<1>1. GrantInv => OneGrantPerRequest
  BY DEF GrantInv
<1>2. QED
  BY <1>1, GrantInvariant, PTL

(* The service's promise that a materialized grant always has a matching   *)
(* active request, and the other way round.                                *)
THEOREM GrantsAndRequestsAgree == Spec => []GrantMatchesRequest
<1>1. GrantInv => GrantMatchesRequest
  BY DEF GrantInv
<1>2. QED
  BY <1>1, GrantInvariant, PTL

(* No late provisioning attempt, decision or sweep moves a request out of  *)
(* a terminal state.                                                       *)
THEOREM TerminalForGood == Spec => TerminalIsFinal
<1>1. GrantInv /\ [Next]_vars
        => [\A r \in Requests : req[r] \in Terminal => req'[r] = req[r]]_vars
  BY RowsKeep DEF Kept
<1>2. QED
  BY <1>1, GrantInvariant, PTL DEF Spec, TerminalIsFinal

-----------------------------------------------------------------------------
(* What a step may do at the provider.                                     *)
NoNewMark == \A q \in Procs : proc'[q].pc = "mark" => proc'[q] = proc[q]

Withdrawn(e) ==
    /\ provider' = provider \ {e} /\ stray' = stray \ {e}
    /\ \A q \in Procs : proc'[q].pc = "mark"
                            => \/ proc'[q] = proc[q]
                               \/ /\ EntOf[grant[proc'[q].grant].req] = e
                                  /\ grant[proc'[q].grant].state # "none"

Provided(r) ==
    /\ NoNewMark
    /\ provider' = provider \cup {EntOf[r]} /\ stray' = Strayed(r) /\ req' = req

LEMMA ProviderFrame ==
    ASSUME GrantInv, [Next]_vars
    PROVE  \/ UNCHANGED <<provider, stray>> /\ NoNewMark
           \/ \E e \in Entitlements : Withdrawn(e)
           \/ \E r \in Requests : Provided(r)
<1> DEFINE G == \/ UNCHANGED <<provider, stray>> /\ NoNewMark
                \/ \E e \in Entitlements : Withdrawn(e)
                \/ \E r \in Requests : Provided(r)
<1>0. /\ proc \in [Procs -> Proc] /\ HoldsRequest /\ HoldsGrant /\ GrantBound /\ Procs = Callers \cup Enforcers
      /\ EntOf \in [Requests -> Entitlements]
  BY Types, GrantNames DEF GrantInv, Procs
<1>1. CASE UNCHANGED <<proc, provider, stray>>
  BY <1>1 DEF NoNewMark
<1>2. ASSUME NEW p \in Procs, Finish(p) PROVE NoNewMark
  BY <1>0, <1>2, Moves DEF NoNewMark, Idle
<1>3. ASSUME NEW p \in Procs, NEW pc \in {"read", "begin", "call", "fail", "find", "reuse", "insert"},
             Goto(p, pc)
      PROVE  NoNewMark
  <2>1. proc'[p].pc = pc /\ \A q \in Procs : q # p => proc'[q] = proc[q]
    BY <1>0, <1>3, Moves
  <2>2. QED
    BY <2>1 DEF NoNewMark
<1>4. ASSUME NEW p \in Procs, NEW x \in Proc, x.pc # "mark", proc' = [proc EXCEPT ![p] = x]
      PROVE  NoNewMark
  BY <1>0, <1>4 DEF NoNewMark
<1>5. ASSUME NEW p \in Procs, NEW r \in Requests,
             JoinCheck(p, r) \/ JoinCreate(p, r) \/ ProvisionCall(p, r)
      PROVE  G
  <2>1. PICK pc \in {"join", "approve", "read"} :
            /\ proc' = [proc EXCEPT ![p] = [proc[p] EXCEPT !.pc = pc, !.req = r]]
            /\ UNCHANGED <<provider, stray>>
    BY <1>5 DEF JoinCheck, JoinCreate, ProvisionCall
  <2>2. /\ [proc[p] EXCEPT !.pc = pc, !.req = r] \in Proc
        /\ [proc[p] EXCEPT !.pc = pc, !.req = r].pc # "mark"
    BY <1>0 DEF Proc
  <2>3. QED
    BY <1>4, <2>1, <2>2
<1>6. ASSUME NEW p \in Procs, ProvisionAccess(p) \/ ProvisionError(p) PROVE G
  <2>1. /\ proc[p].req \in Requests
        /\ NoNewMark /\ req' = req
        /\ \/ UNCHANGED <<provider, stray>>
           \/ provider' = provider \cup {EntOf[proc[p].req]} /\ stray' = Strayed(proc[p].req)
    BY <1>0, <1>3, <1>6 DEF ProvisionAccess, ProvisionError, HoldsRequest, rows
  <2>2. QED
    BY <2>1 DEF Provided
<1>7. ASSUME NEW p \in Callers, ProvisionStep(p) PROVE G
  <2>0. p \in Procs
    BY <1>0
  <2>1. CASE JoinApprove(p)
    BY <1>2, <1>3, <2>0, <2>1 DEF JoinApprove
  <2>2. CASE ProvisionRead(p)
    BY <1>2, <1>3, <2>0, <2>2 DEF ProvisionRead
  <2>3. CASE ProvisionBegin(p)
    BY <1>2, <1>3, <2>0, <2>3 DEF ProvisionBegin
  <2>4. CASE ProvisionFind(p)
    BY <1>3, <2>0, <2>4 DEF ProvisionFind
  <2>5. CASE ProvisionFailed(p) \/ ProvisionReuse(p) \/ \E g \in Grants : ProvisionInsert(p, g)
    BY <1>2, <2>0, <2>5 DEF ProvisionFailed, ProvisionReuse, ProvisionInsert
  <2>6. QED
    BY <1>5, <1>6, <1>7, <2>0, <2>1, <2>2, <2>3, <2>4, <2>5 DEF ProvisionStep
<1>8. ASSUME NEW p \in Procs, NEW g \in Grants, NEW goal \in {"revoked", "expired"},
             TeardownRead(p, g, goal)
      PROVE  G
  <2>1. /\ [proc[p] EXCEPT !.pc = "teardown", !.grant = g, !.goal = goal] \in Proc
        /\ [proc[p] EXCEPT !.pc = "teardown", !.grant = g, !.goal = goal].pc # "mark"
    BY <1>0 DEF Proc
  <2>2. QED
    BY <1>4, <1>8, <2>1 DEF TeardownRead
<1>9. ASSUME NEW p \in Procs, proc[p].pc = "teardown" PROVE Torn(p) \in Entitlements
  BY <1>0, <1>9 DEF Torn, HoldsGrant, GrantBound
<1>10. ASSUME NEW p \in Procs, RevokeAccess(p) PROVE G
  <2>1. /\ proc'[p].grant = proc[p].grant /\ \A q \in Procs : q # p => proc'[q] = proc[q]
    BY <1>0, <1>10, Moves DEF RevokeAccess
  <2>2. Withdrawn(Torn(p))
    BY <1>0, <1>10, <2>1 DEF RevokeAccess, Withdrawn, Torn, HoldsGrant
  <2>3. QED
    BY <1>9, <1>10, <2>2 DEF RevokeAccess
<1>11. ASSUME NEW p \in Procs, RevokeError(p) PROVE G
  <2>1. NoNewMark /\ Torn(p) \in Entitlements
    BY <1>2, <1>9, <1>11 DEF RevokeError
  <2>2. CASE UNCHANGED <<provider, stray>>
    BY <2>1, <2>2
  <2>3. CASE provider' = provider \ {Torn(p)} /\ stray' = stray \ {Torn(p)}
    <3>1. Withdrawn(Torn(p))
      BY <2>1, <2>3 DEF Withdrawn, NoNewMark
    <3>2. QED
      BY <2>1, <3>1
  <2>4. QED
    BY <1>11, <2>2, <2>3 DEF RevokeError
<1>12. ASSUME NEW p \in Procs, TeardownMark(p) \/ Crash(p) PROVE G
  BY <1>2, <1>12 DEF TeardownMark, Crash
<1>13. CASE UNCHANGED vars
  BY <1>1, <1>13 DEF vars
<1>14. CASE \E r \in Requests : RequestStep(r)
  BY <1>1, <1>14 DEF RequestStep, CreateRequest, DecideRequest
<1>15. CASE \E g \in Grants : Lapse(g)
  BY <1>1, <1>15 DEF Lapse
<1>16. ASSUME NEW p \in Procs, NEW g \in Grants, RevokeGrant(p, g) \/ ExpireGrant(p, g) PROVE G
  BY <1>8, <1>16 DEF RevokeGrant, ExpireGrant
<1>17. ASSUME NEW p \in Procs, TeardownStep(p) \/ RevokeError(p) \/ Crash(p) PROVE G
  BY <1>10, <1>11, <1>12, <1>17 DEF TeardownStep
<1>18. CASE Next
  BY <1>0, <1>7, <1>14, <1>15, <1>16, <1>17, <1>18 DEF Next
<1>19. QED
  BY <1>13, <1>18

(* A step leaves a backed entitlement backed, unless it is the one whose   *)
(* teardown it carries out at the provider.                                *)
LEMMA BackedKept ==
    ASSUME GrantInv, [Next]_vars, NEW r \in Requests, Backed(r),
           \A q \in Procs : proc'[q].pc = "mark"
               => \/ proc'[q] = proc[q]
                  \/ /\ proc'[q].grant \notin LiveFor(r)
                     /\ grant[proc'[q].grant].state # "none"
    PROVE  Backed(r)'
<1> DEFINE P == {"provisioning", "provision_failed"}
<1>0. RowInv /\ HoldsGrant
  BY Types DEF RowInv, GrantInv
<1>1. ASSUME LiveFor(r)' = LiveFor(r), req[r] \in P => req'[r] \in P
      PROVE  Backed(r)'
  <2>1. ASSUME NEW q \in Procs, proc'[q].pc = "mark",
               \A x \in Procs : proc[x].pc = "mark" => proc[x].grant \notin LiveFor(r)
        PROVE  proc'[q].grant \notin LiveFor(r)
    BY <2>1
  <2>2. CASE req[r] \in P
    BY <1>1, <2>2 DEF Backed
  <2>3. CASE LiveFor(r) # {} /\ \A x \in Procs : proc[x].pc = "mark" => proc[x].grant \notin LiveFor(r)
    BY <1>1, <2>1, <2>3 DEF Backed
  <2>4. QED
    BY <2>2, <2>3 DEF Backed
<1>2. CASE UNCHANGED <<req, grant, revokedAt>>
  BY <1>1, <1>2 DEF LiveFor, Live
<1>3. ASSUME NEW q \in Requests, NEW to \in RequestStates, Moved(q, to) PROVE Backed(r)'
  <2>1. LiveFor(r)' = LiveFor(r)
    BY <1>3 DEF Moved, LiveFor, Live
  <2>2. req[r] \in P => req'[r] \in P
    BY <1>0, <1>3 DEF Moved, RowInv
  <2>3. QED
    BY <1>1, <2>1, <2>2
<1>4. ASSUME NEW p \in Procs, NEW g \in Grants, Inserted(p, g) PROVE Backed(r)'
  <2>1. PICK q \in Requests : q = proc[p].req
    BY <1>4 DEF Inserted
  <2>2. [state |-> "active", req |-> q] \in GrantRow
    BY DEF GrantRow
  <2>3. /\ grant[g].state = "none"
        /\ grant'[g] = [state |-> "active", req |-> q]
        /\ \A h \in Grants : h # g => grant'[h] = grant[h]
        /\ req[q] = "provisioning" /\ req'[q] = "active"
        /\ \A x \in Requests : x # q => req'[x] = req[x]
        /\ revokedAt' = revokedAt
    BY <1>0, <1>4, <2>1, <2>2 DEF Inserted, RowInv
  <2>4. grant'[g].state = "active" /\ grant'[g].req = q /\ g \notin revokedAt
    BY <1>0, <2>3 DEF RowInv, StampedEnded
  <2>5. CASE r # q
    <3>1. LiveFor(r)' = LiveFor(r)
      BY <2>3, <2>4, <2>5 DEF LiveFor, Live
    <3>2. QED
      BY <1>1, <2>3, <2>5, <3>1
  <2>6. CASE r = q
    <3>1. \A h \in Grants : grant[h].state # "none" => grant[h].req # q
      BY <1>0, <2>3 DEF RowInv, GrantBound
    <3>2. LiveFor(r)' = {g}
      BY <2>3, <2>4, <2>6, <3>1 DEF LiveFor, Live
    <3>3. ASSUME NEW x \in Procs, proc'[x].pc = "mark" PROVE proc'[x].grant # g
      BY <1>0, <2>3, <3>3 DEF HoldsGrant
    <3>4. QED
      BY <3>2, <3>3 DEF Backed
  <2>7. QED
    BY <2>5, <2>6
<1>5. ASSUME NEW p \in Procs, Marked(p) PROVE Backed(r)'
  <2>1. PICK g \in Grants : g = proc[p].grant
    BY <1>0, <1>5 DEF Marked, HoldsGrant
  <2>2. PICK goal \in {"revoked", "expired"} : goal = proc[p].goal
    BY <1>0, <1>5 DEF Marked, HoldsGrant
  <2>3. grant[g].state # "none" /\ markGrantTerminal(g, goal) /\ proc[p].pc = "mark"
    BY <1>0, <1>5, <2>1, <2>2 DEF Marked, HoldsGrant
  <2>4. PICK q \in Requests : q = grant[g].req /\ req[q] \in {"active", "revoked", "expired"}
    BY <1>0, <2>3 DEF RowInv, GrantBound
  <2>5. r # q
    <3>1. SUFFICES ASSUME r = q PROVE FALSE
      OBVIOUS
    <3>2. PICK h \in LiveFor(r) : TRUE
      BY <2>4, <3>1 DEF Backed
    <3>3. h \in Grants /\ grant[h].state # "none" /\ grant[h].req = grant[g].req
      BY <2>4, <3>1, <3>2 DEF LiveFor, Live
    <3>4. h = g
      BY <1>0, <2>3, <3>3 DEF RowInv, OneGrantPerRequest
    <3>5. QED
      BY <2>1, <2>3, <2>4, <3>1, <3>2, <3>4 DEF Backed
  <2>6. [grant[g] EXCEPT !.state = goal] \in GrantRow
    BY <1>0 DEF RowInv, GrantRow
  <2>7. /\ grant'[g] = [grant[g] EXCEPT !.state = goal]
        /\ \A h \in Grants : h # g => grant'[h] = grant[h]
        /\ \A h \in Grants : h # g => (h \in revokedAt' <=> h \in revokedAt)
        /\ req'[r] = req[r]
    BY <1>0, <2>3, <2>4, <2>5, <2>6 DEF markGrantTerminal, RowInv
  <2>8. grant'[g].req = q
    BY <1>0, <2>4, <2>7 DEF RowInv, GrantRow
  <2>9. LiveFor(r)' = LiveFor(r)
    BY <2>4, <2>5, <2>7, <2>8 DEF LiveFor, Live
  <2>10. QED
    BY <1>1, <2>7, <2>9
<1>6. QED
  BY <1>2, <1>3, <1>4, <1>5, RowFrame DEF GrantInv

LEMMA BackedStep == ASSUME GrantInv, AccessBacked, [Next]_vars PROVE AccessBacked'
<1>1. SUFFICES ASSUME NEW e \in provider', e \notin stray'
               PROVE  \E r \in Requests : EntOf[r] = e /\ Backed(r)'
  BY DEF AccessBacked
<1>2. CASE UNCHANGED <<provider, stray>> /\ NoNewMark
  BY <1>1, <1>2, BackedKept DEF NoNewMark, AccessBacked
<1>3. ASSUME NEW x \in Entitlements, Withdrawn(x)
      PROVE  \E r \in Requests : EntOf[r] = e /\ Backed(r)'
  <2>1. e \in provider /\ e \notin stray /\ e # x
    BY <1>1, <1>3 DEF Withdrawn
  <2>2. PICK r \in Requests : EntOf[r] = e /\ Backed(r)
    BY <2>1 DEF AccessBacked
  <2>3. ASSUME NEW g, EntOf[grant[g].req] = x PROVE g \notin LiveFor(r)
    BY <2>1, <2>2, <2>3 DEF LiveFor
  <2>4. Backed(r)'
    BY <1>3, <2>2, <2>3, BackedKept DEF Withdrawn
  <2>5. QED
    BY <2>2, <2>4
<1>4. ASSUME NEW q \in Requests, Provided(q)
      PROVE  \E r \in Requests : EntOf[r] = e /\ Backed(r)'
  <2>1. CASE req[q] = "provisioning" /\ e = EntOf[q]
    BY <1>4, <2>1 DEF Provided, Backed
  <2>2. CASE e # EntOf[q] \/ req[q] # "provisioning"
    <3>1. e \in provider /\ e \notin stray
      BY <1>1, <1>4, <2>2 DEF Provided, Strayed
    <3>2. PICK r \in Requests : EntOf[r] = e /\ Backed(r)
      BY <3>1 DEF AccessBacked
    <3>3. QED
      BY <1>4, <3>2, BackedKept DEF Provided, NoNewMark
  <2>3. QED
    BY <2>1, <2>2
<1>5. QED
  BY <1>2, <1>3, <1>4, ProviderFrame

(* No access is left at a provider that the database does not account for: *)
(* by a live grant, by a request whose provisioning can be retried, or, in *)
(* the one way the code leaves open, by a provision call that outlived its *)
(* request's transition.                                                   *)
THEOREM NoForgottenAccess == Spec => []AccessAccounted
<1>1. Init => AccessBacked
  BY DEF Init, AccessBacked
<1>2. GrantInv /\ AccessBacked /\ [Next]_vars => AccessBacked'
  BY BackedStep
<1>3. AccessBacked => AccessAccounted
  BY DEF AccessBacked, AccessAccounted, Backed
<1>4. QED
  BY <1>1, <1>2, <1>3, GrantInvariant, PTL DEF Spec
=============================================================================

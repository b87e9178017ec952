------------------------ MODULE WorkflowEngineProofs ------------------------
(***************************************************************************)
(* Proofs about WorkflowEngine for any number of requests, approvers, jobs,*)
(* attempts and faults.                                                    *)
(*                                                                         *)
(* Two inductive invariants.  ChainInv is about requests and votes: the    *)
(* holder of a request's row lock is alone (OneHolder) and still sees what *)
(* it read under the lock (Undisturbed), which is what makes the chain it  *)
(* derived the one it commits.  QueueInv is about jobs and the user: what  *)
(* the pc of a kill switch run says of the layers behind it (Layers), that *)
(* a live grant has an active request (LiveActive), and that the job of a  *)
(* released request stays until the request is settled.                    *)
(***************************************************************************)
EXTENDS WorkflowEngine, TLAPS, FiniteSetTheorems

States == {"absent", "requested", "ai_reviewed", "approved", "denied", "cancelled",
           "provisioning", "provision_failed", "active", "revoked"}
ReqRows == [state : States, lane : Lanes \cup {"none"}, via : {"none", "engine", "http"}]
TxRows == [pc : {"idle", "record", "commit"}, req : Requests \cup {NoRequest},
           vote : {"none", "approve", "deny"}, seen : States \cup {"none"}, ok : BOOLEAN]

ChainTypes ==
    /\ req \in [Requests -> ReqRows]
    /\ decision \in [Requests -> [Approvers -> {"none", "approve", "deny"}]]
    /\ tx \in [Approvers -> TxRows]
    /\ routing \in [Requests -> {"none", "review", "approve"}]
    /\ released \subseteq Requests

(* A transaction knows the request it has locked, and the request has not  *)
(* moved since.                                                            *)
Undisturbed ==
    \A a \in Approvers : tx[a].pc # "idle" =>
        /\ tx[a].req \in Requests /\ tx[a].vote \in {"approve", "deny"}
        /\ tx[a].seen = req[tx[a].req].state /\ tx[a].seen # "absent"

OneHolder ==
    \A a, b \in Approvers :
        tx[a].pc # "idle" /\ tx[b].pc # "idle" /\ tx[a].req = tx[b].req => a = b

(* What StateTx derived is what a commit would find.                       *)
Derived ==
    \A a \in Approvers : tx[a].pc = "commit" =>
        (tx[a].ok <=> Satisfied(Record(a), req[tx[a].req].lane))

AbsentUnvoted ==
    \A r \in Requests : req[r].state = "absent" => \A a \in Approvers : decision[r][a] = "none"

RoutedAuto == \A r \in Requests : routing[r] = "approve" => req[r].lane = "auto_approve"

ReleasedPast ==
    \A r \in released : req[r].state \notin {"absent", "requested", "ai_reviewed", "denied"}

ChainInv == /\ ChainTypes /\ Undisturbed /\ OneHolder /\ Derived
            /\ AbsentUnvoted /\ RoutedAuto /\ ReleasedPast
            /\ ChainNeverStalls /\ FourEyes

Statuses == {"none", "queued", "running", "retry", "done", "dead_letter"}
JobRows == [status : Statuses, kind : {"none", "provision", "leaver"},
            req : Requests \cup {NoRequest}, attempts : 0 .. MaxAttempts]
ProvisionPcs == {"provision", "call", "insert"}
KillPcs == {"leaver", "revoke", "teams", "iam", "sessions", "list", "scim", "verify"}
RunRows == [pc : {"none"} \cup ProvisionPcs \cup KillPcs, todo : SUBSET Requests, errored : BOOLEAN,
            lateAccess : SUBSET Requests, lateGrants : SUBSET Requests]
Accounts == [member : BOOLEAN, enabled : BOOLEAN, sessions : BOOLEAN, orphaned : BOOLEAN,
             access : SUBSET Requests]

QueueTypes ==
    /\ job \in [Jobs -> JobRows]
    /\ run \in [Jobs -> RunRows]
    /\ live \subseteq Requests
    /\ account \in Accounts
    /\ owed \subseteq Requests /\ dropped \subseteq Requests
    /\ faults \in 0 .. MaxFaults

(* A row is of a kind once it is enqueued, has an attempt left until it is *)
(* dead-lettered, and only a running one has a run, of its kind.           *)
Shape(j) ==
    /\ job[j].status = "none" <=> job[j].kind = "none"
    /\ job[j].kind = "provision" => job[j].req \in Requests
    /\ job[j].status # "dead_letter" => job[j].attempts < MaxAttempts
    /\ job[j].status # "running" => run[j].pc = "none"
    /\ run[j].pc \in ProvisionPcs => job[j].kind = "provision"
    /\ run[j].pc \in KillPcs => job[j].kind = "leaver"

JobShape == \A j \in Jobs : Shape(j)

LiveActive == \A r \in live : req[r].state = "active"

(* The layers behind a run that no error has met took effect.              *)
LayersAt(j) ==
    run[j].pc \in KillPcs /\ ~run[j].errored =>
        /\ run[j].pc \in {"iam", "sessions", "list", "scim", "verify"} => ~account.member
        /\ run[j].pc \in {"sessions", "list", "scim", "verify"} => ~account.enabled
        /\ run[j].pc \in {"list", "scim", "verify"} => ~account.sessions
        /\ run[j].pc = "scim" => account.access \subseteq run[j].todo \cup run[j].lateAccess
        /\ run[j].pc = "verify" => account.access \subseteq run[j].lateAccess

Layers == \A j \in Jobs : LayersAt(j)

QueueInv == QueueTypes /\ JobShape /\ LiveActive /\ Layers /\ LeaverComplete /\ ReleasedIsDriven

LEMMA ChainInit == Init => ChainInv
BY DEF Init, NoTx, ChainInv, ChainTypes, ReqRows, TxRows, States, Undisturbed, OneHolder, Derived,
   AbsentUnvoted, RoutedAuto, ReleasedPast, ChainNeverStalls, FourEyes

LEMMA QueueInit == Init => QueueInv
BY EngineAssumption DEF Init, NoJob, NoRun, QueueInv, QueueTypes, JobRows, Statuses, RunRows, Accounts,
   ProvisionPcs, KillPcs, JobShape, Shape, LiveActive, Layers, LayersAt, LeaverComplete, ReleasedIsDriven

-----------------------------------------------------------------------------
(* Steps outside the transactions of approvers                             *)

(* Such a step leaves a locked request and every vote alone, starts no     *)
(* request over, and releases only what no vote is needed for.             *)
Past(s) == s \notin {"absent", "requested", "ai_reviewed", "denied"}

MovesRequests ==
    /\ UNCHANGED <<decision, tx>>
    /\ req' \in [Requests -> ReqRows]
    /\ routing' \in [Requests -> {"none", "review", "approve"}]
    /\ released' \subseteq Requests
    /\ \A r \in Requests :
         /\ Locked(r) => req'[r] = req[r]
         /\ req'[r].state = "absent" => req[r].state = "absent"
         /\ req'[r].state = "requested" => req'[r] = req[r] \/ req[r].state = "absent"
         /\ routing'[r] = "approve" => req'[r].lane = "auto_approve"
    /\ \A r \in released' :
         /\ Past(req'[r].state)
         /\ (r \in released /\ req'[r].lane = req[r].lane) \/ req'[r].lane = "auto_approve"

LEMMA MovesKeep == ASSUME ChainInv, MovesRequests PROVE ChainInv'
<1>1. ChainTypes' /\ OneHolder' /\ RoutedAuto'
  BY DEF MovesRequests, ChainInv, ChainTypes, OneHolder, RoutedAuto
<1>2. \A a \in Approvers : tx[a].pc # "idle" => tx[a].req \in Requests /\ req'[tx[a].req] = req[tx[a].req]
  BY DEF MovesRequests, ChainInv, Undisturbed, Locked
<1>3. Undisturbed'
  BY <1>2 DEF MovesRequests, ChainInv, Undisturbed
<1>4. Derived'
  <2>1. ASSUME NEW a \in Approvers, tx'[a].pc = "commit"
        PROVE  tx'[a].ok <=> Satisfied(Record(a), req[tx[a].req].lane)'
    <3>1. Record(a)' = Record(a) /\ req'[tx'[a].req].lane = req[tx[a].req].lane
      BY <1>2, <2>1 DEF MovesRequests, Record
    <3>2. tx[a].ok <=> Satisfied(Record(a), req[tx[a].req].lane)
      BY <2>1 DEF MovesRequests, ChainInv, Derived
    <3>. QED  BY <3>1, <3>2 DEF MovesRequests, Satisfied, Votes
  <2>. QED  BY <2>1 DEF Derived
<1>5. AbsentUnvoted'
  BY DEF MovesRequests, ChainInv, AbsentUnvoted
<1>6. ReleasedPast'
  BY DEF MovesRequests, Past, ReleasedPast
<1>7. ChainNeverStalls'
  <2>1. ASSUME NEW r \in Requests, req'[r].state = "requested", NEW a \in Approvers, decision'[r][a] # "none"
        PROVE  /\ Votes(decision'[r], "deny") = {}
               /\ ~Satisfied(decision'[r], req'[r].lane)
    <3>1. decision' = decision /\ req'[r] = req[r]
      BY <2>1 DEF MovesRequests, ChainInv, AbsentUnvoted
    <3>. QED  BY <2>1, <3>1 DEF ChainInv, ChainNeverStalls
  <2>. QED  BY <2>1 DEF ChainNeverStalls, Votes, Satisfied
<1>8. FourEyes'
  BY DEF MovesRequests, ChainInv, FourEyes
<1>. QED  BY <1>1, <1>3, <1>4, <1>5, <1>6, <1>7, <1>8 DEF ChainInv

(* Nobody can have locked a request that does not exist.                   *)
LEMMA AbsentUnlocked == ASSUME ChainInv, NEW r \in Requests, Locked(r) PROVE req[r].state # "absent"
BY DEF ChainInv, Undisturbed, Locked

(* A request row moves to another state and keeps its lane.                *)
LEMMA SetRow ==
    ASSUME ChainTypes, NEW r \in Requests, NEW to \in States, Set(r, to)
    PROVE  /\ req' \in [Requests -> ReqRows]
           /\ req'[r].state = to /\ req'[r].lane = req[r].lane
           /\ \A q \in Requests \ {r} : req'[q] = req[q]
BY DEF Set, ChainTypes, ReqRows

(* Creation, review, automatic approval, the direct decisions.             *)
LEMMA CreationMoves ==
    ASSUME ChainInv, NEW r \in Requests, NEW lane \in Lanes,
           SubmitRequest(r, lane) \/ CreateRequest(r) \/ ReviewRequest(r, lane) \/ CreatorDies(r)
    PROVE  MovesRequests
<1>1. /\ UNCHANGED <<decision, tx, released>>
      /\ req' \in [Requests -> ReqRows] /\ routing' \in [Requests -> {"none", "review", "approve"}]
      /\ \A q \in Requests \ {r} : req'[q] = req[q] /\ routing'[q] = routing[q]
  <2>1. req \in [Requests -> ReqRows] /\ routing \in [Requests -> {"none", "review", "approve"}]
    BY DEF ChainInv, ChainTypes
  <2>2. CASE SubmitRequest(r, lane)
    BY <2>1, <2>2 DEF SubmitRequest, Route, ReqRows, States
  <2>3. CASE CreateRequest(r)
    BY <2>1, <2>3 DEF CreateRequest, ReqRows, States, Lanes
  <2>4. CASE ReviewRequest(r, lane)
    <3>1. [req[r] EXCEPT !.state = "ai_reviewed", !.lane = lane] \in ReqRows
      BY <2>1 DEF ReqRows, States
    <3>2. UNCHANGED req \/ req' = [req EXCEPT ![r] = [req[r] EXCEPT !.state = "ai_reviewed", !.lane = lane]]
      BY <2>1, <2>4 DEF ReviewRequest
    <3>3. /\ routing' \in [Requests -> {"none", "review", "approve"}]
          /\ \A q \in Requests \ {r} : routing'[q] = routing[q]
      BY <2>1, <2>4 DEF ReviewRequest, Route
    <3>. QED  BY <2>1, <2>4, <3>1, <3>2, <3>3 DEF ReviewRequest
  <2>5. CASE CreatorDies(r)
    BY <2>1, <2>5 DEF CreatorDies
  <2>. QED  BY <2>2, <2>3, <2>4, <2>5
<1>2. \/ req' = req
      \/ ~Locked(r) /\ req[r].state = "absent" /\ req'[r].state = "requested"
      \/ ~Locked(r) /\ req[r].state = "requested" /\ req'[r].state = "ai_reviewed"
  BY AbsentUnlocked DEF SubmitRequest, CreateRequest, ReviewRequest, CreatorDies, May, Transition, ChainInv,
     ChainTypes, ReqRows
<1>3. routing'[r] = "approve" => req'[r].lane = "auto_approve"
  BY DEF SubmitRequest, CreateRequest, ReviewRequest, CreatorDies, Route, ChainInv, ChainTypes, ReqRows, RoutedAuto
<1>4. \A q \in released : req'[q] = req[q]
  BY <1>1, <1>2 DEF ChainInv, ChainTypes, ReleasedPast
<1>. QED  BY <1>1, <1>2, <1>3, <1>4 DEF MovesRequests, Past, ChainInv, ChainTypes, RoutedAuto, ReleasedPast

LEMMA ExecuteMoves ==
    ASSUME ChainInv, NEW r \in Requests, ExecuteWorkflow(r) PROVE MovesRequests
<1>1. /\ UNCHANGED <<decision, tx>> /\ ~Locked(r)
      /\ routing' \in [Requests -> {"none", "review", "approve"}]
      /\ routing'[r] = "none" /\ \A q \in Requests \ {r} : routing'[q] = routing[q]
      /\ released' \subseteq released \cup {r}
      /\ req' # req \/ released' # released => req'[r].state = "approved"
      /\ req[r].lane = "auto_approve"
  BY DEF ExecuteWorkflow, Set, ChainInv, ChainTypes, ReqRows, RoutedAuto
<1>2. /\ req' \in [Requests -> ReqRows]
      /\ \A q \in Requests \ {r} : req'[q] = req[q]
      /\ req'[r].lane = req[r].lane
      /\ req'[r] = req[r] \/ req'[r].state = "approved"
  <2>1. UNCHANGED req \/ Set(r, "approved")
    BY DEF ExecuteWorkflow
  <2>. QED  BY <2>1, SetRow DEF ChainInv, ChainTypes, States
<1>3. \A q \in released' : Past(req'[q].state)
  BY <1>1, <1>2 DEF Past, ChainInv, ChainTypes, ReleasedPast
<1>. QED  BY <1>1, <1>2, <1>3 DEF MovesRequests, ChainInv, ChainTypes, RoutedAuto

(* A decision made directly leaves a released request past its release.    *)
LEMMA DecideMoves ==
    ASSUME ChainInv, NEW r \in Requests, NEW to \in {"approved", "denied", "cancelled"}, DecideRequest(r, to)
    PROVE  MovesRequests
<1>1. /\ UNCHANGED <<decision, tx, routing, released>> /\ ~Locked(r)
      /\ req' \in [Requests -> ReqRows]
      /\ \A q \in Requests \ {r} : req'[q] = req[q]
      /\ req'[r].lane = req[r].lane /\ req'[r].state = to
  BY DEF DecideRequest, Set, ChainInv, ChainTypes, ReqRows, States
<1>2. Past(req[r].state) => to = "cancelled"
  BY DEF DecideRequest, May, Transition, Past, ChainInv, ChainTypes, ReqRows, States
<1>3. \A q \in released : Past(req'[q].state)
  BY <1>1, <1>2 DEF Past, ChainInv, ChainTypes, ReleasedPast
<1>. QED  BY <1>1, <1>3 DEF MovesRequests, ChainInv, ChainTypes, RoutedAuto

(* A step of a worker moves a request that is past its approval, to        *)
(* another such state, and only when no approver holds it.                 *)
WorkerMoves ==
    /\ UNCHANGED <<decision, tx, routing, released>>
    /\ req' \in [Requests -> ReqRows]
    /\ \A r \in Requests :
         /\ req'[r].lane = req[r].lane
         /\ req'[r] = req[r] \/ (~Locked(r) /\ Past(req[r].state) /\ Past(req'[r].state))

LEMMA WorkerMovesRequests == ASSUME ChainInv, WorkerMoves PROVE MovesRequests
BY DEF WorkerMoves, MovesRequests, Past, ChainInv, ChainTypes, RoutedAuto, ReleasedPast

LEMMA SetMoves ==
    ASSUME ChainInv, NEW r \in Requests, NEW to \in States, ~Locked(r), Past(req[r].state), Past(to),
           Set(r, to), UNCHANGED <<decision, tx, routing, released>>
    PROVE  WorkerMoves
BY DEF WorkerMoves, Set, ChainInv, ChainTypes, ReqRows

LEMMA StillMoves ==
    ASSUME ChainInv, UNCHANGED <<req, decision, tx, routing, released>> PROVE WorkerMoves
BY DEF WorkerMoves, ChainInv, ChainTypes

LEMMA WorkerStepMoves == ASSUME ChainInv, QueueInv, WorkerStep PROVE WorkerMoves
<1>1. PICK j \in Jobs :
        \/ Claim(j) \/ WorkerStops(j)
        \/ ProvisionBegin(j) \/ ProvisionAccess(j) \/ ProvisionError(j) \/ ProvisionInsert(j)
        \/ ProvisionInsertError(j)
        \/ KillLoadGrants(j) \/ KillLoopDone(j) \/ KillLayer(j) \/ KillLayerError(j)
        \/ KillList(j) \/ KillVerify(j) \/ KillVerifyError(j)
        \/ \E r \in Requests : KillRevoke(j, r) \/ KillItemError(j, r) \/ KillScim(j, r)
  BY DEF WorkerStep
<1>2. run[j].pc \in ProvisionPcs => job[j].req \in Requests
  BY DEF QueueInv, JobShape, Shape
<1>3. CASE ProvisionBegin(j)
  <2>1. job[j].req \in Requests /\ UNCHANGED <<decision, tx, routing, released>>
    BY <1>2, <1>3 DEF ProvisionBegin, At, ProvisionPcs, engine
  <2>2. UNCHANGED req \/ (/\ Set(job[j].req, "provisioning") /\ ~Locked(job[j].req)
                          /\ req[job[j].req].state \in {"approved", "provisioning", "provision_failed"})
    BY <1>3, <2>1 DEF ProvisionBegin, May, Transition, ChainInv, ChainTypes, ReqRows, States
  <2>. QED  BY <2>1, <2>2, SetMoves, StillMoves DEF Past, States
<1>4. CASE ProvisionError(j)
  <2>1. job[j].req \in Requests /\ UNCHANGED <<decision, tx, routing, released>>
    BY <1>2, <1>4 DEF ProvisionError, At, ProvisionPcs, engine
  <2>2. UNCHANGED req \/ (/\ Set(job[j].req, "provision_failed") /\ ~Locked(job[j].req)
                          /\ req[job[j].req].state = "provisioning")
    BY <1>4, <2>1 DEF ProvisionError, May, Transition, ChainInv, ChainTypes, ReqRows, States
  <2>. QED  BY <2>1, <2>2, SetMoves, StillMoves DEF Past, States
<1>5. CASE ProvisionInsert(j)
  <2>1. job[j].req \in Requests /\ UNCHANGED <<decision, tx, routing, released>>
    BY <1>2, <1>5 DEF ProvisionInsert, At, ProvisionPcs, engine
  <2>2. UNCHANGED req \/ (/\ Set(job[j].req, "active") /\ ~Locked(job[j].req)
                          /\ req[job[j].req].state = "provisioning")
    BY <1>5, <2>1 DEF ProvisionInsert, May, Transition, ChainInv, ChainTypes, ReqRows, States
  <2>. QED  BY <2>1, <2>2, SetMoves, StillMoves DEF Past, States
<1>6. ASSUME NEW r \in Requests, KillRevoke(j, r) PROVE WorkerMoves
  <2>1. UNCHANGED <<decision, tx, routing, released>> /\ ~Locked(r)
    BY <1>6 DEF KillRevoke, engine
  <2>2. UNCHANGED req \/ (Set(r, "revoked") /\ req[r].state = "active")
    BY <1>6 DEF KillRevoke
  <2>. QED  BY <2>1, <2>2, SetMoves, StillMoves DEF Past, States
<1>7. CASE UNCHANGED <<req, decision, tx, routing, released>>
  BY <1>7, StillMoves
<1>. QED  BY <1>1, <1>3, <1>4, <1>5, <1>6, <1>7 DEF Claim, WorkerStops, ProvisionAccess, KillLoadGrants,
     KillLoopDone, KillLayer, KillLayerError, KillList, KillVerify, KillVerifyError, KillItemError, KillScim,
     ProvisionInsertError, engine

-----------------------------------------------------------------------------
(* The transactions of approvers                                           *)

(* The conjuncts of ChainInv that no transaction row is part of.           *)
Settled == AbsentUnvoted /\ RoutedAuto /\ ReleasedPast /\ ChainNeverStalls /\ FourEyes

LEMMA SettledFrame ==
    ASSUME Settled, UNCHANGED <<req, decision, routing, released>> PROVE Settled'
BY DEF Settled, AbsentUnvoted, RoutedAuto, ReleasedPast, ChainNeverStalls, FourEyes, Votes, Satisfied

LEMMA LockKeeps ==
    ASSUME ChainInv, NEW a \in Approvers, NEW r \in Requests, NEW vote \in {"approve", "deny"},
           LockRequestInTx(a, r, vote)
    PROVE  ChainInv'
<1>1. /\ UNCHANGED <<req, decision, routing, released>>
      /\ req[r].state # "absent" /\ ~Locked(r)
      /\ tx' \in [Approvers -> TxRows]
      /\ tx'[a] = [pc |-> "record", req |-> r, vote |-> vote, seen |-> req[r].state, ok |-> FALSE]
      /\ \A b \in Approvers \ {a} : tx'[b] = tx[b]
  BY DEF LockRequestInTx, ChainInv, ChainTypes, ReqRows, TxRows
<1>2. ChainTypes' /\ Undisturbed'
  BY <1>1 DEF ChainInv, ChainTypes, Undisturbed
<1>3. OneHolder'
  BY <1>1 DEF ChainInv, OneHolder, Locked
<1>4. Derived'
  <2>1. ASSUME NEW b \in Approvers, tx'[b].pc = "commit"
        PROVE  tx'[b].ok <=> Satisfied(Record(b), req[tx[b].req].lane)'
    <3>1. tx'[b] = tx[b] /\ Record(b)' = Record(b)
      BY <1>1, <2>1 DEF Record
    <3>2. tx[b].ok <=> Satisfied(Record(b), req[tx[b].req].lane)
      BY <2>1, <3>1 DEF ChainInv, Derived
    <3>. QED  BY <1>1, <3>1, <3>2 DEF Satisfied, Votes
  <2>. QED  BY <2>1 DEF Derived
<1>. QED  BY <1>1, <1>2, <1>3, <1>4, SettledFrame DEF ChainInv, Settled

LEMMA StateTxKeeps == ASSUME ChainInv, NEW a \in Approvers, StateTx(a) PROVE ChainInv'
<1>. DEFINE sat == Satisfied(Record(a), req[tx[a].req].lane)
<1>1. /\ UNCHANGED <<req, decision, routing, released>> /\ tx[a].pc = "record"
      /\ tx' = [tx EXCEPT ![a] = [tx[a] EXCEPT !.pc = "commit", !.ok = sat]]
  BY DEF StateTx, ChainInv, ChainTypes
<1>2. sat \in BOOLEAN
  BY DEF Satisfied
<1>. HIDE DEF sat
<1>3. /\ tx' \in [Approvers -> TxRows]
      /\ tx'[a].pc = "commit" /\ tx'[a].ok = sat /\ tx'[a].req = tx[a].req /\ tx'[a].vote = tx[a].vote
      /\ tx'[a].seen = tx[a].seen
      /\ \A b \in Approvers \ {a} : tx'[b] = tx[b]
  BY <1>1, <1>2 DEF ChainInv, ChainTypes, TxRows
<1>4. ChainTypes' /\ Undisturbed' /\ OneHolder'
  BY <1>1, <1>3 DEF ChainInv, ChainTypes, Undisturbed, OneHolder
<1>5. \A b \in Approvers : Record(b)' = Record(b) /\ tx'[b].req = tx[b].req
  BY <1>1, <1>3 DEF Record
<1>6. Derived'
  <2>1. ASSUME NEW b \in Approvers, tx'[b].pc = "commit"
        PROVE  tx'[b].ok <=> Satisfied(Record(b), req[tx[b].req].lane)
    BY <1>1, <1>3, <2>1 DEF ChainInv, Derived, sat
  <2>2. \A b \in Approvers : Satisfied(Record(b), req[tx[b].req].lane)' <=> Satisfied(Record(b), req[tx[b].req].lane)
    BY <1>1, <1>5 DEF Satisfied, Votes
  <2>. QED  BY <2>1, <2>2 DEF Derived
<1>. QED  BY <1>1, <1>4, <1>6, SettledFrame DEF ChainInv, Settled

(* What is left of the other transactions once one has ended, and may have *)
(* written its own request and its own vote.                               *)
Ended(a) ==
    /\ tx' = [tx EXCEPT ![a] = NoTx]
    /\ UNCHANGED routing
    /\ req' \in [Requests -> ReqRows]
    /\ released' \subseteq Requests
    /\ decision' \in [Requests -> [Approvers -> {"none", "approve", "deny"}]]
    /\ \A r \in Requests :
         /\ req'[r].lane = req[r].lane
         /\ req'[r].state = "absent" => req[r].state = "absent"
         /\ r # tx[a].req => req'[r] = req[r] /\ decision'[r] = decision[r]

LEMMA EndedKeeps ==
    ASSUME ChainInv, NEW a \in Approvers, tx[a].pc # "idle", Ended(a)
    PROVE  ChainTypes' /\ Undisturbed' /\ OneHolder' /\ Derived' /\ AbsentUnvoted' /\ RoutedAuto'
<1>1. /\ tx' \in [Approvers -> TxRows] /\ tx'[a] = NoTx
      /\ \A b \in Approvers \ {a} : tx'[b] = tx[b]
  BY DEF Ended, ChainInv, ChainTypes, TxRows, NoTx
<1>2. ASSUME NEW b \in Approvers, tx'[b].pc # "idle"
      PROVE  /\ b # a /\ tx'[b] = tx[b] /\ tx[b].req \in Requests
             /\ req'[tx[b].req] = req[tx[b].req] /\ decision'[tx[b].req] = decision[tx[b].req]
  <2>1. b # a /\ tx'[b] = tx[b]
    BY <1>1, <1>2 DEF NoTx
  <2>2. tx[b].req \in Requests /\ tx[b].req # tx[a].req
    BY <1>2, <2>1 DEF ChainInv, Undisturbed, OneHolder
  <2>. QED  BY <2>1, <2>2 DEF Ended
<1>3. ChainTypes' /\ RoutedAuto'
  BY <1>1 DEF Ended, ChainInv, ChainTypes, RoutedAuto
<1>4. Undisturbed'
  BY <1>2 DEF ChainInv, Undisturbed
<1>5. OneHolder'
  BY <1>2 DEF ChainInv, OneHolder
<1>6. Derived'
  <2>1. ASSUME NEW b \in Approvers, tx'[b].pc = "commit"
        PROVE  tx'[b].ok <=> Satisfied(Record(b), req[tx[b].req].lane)'
    <3>1. tx'[b] = tx[b] /\ req'[tx[b].req] = req[tx[b].req] /\ Record(b)' = Record(b)
      BY <1>2, <2>1 DEF Record
    <3>2. tx[b].ok <=> Satisfied(Record(b), req[tx[b].req].lane)
      BY <2>1, <3>1 DEF ChainInv, Derived
    <3>. QED  BY <3>1, <3>2 DEF Satisfied, Votes
  <2>. QED  BY <2>1 DEF Derived
<1>7. AbsentUnvoted'
  <2>1. req[tx[a].req].state # "absent"
    BY DEF ChainInv, Undisturbed
  <2>. QED  BY <2>1 DEF Ended, ChainInv, AbsentUnvoted
<1>. QED  BY <1>3, <1>4, <1>5, <1>6, <1>7

LEMMA RollbackKeeps == ASSUME ChainInv, NEW a \in Approvers, Rollback(a) PROVE ChainInv'
<1>1. tx[a].pc # "idle" /\ UNCHANGED <<req, decision, routing, released>>
  BY DEF Rollback
<1>2. Ended(a)
  BY <1>1 DEF Rollback, Ended, ChainInv, ChainTypes
<1>. QED  BY <1>1, <1>2, EndedKeeps, SettledFrame DEF ChainInv, Settled

(* The votes a transaction commits.                                        *)
On(r) == {b \in Approvers : decision[r][b] # "none"}

LEMMA CommitFacts ==
    ASSUME ChainInv, NEW a \in Approvers, tx[a].pc = "commit", CommitVote(a), NEW r, r = tx[a].req
    PROVE  /\ r \in Requests /\ tx[a].vote \in {"approve", "deny"} /\ tx[a].seen = req[r].state
           /\ req[r].state # "absent"
           /\ decision' \in [Requests -> [Approvers -> {"none", "approve", "deny"}]]
           /\ decision'[r] = Record(a) /\ Record(a)[a] = tx[a].vote
           /\ \A b \in Approvers \ {a} : Record(a)[b] = decision[r][b]
           /\ \A q \in Requests \ {r} : decision'[q] = decision[q]
           /\ tx[a].ok <=> Satisfied(Record(a), req[r].lane)
           /\ tx' = [tx EXCEPT ![a] = NoTx] /\ UNCHANGED routing
<1>1. /\ r \in Requests /\ tx[a].vote \in {"approve", "deny"} /\ tx[a].seen = req[r].state
      /\ req[r].state # "absent"
  BY DEF ChainInv, Undisturbed
<1>2. tx[a].ok <=> Satisfied(Record(a), req[r].lane)
  BY DEF ChainInv, Derived
<1>3. decision[r] \in [Approvers -> {"none", "approve", "deny"}]
  BY <1>1 DEF ChainInv, ChainTypes
<1>4. /\ Record(a) \in [Approvers -> {"none", "approve", "deny"}] /\ Record(a)[a] = tx[a].vote
      /\ \A b \in Approvers \ {a} : Record(a)[b] = decision[r][b]
  BY <1>1, <1>3 DEF Record
<1>. QED  BY <1>1, <1>2, <1>4 DEF CommitVote, ChainInv, ChainTypes

(* A recorded vote stays on record, changed or not.                        *)
LEMMA OnGrows ==
    ASSUME ChainInv, NEW a \in Approvers, tx[a].pc = "commit", CommitVote(a), NEW q \in Requests
    PROVE  /\ On(q) \subseteq On(q)' /\ IsFiniteSet(On(q)) /\ IsFiniteSet(On(q)')
           /\ Cardinality(On(q)') \in Nat /\ Cardinality(On(q)) <= Cardinality(On(q)')
           /\ q = tx[a].req => a \in On(q)'
<1>1. /\ On(q) \subseteq On(q)' /\ On(q) \subseteq Approvers /\ On(q)' \subseteq Approvers
      /\ q = tx[a].req => a \in On(q)'
  BY CommitFacts DEF On
<1>2. IsFiniteSet(On(q)) /\ IsFiniteSet(On(q)')
  BY <1>1, EngineAssumption, FS_Subset
<1>. QED  BY <1>1, <1>2, FS_Subset, FS_CardinalityType

LEMMA ApprovalKeeps == ASSUME ChainInv, NEW a \in Approvers, CommitApproval(a) PROVE ChainInv'
<1>0. PICK r \in Requests : r = tx[a].req
  BY CommitFacts DEF CommitApproval
<1>1. /\ tx[a].pc = "commit" /\ CommitVote(a) /\ tx[a].ok /\ Set(r, "approved")
      /\ released' = released \cup {r}
  BY <1>0 DEF CommitApproval
<1>2. /\ r \in Requests /\ Satisfied(Record(a), req[r].lane) /\ decision'[r] = Record(a)
      /\ \A q \in Requests \ {r} : decision'[q] = decision[q]
  BY <1>0, <1>1, CommitFacts
<1>3. /\ req' \in [Requests -> ReqRows] /\ req'[r].state = "approved" /\ req'[r].lane = req[r].lane
      /\ \A q \in Requests \ {r} : req'[q] = req[q]
  BY <1>1, <1>2, SetRow DEF ChainInv, States
<1>4. Ended(a)
  <2>1. tx' = [tx EXCEPT ![a] = NoTx] /\ UNCHANGED routing
        /\ decision' \in [Requests -> [Approvers -> {"none", "approve", "deny"}]]
    BY <1>1, CommitFacts
  <2>. QED  BY <1>0, <1>1, <1>2, <1>3, <2>1 DEF Ended, ChainInv, ChainTypes
<1>5. ReleasedPast'
  BY <1>1, <1>3 DEF ChainInv, ChainTypes, ReleasedPast
<1>6. ChainNeverStalls'
  BY <1>2, <1>3 DEF ChainInv, ChainNeverStalls, Satisfied, Votes
<1>7. FourEyes'
  <2>1. req[r].lane = "security_review" => Cardinality(On(r)') >= 2
    <3>1. Votes(Record(a), "approve") \subseteq On(r)'
      BY <1>2 DEF Votes, On
    <3>2. IsFiniteSet(On(r)') /\ Cardinality(On(r)') \in Nat
      BY <1>1, <1>2, OnGrows
    <3>3. Cardinality(Votes(Record(a), "approve")) \in Nat
          /\ Cardinality(Votes(Record(a), "approve")) <= Cardinality(On(r)')
      BY <3>1, <3>2, FS_Subset, FS_CardinalityType
    <3>4. req[r].lane = "security_review" => Cardinality(Votes(Record(a), "approve")) >= 2
      BY <1>2 DEF Satisfied, RequiredApprovals
    <3>. QED  BY <3>2, <3>3, <3>4
  <2>2. On(r)' # {}
    BY <1>0, <1>1, <1>2, OnGrows
  <2>3. \A q \in released \ {r} : On(q)' = On(q) /\ req'[q] = req[q]
    BY <1>2, <1>3 DEF On, ChainInv, ChainTypes
  <2>4. ASSUME NEW q \in released'
        PROVE  /\ req'[q].lane = "security_review" => Cardinality(On(q)') >= 2
               /\ req'[q].lane = "manager_approval" => On(q)' # {}
    <3>1. CASE q = r
      BY <1>3, <2>1, <2>2, <3>1
    <3>2. CASE q # r
      <4>1. q \in released
        BY <1>1, <3>2
      <4>2. /\ req[q].lane = "security_review" => Cardinality(On(q)) >= 2
            /\ req[q].lane = "manager_approval" => On(q) # {}
        BY <4>1 DEF ChainInv, FourEyes, On
      <4>. QED  BY <2>3, <3>2, <4>1, <4>2
    <3>. QED  BY <3>1, <3>2
  <2>. QED  BY <2>4 DEF FourEyes, On
<1>. QED  BY <1>1, <1>4, <1>5, <1>6, <1>7, EndedKeeps DEF ChainInv

(* The commits that release nothing.                                       *)
LEMMA VoteFourEyes ==
    ASSUME ChainInv, NEW a \in Approvers, tx[a].pc = "commit", CommitVote(a), released' = released,
           \A q \in Requests : req'[q].lane = req[q].lane
    PROVE  FourEyes'
<1>1. ASSUME NEW q \in released
      PROVE  /\ req'[q].lane = "security_review" => Cardinality(On(q)') >= 2
             /\ req'[q].lane = "manager_approval" => On(q)' # {}
  <2>1. q \in Requests
    BY DEF ChainInv, ChainTypes
  <2>2. /\ req[q].lane = "security_review" => Cardinality(On(q)) >= 2
        /\ req[q].lane = "manager_approval" => On(q) # {}
    BY DEF ChainInv, FourEyes, On
  <2>3. Cardinality(On(q)) \in Nat /\ Cardinality(On(q)') \in Nat
        /\ Cardinality(On(q)) <= Cardinality(On(q)') /\ On(q) \subseteq On(q)'
    BY <2>1, OnGrows, FS_CardinalityType
  <2>. QED  BY <2>1, <2>2, <2>3
<1>. QED  BY <1>1 DEF FourEyes, On

LEMMA VoteOnlyKeeps == ASSUME ChainInv, NEW a \in Approvers, CommitVoteOnly(a) PROVE ChainInv'
<1>. DEFINE r == tx[a].req
<1>1. /\ tx[a].pc = "commit" /\ tx[a].vote = "approve" /\ CommitVote(a) /\ UNCHANGED <<req, released>>
      /\ ~(tx[a].ok /\ tx[a].seen = "requested")
  BY DEF CommitVoteOnly
<1>. HIDE DEF r
<1>2. /\ r \in Requests /\ decision'[r] = Record(a) /\ Record(a)[a] = "approve"
      /\ \A b \in Approvers \ {a} : Record(a)[b] = decision[r][b]
      /\ \A q \in Requests \ {r} : decision'[q] = decision[q]
      /\ req[r].state = "requested" => ~Satisfied(Record(a), req[r].lane)
  BY <1>1, CommitFacts DEF r
<1>3. Ended(a)
  BY <1>1, CommitFacts DEF Ended, ChainInv, ChainTypes
<1>4. ChainNeverStalls'
  <2>1. ASSUME NEW q \in Requests, req'[q].state = "requested", NEW b \in Approvers, decision'[q][b] # "none"
        PROVE  /\ Votes(decision'[q], "deny") = {}
               /\ ~Satisfied(decision'[q], req'[q].lane)
    <3>1. CASE q # r
      BY <1>1, <1>2, <2>1, <3>1 DEF ChainInv, ChainNeverStalls
    <3>2. CASE q = r
      <4>1. \A c \in Approvers : decision[r][c] # "deny"
        BY <1>1, <1>2, <2>1, <3>2 DEF ChainInv, ChainNeverStalls, Votes
      <4>2. Votes(decision'[q], "deny") = {}
        BY <1>2, <3>2, <4>1 DEF Votes
      <4>. QED  BY <1>1, <1>2, <2>1, <3>2, <4>2
    <3>. QED  BY <3>1, <3>2
  <2>. QED  BY <2>1 DEF ChainNeverStalls, Votes, Satisfied
<1>5. ReleasedPast' /\ FourEyes'
  BY <1>1, VoteFourEyes DEF ChainInv, ReleasedPast
<1>. QED  BY <1>1, <1>3, <1>4, <1>5, EndedKeeps DEF ChainInv

LEMMA DenyKeeps == ASSUME ChainInv, NEW a \in Approvers, CommitDeny(a) PROVE ChainInv'
<1>. DEFINE r == tx[a].req
<1>1. /\ tx[a].pc = "commit" /\ CommitVote(a) /\ UNCHANGED released
      /\ IF May(r, "denied") THEN Set(r, "denied") ELSE UNCHANGED req
  BY DEF CommitDeny
<1>. HIDE DEF r
<1>2. /\ r \in Requests /\ \A q \in Requests \ {r} : decision'[q] = decision[q]
      /\ req[r].state # "absent"
  BY <1>1, CommitFacts DEF r
<1>3. /\ req' \in [Requests -> ReqRows] /\ req'[r].lane = req[r].lane
      /\ \A q \in Requests \ {r} : req'[q] = req[q]
      /\ req'[r].state = "denied" \/ (req'[r] = req[r] /\ ~May(r, "denied"))
      /\ Past(req[r].state) => req' = req
  <2>1. Past(req[r].state) => ~May(r, "denied")
    BY <1>2 DEF Past, May, Transition, ChainInv, ChainTypes, ReqRows, States
  <2>2. CASE May(r, "denied")
    BY <1>1, <1>2, <2>1, <2>2, SetRow DEF ChainInv, States
  <2>3. CASE ~May(r, "denied")
    BY <1>1, <1>2, <2>1, <2>3 DEF ChainInv, ChainTypes
  <2>. QED  BY <2>2, <2>3
<1>4. Ended(a)
  <2>1. tx' = [tx EXCEPT ![a] = NoTx] /\ UNCHANGED routing
        /\ decision' \in [Requests -> [Approvers -> {"none", "approve", "deny"}]]
    BY <1>1, CommitFacts
  <2>. QED  BY <1>1, <1>2, <1>3, <2>1 DEF Ended, r, ChainInv, ChainTypes
<1>5. ChainNeverStalls'
  <2>1. req'[r].state # "requested"
    BY <1>2, <1>3 DEF May, Transition
  <2>. QED  BY <1>2, <1>3, <2>1 DEF ChainInv, ChainNeverStalls, Satisfied, Votes
<1>6. ReleasedPast'
  BY <1>1, <1>2, <1>3 DEF ChainInv, ChainTypes, ReleasedPast, Past
<1>7. FourEyes'
  <2>1. \A q \in Requests : req'[q].lane = req[q].lane
    BY <1>2, <1>3
  <2>. QED  BY <1>1, <2>1, VoteFourEyes
<1>. QED  BY <1>1, <1>4, <1>5, <1>6, <1>7, EndedKeeps DEF ChainInv

-----------------------------------------------------------------------------
(* Steps of the engine, and the queue                                      *)

(* States in which a released request waits for its provisioning.          *)
Drivable(s) == s \in {"approved", "provisioning", "provision_failed"}

EngineQuiet ==
    /\ UNCHANGED <<job, run, live, account>>
    /\ owed' \subseteq Requests /\ dropped' \subseteq Requests /\ faults' \in 0 .. MaxFaults
    /\ \A r \in Requests : req[r].state = "active" => req'[r].state = "active"
    /\ \A r \in released' : Drivable(req'[r].state) =>
         \/ r \in owed' \cup dropped'
         \/ r \in released /\ Drivable(req[r].state) /\ r \notin owed \cup dropped

LEMMA QuietKeeps == ASSUME QueueInv, EngineQuiet PROVE QueueInv'
<1>1. QueueTypes' /\ JobShape' /\ LiveActive'
  BY DEF EngineQuiet, QueueInv, QueueTypes, JobShape, Shape, LiveActive
<1>2. Layers' /\ LeaverComplete'
  BY DEF EngineQuiet, QueueInv, Layers, LayersAt, LeaverComplete
<1>3. ReleasedIsDriven'
  BY DEF EngineQuiet, QueueInv, ReleasedIsDriven, Drivable
<1>. QED  BY <1>1, <1>2, <1>3 DEF QueueInv

LEMMA FaultType == ASSUME QueueInv, Fault PROVE faults' \in 0 .. MaxFaults
BY EngineAssumption DEF QueueInv, QueueTypes, Fault

(* An active request stays active, and no step of the engine outside the   *)
(* release gives a released request back to the queue.                     *)
LEMMA CreationQuiet ==
    ASSUME ChainInv, QueueInv, NEW r \in Requests, NEW lane \in Lanes,
           SubmitRequest(r, lane) \/ CreateRequest(r) \/ ReviewRequest(r, lane) \/ CreatorDies(r)
    PROVE  EngineQuiet
<1>1. /\ UNCHANGED <<job, run, live, account, owed, dropped, released>>
      /\ faults' \in 0 .. MaxFaults
  BY FaultType DEF SubmitRequest, CreateRequest, ReviewRequest, CreatorDies, queue, user, QueueInv, QueueTypes
<1>2. req' = req \/ (req[r].state \in {"absent", "requested"} /\ \A q \in Requests \ {r} : req'[q] = req[q])
  BY DEF SubmitRequest, CreateRequest, ReviewRequest, CreatorDies, May, Transition, ChainInv, ChainTypes, ReqRows
<1>3. (\A q \in released : req'[q] = req[q]) /\ (\A q \in Requests : req[q].state = "active" => req'[q] = req[q])
  BY <1>2 DEF ChainInv, ChainTypes, ReleasedPast
<1>. QED  BY <1>1, <1>3 DEF EngineQuiet, QueueInv, QueueTypes, ChainInv, ChainTypes

LEMMA ExecuteQuiet == ASSUME ChainInv, QueueInv, NEW r \in Requests, ExecuteWorkflow(r) PROVE EngineQuiet
<1>1. /\ UNCHANGED <<job, run, live, account, dropped, faults>>
      /\ owed' \in SUBSET Requests /\ owed \subseteq owed'
      /\ released' \subseteq released \cup {r} /\ (r \in released' => r \in released \/ r \in owed')
  BY DEF ExecuteWorkflow, queue, user, QueueInv, QueueTypes
<1>2. req' = req \/ (req[r].state \in {"requested", "ai_reviewed"} /\ \A q \in Requests \ {r} : req'[q] = req[q])
  BY DEF ExecuteWorkflow, Set, May, Transition, ChainInv, ChainTypes, ReqRows
<1>3. (\A q \in released : req'[q] = req[q]) /\ (\A q \in Requests : req[q].state = "active" => req'[q] = req[q])
  BY <1>2 DEF ChainInv, ChainTypes, ReleasedPast
<1>. QED  BY <1>1, <1>3 DEF EngineQuiet, QueueInv, QueueTypes, ChainInv, ChainTypes

LEMMA DecideQuiet ==
    ASSUME ChainInv, QueueInv, NEW r \in Requests, NEW to \in {"approved", "denied", "cancelled"},
           DecideRequest(r, to)
    PROVE  EngineQuiet
<1>1. UNCHANGED <<job, run, live, account, owed, dropped, released, faults>>
  BY DEF DecideRequest, queue, user
<1>2. /\ req'[r].state = to /\ \A q \in Requests \ {r} : req'[q] = req[q]
      /\ req[r].state \in {"requested", "ai_reviewed"} \/ (req[r].state = "approved" /\ to = "cancelled")
  BY DEF DecideRequest, Set, May, Transition, ChainInv, ChainTypes, ReqRows, States
<1>3. r \in released => to = "cancelled"
  BY <1>2 DEF ChainInv, ReleasedPast
<1>4. \A q \in released : Drivable(req'[q].state) => req'[q] = req[q]
  BY <1>2, <1>3 DEF Drivable, ChainInv, ChainTypes
<1>. QED  BY <1>1, <1>2, <1>4 DEF EngineQuiet, QueueInv, QueueTypes, ChainInv, ChainTypes

LEMMA CommitQuiet ==
    ASSUME ChainInv, QueueInv, NEW a \in Approvers, CommitApproval(a) \/ CommitVoteOnly(a) \/ CommitDeny(a)
    PROVE  EngineQuiet
<1>0. PICK r \in Requests : r = tx[a].req
  BY CommitFacts DEF CommitApproval, CommitVoteOnly, CommitDeny
<1>1. UNCHANGED <<job, run, live, account, dropped, faults>>
  BY DEF CommitApproval, CommitVoteOnly, CommitDeny, CommitVote, queue, user
<1>2. /\ owed' \in SUBSET Requests /\ owed \subseteq owed'
      /\ released' \subseteq released \cup {r} /\ (r \in released' => r \in released \/ r \in owed')
  BY <1>0 DEF CommitApproval, CommitVoteOnly, CommitDeny, QueueInv, QueueTypes
<1>3. req' = req \/ (req[r].state \in {"requested", "ai_reviewed"} /\ \A q \in Requests \ {r} : req'[q] = req[q])
  BY <1>0 DEF CommitApproval, CommitVoteOnly, CommitDeny, Set, May, Transition, ChainInv, ChainTypes, ReqRows
<1>4. (\A q \in released : req'[q] = req[q]) /\ (\A q \in Requests : req[q].state = "active" => req'[q] = req[q])
  BY <1>3 DEF ChainInv, ChainTypes, ReleasedPast
<1>. QED  BY <1>1, <1>2, <1>4 DEF EngineQuiet, QueueInv, QueueTypes, ChainInv, ChainTypes

LEMMA TxQuiet ==
    ASSUME ChainInv, QueueInv, NEW a \in Approvers, NEW r \in Requests, NEW vote \in {"approve", "deny"},
           LockRequestInTx(a, r, vote) \/ StateTx(a) \/ Rollback(a)
    PROVE  EngineQuiet
<1>1. UNCHANGED <<req, job, run, live, account, owed, dropped, released>> /\ faults' \in 0 .. MaxFaults
  BY FaultType DEF LockRequestInTx, StateTx, Rollback, queue, user, QueueInv, QueueTypes
<1>. QED  BY <1>1 DEF EngineQuiet, QueueInv, QueueTypes, ChainInv, ChainTypes

LEMMA LostQuiet == ASSUME ChainInv, QueueInv, NEW r \in Requests, EnqueueLost(r) PROVE EngineQuiet
<1>1. /\ UNCHANGED <<req, job, run, live, account, released>> /\ faults' \in 0 .. MaxFaults
      /\ owed' \cup dropped' = owed \cup dropped /\ owed' \subseteq Requests /\ dropped' \subseteq Requests
  BY FaultType DEF EnqueueLost, queue, user, QueueInv, QueueTypes
<1>. QED  BY <1>1 DEF EngineQuiet, QueueInv, QueueTypes, ChainInv, ChainTypes

(* A new row; what leaves owed or dropped is what the row is for.          *)
LEMMA InsertKeeps ==
    ASSUME QueueInv, NEW j \in Jobs, NEW kind \in {"provision", "leaver"}, NEW r \in Requests \cup {NoRequest},
           Insert(j, kind, r), kind = "provision" => r \in Requests,
           owed' \subseteq owed, dropped' \subseteq dropped,
           \A q \in (owed \cup dropped) \ (owed' \cup dropped') : q = r /\ kind = "provision"
    PROVE  QueueInv'
<1>1. /\ UNCHANGED <<req, run, live, account, released, faults>> /\ job[j].status = "none"
      /\ job'[j].status = "queued" /\ job'[j].kind = kind /\ job'[j].req = r /\ job'[j].attempts = 0
      /\ job' \in [Jobs -> JobRows] /\ \A k \in Jobs \ {j} : job'[k] = job[k]
  <2>. DEFINE y == [status |-> "queued", kind |-> kind, req |-> r, attempts |-> 0]
  <2>1. y \in JobRows /\ y.status = "queued" /\ y.kind = kind /\ y.req = r /\ y.attempts = 0
    BY EngineAssumption DEF JobRows, Statuses
  <2>2. job' = [job EXCEPT ![j] = y]
    BY DEF Insert
  <2>. HIDE DEF y
  <2>. QED  BY <2>1, <2>2 DEF Insert, user, QueueInv, QueueTypes
<1>2. run[j].pc = "none"
  BY <1>1 DEF QueueInv, JobShape, Shape
<1>3. QueueTypes' /\ LiveActive'
  BY <1>1 DEF QueueInv, QueueTypes, LiveActive
<1>4. JobShape'
  BY <1>1, <1>2, EngineAssumption DEF QueueInv, JobShape, Shape, ProvisionPcs, KillPcs
<1>5. Layers' /\ LeaverComplete'
  BY <1>1, <1>2 DEF QueueInv, Layers, LayersAt, LeaverComplete
<1>6. ReleasedIsDriven'
  <2>1. ASSUME NEW q \in released', Drivable(req'[q].state), q \notin owed' \cup dropped'
        PROVE  \E k \in Jobs : job'[k].kind = "provision" /\ job'[k].req = q /\ job'[k].status # "done"
    <3>1. CASE q \in owed \cup dropped
      BY <1>1, <2>1, <3>1
    <3>2. CASE q \notin owed \cup dropped
      <4>1. PICK k \in Jobs : job[k].kind = "provision" /\ job[k].req = q /\ job[k].status # "done"
        BY <1>1, <2>1, <3>2 DEF QueueInv, ReleasedIsDriven, Drivable
      <4>2. k # j
        BY <1>1, <4>1 DEF QueueInv, JobShape, Shape
      <4>. QED  BY <1>1, <4>1, <4>2
    <3>. QED  BY <3>1, <3>2
  <2>. QED  BY <2>1 DEF ReleasedIsDriven, Drivable
<1>. QED  BY <1>3, <1>4, <1>5, <1>6 DEF QueueInv

LEMMA EngineStepKeeps == ASSUME ChainInv, QueueInv, EngineStep PROVE ChainInv' /\ QueueInv'
<1>1. ASSUME NEW r \in Requests, NEW lane \in Lanes,
             SubmitRequest(r, lane) \/ CreateRequest(r) \/ ReviewRequest(r, lane) \/ CreatorDies(r)
      PROVE  ChainInv' /\ QueueInv'
  BY <1>1, CreationMoves, MovesKeep, CreationQuiet, QuietKeeps
<1>2. ASSUME NEW r \in Requests, ExecuteWorkflow(r) PROVE ChainInv' /\ QueueInv'
  BY <1>2, ExecuteMoves, MovesKeep, ExecuteQuiet, QuietKeeps
<1>3. ASSUME NEW r \in Requests, NEW to \in {"approved", "denied", "cancelled"}, DecideRequest(r, to)
      PROVE  ChainInv' /\ QueueInv'
  BY <1>3, DecideMoves, MovesKeep, DecideQuiet, QuietKeeps
<1>4. ASSUME NEW a \in Approvers, NEW r \in Requests, NEW vote \in {"approve", "deny"},
             LockRequestInTx(a, r, vote) \/ StateTx(a) \/ Rollback(a)
      PROVE  ChainInv' /\ QueueInv'
  BY <1>4, LockKeeps, StateTxKeeps, RollbackKeeps, TxQuiet, QuietKeeps
<1>5. ASSUME NEW a \in Approvers, CommitApproval(a) \/ CommitVoteOnly(a) \/ CommitDeny(a)
      PROVE  ChainInv' /\ QueueInv'
  BY <1>5, ApprovalKeeps, VoteOnlyKeeps, DenyKeeps, CommitQuiet, QuietKeeps
<1>6. ASSUME NEW r \in Requests, EnqueueLost(r) PROVE ChainInv' /\ QueueInv'
  <2>1. UNCHANGED <<req, decision, tx, routing, released>>
    BY <1>6 DEF EnqueueLost
  <2>. QED  BY <1>6, <2>1, StillMoves, WorkerMovesRequests, MovesKeep, LostQuiet, QuietKeeps
<1>7. ASSUME NEW j \in Jobs, NEW kind, NEW r, Insert(j, kind, r) PROVE ChainInv'
  <2>1. UNCHANGED <<req, decision, tx, routing, released>>
    BY <1>7 DEF Insert
  <2>. QED  BY <2>1, StillMoves, WorkerMovesRequests, MovesKeep
<1>8. ASSUME NEW r \in Requests, NEW j \in Jobs, EnqueueProvision(r, j) \/ EnqueueAgain(r, j)
      PROVE  ChainInv' /\ QueueInv'
  <2>1. /\ Insert(j, "provision", r) /\ owed' \subseteq owed /\ dropped' \subseteq dropped
        /\ \A q \in (owed \cup dropped) \ (owed' \cup dropped') : q = r
    BY <1>8 DEF EnqueueProvision, EnqueueAgain
  <2>. QED  BY <1>7, <2>1, InsertKeeps
<1>9. ASSUME NEW j \in Jobs, IngestLeaver(j) PROVE ChainInv' /\ QueueInv'
  <2>1. Insert(j, "leaver", NoRequest) /\ owed' = owed /\ dropped' = dropped
    BY <1>9 DEF IngestLeaver
  <2>. QED  BY <1>7, <2>1, InsertKeeps
<1>10. ASSUME NEW a \in Approvers, StateTx(a) \/ Rollback(a) PROVE ChainInv' /\ QueueInv'
  <2>1. CASE Requests # {}
    BY <1>4, <1>10, <2>1
  <2>2. CASE Requests = {}
    BY <1>10, <2>2 DEF StateTx, Rollback, ChainInv, Undisturbed
  <2>. QED  BY <2>1, <2>2
<1>. QED  BY <1>1, <1>2, <1>3, <1>4, <1>5, <1>6, <1>8, <1>9, <1>10 DEF EngineStep, Lanes

-----------------------------------------------------------------------------
(* Steps of a worker, and the queue                                        *)

CompleteAt(j) ==
    job[j].kind = "leaver" /\ job[j].status = "done"
        => /\ ~account.member /\ ~account.enabled /\ ~account.sessions /\ ~account.orphaned
           /\ account.access \subseteq run[j].lateAccess
           /\ live \subseteq run[j].lateGrants

(* What a worker's step leaves of another job: its row, where its run is,  *)
(* and the run's account of what it will miss.                             *)
Kept(k) ==
    /\ job'[k] = job[k]
    /\ run'[k].pc = run[k].pc /\ run'[k].todo = run[k].todo /\ run'[k].errored = run[k].errored
    /\ run[k].lateAccess \subseteq run'[k].lateAccess /\ run[k].lateGrants \subseteq run'[k].lateGrants
    /\ job[k].kind = "leaver" /\ run[k].pc \in {"none", "scim", "verify"}
         => account'.access \ account.access \subseteq run'[k].lateAccess
    /\ job[k].kind = "leaver" => live' \ live \subseteq run'[k].lateGrants

(* What is cut off stays cut off.                                          *)
Lower ==
    /\ ~account.member => ~account'.member
    /\ ~account.enabled => ~account'.enabled
    /\ ~account.sessions => ~account'.sessions
    /\ ~account.orphaned => ~account'.orphaned

LEMMA KeptFacts ==
    ASSUME QueueInv, NEW k \in Jobs, Kept(k), Lower
    PROVE  Shape(k)' /\ LayersAt(k)' /\ CompleteAt(k)'
<1>0. Shape(k) /\ LayersAt(k)
  BY DEF QueueInv, JobShape, Layers
<1>1. Shape(k)'
  BY <1>0 DEF Kept, Shape
<1>2. LayersAt(k)'
  BY <1>0 DEF Kept, Shape, LayersAt, Lower
<1>3. CompleteAt(k)'
  BY <1>0 DEF Kept, Shape, CompleteAt, Lower, QueueInv, LeaverComplete
<1>. QED  BY <1>1, <1>2, <1>3

JobStep(j) ==
    /\ UNCHANGED <<owed, released, dropped>>
    /\ QueueTypes' /\ LiveActive' /\ Lower
    /\ \A r \in Requests : Drivable(req'[r].state) => Drivable(req[r].state)
    /\ \A k \in Jobs \ {j} : Kept(k)
    /\ Shape(j)' /\ LayersAt(j)' /\ CompleteAt(j)'
    /\ job'[j].kind = job[j].kind /\ job'[j].req = job[j].req
    /\ job[j].kind = "provision" /\ job[j].status # "done" /\ job'[j].status = "done"
         => ~Drivable(req'[job[j].req].state)

LEMMA JobStepKeeps == ASSUME ChainInv, QueueInv, NEW j \in Jobs, JobStep(j) PROVE QueueInv'
<1>1. ASSUME NEW k \in Jobs PROVE Shape(k)' /\ LayersAt(k)' /\ CompleteAt(k)'
  BY KeptFacts DEF JobStep
<1>2. JobShape' /\ Layers' /\ LeaverComplete'
  BY <1>1 DEF JobShape, Layers, LeaverComplete, CompleteAt
<1>3. ReleasedIsDriven'
  <2>1. ASSUME NEW q \in released', Drivable(req'[q].state), q \notin owed' \cup dropped'
        PROVE  \E k \in Jobs : job'[k].kind = "provision" /\ job'[k].req = q /\ job'[k].status # "done"
    <3>1. q \in Requests /\ q \in released /\ Drivable(req[q].state) /\ q \notin owed \cup dropped
      BY <2>1 DEF JobStep, ChainInv, ChainTypes
    <3>2. PICK k \in Jobs : job[k].kind = "provision" /\ job[k].req = q /\ job[k].status # "done"
      BY <3>1 DEF QueueInv, ReleasedIsDriven, Drivable
    <3>3. job'[k].kind = "provision" /\ job'[k].req = q /\ job'[k].status # "done"
      BY <2>1, <3>2 DEF JobStep, Kept
    <3>. QED  BY <3>3
  <2>. QED  BY <2>1 DEF ReleasedIsDriven, Drivable
<1>. QED  BY <1>2, <1>3 DEF QueueInv, JobStep

(* A step that changes one run and one row, gives nobody access, and no    *)
(* grant.                                                                  *)
LEMMA OneJob ==
    ASSUME ChainInv, QueueInv, NEW j \in Jobs, NEW x \in RunRows, NEW y \in JobRows,
           run' = [run EXCEPT ![j] = x], job' = [job EXCEPT ![j] = y],
           y.kind = job[j].kind, y.req = job[j].req, job[j].kind = "provision" => y.status # "done",
           account' \in Accounts, Lower, account'.access \subseteq account.access,
           live' \subseteq live, LiveActive', faults' \in 0 .. MaxFaults, UNCHANGED <<owed, released, dropped>>,
           \A r \in Requests : Drivable(req'[r].state) => Drivable(req[r].state),
           Shape(j)', LayersAt(j)', CompleteAt(j)'
    PROVE  QueueInv'
<1>1. run' \in [Jobs -> RunRows] /\ job' \in [Jobs -> JobRows] /\ run'[j] = x /\ job'[j] = y
      /\ \A k \in Jobs \ {j} : run'[k] = run[k] /\ job'[k] = job[k]
  BY DEF QueueInv, QueueTypes
<1>2. QueueTypes'
  BY <1>1 DEF QueueInv, QueueTypes
<1>3. \A k \in Jobs \ {j} : Kept(k)
  BY <1>1 DEF Kept
<1>. QED  BY <1>1, <1>2, <1>3, JobStepKeeps DEF JobStep

(* What the processor's answer makes of a running row.                     *)
LEMMA OutcomeRow ==
    ASSUME QueueInv, NEW j \in Jobs, job[j].status = "running", NEW err \in BOOLEAN
    PROVE  /\ Outcome(j, err) \in JobRows
           /\ Outcome(j, err).kind = job[j].kind /\ Outcome(j, err).req = job[j].req
           /\ Outcome(j, err).status \in {"done", "retry", "dead_letter"}
           /\ Outcome(j, err).status = "done" <=> ~err
           /\ Outcome(j, err).status # "dead_letter" => Outcome(j, err).attempts < MaxAttempts
<1>1. job[j] \in JobRows /\ job[j].attempts < MaxAttempts
  BY DEF QueueInv, QueueTypes, JobShape, Shape
<1>2. CASE ~err
  BY <1>1, <1>2 DEF Outcome, JobRows, Statuses
<1>3. CASE err
  <2>. DEFINE n == job[j].attempts + 1
  <2>1. n \in 0 .. MaxAttempts /\ (n < MaxAttempts <=> ~(job[j].attempts + 1 >= MaxAttempts))
    BY <1>1, EngineAssumption DEF JobRows
  <2>2. Outcome(j, err) = [job[j] EXCEPT !.status = IF n < MaxAttempts THEN "retry" ELSE "dead_letter",
                                         !.attempts = n]
    BY <1>1, <1>3, <2>1 DEF Outcome, JobRows
  <2>. HIDE DEF n
  <2>. QED  BY <1>1, <1>3, <2>1, <2>2 DEF JobRows, Statuses
<1>. QED  BY <1>2, <1>3

(* A step within a kill switch run, or out of a run.                       *)
LEMMA RunOnly ==
    ASSUME ChainInv, QueueInv, NEW j \in Jobs, NEW x \in RunRows, run' = [run EXCEPT ![j] = x],
           job[j].status = "running", x.pc = "none" \/ (x.pc \in KillPcs /\ job[j].kind = "leaver"),
           UNCHANGED <<req, live, job, owed, released, dropped>>, faults' \in 0 .. MaxFaults,
           account' \in Accounts, Lower, account'.access \subseteq account.access, LayersAt(j)'
    PROVE  QueueInv'
<1>1. job[j] \in JobRows /\ Shape(j) /\ run'[j] = x /\ job' = [job EXCEPT ![j] = job[j]]
  BY DEF QueueInv, QueueTypes, JobShape
<1>2. Shape(j)' /\ CompleteAt(j)'
  BY <1>1 DEF Shape, CompleteAt, ProvisionPcs, KillPcs
<1>3. LiveActive' /\ \A r \in Requests : Drivable(req'[r].state) => Drivable(req[r].state)
  BY DEF QueueInv, LiveActive
<1>. QED  BY <1>1, <1>2, <1>3, OneJob

LEMMA RunTypes ==
    ASSUME QueueInv, NEW j \in Jobs
    PROVE  run[j] \in RunRows /\ job[j] \in JobRows /\ Shape(j) /\ LayersAt(j)
BY DEF QueueInv, QueueTypes, JobShape, Layers

LEMMA ClaimKeeps == ASSUME ChainInv, QueueInv, NEW j \in Jobs, Claim(j) PROVE QueueInv'
<1>. DEFINE x == [NoRun EXCEPT !.pc = job[j].kind]
            y == [job[j] EXCEPT !.status = "running"]
<1>1. /\ job[j].status \in {"queued", "retry"} /\ run' = [run EXCEPT ![j] = x] /\ job' = [job EXCEPT ![j] = y]
      /\ UNCHANGED <<req, live, account, owed, released, dropped, faults>>
  BY RunTypes DEF Claim, user, QueueInv, QueueTypes
<1>2. job[j].kind \in {"provision", "leaver"}
  BY <1>1, RunTypes DEF Shape, JobRows
<1>3. x \in RunRows /\ x.pc = job[j].kind
  BY <1>2 DEF NoRun, RunRows, ProvisionPcs, KillPcs
<1>4. y \in JobRows /\ y.status = "running" /\ y.kind = job[j].kind /\ y.req = job[j].req
      /\ y.attempts = job[j].attempts
  BY RunTypes DEF JobRows, Statuses
<1>. HIDE DEF x, y
<1>5. run'[j] = x /\ job'[j] = y
  BY <1>1 DEF QueueInv, QueueTypes
<1>6. Shape(j)'
  BY <1>1, <1>2, <1>3, <1>4, <1>5, RunTypes DEF Shape, ProvisionPcs, KillPcs
<1>7. LayersAt(j)' /\ CompleteAt(j)'
  BY <1>2, <1>3, <1>4, <1>5 DEF LayersAt, CompleteAt, KillPcs
<1>8. /\ LiveActive' /\ \A r \in Requests : Drivable(req'[r].state) => Drivable(req[r].state)
      /\ account' \in Accounts /\ faults' \in 0 .. MaxFaults /\ Lower
  BY <1>1 DEF QueueInv, QueueTypes, LiveActive, Lower
<1>. QED  BY <1>1, <1>3, <1>4, <1>6, <1>7, <1>8, OneJob

LEMMA StopKeeps == ASSUME ChainInv, QueueInv, NEW j \in Jobs, WorkerStops(j) PROVE QueueInv'
<1>1. /\ job[j].status = "running" /\ run' = [run EXCEPT ![j] = NoRun]
      /\ UNCHANGED <<req, live, account, job, owed, released, dropped>>
  BY DEF WorkerStops, user
<1>2. NoRun \in RunRows /\ NoRun.pc = "none"
  BY DEF NoRun, RunRows
<1>3. run'[j] = NoRun
  BY <1>1 DEF QueueInv, QueueTypes
<1>4. LayersAt(j)'
  BY <1>2, <1>3 DEF LayersAt, KillPcs
<1>5. faults' \in 0 .. MaxFaults /\ account' \in Accounts /\ Lower
  BY <1>1, FaultType DEF WorkerStops, Lower, QueueInv, QueueTypes
<1>. QED  BY <1>1, <1>2, <1>4, <1>5, RunOnly

(* The steps of a kill switch run that stay in it.                         *)
LEMMA KillKeeps ==
    ASSUME ChainInv, QueueInv, NEW j \in Jobs, NEW x \in RunRows, run' = [run EXCEPT ![j] = x],
           job[j].status = "running", run[j].pc \in KillPcs, x.pc \in KillPcs,
           UNCHANGED <<req, live, job, owed, released, dropped>>, faults' \in 0 .. MaxFaults,
           account' \in Accounts, Lower, account'.access \subseteq account.access,
           ~x.errored =>
             /\ x.pc \in {"iam", "sessions", "list", "scim", "verify"} => ~account'.member
             /\ x.pc \in {"sessions", "list", "scim", "verify"} => ~account'.enabled
             /\ x.pc \in {"list", "scim", "verify"} => ~account'.sessions
             /\ x.pc = "scim" => account'.access \subseteq x.todo \cup x.lateAccess
             /\ x.pc = "verify" => account'.access \subseteq x.lateAccess
    PROVE  QueueInv'
<1>1. run'[j] = x /\ job[j].kind = "leaver"
  BY RunTypes DEF Shape, QueueInv, QueueTypes
<1>2. LayersAt(j)'
  BY <1>1 DEF LayersAt
<1>. QED  BY <1>1, <1>2, RunOnly

(* The user's record stands still.                                         *)
LEMMA SameAccount ==
    ASSUME QueueInv, UNCHANGED account PROVE account' \in Accounts /\ Lower /\ account'.access \subseteq account.access
BY DEF QueueInv, QueueTypes, Lower

LEMMA LoadKeeps == ASSUME ChainInv, QueueInv, NEW j \in Jobs, KillLoadGrants(j) PROVE QueueInv'
<1>. DEFINE x == [run[j] EXCEPT !.pc = "revoke", !.todo = live]
<1>1. /\ job[j].status = "running" /\ run[j].pc \in KillPcs /\ run' = [run EXCEPT ![j] = x]
      /\ UNCHANGED <<req, live, account, job, owed, released, dropped>> /\ faults' \in 0 .. MaxFaults
  BY DEF KillLoadGrants, At, KillPcs, engine, user, QueueInv, QueueTypes
<1>2. x \in RunRows /\ x.pc = "revoke"
  BY RunTypes DEF RunRows, KillPcs, QueueInv, QueueTypes
<1>. HIDE DEF x
<1>. QED  BY <1>1, <1>2, SameAccount, KillKeeps DEF KillPcs

LEMMA ListKeeps == ASSUME ChainInv, QueueInv, NEW j \in Jobs, KillList(j) PROVE QueueInv'
<1>. DEFINE x == [run[j] EXCEPT !.pc = "scim", !.todo = account.access, !.lateAccess = {}]
<1>1. /\ job[j].status = "running" /\ run[j].pc = "list" /\ run' = [run EXCEPT ![j] = x]
      /\ UNCHANGED <<req, live, account, job, owed, released, dropped>> /\ faults' \in 0 .. MaxFaults
  BY DEF KillList, At, engine, user, QueueInv, QueueTypes
<1>2. x \in RunRows /\ x.pc = "scim" /\ x.todo = account.access /\ x.errored = run[j].errored
  BY RunTypes DEF RunRows, KillPcs, QueueInv, QueueTypes, Accounts
<1>. HIDE DEF x
<1>3. ~run[j].errored => ~account'.member /\ ~account'.enabled /\ ~account'.sessions
  BY <1>1, RunTypes DEF LayersAt, KillPcs
<1>. QED  BY <1>1, <1>2, <1>3, SameAccount, KillKeeps DEF KillPcs

LEMMA LoopDoneKeeps == ASSUME ChainInv, QueueInv, NEW j \in Jobs, KillLoopDone(j) PROVE QueueInv'
<1>. DEFINE x == [run[j] EXCEPT !.pc = After(run[j].pc)]
<1>1. /\ job[j].status = "running" /\ run[j].pc \in {"revoke", "scim"} /\ run[j].todo = {}
      /\ run' = [run EXCEPT ![j] = x]
      /\ UNCHANGED <<req, live, account, job, owed, released, dropped>> /\ faults' \in 0 .. MaxFaults
  BY DEF KillLoopDone, Goto, At, engine, user, QueueInv, QueueTypes
<1>2. After(run[j].pc) = (IF run[j].pc = "revoke" THEN "teams" ELSE "verify")
  BY <1>1 DEF After
<1>3. x \in RunRows /\ x.pc = After(run[j].pc) /\ x.errored = run[j].errored /\ x.lateAccess = run[j].lateAccess
  BY <1>2, RunTypes DEF RunRows, KillPcs
<1>. HIDE DEF x
<1>4. run[j].pc = "scim" /\ ~run[j].errored =>
        ~account'.member /\ ~account'.enabled /\ ~account'.sessions /\ account'.access \subseteq run[j].lateAccess
  BY <1>1, RunTypes DEF LayersAt, KillPcs
<1>. QED  BY <1>1, <1>2, <1>3, <1>4, SameAccount, KillKeeps DEF KillPcs

(* A layer that takes effect lowers one flag.                              *)
LEMMA LayeredFacts ==
    ASSUME QueueInv, NEW pc \in KillPcs
    PROVE  /\ Layered(pc) \in Accounts /\ Layered(pc).access = account.access
           /\ Layered(pc).member => account.member
           /\ Layered(pc).enabled => account.enabled
           /\ Layered(pc).sessions => account.sessions
           /\ Layered(pc).orphaned => account.orphaned
           /\ pc = "teams" => ~Layered(pc).member
           /\ pc = "iam" => ~Layered(pc).enabled
           /\ pc = "sessions" => ~Layered(pc).sessions
<1>. account \in Accounts
  BY DEF QueueInv, QueueTypes
<1>1. CASE pc = "teams"    BY <1>1 DEF Layered, Accounts
<1>2. CASE pc = "iam"      BY <1>2 DEF Layered, Accounts
<1>3. CASE pc = "sessions" BY <1>3 DEF Layered, Accounts
<1>4. CASE pc \notin {"teams", "iam", "sessions"}
  <2>1. Layered(pc) = account
    BY <1>4 DEF Layered
  <2>. QED  BY <1>4, <2>1 DEF Accounts
<1>. QED  BY <1>1, <1>2, <1>3, <1>4

LEMMA LayerKeeps == ASSUME ChainInv, QueueInv, NEW j \in Jobs, KillLayer(j) PROVE QueueInv'
<1>. DEFINE x == [run[j] EXCEPT !.pc = After(run[j].pc)]
<1>1. /\ job[j].status = "running" /\ run[j].pc \in {"teams", "iam", "sessions"} /\ run[j].pc \in KillPcs
      /\ run' = [run EXCEPT ![j] = x] /\ account' = Layered(run[j].pc)
      /\ UNCHANGED <<req, live, job, owed, released, dropped>> /\ faults' \in 0 .. MaxFaults
  BY DEF KillLayer, Goto, At, engine, KillPcs, QueueInv, QueueTypes
<1>2. /\ run[j].pc = "teams" => After(run[j].pc) = "iam"
      /\ run[j].pc = "iam" => After(run[j].pc) = "sessions"
      /\ run[j].pc = "sessions" => After(run[j].pc) = "list"
  BY DEF After
<1>3. x \in RunRows /\ x.pc = After(run[j].pc) /\ x.errored = run[j].errored
  BY <1>1, <1>2, RunTypes DEF RunRows, KillPcs
<1>. HIDE DEF x
<1>4. account' \in Accounts /\ Lower /\ account'.access = account.access
  BY <1>1, LayeredFacts DEF Lower
<1>5. ~x.errored =>
        /\ x.pc \in {"iam", "sessions", "list"} => ~account'.member
        /\ x.pc \in {"sessions", "list"} => ~account'.enabled
        /\ x.pc = "list" => ~account'.sessions
  <2>1. ~run[j].errored => /\ run[j].pc \in {"iam", "sessions"} => ~account.member
                           /\ run[j].pc = "sessions" => ~account.enabled
    BY <1>1, RunTypes DEF LayersAt
  <2>. QED  BY <1>1, <1>2, <1>3, <2>1, LayeredFacts
<1>. QED  BY <1>1, <1>2, <1>3, <1>4, <1>5, KillKeeps DEF KillPcs

LEMMA LayerErrorKeeps == ASSUME ChainInv, QueueInv, NEW j \in Jobs, KillLayerError(j) PROVE QueueInv'
<1>1. /\ job[j].status = "running" /\ run[j].pc \in {"leaver", "teams", "iam", "sessions", "list"}
      /\ account' \in {account, Layered(run[j].pc)}
      /\ UNCHANGED <<req, live, job, owed, released, dropped>>
  BY DEF KillLayerError, At, engine
<1>2. PICK pc \in {After(run[j].pc), "verify"} : run' = [run EXCEPT ![j].pc = pc, ![j].errored = TRUE]
  BY DEF KillLayerError
<1>3. pc \in KillPcs /\ run[j].pc \in KillPcs
  BY <1>1, <1>2 DEF After, KillPcs
<1>. DEFINE x == [run[j] EXCEPT !.pc = pc, !.errored = TRUE]
<1>4. x \in RunRows /\ x.pc = pc /\ x.errored /\ run' = [run EXCEPT ![j] = x]
  BY <1>2, <1>3, RunTypes DEF RunRows, KillPcs, QueueInv, QueueTypes
<1>. HIDE DEF x
<1>5. account' \in Accounts /\ Lower /\ account'.access \subseteq account.access
  BY <1>1, <1>3, LayeredFacts, SameAccount DEF Lower
<1>6. faults' \in 0 .. MaxFaults
  BY FaultType DEF KillLayerError
<1>. QED  BY <1>1, <1>3, <1>4, <1>5, <1>6, KillKeeps

(* Taking an entitlement away.                                             *)
LEMMA WithoutAccess ==
    ASSUME QueueInv, NEW r, account' = [account EXCEPT !.access = @ \ {r}]
    PROVE  account' \in Accounts /\ Lower /\ account'.access = account.access \ {r}
           /\ account'.member = account.member /\ account'.enabled = account.enabled
           /\ account'.sessions = account.sessions
BY DEF QueueInv, QueueTypes, Accounts, Lower

LEMMA ScimKeeps == ASSUME ChainInv, QueueInv, NEW j \in Jobs, NEW r \in Requests, KillScim(j, r) PROVE QueueInv'
<1>. DEFINE x == [run[j] EXCEPT !.todo = run[j].todo \ {r}]
<1>1. /\ job[j].status = "running" /\ run[j].pc = "scim" /\ run[j].pc \in KillPcs
      /\ run' = [run EXCEPT ![j] = x] /\ account' = [account EXCEPT !.access = @ \ {r}]
      /\ UNCHANGED <<req, live, job, owed, released, dropped>> /\ faults' \in 0 .. MaxFaults
  BY DEF KillScim, At, engine, KillPcs, QueueInv, QueueTypes
<1>2. x \in RunRows /\ x.pc = "scim" /\ x.errored = run[j].errored /\ x.todo = run[j].todo \ {r}
      /\ x.lateAccess = run[j].lateAccess
  BY <1>1, RunTypes DEF RunRows
<1>. HIDE DEF x
<1>3. /\ account' \in Accounts /\ Lower /\ account'.access = account.access \ {r}
      /\ account'.member = account.member /\ account'.enabled = account.enabled
      /\ account'.sessions = account.sessions
  BY <1>1, WithoutAccess
<1>4. ~run[j].errored => ~account.member /\ ~account.enabled /\ ~account.sessions
                         /\ account.access \subseteq run[j].todo \cup run[j].lateAccess
  BY <1>1, RunTypes DEF LayersAt
<1>. QED  BY <1>1, <1>2, <1>3, <1>4, KillKeeps

LEMMA ItemErrorKeeps ==
    ASSUME ChainInv, QueueInv, NEW j \in Jobs, NEW r \in Requests, KillItemError(j, r) PROVE QueueInv'
<1>. DEFINE x == [run[j] EXCEPT !.todo = run[j].todo \ {r}, !.errored = TRUE]
<1>1. /\ job[j].status = "running" /\ run[j].pc \in KillPcs /\ run' = [run EXCEPT ![j] = x]
      /\ UNCHANGED <<req, live, job, owed, released, dropped>>
  BY DEF KillItemError, At, engine, KillPcs, QueueInv, QueueTypes
<1>2. x \in RunRows /\ x.pc = run[j].pc /\ x.errored
  BY RunTypes DEF RunRows
<1>. HIDE DEF x
<1>3. account' \in Accounts /\ Lower /\ account'.access \subseteq account.access
  BY WithoutAccess, SameAccount DEF KillItemError
<1>4. faults' \in 0 .. MaxFaults
  BY FaultType DEF KillItemError
<1>. QED  BY <1>1, <1>2, <1>3, <1>4, KillKeeps

LEMMA RevokeKeeps ==
    ASSUME ChainInv, QueueInv, NEW j \in Jobs, NEW r \in Requests, KillRevoke(j, r) PROVE QueueInv'
<1>. DEFINE x == [run[j] EXCEPT !.todo = run[j].todo \ {r}]
<1>1. /\ job[j].status = "running" /\ run[j].pc = "revoke" /\ run' = [run EXCEPT ![j] = x]
      /\ job' = [job EXCEPT ![j] = job[j]] /\ live' \subseteq live
      /\ UNCHANGED <<job, owed, released, dropped>> /\ faults' \in 0 .. MaxFaults
  BY DEF KillRevoke, At, engine, QueueInv, QueueTypes
<1>2. x \in RunRows /\ x.pc = "revoke"
  BY <1>1, RunTypes DEF RunRows
<1>. HIDE DEF x
<1>3. account' \in Accounts /\ Lower /\ account'.access \subseteq account.access
  BY WithoutAccess, SameAccount DEF KillRevoke
<1>4. /\ \A q \in Requests \ {r} : req'[q] = req[q]
      /\ req' = req \/ (req'[r].state = "revoked" /\ r \notin live')
  BY DEF KillRevoke, Set, ChainInv, ChainTypes, ReqRows
<1>5. LiveActive' /\ \A q \in Requests : Drivable(req'[q].state) => Drivable(req[q].state)
  BY <1>1, <1>4 DEF LiveActive, Drivable, QueueInv, QueueTypes
<1>6. run'[j] = x /\ Shape(j) /\ job[j] \in JobRows
  BY <1>1, RunTypes DEF QueueInv, QueueTypes
<1>7. Shape(j)' /\ LayersAt(j)' /\ CompleteAt(j)'
  BY <1>1, <1>2, <1>6 DEF Shape, LayersAt, CompleteAt, ProvisionPcs
<1>. QED  BY <1>1, <1>2, <1>3, <1>5, <1>6, <1>7, OneJob

LEMMA VerifyKeeps == ASSUME ChainInv, QueueInv, NEW j \in Jobs, KillVerify(j) PROVE QueueInv'
<1>. DEFINE x == [run[j] EXCEPT !.pc = "none", !.lateGrants = {}]
            y == Outcome(j, ~Verified(j))
<1>1. /\ job[j].status = "running" /\ run[j].pc = "verify" /\ run' = [run EXCEPT ![j] = x]
      /\ job' = [job EXCEPT ![j] = y] /\ account' = [account EXCEPT !.orphaned = @ /\ live # {}]
      /\ UNCHANGED <<req, live, owed, released, dropped>> /\ faults' \in 0 .. MaxFaults
  BY DEF KillVerify, Finish, At, engine, QueueInv, QueueTypes
<1>2. x \in RunRows /\ x.pc = "none" /\ x.lateAccess = run[j].lateAccess /\ x.lateGrants = {}
  BY RunTypes DEF RunRows
<1>3. /\ y \in JobRows /\ y.kind = job[j].kind /\ y.req = job[j].req
      /\ y.status \in {"done", "retry", "dead_letter"} /\ (y.status = "done" <=> Verified(j))
      /\ y.status # "dead_letter" => y.attempts < MaxAttempts
  <2>1. (~Verified(j)) \in BOOLEAN
    BY DEF Verified
  <2>. QED  BY <1>1, <2>1, OutcomeRow
<1>. HIDE DEF x, y
<1>4. run'[j] = x /\ job'[j] = y /\ job[j].kind = "leaver"
  BY <1>1, RunTypes DEF Shape, KillPcs, QueueInv, QueueTypes
<1>5. /\ account' \in Accounts /\ account'.access = account.access
      /\ account'.member = account.member /\ account'.enabled = account.enabled
      /\ account'.sessions = account.sessions /\ account'.orphaned = (account.orphaned /\ live # {})
  BY <1>1 DEF QueueInv, QueueTypes, Accounts
<1>6. Lower
  BY <1>5 DEF Lower
<1>7. Shape(j)' /\ LayersAt(j)'
  BY <1>2, <1>3, <1>4 DEF Shape, LayersAt, ProvisionPcs, KillPcs
<1>8. CompleteAt(j)'
  <2>1. Verified(j) => /\ ~account.member /\ ~account.enabled /\ ~account.sessions /\ live = {}
                       /\ account.access \subseteq run[j].lateAccess
    BY <1>1, RunTypes DEF Verified, LayersAt, KillPcs
  <2>. QED  BY <1>1, <1>2, <1>3, <1>4, <1>5, <2>1 DEF CompleteAt
<1>9. LiveActive' /\ \A r \in Requests : Drivable(req'[r].state) => Drivable(req[r].state)
  BY <1>1 DEF QueueInv, LiveActive
<1>. QED  BY <1>1, <1>2, <1>3, <1>4, <1>5, <1>6, <1>7, <1>8, <1>9, OneJob

(* A run that ends in an error.                                            *)
LEMMA FailKeeps ==
    ASSUME ChainInv, QueueInv, NEW j \in Jobs, job[j].status = "running",
           run' = [run EXCEPT ![j].pc = "none"], Finish(j, TRUE), faults' \in 0 .. MaxFaults,
           UNCHANGED <<live, account, owed, released, dropped>>, LiveActive',
           \A r \in Requests : Drivable(req'[r].state) => Drivable(req[r].state)
    PROVE  QueueInv'
<1>. DEFINE x == [run[j] EXCEPT !.pc = "none"]
            y == Outcome(j, TRUE)
<1>1. run' = [run EXCEPT ![j] = x] /\ job' = [job EXCEPT ![j] = y]
  BY DEF Finish, QueueInv, QueueTypes
<1>2. x \in RunRows /\ x.pc = "none"
  BY RunTypes DEF RunRows
<1>3. /\ y \in JobRows /\ y.kind = job[j].kind /\ y.req = job[j].req
      /\ y.status \in {"retry", "dead_letter"}
      /\ y.status # "dead_letter" => y.attempts < MaxAttempts
  BY OutcomeRow
<1>. HIDE DEF x, y
<1>4. run'[j] = x /\ job'[j] = y /\ Shape(j)
  BY <1>1, RunTypes DEF QueueInv, QueueTypes
<1>5. Shape(j)' /\ LayersAt(j)' /\ CompleteAt(j)'
  BY <1>2, <1>3, <1>4 DEF Shape, LayersAt, CompleteAt, ProvisionPcs, KillPcs
<1>. QED  BY <1>1, <1>2, <1>3, <1>5, SameAccount, OneJob

LEMMA VerifyErrorKeeps == ASSUME ChainInv, QueueInv, NEW j \in Jobs, KillVerifyError(j) PROVE QueueInv'
<1>1. /\ job[j].status = "running" /\ run' = [run EXCEPT ![j].pc = "none"] /\ Finish(j, TRUE)
      /\ UNCHANGED <<req, live, account, owed, released, dropped>>
  BY DEF KillVerifyError, At, Goto, engine, user
<1>2. faults' \in 0 .. MaxFaults
  BY FaultType DEF KillVerifyError
<1>3. LiveActive' /\ \A r \in Requests : Drivable(req'[r].state) => Drivable(req[r].state)
  BY <1>1 DEF QueueInv, LiveActive
<1>. QED  BY <1>1, <1>2, <1>3, FailKeeps

-----------------------------------------------------------------------------
(* Provisioning                                                            *)

LEMMA BeginKeeps == ASSUME ChainInv, QueueInv, NEW j \in Jobs, ProvisionBegin(j) PROVE QueueInv'
<1>. DEFINE x == [run[j] EXCEPT !.pc = "call"]
<1>0. PICK r \in Requests : r = job[j].req
  BY RunTypes DEF ProvisionBegin, At, Shape, ProvisionPcs
<1>1. /\ job[j].status = "running" /\ run[j].pc = "provision"
      /\ UNCHANGED <<live, account, owed, released, dropped>> /\ faults' \in 0 .. MaxFaults
  BY DEF ProvisionBegin, At, engine, user, QueueInv, QueueTypes
<1>2. CASE Drivable(req[r].state) /\ Set(r, "provisioning") /\ Goto(j, "call") /\ UNCHANGED job
  <2>1. run' = [run EXCEPT ![j] = x] /\ job' = [job EXCEPT ![j] = job[j]]
    BY <1>2 DEF Goto, QueueInv, QueueTypes
  <2>2. x \in RunRows /\ x.pc = "call"
    BY RunTypes DEF RunRows, ProvisionPcs
  <2>. HIDE DEF x
  <2>3. run'[j] = x /\ Shape(j) /\ job[j] \in JobRows
    BY <2>1, RunTypes DEF QueueInv, QueueTypes
  <2>4. job[j].kind = "provision" /\ r \notin live
    BY <1>1, <1>2, <2>3 DEF Shape, ProvisionPcs, Drivable, QueueInv, LiveActive
  <2>5. Shape(j)' /\ LayersAt(j)' /\ CompleteAt(j)'
    BY <1>1, <1>2, <2>2, <2>3, <2>4 DEF Shape, LayersAt, CompleteAt, KillPcs
  <2>6. req'[r].state = "provisioning" /\ \A q \in Requests \ {r} : req'[q] = req[q]
    BY <1>2, SetRow DEF ChainInv, States
  <2>7. LiveActive' /\ \A q \in Requests : Drivable(req'[q].state) => Drivable(req[q].state)
    BY <1>1, <1>2, <2>4, <2>6 DEF LiveActive, QueueInv, QueueTypes
  <2>. QED  BY <1>1, <1>2, <2>1, <2>2, <2>3, <2>5, <2>7, SameAccount, OneJob
<1>3. CASE Finish(j, TRUE) /\ Goto(j, "none") /\ UNCHANGED req
  <2>1. LiveActive' /\ \A q \in Requests : Drivable(req'[q].state) => Drivable(req[q].state)
    BY <1>1, <1>3 DEF LiveActive, QueueInv
  <2>. QED  BY <1>1, <1>3, <2>1, FailKeeps DEF Goto
<1>4. (May(r, "provisioning") \/ req[r].state = "provisioning") => Drivable(req[r].state)
  BY DEF May, Transition, Drivable
<1>. QED  BY <1>0, <1>2, <1>3, <1>4 DEF ProvisionBegin

(* The provider gives the user the entitlement: a run of the kill switch   *)
(* that has listed the entitlements records that it will miss it.          *)
LEMMA EntitleFacts ==
    ASSUME QueueInv, NEW j \in Jobs, NEW r \in Requests, r = job[j].req, job[j].kind = "provision",
           NEW pc \in {"insert", "none"}, Entitle(j, pc)
    PROVE  /\ account' \in Accounts /\ Lower /\ account'.access = account.access \cup {r}
           /\ run' \in [Jobs -> RunRows] /\ run'[j].pc = pc
           /\ \A k \in Jobs \ {j} :
                /\ run'[k].pc = run[k].pc /\ run'[k].todo = run[k].todo /\ run'[k].errored = run[k].errored
                /\ run[k].lateAccess \subseteq run'[k].lateAccess /\ run'[k].lateGrants = run[k].lateGrants
                /\ job[k].kind = "leaver" /\ run[k].pc \in {"none", "scim", "verify"}
                     => r \in run'[k].lateAccess
<1>1. account' \in Accounts /\ Lower /\ account'.access = account.access \cup {r}
  BY DEF Entitle, QueueInv, QueueTypes, Accounts, Lower
<1>. DEFINE late(y) == IF y.pc \in {"list", "leaver", "revoke", "teams", "iam", "sessions"} THEN y
                       ELSE [y EXCEPT !.lateAccess = @ \cup {r}]
            m == [k \in Jobs |-> IF job[k].kind = "leaver" THEN late(run[k]) ELSE run[k]]
<1>2. run' = [m EXCEPT ![j].pc = pc]
  BY DEF Entitle, Missed
<1>3. \A k \in Jobs :
        /\ m[k] \in RunRows /\ m[k].pc = run[k].pc /\ m[k].todo = run[k].todo /\ m[k].errored = run[k].errored
        /\ run[k].lateAccess \subseteq m[k].lateAccess /\ m[k].lateGrants = run[k].lateGrants
        /\ job[k].kind = "leaver" /\ run[k].pc \in {"none", "scim", "verify"} => r \in m[k].lateAccess
  BY DEF QueueInv, QueueTypes, RunRows
<1>4. m \in [Jobs -> RunRows]
  BY <1>3
<1>. HIDE DEF m
<1>5. [m[j] EXCEPT !.pc = pc] \in RunRows /\ [m[j] EXCEPT !.pc = pc].pc = pc
  BY <1>3 DEF RunRows, ProvisionPcs
<1>. QED  BY <1>1, <1>2, <1>3, <1>4, <1>5

(* The job and its request, at each step of handleProvision.               *)
LEMMA ProvisionFacts ==
    ASSUME QueueInv, NEW j \in Jobs, job[j].status = "running", run[j].pc \in ProvisionPcs
    PROVE  job[j].kind = "provision" /\ job[j].req \in Requests
BY RunTypes DEF Shape

LEMMA AccessKeeps == ASSUME ChainInv, QueueInv, NEW j \in Jobs, ProvisionAccess(j) PROVE QueueInv'
<1>1. /\ job[j].status = "running" /\ run[j].pc \in ProvisionPcs /\ Entitle(j, "insert")
      /\ UNCHANGED <<req, job, live, owed, released, dropped, faults>>
  BY DEF ProvisionAccess, At, ProvisionPcs, engine
<1>2. PICK r \in Requests : r = job[j].req /\ job[j].kind = "provision"
  BY <1>1, ProvisionFacts
<1>3. QueueTypes' /\ LiveActive' /\ Lower
  BY <1>1, <1>2, EntitleFacts DEF QueueInv, QueueTypes, LiveActive
<1>4. \A k \in Jobs \ {j} : Kept(k)
  BY <1>1, <1>2, EntitleFacts DEF Kept
<1>5. run'[j].pc = "insert" /\ Shape(j)
  BY <1>1, <1>2, EntitleFacts, RunTypes
<1>6. Shape(j)' /\ LayersAt(j)' /\ CompleteAt(j)'
  BY <1>1, <1>2, <1>5 DEF Shape, LayersAt, CompleteAt, KillPcs
<1>7. JobStep(j)
  BY <1>1, <1>3, <1>4, <1>6 DEF JobStep
<1>. QED  BY <1>7, JobStepKeeps

LEMMA ErrorKeeps == ASSUME ChainInv, QueueInv, NEW j \in Jobs, ProvisionError(j) PROVE QueueInv'
<1>1. /\ job[j].status = "running" /\ run[j].pc \in ProvisionPcs /\ Finish(j, TRUE)
      /\ Entitle(j, "none") \/ (Goto(j, "none") /\ UNCHANGED account)
      /\ UNCHANGED <<live, owed, released, dropped>>
  BY DEF ProvisionError, At, ProvisionPcs, engine
<1>2. PICK r \in Requests : r = job[j].req /\ job[j].kind = "provision"
  BY <1>1, ProvisionFacts
<1>3. faults' \in 0 .. MaxFaults
  BY FaultType DEF ProvisionError
<1>4. /\ \A q \in Requests \ {r} : req'[q] = req[q]
      /\ req' = req \/ (req[r].state = "provisioning" /\ req'[r].state = "provision_failed")
  BY <1>2 DEF ProvisionError, May, Transition, Set, ChainInv, ChainTypes, ReqRows
<1>5. LiveActive' /\ \A q \in Requests : Drivable(req'[q].state) => Drivable(req[q].state)
  BY <1>1, <1>4 DEF LiveActive, Drivable, QueueInv, QueueTypes
<1>6. CASE Entitle(j, "none")
  <2>. DEFINE y == Outcome(j, TRUE)
  <2>1. /\ y \in JobRows /\ y.kind = job[j].kind /\ y.req = job[j].req
        /\ y.status \in {"retry", "dead_letter"}
        /\ y.status # "dead_letter" => y.attempts < MaxAttempts
    BY <1>1, OutcomeRow
  <2>2. job' = [job EXCEPT ![j] = y]
    BY <1>1 DEF Finish
  <2>. HIDE DEF y
  <2>3. job' \in [Jobs -> JobRows] /\ job'[j] = y /\ \A k \in Jobs \ {j} : job'[k] = job[k]
    BY <2>1, <2>2 DEF QueueInv, QueueTypes
  <2>4. QueueTypes' /\ Lower
    BY <1>1, <1>2, <1>3, <1>6, <2>3, EntitleFacts DEF QueueInv, QueueTypes
  <2>5. \A k \in Jobs \ {j} : Kept(k)
    BY <1>1, <1>2, <1>6, <2>3, EntitleFacts DEF Kept
  <2>6. run'[j].pc = "none" /\ Shape(j)
    BY <1>2, <1>6, EntitleFacts, RunTypes
  <2>7. Shape(j)' /\ LayersAt(j)' /\ CompleteAt(j)'
    BY <1>2, <2>1, <2>3, <2>6 DEF Shape, LayersAt, CompleteAt, KillPcs, ProvisionPcs
  <2>8. JobStep(j)
    BY <1>1, <1>5, <2>1, <2>3, <2>4, <2>5, <2>7 DEF JobStep
  <2>. QED  BY <2>8, JobStepKeeps
<1>7. CASE Goto(j, "none") /\ UNCHANGED account
  BY <1>1, <1>3, <1>5, <1>7, FailKeeps DEF Goto
<1>. QED  BY <1>1, <1>6, <1>7

(* A new grant: every leaver run records that it has not counted it.       *)
WithGrant(r) ==
    IF r \in live THEN run
    ELSE [k \in Jobs |-> IF job[k].kind = "leaver" THEN [run[k] EXCEPT !.lateGrants = @ \cup {r}] ELSE run[k]]

LEMMA GrantFacts ==
    ASSUME QueueInv, NEW j \in Jobs, NEW r \in Requests, run' = [WithGrant(r) EXCEPT ![j].pc = "none"]
    PROVE  /\ run' \in [Jobs -> RunRows] /\ run'[j].pc = "none"
           /\ \A k \in Jobs \ {j} :
                /\ run'[k].pc = run[k].pc /\ run'[k].todo = run[k].todo /\ run'[k].errored = run[k].errored
                /\ run'[k].lateAccess = run[k].lateAccess /\ run[k].lateGrants \subseteq run'[k].lateGrants
                /\ job[k].kind = "leaver" /\ r \notin live => r \in run'[k].lateGrants
<1>1. run \in [Jobs -> RunRows]
  BY DEF QueueInv, QueueTypes
<1>. DEFINE m == WithGrant(r)
<1>2. \A k \in Jobs :
        /\ m[k] \in RunRows /\ m[k].pc = run[k].pc /\ m[k].todo = run[k].todo /\ m[k].errored = run[k].errored
        /\ m[k].lateAccess = run[k].lateAccess /\ run[k].lateGrants \subseteq m[k].lateGrants
        /\ job[k].kind = "leaver" /\ r \notin live => r \in m[k].lateGrants
  BY <1>1 DEF RunRows, WithGrant
<1>3. m \in [Jobs -> RunRows]
  BY <1>1, <1>2 DEF WithGrant
<1>4. run' = [m EXCEPT ![j].pc = "none"]
  OBVIOUS
<1>. HIDE DEF m
<1>5. [m[j] EXCEPT !.pc = "none"] \in RunRows /\ [m[j] EXCEPT !.pc = "none"].pc = "none"
  BY <1>2 DEF RunRows
<1>. QED  BY <1>2, <1>3, <1>4, <1>5

LEMMA InsertGrantKeeps == ASSUME ChainInv, QueueInv, NEW j \in Jobs, ProvisionInsert(j) PROVE QueueInv'
<1>1. /\ job[j].status = "running" /\ run[j].pc \in ProvisionPcs
      /\ UNCHANGED <<account, owed, released, dropped>> /\ faults' \in 0 .. MaxFaults
  BY DEF ProvisionInsert, At, ProvisionPcs, engine, QueueInv, QueueTypes
<1>2. PICK r \in Requests : r = job[j].req /\ job[j].kind = "provision"
  BY <1>1, ProvisionFacts
<1>3. CASE r \in live \/ May(r, "provisioned")
  <2>. DEFINE y == Outcome(j, FALSE)
  <2>1. /\ live' = live \cup {r} /\ job' = [job EXCEPT ![j] = y]
        /\ IF May(r, "provisioned") THEN Set(r, "active") ELSE UNCHANGED req
    BY <1>2, <1>3 DEF ProvisionInsert, Finish
  <2>2. run' = [WithGrant(r) EXCEPT ![j].pc = "none"]
    BY <1>2, <1>3 DEF ProvisionInsert, Missed, WithGrant
  <2>3. /\ run' \in [Jobs -> RunRows] /\ run'[j].pc = "none"
        /\ \A k \in Jobs \ {j} :
             /\ run'[k].pc = run[k].pc /\ run'[k].todo = run[k].todo /\ run'[k].errored = run[k].errored
             /\ run'[k].lateAccess = run[k].lateAccess /\ run[k].lateGrants \subseteq run'[k].lateGrants
             /\ job[k].kind = "leaver" /\ r \notin live => r \in run'[k].lateGrants
    BY <1>2, <2>2, GrantFacts
  <2>4. /\ y \in JobRows /\ y.kind = job[j].kind /\ y.req = job[j].req
        /\ y.status = "done" /\ y.attempts < MaxAttempts
    BY <1>1, OutcomeRow
  <2>. HIDE DEF y
  <2>5. job' \in [Jobs -> JobRows] /\ job'[j] = y /\ \A k \in Jobs \ {j} : job'[k] = job[k]
    BY <2>1, <2>4 DEF QueueInv, QueueTypes
  <2>6. req'[r].state = "active" /\ \A q \in Requests \ {r} : req'[q] = req[q]
    <3>1. CASE May(r, "provisioned")
      BY <2>1, <3>1, SetRow DEF ChainInv, States
    <3>2. CASE ~May(r, "provisioned")
      BY <1>3, <2>1, <3>2 DEF QueueInv, LiveActive
    <3>. QED  BY <3>1, <3>2
  <2>7. LiveActive' /\ \A q \in Requests : Drivable(req'[q].state) => Drivable(req[q].state)
    BY <2>1, <2>6 DEF LiveActive, Drivable, QueueInv, QueueTypes
  <2>8. QueueTypes' /\ Lower
    BY <1>1, <2>1, <2>3, <2>5 DEF QueueInv, QueueTypes, Lower
  <2>9. \A k \in Jobs \ {j} : Kept(k)
    BY <1>1, <2>1, <2>3, <2>5 DEF Kept
  <2>10. Shape(j)' /\ LayersAt(j)' /\ CompleteAt(j)'
    BY <1>2, <2>3, <2>4, <2>5 DEF Shape, LayersAt, CompleteAt, KillPcs, ProvisionPcs
  <2>11. JobStep(j)
    BY <1>1, <1>2, <2>4, <2>5, <2>6, <2>7, <2>8, <2>9, <2>10 DEF JobStep, Drivable
  <2>. QED  BY <2>11, JobStepKeeps
<1>4. CASE ~(r \in live \/ May(r, "provisioned"))
  <2>1. Finish(j, TRUE) /\ Goto(j, "none") /\ UNCHANGED <<req, live>>
    BY <1>2, <1>4 DEF ProvisionInsert
  <2>2. LiveActive' /\ \A q \in Requests : Drivable(req'[q].state) => Drivable(req[q].state)
    BY <2>1 DEF LiveActive, QueueInv
  <2>. QED  BY <1>1, <2>1, <2>2, FailKeeps DEF Goto
<1>. QED  BY <1>3, <1>4

LEMMA InsertErrorKeeps == ASSUME ChainInv, QueueInv, NEW j \in Jobs, ProvisionInsertError(j) PROVE QueueInv'
<1>1. /\ job[j].status = "running" /\ run[j].pc \in ProvisionPcs /\ Finish(j, TRUE) /\ Goto(j, "none")
      /\ UNCHANGED <<req, live, account, owed, released, dropped>>
  BY DEF ProvisionInsertError, At, ProvisionPcs, engine, user
<1>2. job[j].kind = "provision" /\ faults' \in 0 .. MaxFaults
  BY <1>1, ProvisionFacts, FaultType DEF ProvisionInsertError
<1>3. LiveActive' /\ \A q \in Requests : Drivable(req'[q].state) => Drivable(req[q].state)
  BY <1>1 DEF LiveActive, QueueInv
<1>. QED  BY <1>1, <1>2, <1>3, FailKeeps DEF Goto

LEMMA WorkerStepKeeps == ASSUME ChainInv, QueueInv, WorkerStep PROVE ChainInv' /\ QueueInv'
<1>1. ChainInv'
  BY WorkerStepMoves, WorkerMovesRequests, MovesKeep
<1>2. QueueInv'
  BY ClaimKeeps, StopKeeps, BeginKeeps, AccessKeeps, ErrorKeeps, InsertGrantKeeps, InsertErrorKeeps, LoadKeeps, LoopDoneKeeps,
     LayerKeeps, LayerErrorKeeps, ListKeeps, VerifyKeeps, VerifyErrorKeeps, RevokeKeeps, ItemErrorKeeps, ScimKeeps
     DEF WorkerStep
<1>. QED  BY <1>1, <1>2

-----------------------------------------------------------------------------
(* The theorems                                                            *)

LEMMA StutterKeeps == ASSUME ChainInv, QueueInv, UNCHANGED vars PROVE ChainInv' /\ QueueInv'
<1>1. ChainInv'
  BY StillMoves, WorkerMovesRequests, MovesKeep DEF vars
<1>2. EngineQuiet
  BY DEF vars, EngineQuiet, QueueInv, QueueTypes, ChainInv, ChainTypes
<1>. QED  BY <1>1, <1>2, QuietKeeps

(* Both invariants hold in every reachable state: of the chain and of the  *)
(* queue.                                                                  *)
THEOREM EngineInvariant == Spec => [](ChainInv /\ QueueInv)
<1>1. Init => ChainInv /\ QueueInv
  BY ChainInit, QueueInit
<1>2. ChainInv /\ QueueInv /\ [Next]_vars => (ChainInv /\ QueueInv)'
  BY EngineStepKeeps, WorkerStepKeeps, StutterKeeps DEF Next
<1>. QED  BY <1>1, <1>2, PTL DEF Spec

(* Rows, transactions, runs and the user's record keep their types, the    *)
(* attempts of a job never exceed MaxAttempts.                             *)
THEOREM EngineTypeCorrect == Spec => []TypeOK
<1>1. ChainInv /\ QueueInv => TypeOK
  BY DEF ChainInv, ChainTypes, QueueInv, QueueTypes, TypeOK, ReqRows, States, JobRows, Statuses, RunRows, Accounts
<1>. QED  BY <1>1, EngineInvariant, PTL

(* Whatever the number of approvers and however their transactions         *)
(* interleave, no complete or denied chain is left in requested.           *)
THEOREM NoStalledChain == Spec => []ChainNeverStalls
<1>1. ChainInv => ChainNeverStalls
  BY DEF ChainInv
<1>. QED  BY <1>1, EngineInvariant, PTL

(* What the engine releases has the approvers its lane requires on record, *)
(* distinct ones.                                                          *)
THEOREM TwoApprovers == Spec => []FourEyes
<1>1. ChainInv => FourEyes
  BY DEF ChainInv
<1>. QED  BY <1>1, EngineInvariant, PTL

(* No released request is forgotten between the commit and the queue       *)
(* without a record of it, or dropped by a job that ends.                  *)
THEOREM NoReleaseForgotten == Spec => []ReleasedIsDriven
<1>1. QueueInv => ReleasedIsDriven
  BY DEF QueueInv
<1>. QED  BY <1>1, EngineInvariant, PTL

(* A leaver job reported done has cut the user off from everything that    *)
(* was not provisioned behind its back.                                    *)
THEOREM DoneIsCutOff == Spec => []LeaverComplete
<1>1. QueueInv => LeaverComplete
  BY DEF QueueInv
<1>. QED  BY <1>1, EngineInvariant, PTL
=============================================================================

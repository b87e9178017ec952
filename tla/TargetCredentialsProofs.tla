----------------------- MODULE TargetCredentialsProofs -----------------------
(***************************************************************************)
(* Proofs about TargetCredentials for any number of schedulers, callers,   *)
(* leases, dynamic credentials and faults.                                 *)
(*                                                                         *)
(* Two inductive invariants.  RotationInv: for as long as nothing is to    *)
(* blame, at most one rotation is between its change of the upstream and   *)
(* its outcome, the upstream has that rotation's new secret and the vault  *)
(* its old one; with none there, the two agree.  RoleInv: a role whose row *)
(* is about to be closed is gone already, or known as a stray.             *)
(***************************************************************************)
EXTENDS TargetCredentials, TLAPS

(* A rotation is a record of its pc and two secrets.                       *)
RotShape ==
    /\ DOMAIN rot = Rotators
    /\ rot = [r \in Rotators |-> [pc |-> rot[r].pc, cur |-> rot[r].cur, new |-> rot[r].new]]

Agreed ==
    ~blame =>
        /\ \A r, q \in Rotators : rot[r].pc \in Exposed /\ rot[q].pc \in Exposed => r = q
        /\ \A r \in Rotators : rot[r].pc \in Exposed => rot[r].cur = vault /\ up = {rot[r].new}
        /\ (\A r \in Rotators : rot[r].pc \notin Exposed) => Accepts(vault)

RotationInv == protocol \in {"db", "ssh"} /\ blame \in BOOLEAN /\ RotShape /\ Agreed

LEMMA RotationInit == Init => RotationInv
<1>. SUFFICES ASSUME Init PROVE RotationInv
  OBVIOUS
<1>1. RotShape
  BY DEF Init, RotShape, Idle
<1>2. Agreed
  BY DEF Init, Agreed, Accepts, Exposed, Idle
<1>. QED  BY <1>1, <1>2 DEF Init, RotationInv

(* A step changes the record of one rotation.                              *)
LEMMA RotUpdate ==
    ASSUME RotShape, NEW r \in Rotators, NEW pc, NEW cur, NEW new,
           rot' = [rot EXCEPT ![r] = [pc |-> pc, cur |-> cur, new |-> new]]
    PROVE  /\ RotShape' /\ rot'[r].pc = pc /\ rot'[r].cur = cur /\ rot'[r].new = new
           /\ \A q \in Rotators \ {r} : rot'[q] = rot[q]
<1>1. /\ DOMAIN rot' = Rotators /\ rot'[r] = [pc |-> pc, cur |-> cur, new |-> new]
      /\ \A q \in Rotators \ {r} : rot'[q] = rot[q]
  BY DEF RotShape
<1>2. \A q \in Rotators : rot'[q] = [pc |-> rot'[q].pc, cur |-> rot'[q].cur, new |-> rot'[q].new]
  BY <1>1 DEF RotShape
<1>. QED  BY <1>1, <1>2 DEF RotShape

LEMMA StepFacts ==
    ASSUME RotShape, NEW r \in Rotators, NEW pc, Step(r, pc)
    PROVE  /\ RotShape' /\ rot'[r].pc = pc
           /\ pc \notin Outcomes => rot'[r].cur = rot[r].cur /\ rot'[r].new = rot[r].new
           /\ \A q \in Rotators \ {r} : rot'[q] = rot[q]
<1>1. CASE pc \in Outcomes
  <2>1. [Idle EXCEPT !.pc = pc] = [pc |-> pc, cur |-> Onboarded, new |-> Onboarded]
    BY DEF Idle
  <2>2. rot' = [rot EXCEPT ![r] = [pc |-> pc, cur |-> Onboarded, new |-> Onboarded]]
    BY <1>1, <2>1 DEF Step, RotShape
  <2>. QED  BY <1>1, <2>2, RotUpdate
<1>2. CASE pc \notin Outcomes
  <2>1. [rot[r] EXCEPT !.pc = pc] = [pc |-> pc, cur |-> rot[r].cur, new |-> rot[r].new]
    BY DEF RotShape
  <2>2. rot' = [rot EXCEPT ![r] = [pc |-> pc, cur |-> rot[r].cur, new |-> rot[r].new]]
    BY <1>2, <2>1 DEF Step, RotShape
  <2>. QED  BY <1>2, <2>2, RotUpdate
<1>. QED  BY <1>1, <1>2

-----------------------------------------------------------------------------
(* The steps of a rotation                                                 *)

(* A rotation that is not exposed before or after changes neither secret.  *)
LEMMA Unexposed ==
    ASSUME RotationInv, NEW r \in Rotators, RotShape', UNCHANGED target, blame' \in BOOLEAN,
           rot[r].pc \notin Exposed \/ blame', rot'[r].pc \notin Exposed, blame => blame',
           \A q \in Rotators \ {r} : rot'[q] = rot[q]
    PROVE  RotationInv'
BY DEF RotationInv, Agreed, Accepts, target

(* An exposed rotation that stays so, with the same secrets.               *)
LEMMA StaysExposed ==
    ASSUME RotationInv, NEW r \in Rotators, RotShape', UNCHANGED <<target, blame>>, rot[r].pc \in Exposed,
           rot'[r].pc \in Exposed, rot'[r].cur = rot[r].cur, rot'[r].new = rot[r].new,
           \A q \in Rotators \ {r} : rot'[q] = rot[q]
    PROVE  RotationInv'
<1>1. Agreed'
  BY DEF RotationInv, Agreed, Accepts, target
<1>. QED  BY <1>1 DEF RotationInv, target

(* With something to blame there is nothing to show.                       *)
LEMMA Blamed ==
    ASSUME RotationInv, RotShape', UNCHANGED protocol, blame' = TRUE PROVE RotationInv'
BY DEF RotationInv, Agreed

(* An exposed rotation ends, and leaves vault and upstream in agreement.   *)
LEMMA EndsAgreed ==
    ASSUME RotationInv, NEW r \in Rotators, RotShape', UNCHANGED protocol, blame' \in BOOLEAN, blame => blame',
           rot[r].pc \in Exposed, rot'[r].pc \notin Exposed, ~blame' => Accepts(vault)',
           \A q \in Rotators \ {r} : rot'[q] = rot[q]
    PROVE  RotationInv'
<1>1. ~blame' => \A q \in Rotators : rot'[q].pc \notin Exposed
  BY DEF RotationInv, Agreed
<1>2. Agreed'
  BY <1>1 DEF Agreed
<1>. QED  BY <1>2 DEF RotationInv

LEMMA RotateKeeps == ASSUME RotationInv, NEW r \in Rotators, Rotate(r) PROVE RotationInv'
<1>0. RotShape /\ protocol \in {"db", "ssh"} /\ blame \in BOOLEAN
  BY DEF RotationInv
<1>1. CASE OpenSecret(r)
  <2>1. RotShape' /\ rot'[r].pc = "connect" /\ \A q \in Rotators \ {r} : rot'[q] = rot[q]
    BY <1>0, <1>1, RotUpdate DEF OpenSecret
  <2>. QED  BY <1>0, <1>1, <2>1, Unexposed DEF OpenSecret, Exposed
<1>2. CASE Connect(r)
  <2>1. PICK pc \in {"alter", "failed"} : Step(r, pc)
    BY <1>2 DEF Connect
  <2>. QED  BY <1>0, <1>2, <2>1, StepFacts, Unexposed DEF Connect, Exposed
<1>3. CASE Alter(r)
  <2>. DEFINE g == Generated
  <2>2. /\ rot' = [rot EXCEPT ![r] = [pc |-> "verify", cur |-> rot[r].cur, new |-> g]]
        /\ up' = {g} /\ UNCHANGED <<protocol, vault>>
    BY <1>3 DEF Alter
  <2>. HIDE DEF g
  <2>3. /\ RotShape' /\ rot'[r].pc = "verify" /\ rot'[r].cur = rot[r].cur /\ rot'[r].new = g
        /\ \A q \in Rotators \ {r} : rot'[q] = rot[q]
    BY <1>0, <2>2, RotUpdate
  <2>4. blame' \in BOOLEAN
    BY <1>0, <1>3 DEF Alter
  <2>5. ~blame' => rot[r].cur = vault /\ \A q \in Rotators \ {r} : rot[q].pc \notin Exposed
    BY <1>3 DEF Alter, Overlaps
  <2>6. Agreed'
    BY <2>2, <2>3, <2>5 DEF Agreed, Exposed
  <2>. QED  BY <1>0, <2>2, <2>3, <2>4, <2>6 DEF RotationInv
<1>4. CASE Verify(r)
  <2>1. PICK pc \in {"seal", "undo"} : Step(r, pc)
    BY <1>4 DEF Verify
  <2>2. pc \notin Outcomes
    BY DEF Outcomes
  <2>. QED  BY <1>0, <1>4, <2>1, <2>2, StepFacts, StaysExposed DEF Verify, Exposed
<1>5. CASE Undo(r)
  <2>1. /\ RotShape' /\ rot'[r].pc = "failed" /\ \A q \in Rotators \ {r} : rot'[q] = rot[q]
    BY <1>0, <1>5, StepFacts DEF Undo
  <2>2. blame' \in BOOLEAN /\ (blame => blame')
    BY <1>0, <1>5 DEF Undo
  <2>3. ~blame' => Accepts(vault)'
    <3>1. ~blame' => ~blame /\ rot[r].cur = vault
      BY <1>5 DEF Undo, RotationInv, Agreed, Exposed
    <3>. QED  BY <1>0, <1>5, <3>1 DEF Undo, Accepts
  <2>. QED  BY <1>5, <2>1, <2>2, <2>3, EndsAgreed DEF Undo, Exposed
<1>6. CASE Seal(r)
  <2>1. /\ RotShape' /\ rot'[r].pc = "done" /\ \A q \in Rotators \ {r} : rot'[q] = rot[q]
    BY <1>0, <1>6, StepFacts DEF Seal
  <2>2. ~blame => Accepts(vault)'
    BY <1>6 DEF Seal, RotationInv, Agreed, Exposed, Accepts
  <2>. QED  BY <1>0, <1>6, <2>1, <2>2, EndsAgreed DEF Seal, Exposed
<1>7. CASE Restore(r)
  <2>1. /\ RotShape' /\ rot'[r].pc = "failed" /\ \A q \in Rotators \ {r} : rot'[q] = rot[q]
    BY <1>0, <1>7, StepFacts DEF Restore
  <2>2. ~blame => Accepts(vault)'
    BY <1>7 DEF Restore, Restored, RotationInv, Agreed, Exposed, Accepts
  <2>. QED  BY <1>0, <1>7, <2>1, <2>2, EndsAgreed DEF Restore, Exposed
<1>8. CASE WriteOutcome(r)
  <2>1. /\ RotShape' /\ rot'[r].pc = "idle" /\ \A q \in Rotators \ {r} : rot'[q] = rot[q]
    BY <1>0, <1>8, RotUpdate DEF WriteOutcome, Idle
  <2>. QED  BY <1>0, <1>8, <2>1, Unexposed DEF WriteOutcome, Outcomes, Exposed
<1>. QED  BY <1>1, <1>2, <1>3, <1>4, <1>5, <1>6, <1>7, <1>8 DEF Rotate

LEMMA RotateFaultKeeps == ASSUME RotationInv, NEW r \in Rotators, RotateFault(r) PROVE RotationInv'
<1>0. RotShape /\ protocol \in {"db", "ssh"} /\ blame \in BOOLEAN
  BY DEF RotationInv
<1>1. CASE ConnectError(r)
  BY <1>0, <1>1, StepFacts, Unexposed DEF ConnectError, Exposed
<1>2. CASE AlterError(r)
  <2>1. RotShape' /\ rot'[r].pc = "failed" /\ \A q \in Rotators \ {r} : rot'[q] = rot[q]
    BY <1>0, <1>2, StepFacts DEF AlterError
  <2>2. UNCHANGED protocol /\ (UNCHANGED <<target, blame>> \/ blame' = TRUE)
    BY <1>2 DEF AlterError, target
  <2>. QED  BY <1>0, <1>2, <2>1, <2>2, Unexposed, Blamed DEF AlterError, Exposed
<1>3. CASE VerifyError(r)
  <2>1. /\ RotShape' /\ rot'[r].pc = "undo" /\ rot'[r].cur = rot[r].cur /\ rot'[r].new = rot[r].new
        /\ \A q \in Rotators \ {r} : rot'[q] = rot[q]
    BY <1>0, <1>3, StepFacts DEF VerifyError, Outcomes
  <2>. QED  BY <1>3, <2>1, StaysExposed DEF VerifyError, Exposed
<1>4. CASE UndoError(r) \/ RestoreError(r)
  BY <1>0, <1>4, StepFacts, Blamed DEF UndoError, RestoreError, target
<1>5. CASE SealError(r)
  <2>1. /\ RotShape' /\ rot'[r].pc = "restore" /\ rot'[r].cur = rot[r].cur /\ rot'[r].new = rot[r].new
        /\ \A q \in Rotators \ {r} : rot'[q] = rot[q]
    BY <1>0, <1>5, StepFacts DEF SealError, Outcomes
  <2>2. UNCHANGED protocol /\ (UNCHANGED <<target, blame>> \/ blame' = TRUE)
    BY <1>5 DEF SealError, target
  <2>. QED  BY <1>5, <2>1, <2>2, StaysExposed, Blamed DEF SealError, Exposed
<1>6. CASE OutcomeError(r)
  <2>1. /\ RotShape' /\ rot'[r].pc = "idle" /\ \A q \in Rotators \ {r} : rot'[q] = rot[q]
    BY <1>0, <1>6, RotUpdate DEF OutcomeError, Idle
  <2>. QED  BY <1>0, <1>6, <2>1, Unexposed DEF OutcomeError, Outcomes, Exposed
<1>7. CASE Stop(r)
  <2>1. /\ RotShape' /\ rot'[r].pc = "idle" /\ \A q \in Rotators \ {r} : rot'[q] = rot[q]
    BY <1>0, <1>7, RotUpdate DEF Stop, Idle
  <2>2. blame' \in BOOLEAN /\ (blame => blame') /\ (rot[r].pc \in Exposed => blame')
    BY <1>0, <1>7 DEF Stop
  <2>. QED  BY <1>7, <2>1, <2>2, Unexposed DEF Stop, Exposed
<1>. QED  BY <1>1, <1>2, <1>3, <1>4, <1>5, <1>6, <1>7 DEF RotateFault

LEMMA RotationFrame == ASSUME RotationInv, UNCHANGED <<target, rot, blame>> PROVE RotationInv'
<1>1. RotShape' /\ Agreed'
  BY DEF RotationInv, RotShape, Agreed, Accepts, target
<1>. QED  BY <1>1 DEF RotationInv, target

LEMMA RotationStep == ASSUME RotationInv, [Next]_vars PROVE RotationInv'
<1>1. ASSUME NEW r \in Rotators, Rotate(r) \/ RotateFault(r) PROVE RotationInv'
  BY <1>1, RotateKeeps, RotateFaultKeeps
<1>2. ASSUME NEW r \in Callers, RotateNow(r) PROVE RotationInv'
  <2>1. r \in Rotators /\ RotShape
    BY DEF Rotators, RotationInv
  <2>. QED  BY <1>2, <2>1, StepFacts, Unexposed DEF RotateNow, RotationInv, Exposed
<1>3. ASSUME NEW s \in Schedulers, SweepPolicies(s) PROVE RotationInv'
  <2>1. s \in Rotators /\ RotShape
    BY DEF Rotators, RotationInv
  <2>2. UNCHANGED <<target, blame>> /\ rot[s].pc = "idle" /\ (Step(s, "open") \/ UNCHANGED rot)
    BY <1>3 DEF SweepPolicies
  <2>. QED  BY <2>1, <2>2, StepFacts, Unexposed, RotationFrame DEF RotationInv, Exposed
<1>4. CASE UNCHANGED <<target, rot, blame>>
  BY <1>4, RotationFrame
<1>. QED  BY <1>1, <1>2, <1>3, <1>4 DEF Next, vars, LeaseEnds, TenantDeferred, TenantAdmitted, Sweep, ReapScan, DropRole, MarkDropped, ReapDone,
     DropError, MintBegin, MintForLease, MintInsert, MintCreate, MarkFailed, MintError, MintStop

-----------------------------------------------------------------------------
(* Dynamic credentials                                                     *)

SweepRows == [phase : {"interval", "checkin", "reap", "drop", "mark"}, due : SUBSET Creds, cred : SUBSET Creds]

RoleTypes ==
    /\ row \in [Creds -> {"none", "active", "failed", "dropped"}]
    /\ mint \in [Creds -> {"idle", "insert", "create", "mark", "done"}]
    /\ sweep \in [Schedulers -> SweepRows]

(* A role does not exist before the call that creates it, and one whose    *)
(* call reported an error is a stray.                                      *)
MintedRoles ==
    \A c \in Creds : /\ mint[c] \in {"idle", "insert", "create"} => c \notin role
                     /\ mint[c] = "mark" /\ c \in role => c \in stray

(* A reaper about to mark a row has dropped its role, which is not back    *)
(* unless as a stray.                                                      *)
Gone(s) ==
    sweep[s].phase = "mark" =>
        \E c \in Creds : sweep[s].cred = {c} /\ (c \in role => c \in stray)

RoleInv == RoleTypes /\ MintedRoles /\ (\A s \in Schedulers : Gone(s)) /\ RolesAccounted /\ role \subseteq Creds

LEMMA RoleInit == Init => RoleInv
BY DEF Init, RoleInv, RoleTypes, MintedRoles, Gone, RolesAccounted, SweepRows, NoSweep

LEMMA RoleFrame == ASSUME RoleInv, UNCHANGED <<sweep, row, mint, role, stray>> PROVE RoleInv'
BY DEF RoleInv, RoleTypes, MintedRoles, Gone, RolesAccounted

(* A sweep moves on without marking anything.                              *)
LEMMA SweepMoves ==
    ASSUME RoleInv, NEW s \in Schedulers, NEW x \in SweepRows, x.phase # "mark", sweep' = [sweep EXCEPT ![s] = x],
           UNCHANGED <<row, mint, role, stray>>
    PROVE  RoleInv'
<1>1. sweep' \in [Schedulers -> SweepRows] /\ sweep'[s] = x /\ \A q \in Schedulers \ {s} : sweep'[q] = sweep[q]
  BY DEF RoleInv, RoleTypes
<1>2. \A q \in Schedulers : Gone(q)'
  BY <1>1 DEF RoleInv, Gone
<1>3. RoleTypes' /\ MintedRoles' /\ RolesAccounted' /\ (role \subseteq Creds)'
  BY <1>1 DEF RoleInv, RoleTypes, MintedRoles, RolesAccounted
<1>. QED  BY <1>2, <1>3 DEF RoleInv

LEMMA SweepKeeps == ASSUME RoleInv, NEW s \in Schedulers, Sweep(s) \/ DropError(s) PROVE RoleInv'
<1>0. sweep[s] \in SweepRows /\ sweep \in [Schedulers -> SweepRows]
  BY DEF RoleInv, RoleTypes
<1>1. CASE SweepPolicies(s)
  <2>. DEFINE x == [sweep[s] EXCEPT !.phase = IF @ = "interval" THEN "checkin" ELSE "reap"]
  <2>1. x \in SweepRows /\ x.phase # "mark"
    BY <1>0 DEF SweepRows
  <2>2. sweep' = [sweep EXCEPT ![s] = x] /\ UNCHANGED <<row, mint, role, stray>>
    BY <1>0, <1>1 DEF SweepPolicies, dynamic
  <2>. QED  BY <2>1, <2>2, SweepMoves
<1>2. CASE ReapScan(s)
  <2>1. PICK lapsed \in SUBSET Creds :
          sweep' = [sweep EXCEPT ![s].phase = "drop",
                                 ![s].due = {c \in Creds : Reapable(c, lapsed)}]
    BY <1>2 DEF ReapScan
  <2>. DEFINE due == {c \in Creds : Reapable(c, lapsed)}
              x == [sweep[s] EXCEPT !.phase = "drop", !.due = due]
  <2>2. due \in SUBSET Creds
    OBVIOUS
  <2>3. sweep' = [sweep EXCEPT ![s] = [sweep[s] EXCEPT !.phase = "drop", !.due = due]]
    BY <1>0, <2>1
  <2>. HIDE DEF due
  <2>4. x \in SweepRows /\ x.phase # "mark"
    BY <1>0, <2>2 DEF SweepRows
  <2>5. UNCHANGED <<row, mint, role, stray>>
    BY <1>2 DEF ReapScan, dynamic
  <2>. QED  BY <2>3, <2>4, <2>5, SweepMoves
<1>3. CASE DropRole(s)
  <2>1. PICK c \in sweep[s].due :
          /\ role' = IF Accepts(vault) THEN role \ {c} ELSE role
          /\ sweep' = [sweep EXCEPT ![s] = IF Dropped THEN [phase |-> "mark", due |-> sweep[s].due \ {c}, cred |-> {c}]
                                                      ELSE [sweep[s] EXCEPT !.due = sweep[s].due \ {c}]]
    BY <1>3 DEF DropRole
  <2>2. c \in Creds /\ UNCHANGED <<row, mint, stray>> /\ sweep[s].phase = "drop"
    BY <1>0, <1>3 DEF DropRole, SweepRows
  <2>3. CASE Accepts(vault)
    <3>. DEFINE x == [phase |-> "mark", due |-> sweep[s].due \ {c}, cred |-> {c}]
    <3>1. x \in SweepRows /\ x.cred = {c}
      BY <1>0, <2>2 DEF SweepRows
    <3>2. role' = role \ {c} /\ sweep' = [sweep EXCEPT ![s] = x]
      BY <2>1, <2>3 DEF Dropped
    <3>. HIDE DEF x
    <3>3. sweep' \in [Schedulers -> SweepRows] /\ sweep'[s] = x /\ \A q \in Schedulers \ {s} : sweep'[q] = sweep[q]
      BY <1>0, <3>1, <3>2
    <3>4. ASSUME NEW q \in Schedulers PROVE Gone(q)'
      <4>1. CASE q = s
        BY <2>2, <3>1, <3>2, <3>3, <4>1 DEF Gone
      <4>2. CASE q # s
        BY <2>2, <3>2, <3>3, <4>2 DEF RoleInv, Gone
      <4>. QED  BY <4>1, <4>2
    <3>5. RoleTypes' /\ MintedRoles' /\ RolesAccounted' /\ (role \subseteq Creds)'
      BY <2>2, <3>2, <3>3 DEF RoleInv, RoleTypes, MintedRoles, RolesAccounted
    <3>. QED  BY <3>4, <3>5 DEF RoleInv
  <2>4. CASE ~Accepts(vault)
    <3>. DEFINE x == [sweep[s] EXCEPT !.due = sweep[s].due \ {c}]
    <3>1. x \in SweepRows /\ x.phase # "mark"
      BY <1>0, <2>2 DEF SweepRows
    <3>2. UNCHANGED role /\ sweep' = [sweep EXCEPT ![s] = x]
      BY <2>1, <2>4 DEF Dropped
    <3>. QED  BY <2>2, <3>1, <3>2, SweepMoves
  <2>. QED  BY <2>3, <2>4
<1>4. CASE MarkDropped(s)
  <2>. DEFINE x == [sweep[s] EXCEPT !.phase = "drop", !.cred = {}]
  <2>1. PICK c \in Creds : sweep[s].cred = {c} /\ (c \in role => c \in stray)
    BY <1>4 DEF MarkDropped, RoleInv, Gone
  <2>2. /\ row' \in [Creds -> {"none", "active", "failed", "dropped"}]
        /\ \A d \in Creds \ {c} : row'[d] = row[d]
        /\ UNCHANGED <<mint, role, stray>> /\ sweep' = [sweep EXCEPT ![s] = x]
    BY <1>0, <1>4, <2>1 DEF MarkDropped, RoleInv, RoleTypes
  <2>3. x \in SweepRows /\ x.phase # "mark"
    BY <1>0 DEF SweepRows
  <2>. HIDE DEF x
  <2>4. sweep' \in [Schedulers -> SweepRows] /\ sweep'[s] = x /\ \A q \in Schedulers \ {s} : sweep'[q] = sweep[q]
    BY <1>0, <2>2, <2>3
  <2>5. \A q \in Schedulers : Gone(q)'
    BY <2>2, <2>3, <2>4 DEF RoleInv, Gone
  <2>6. RolesAccounted'
    BY <2>1, <2>2 DEF RoleInv, RolesAccounted
  <2>. QED  BY <2>2, <2>4, <2>5, <2>6 DEF RoleInv, RoleTypes, MintedRoles
<1>5. CASE ReapDone(s)
  <2>1. NoSweep \in SweepRows /\ NoSweep.phase # "mark"
    BY DEF NoSweep, SweepRows
  <2>. QED  BY <1>5, <2>1, SweepMoves DEF ReapDone, dynamic
<1>6. CASE DropError(s)
  <2>1. UNCHANGED <<row, mint, role, stray>>
    BY <1>6 DEF DropError, dynamic
  <2>2. CASE sweep[s].phase = "drop" /\ \E c \in sweep[s].due : sweep' = [sweep EXCEPT ![s].due = @ \ {c}]
    <3>1. PICK c \in sweep[s].due : sweep' = [sweep EXCEPT ![s] = [sweep[s] EXCEPT !.due = sweep[s].due \ {c}]]
      BY <1>0, <2>2
    <3>. DEFINE x == [sweep[s] EXCEPT !.due = sweep[s].due \ {c}]
    <3>2. x \in SweepRows /\ x.phase # "mark"
      BY <1>0, <2>2 DEF SweepRows
    <3>. QED  BY <2>1, <3>1, <3>2, SweepMoves
  <2>3. CASE sweep' = [sweep EXCEPT ![s] = [@ EXCEPT !.phase = "drop", !.cred = {}]]
    <3>. DEFINE x == [sweep[s] EXCEPT !.phase = "drop", !.cred = {}]
    <3>1. x \in SweepRows /\ x.phase # "mark"
      BY <1>0 DEF SweepRows
    <3>. QED  BY <1>0, <2>1, <2>3, <3>1, SweepMoves
  <2>. QED  BY <1>6, <2>2, <2>3 DEF DropError
<1>. QED  BY <1>1, <1>2, <1>3, <1>4, <1>5, <1>6 DEF Sweep

(* A role appears: its row is active and no reaper is about to mark it, or *)
(* it is a stray from the start.                                           *)
LEMMA Appears ==
    ASSUME RoleInv, NEW c \in Creds, mint[c] = "create", NEW pc \in {"mark", "done"},
           mint' = [mint EXCEPT ![c] = pc], role' = role \cup {c}, UNCHANGED <<row, sweep>>,
           stray' = stray \cup {c} \/ (stray' = stray /\ ~Reaped(c)), pc = "mark" => c \in stray'
    PROVE  RoleInv'
<1>1. RoleTypes' /\ (role \subseteq Creds)'
  BY DEF RoleInv, RoleTypes
<1>2. MintedRoles'
  BY DEF RoleInv, RoleTypes, MintedRoles
<1>3. RolesAccounted'
  BY DEF RoleInv, RolesAccounted, Reaped
<1>4. ASSUME NEW s \in Schedulers, sweep[s].phase = "mark"
      PROVE  \E d \in Creds : sweep[s].cred = {d} /\ (d \in role' => d \in stray')
  <2>1. PICK d \in Creds : sweep[s].cred = {d} /\ (d \in role => d \in stray)
    BY <1>4 DEF RoleInv, Gone
  <2>2. d = c => c \in stray'
    BY <1>4, <2>1 DEF Reaped
  <2>. QED  BY <2>1, <2>2
<1>5. \A s \in Schedulers : Gone(s)'
  BY <1>4 DEF Gone
<1>. QED  BY <1>1, <1>2, <1>3, <1>5 DEF RoleInv

LEMMA MintKeeps ==
    ASSUME RoleInv, NEW c \in Creds, MintBegin(c) \/ MintForLease(c) \/ MintError(c) \/ MintStop(c)
    PROVE  RoleInv'
<1>1. CASE UNCHANGED <<role, stray, sweep>> /\ (MintBegin(c) \/ MintInsert(c) \/ MintCreate(c) \/ MintError(c) \/ MintStop(c))
  <2>1. RoleTypes' /\ MintedRoles'
    BY <1>1 DEF RoleInv, RoleTypes, MintedRoles, MintBegin, MintInsert, MintCreate, MintError, MintStop
  <2>2. \A s \in Schedulers : Gone(s)'
    BY <1>1 DEF RoleInv, Gone
  <2>3. RolesAccounted'
    BY <1>1 DEF RoleInv, RoleTypes, RolesAccounted, MintBegin, MintInsert, MintCreate, MintError, MintStop
  <2>. QED  BY <1>1, <2>1, <2>2, <2>3 DEF RoleInv
<1>2. CASE MarkFailed(c)
  <2>1. RoleTypes' /\ MintedRoles'
    BY <1>2 DEF RoleInv, RoleTypes, MintedRoles, MarkFailed
  <2>2. UNCHANGED <<role, stray, sweep>>
    BY <1>2 DEF MarkFailed
  <2>3. \A s \in Schedulers : Gone(s)'
    BY <2>2 DEF RoleInv, Gone
  <2>4. RolesAccounted'
    BY <1>2 DEF RoleInv, RoleTypes, MintedRoles, RolesAccounted, MarkFailed
  <2>. QED  BY <2>1, <2>2, <2>3, <2>4 DEF RoleInv
<1>3. CASE MintCreate(c)
  <2>1. CASE Accepts(vault)
    BY <1>3, <2>1, Appears DEF MintCreate
  <2>2. CASE ~Accepts(vault)
    BY <1>1, <1>3, <2>2 DEF MintCreate
  <2>. QED  BY <2>1, <2>2
<1>4. CASE MintError(c)
  <2>1. CASE role' = role \cup {c} /\ stray' = stray \cup {c}
    BY <1>4, <2>1, Appears DEF MintError
  <2>2. CASE UNCHANGED <<role, stray>>
    BY <1>1, <1>4, <2>2 DEF MintError
  <2>. QED  BY <1>4, <2>1, <2>2 DEF MintError
<1>5. CASE MintStop(c)
  <2>1. CASE mint[c] = "create" /\ role' = role \cup {c} /\ stray' = IF Reaped(c) THEN stray \cup {c} ELSE stray
    BY <1>5, <2>1, Appears DEF MintStop
  <2>2. CASE UNCHANGED <<role, stray>>
    BY <1>1, <1>5, <2>2 DEF MintStop
  <2>. QED  BY <1>5, <2>1, <2>2 DEF MintStop
<1>6. CASE MintBegin(c) \/ MintInsert(c)
  BY <1>1, <1>6 DEF MintBegin, MintInsert
<1>. QED  BY <1>2, <1>3, <1>4, <1>5, <1>6 DEF MintForLease

LEMMA RoleStep == ASSUME RoleInv, [Next]_vars PROVE RoleInv'
<1>1. ASSUME NEW s \in Schedulers, Sweep(s) \/ DropError(s) PROVE RoleInv'
  BY <1>1, SweepKeeps
<1>2. ASSUME NEW c \in Creds, MintBegin(c) \/ MintForLease(c) \/ MintError(c) \/ MintStop(c) PROVE RoleInv'
  BY <1>2, MintKeeps
<1>3. ASSUME NEW r \in Rotators, Stop(r) PROVE RoleInv'
  <2>1. NoSweep \in SweepRows /\ NoSweep.phase # "mark"
    BY DEF NoSweep, SweepRows
  <2>2. CASE r \in Schedulers
    BY <1>3, <2>1, <2>2, SweepMoves DEF Stop, dynamic
  <2>3. CASE r \notin Schedulers
    BY <1>3, <2>3, RoleFrame DEF Stop, dynamic
  <2>. QED  BY <2>2, <2>3
<1>4. CASE UNCHANGED <<sweep, row, mint, role, stray>>
  BY <1>4, RoleFrame
<1>. QED  BY <1>1, <1>2, <1>3, <1>4 DEF Next, vars, LeaseEnds, TenantDeferred, TenantAdmitted, RotateNow, Rotate, RotateFault, OpenSecret, Connect,
     ConnectError, Alter, AlterError, Verify, VerifyError, Undo, UndoError, Seal, SealError, Restore, RestoreError,
     WriteOutcome, OutcomeError, dynamic

-----------------------------------------------------------------------------
(* The theorems                                                            *)

(* However many rotations of a target run at once and wherever they fail   *)
(* or stop, with none under way the upstream accepts the sealed secret,    *)
(* unless one of the known causes has occurred.                            *)
THEOREM LockoutsExplained == Spec => []LockoutCauses
<1>1. RotationInv => LockoutCauses
  BY DEF RotationInv, Agreed, LockoutCauses, LockedOut, Quiet
<1>. QED  BY <1>1, RotationInit, RotationStep, PTL DEF Spec

(* No ephemeral role is lost: it has an active row, or its creation failed *)
(* or was overtaken by the reaper.                                         *)
THEOREM NoRoleLost == Spec => []RolesAccounted
<1>1. RoleInv => RolesAccounted
  BY DEF RoleInv
<1>. QED  BY <1>1, RoleInit, RoleStep, PTL DEF Spec
=============================================================================

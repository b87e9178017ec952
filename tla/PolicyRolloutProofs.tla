------------------------- MODULE PolicyRolloutProofs -------------------------
(***************************************************************************)
(* Proofs about PolicyRollout for any number of policies, anomalies and    *)
(* concurrent transactions.                                                *)
(*                                                                         *)
(* RolloutInv says of each transaction which locks it holds at each step   *)
(* (AdvisoryHeld, RowHeld), what it has in its buffer against the          *)
(* committed row it will replace (Buffered) and which events it has        *)
(* recorded and has still to record (RowPlan, AppendPlan, SweepPlan), and  *)
(* that the chain, prolonged by the rows of the holder of the advisory     *)
(* lock, is linked row by row (Linking).                                   *)
(***************************************************************************)
EXTENDS PolicyRollout, FiniteSetTheorems, SequenceTheorems, TLAPS

States == {"none", "draft", "active", "archived"}
PolicyRows == [state : States, def : Defs \cup {NoDef}, impact : Defs \cup {NoDef}]
ChainRows == [seq : Nat, prev : Seq(Events), hash : Seq(Events), event : Events]
Steps == {"idle", "lock", "load", "record", "audit", "commit"}
Ops == {"none", "update", "promote", "archive", "append", "create", "simulate", "detect"}
RowOps == {"update", "promote", "archive", "create", "simulate"}
LockedOps == {"update", "promote", "archive", "detect"}
Arguments ==
    [p : Policies, def : Defs] \cup [p : Policies, force : BOOLEAN] \cup [p : Policies]
    \cup [p : {"none"}] \cup [p : {"none"}, found : SUBSET Anomalies] \cup {<<>>}
Transactions ==
    [pc : Steps, op : Ops, args : Arguments, row : SUBSET PolicyRows, todo : Seq(Events),
     rows : Seq(ChainRows), found : SUBSET Anomalies]

Types ==
    /\ policy \in [Policies -> PolicyRows]
    /\ anomaly \subseteq Anomalies
    /\ chain \in Seq(ChainRows)
    /\ advisory \subseteq Callers
    /\ rowLock \in [Policies -> SUBSET Callers]
    /\ tx \in [Callers -> Transactions]

(* The steps each operation goes through, and the arguments it carries.    *)
Course(t) ==
    /\ t.pc = "idle" <=> t.op = "none"
    /\ t.op \in {"update", "promote", "archive"} => t.pc \in {"lock", "load", "audit", "commit"}
    /\ t.op = "detect" => t.pc \in {"lock", "record", "audit", "commit"}
    /\ t.op = "simulate" => t.pc \in {"load", "commit"}
    /\ t.op \in {"create", "append"} => t.pc \in {"audit", "commit"}
    /\ t.op \in RowOps => t.args.p \in Policies
    /\ t.op \in {"update", "simulate"} => t.args.def \in Defs
    /\ t.op = "promote" => t.args.force \in BOOLEAN
    /\ t.op = "detect" => t.args.found \in SUBSET Anomalies
    /\ t.pc \in {"audit", "commit"} /\ t.op \in RowOps <=> t.row # {}
    /\ t.pc \notin {"audit", "commit"} => t.todo = <<>> /\ t.rows = <<>>
    /\ t.found # {} => t.op = "detect" /\ t.pc \in {"audit", "commit"}

(* The advisory lock has one holder, past its first step; an operation     *)
(* that starts with it has it from then on, and whoever recorded an event  *)
(* has it.                                                                 *)
AdvisoryHeld(c) ==
    /\ c \in advisory => tx[c].pc \notin {"idle", "lock"} /\ tx[c].op # "simulate"
    /\ tx[c].op \in LockedOps /\ tx[c].pc # "lock" => c \in advisory
    /\ tx[c].rows # <<>> => c \in advisory
    /\ tx[c].pc = "commit" /\ tx[c].op # "simulate" => c \in advisory

(* A row lock has one holder, the transaction with a new form of that row. *)
RowHeld(c) ==
    /\ tx[c].row # {} => rowLock[tx[c].args.p] = {c}
    /\ \A p \in Policies :
         c \in rowLock[p] => tx[c].row # {} /\ tx[c].args.p = p

(* A row that is there has a definition, and a cached impact is its own.   *)
RowOK(r) ==
    /\ r.state # "none" => r.def \in Defs
    /\ r.impact # NoImpact => r.impact = r.def
    /\ r.state = "active" => r.impact = NoImpact

(* How the buffered form of a row relates to the committed one, by         *)
(* operation.                                                              *)
Succeeds(op, old, new) ==
    \/ op = "create" /\ old.state = "none" /\ new.state = "draft"
    \/ op = "update" /\ old.state = "draft" /\ new.state = "draft"
    \/ op = "promote" /\ old.state = "draft" /\ new.state = "active" /\ new.def = old.def
    \/ op = "archive" /\ old.state \in {"draft", "active"} /\ new.state = "archived"
    \/ op = "simulate" /\ old.state = "draft" /\ new.state = "draft" /\ new.def = old.def

Buffered(c) ==
    tx[c].row # {} =>
        \E r \in PolicyRows :
            tx[c].row = {r} /\ RowOK(r) /\ Succeeds(tx[c].op, policy[tx[c].args.p], r)

PromotionActions == {"policy.promoted", "policy.promoted_with_override"}

(* The one event of an operation on a row.  An edit, a creation or an      *)
(* archival is no promotion, and a promotion without an override met no    *)
(* contradicting live policy.                                              *)
RowEvent(c, e) ==
    /\ e.target = tx[c].args.p
    /\ e.action \in {"policy.created", "policy.draft_updated", "policy.archived"} \cup PromotionActions
    /\ tx[c].op # "promote" => e.action \notin PromotionActions
    /\ tx[c].op = "promote" =>
         /\ e.action \in PromotionActions
         /\ e.action = "policy.promoted" =>
              hardConflicts(tx[c].args.p, policy[tx[c].args.p].def) = {}

(* What one operation that records a single event has recorded and has     *)
(* still to record.                                                        *)
RowPlan(c) ==
    tx[c].row # {} =>
        \/ tx[c].op = "simulate" /\ tx[c].rows = <<>>
        \/ /\ tx[c].op # "simulate" /\ tx[c].pc = "audit"
           /\ tx[c].rows = <<>> /\ Len(tx[c].todo) = 1 /\ RowEvent(c, tx[c].todo[1])
        \/ /\ tx[c].op # "simulate" /\ tx[c].pc = "commit"
           /\ Len(tx[c].rows) = 1 /\ RowEvent(c, tx[c].rows[1].event)

SessionEvent == AuditEvent("session.event", "none")

AppendPlan(c) ==
    tx[c].op = "append" =>
        \/ tx[c].pc = "audit" /\ tx[c].rows = <<>>
        \/ tx[c].pc = "commit" /\ Len(tx[c].rows) = 1 /\ tx[c].rows[1].event = SessionEvent

Orders(S) == {s \in [1 .. Cardinality(S) -> S] : \A f \in S : \E i \in 1 .. Cardinality(S) : s[i] = f}

(* A sweep's events, recorded and to come, are the evidence of its         *)
(* findings in some order, and none of them has an anomaly yet.            *)
Sweeping(c, s) ==
    /\ Len(tx[c].rows) + Len(tx[c].todo) = 2 * Cardinality(tx[c].found)
    /\ \A i \in 1 .. Len(tx[c].rows) : tx[c].rows[i].event = Recorded(s, i)
    /\ \A i \in 1 .. Len(tx[c].todo) : tx[c].todo[i] = Recorded(s, Len(tx[c].rows) + i)

SweepPlan(c) ==
    tx[c].op = "detect" /\ tx[c].pc \in {"audit", "commit"} =>
        /\ tx[c].found # {} /\ tx[c].found \cap anomaly = {}
        /\ tx[c].pc = "audit" <=> tx[c].todo # <<>>
        /\ \E s \in Orders(tx[c].found) : Sweeping(c, s)

TxOK(c) ==
    /\ Course(tx[c])
    /\ AdvisoryHeld(c)
    /\ RowHeld(c)
    /\ Buffered(c)
    /\ RowPlan(c)
    /\ AppendPlan(c)
    /\ SweepPlan(c)

(* Numbered without a gap, each row naming the hash of the one before; the *)
(* hash of a row covers the events up to it.                               *)
Linked(rows) ==
    \A i \in 1 .. Len(rows) :
        /\ rows[i].seq = i
        /\ rows[i].prev = (IF i = 1 THEN Genesis ELSE rows[i - 1].hash)
        /\ rows[i].hash = Append(rows[i].prev, rows[i].event)
        /\ Len(rows[i].hash) = i
        /\ \A k \in 1 .. i : rows[i].hash[k] = rows[k].event

Linking ==
    /\ Linked(chain)
    /\ \A c \in advisory : Linked(chain \o tx[c].rows)

OneHolder == \A c, d \in advisory : c = d
CommittedOK == \A p \in Policies : RowOK(policy[p])
TxsOK == \A c \in Callers : TxOK(c)

RolloutInv == Types /\ OneHolder /\ CommittedOK /\ TxsOK /\ Linking

-----------------------------------------------------------------------------

(* The chain records e at i.                                               *)
RecordedAt(e, i) == i \in 1 .. Len(chain) /\ chain[i].event = e

(* Every anomaly has each of its two events at one place of the chain.     *)
EvidenceOnce ==
    \A f \in Anomalies : \A a \in {"orphan.detected", "orphan.disposition.flagged"} :
        /\ f \in anomaly => \E i : RecordedAt(AuditEvent(a, f), i)
        /\ f \notin anomaly => \A i : ~RecordedAt(AuditEvent(a, f), i)
        /\ \A i, j : RecordedAt(AuditEvent(a, f), i) /\ RecordedAt(AuditEvent(a, f), j) => i = j

(* The chain records a promotion of p at i.                                *)
PromotedAt(p, i) ==
    /\ i \in 1 .. Len(chain)
    /\ chain[i].event.target = p
    /\ chain[i].event.action \in PromotionActions

PromotionsOnce ==
    \A p \in Policies :
        /\ policy[p].state \in {"none", "draft"} => \A i : ~PromotedAt(p, i)
        /\ policy[p].state = "active" => \E i : PromotedAt(p, i)
        /\ \A i, j : PromotedAt(p, i) /\ PromotedAt(p, j) => i = j

Contradict(p, q) ==
    policy[p].state = "active" /\ q \in hardConflicts(p, policy[p].def)

LaterOverrides ==
    \A p, q \in Policies : Contradict(p, q) =>
        \A i, j : PromotedAt(p, i) /\ PromotedAt(q, j) /\ j <= i =>
            chain[i].event.action = "policy.promoted_with_override"

RecordInv == EvidenceOnce /\ PromotionsOnce /\ LaterOverrides

-----------------------------------------------------------------------------
(* The chain                                                               *)

(* The row appendAudit links to is the last one of a linked chain.         *)
LEMMA HeadOfLinked ==
    ASSUME NEW rows \in Seq(ChainRows), Linked(rows)
    PROVE  /\ rows = <<>> => HeadOf(rows) = Start
           /\ rows # <<>> => HeadOf(rows) = rows[Len(rows)]
<1>1. rows = <<>> => HeadOf(rows) = Start
  BY DEF HeadOf, Start
<1>2. ASSUME rows # <<>> PROVE HeadOf(rows) = rows[Len(rows)]
  <2> DEFINE Last(i) == \A j \in DOMAIN rows : rows[j].seq <= rows[i].seq
  <2>1. Len(rows) \in Nat \ {0} /\ DOMAIN rows = 1 .. Len(rows)
    BY <1>2, EmptySeq, LenProperties
  <2>2. \A i \in 1 .. Len(rows) : rows[i].seq = i
    BY DEF Linked
  <2>3. Len(rows) \in DOMAIN rows /\ Last(Len(rows))
    BY <2>1, <2>2
  <2>4. \A i \in DOMAIN rows : Last(i) => i = Len(rows)
    BY <2>1, <2>2
  <2>5. (CHOOSE i \in DOMAIN rows : Last(i)) = Len(rows)
    <3> HIDE DEF Last
    <3> QED BY <2>3, <2>4
  <2> QED BY <1>2, <2>5 DEF HeadOf
<1> QED BY <1>1, <1>2

(* The row appendAudit writes extends a linked chain to a linked chain.    *)
LEMMA NextRowLinks ==
    ASSUME NEW rows \in Seq(ChainRows), Linked(rows), NEW e \in Events
    PROVE  /\ NextRow(rows, e) \in ChainRows
           /\ NextRow(rows, e).event = e
           /\ Linked(Append(rows, NextRow(rows, e)))
<1> DEFINE head == HeadOf(rows)
           new == NextRow(rows, e)
           n == Len(rows)
           long == Append(rows, new)
<1>1. n \in Nat /\ \A i \in 1 .. n : rows[i] \in ChainRows
  BY LenProperties, ElementOfSeq
<1>2. /\ head.seq = n /\ head.hash \in Seq(Events) /\ Len(head.hash) = n
      /\ head.hash = (IF n = 0 THEN Genesis ELSE rows[n].hash)
      /\ \A k \in 1 .. n : head.hash[k] = rows[k].event
  <2>1. CASE rows = <<>>
    <3>1. head = Start /\ n = 0
      BY <2>1, HeadOfLinked, EmptySeq
    <3> QED BY <3>1, EmptySeq DEF Start, Genesis
  <2>2. CASE rows # <<>>
    <3>1. head = rows[n] /\ n \in 1 .. n
      BY <2>2, HeadOfLinked, EmptySeq, <1>1
    <3>2. rows[n].seq = n /\ Len(rows[n].hash) = n /\ \A k \in 1 .. n : rows[n].hash[k] = rows[k].event
      BY <3>1 DEF Linked
    <3>3. rows[n].hash \in Seq(Events)
      BY <1>1, <3>1 DEF ChainRows
    <3> QED BY <3>1, <3>2, <3>3, <1>1
  <2> QED BY <2>1, <2>2
<1>3. new = [seq |-> n + 1, prev |-> head.hash, hash |-> Append(head.hash, e), event |-> e]
  BY <1>2 DEF NextRow, ChainHash
<1>4. Append(head.hash, e) \in Seq(Events) /\ Len(Append(head.hash, e)) = n + 1
  BY <1>2, AppendProperties
<1>5. new \in ChainRows
  BY <1>1, <1>2, <1>3, <1>4 DEF ChainRows
<1>6. new.event = e /\ new.seq = n + 1 /\ new.prev = head.hash /\ new.hash = Append(head.hash, e)
  BY <1>3
<1>7. /\ Len(long) = n + 1 /\ long[n + 1] = new
      /\ \A i \in 1 .. n : long[i] = rows[i]
  <2> HIDE DEF new
  <2> QED BY <1>5, AppendProperties
<1>8. \A k \in 1 .. n : Append(head.hash, e)[k] = rows[k].event
  BY <1>2, AppendProperties
<1>9. Append(head.hash, e)[n + 1] = e
  BY <1>2, AppendProperties
<1> HIDE DEF new, long, head, n
<1>10. ASSUME NEW i \in 1 .. n + 1
       PROVE  /\ long[i].seq = i
              /\ long[i].prev = (IF i = 1 THEN Genesis ELSE long[i - 1].hash)
              /\ long[i].hash = Append(long[i].prev, long[i].event)
              /\ Len(long[i].hash) = i
              /\ \A k \in 1 .. i : long[i].hash[k] = long[k].event
  <2>1. CASE i \in 1 .. n
    <3>1. long[i] = rows[i] /\ (i # 1 => i - 1 \in 1 .. n)
      BY <2>1, <1>1, <1>7
    <3>2. /\ rows[i].seq = i
          /\ rows[i].prev = (IF i = 1 THEN Genesis ELSE rows[i - 1].hash)
          /\ rows[i].hash = Append(rows[i].prev, rows[i].event)
          /\ Len(rows[i].hash) = i
          /\ \A k \in 1 .. i : rows[i].hash[k] = rows[k].event
      BY <2>1 DEF Linked, n
    <3>3. \A k \in 1 .. i : long[k] = rows[k]
      BY <2>1, <1>1, <1>7
    <3> QED BY <3>1, <3>2, <3>3, <1>7
  <2>2. CASE i = n + 1
    <3>1. long[i] = new
      BY <2>2, <1>7
    <3>2. new.prev = (IF i = 1 THEN Genesis ELSE long[i - 1].hash)
      BY <2>2, <1>1, <1>2, <1>6, <1>7
    <3>3. ASSUME NEW k \in 1 .. i PROVE new.hash[k] = long[k].event
      <4>1. CASE k \in 1 .. n
        BY <4>1, <1>6, <1>7, <1>8
      <4>2. CASE k = n + 1
        BY <4>2, <1>6, <1>7, <1>9
      <4> QED BY <4>1, <4>2, <2>2, <1>1
    <3> QED BY <3>1, <3>2, <3>3, <2>2, <1>4, <1>6
  <2> QED BY <2>1, <2>2, <1>1
<1>11. Linked(long)
  BY <1>10, <1>7 DEF Linked
<1>12. new \in ChainRows /\ new.event = e /\ Linked(long)
  BY <1>5, <1>6, <1>11
<1> QED BY <1>12, Zenon DEF new, long

-----------------------------------------------------------------------------
(* Steps of a transaction                                                  *)

(* A transaction whose own state and locks a step leaves alone, with the   *)
(* committed rows, stays as it should be.                                  *)
LEMMA Frame ==
    ASSUME NEW d \in Callers, TxOK(d), tx'[d] = tx[d], policy' = policy, anomaly' = anomaly,
           d \in advisory' <=> d \in advisory,
           \A p \in Policies : d \in rowLock'[p] <=> d \in rowLock[p],
           tx[d].row # {} => rowLock'[tx[d].args.p] = {d}
    PROVE  TxOK(d)'
<1>1. Course(tx[d])' /\ AdvisoryHeld(d)' /\ RowHeld(d)'
  BY DEF TxOK, Course, AdvisoryHeld, RowHeld
<1>2. Buffered(d)'
  BY DEF TxOK, Buffered
<1>3. \A e : RowEvent(d, e)' <=> RowEvent(d, e)
  BY DEF RowEvent, hardConflicts
<1>4. RowPlan(d)'
  BY <1>3 DEF TxOK, RowPlan
<1>5. AppendPlan(d)'
  BY DEF TxOK, AppendPlan
<1>6. \A s : Sweeping(d, s)' <=> Sweeping(d, s)
  BY DEF Sweeping
<1>7. SweepPlan(d)'
  BY <1>6 DEF TxOK, SweepPlan
<1> QED BY <1>1, <1>2, <1>4, <1>5, <1>7 DEF TxOK

(* A transaction that has only begun owes nothing.                         *)
LEMMA Bare ==
    ASSUME NEW c \in Callers, Course(tx[c])', AdvisoryHeld(c)', tx'[c].row = {},
           tx'[c].pc \notin {"audit", "commit"},
           \A p \in Policies : c \notin rowLock'[p]
    PROVE  TxOK(c)'
<1>1. RowHeld(c)' /\ Buffered(c)' /\ RowPlan(c)'
  BY DEF RowHeld, Buffered, RowPlan
<1>2. AppendPlan(c)' /\ SweepPlan(c)'
  BY DEF AppendPlan, SweepPlan, Course
<1> QED BY <1>1, <1>2 DEF TxOK

LEMMA IdleType == Idle \in Transactions
<1>1. <<>> \in Seq(Events) /\ <<>> \in Seq(ChainRows)
  BY EmptySeq
<1> QED BY <1>1 DEF Idle, Transactions, Steps, Ops, Arguments

(* The end of a transaction that writes nothing.                           *)
LEMMA RollbackStep ==
    ASSUME RolloutInv, NEW c \in Callers, Rollback(c)
    PROVE  RolloutInv'
<1> USE DEF RolloutInv
<1>1. /\ policy' = policy /\ anomaly' = anomaly /\ chain' = chain
      /\ tx' = [tx EXCEPT ![c] = Idle]
      /\ advisory' = advisory \ {c}
      /\ rowLock' = [p \in Policies |-> rowLock[p] \ {c}]
  BY DEF Rollback, Locks
<1>2. tx'[c] = Idle /\ \A d \in Callers : d # c => tx'[d] = tx[d]
  BY <1>1 DEF Types
<1>3. Types'
  BY <1>1, IdleType DEF Types
<1>4. TxOK(c)'
  <2>1. Course(tx[c])' /\ AdvisoryHeld(c)'
    BY <1>1, <1>2 DEF Idle, Course, AdvisoryHeld, RowOps, LockedOps
  <2>2. \A p \in Policies : c \notin rowLock'[p]
    BY <1>1
  <2> QED BY <2>1, <2>2, <1>2, Bare DEF Idle
<1>5. ASSUME NEW d \in Callers, d # c PROVE TxOK(d)'
  <2>1. \A p \in Policies : d \in rowLock'[p] <=> d \in rowLock[p]
    BY <1>1, <1>5
  <2>2. tx[d].row # {} => rowLock'[tx[d].args.p] = {d}
    <3>1. tx[d].row # {} => tx[d].args.p \in Policies /\ rowLock[tx[d].args.p] = {d}
      BY DEF TxsOK, TxOK, RowHeld, Course
    <3> QED BY <1>1, <1>5, <3>1
  <2> QED BY <1>1, <1>2, <1>5, <2>1, <2>2, Frame DEF TxsOK
<1>6. OneHolder' /\ CommittedOK'
  BY <1>1 DEF OneHolder, CommittedOK
<1>7. Linking'
  BY <1>1, <1>2 DEF Linking, Types
<1> QED BY <1>3, <1>4, <1>5, <1>6, <1>7 DEF TxsOK

(* The arguments and the first step of every operation.                    *)
Beginning(op, args, pc) ==
    \/ op = "update" /\ pc = "lock" /\ args \in [p : Policies, def : Defs]
    \/ op = "promote" /\ pc = "lock" /\ args \in [p : Policies, force : BOOLEAN]
    \/ op = "archive" /\ pc = "lock" /\ args \in [p : Policies]
    \/ op = "append" /\ pc = "audit" /\ args \in [p : {"none"}]
    \/ op = "simulate" /\ pc = "load" /\ args \in [p : Policies, def : Defs]
    \/ op = "detect" /\ pc = "lock" /\ args \in [p : {"none"}, found : SUBSET Anomalies]

(* A transaction that begins holds no lock.                                *)
LEMMA IdleHoldsNothing ==
    ASSUME RolloutInv, NEW c \in Callers, tx[c].pc = "idle"
    PROVE  c \notin advisory /\ \A p \in Policies : c \notin rowLock[p]
BY DEF RolloutInv, TxsOK, TxOK, AdvisoryHeld, RowHeld, Course, RowOps

LEMMA BeginStep ==
    ASSUME RolloutInv, NEW c \in Callers, NEW op, NEW args, NEW pc,
           Beginning(op, args, pc), Begin(c, op, args, pc)
    PROVE  RolloutInv'
<1> USE DEF RolloutInv
<1> DEFINE t == [Idle EXCEPT !.pc = pc, !.op = op, !.args = args]
<1>1. /\ policy' = policy /\ anomaly' = anomaly /\ chain' = chain
      /\ advisory' = advisory /\ rowLock' = rowLock
      /\ tx' = [tx EXCEPT ![c] = t] /\ tx[c].pc = "idle"
  BY DEF Begin
<1>2. /\ t.pc = pc /\ t.op = op /\ t.args = args /\ t.row = {} /\ t.todo = <<>>
      /\ t.rows = <<>> /\ t.found = {}
  BY DEF Idle
<1>3. pc \in Steps /\ op \in Ops /\ args \in Arguments
  BY DEF Beginning, Steps, Ops, Arguments
<1>4. t \in Transactions
  BY <1>3, IdleType DEF Transactions
<1> HIDE DEF t
<1>5. tx'[c] = t /\ \A d \in Callers : d # c => tx'[d] = tx[d]
  BY <1>1 DEF Types
<1>6. Types'
  BY <1>1, <1>4 DEF Types
<1>7. c \notin advisory /\ \A p \in Policies : c \notin rowLock[p]
  BY <1>1, IdleHoldsNothing
<1>8. TxOK(c)'
  <2>1. Course(t)
    BY <1>2 DEF Beginning, Course, RowOps
  <2>2. AdvisoryHeld(c)'
    BY <1>1, <1>2, <1>5, <1>7 DEF AdvisoryHeld, Beginning, LockedOps
  <2>3. RowHeld(c)' /\ Buffered(c)' /\ RowPlan(c)'
    BY <1>1, <1>2, <1>5, <1>7 DEF RowHeld, Buffered, RowPlan
  <2>4. AppendPlan(c)' /\ SweepPlan(c)'
    BY <1>2, <1>5 DEF AppendPlan, SweepPlan, Beginning
  <2> QED BY <2>1, <2>2, <2>3, <2>4, <1>5 DEF TxOK
<1>9. ASSUME NEW d \in Callers, d # c PROVE TxOK(d)'
  <2>1. tx[d].row # {} => rowLock'[tx[d].args.p] = {d}
    BY <1>1 DEF TxsOK, TxOK, RowHeld
  <2> QED BY <1>1, <1>5, <1>9, <2>1, Frame DEF TxsOK
<1>10. OneHolder' /\ CommittedOK'
  BY <1>1 DEF OneHolder, CommittedOK
<1>11. Linking'
  <2>1. \A d \in advisory : tx'[d] = tx[d]
    BY <1>5, <1>7 DEF Types
  <2> QED BY <1>1, <2>1 DEF Linking
<1> QED BY <1>6, <1>8, <1>9, <1>10, <1>11 DEF TxsOK

LEMMA LockStep ==
    ASSUME RolloutInv, NEW c \in Callers, lockWorkspace(c)
    PROVE  RolloutInv'
<1> USE DEF RolloutInv
<1> DEFINE t == [tx[c] EXCEPT !.pc = IF tx[c].op = "detect" THEN "record" ELSE "load"]
<1>1. /\ policy' = policy /\ anomaly' = anomaly /\ chain' = chain
      /\ advisory' = {c} /\ advisory = {} /\ rowLock' = rowLock
      /\ tx' = [tx EXCEPT ![c] = t] /\ tx[c].pc = "lock"
  BY DEF lockWorkspace, Nobody
<1>2. /\ t.pc = (IF tx[c].op = "detect" THEN "record" ELSE "load") /\ t.op = tx[c].op
      /\ t.args = tx[c].args /\ t.row = tx[c].row /\ t.todo = tx[c].todo
      /\ t.rows = tx[c].rows /\ t.found = tx[c].found
  BY DEF Types, Transactions
<1>3. t \in Transactions
  BY DEF Types, Transactions, Steps
<1> HIDE DEF t
<1>4. tx'[c] = t /\ \A d \in Callers : d # c => tx'[d] = tx[d]
  BY <1>1 DEF Types
<1>5. Types'
  BY <1>1, <1>3 DEF Types
<1>6. Course(tx[c]) /\ AdvisoryHeld(c) /\ RowHeld(c)
  BY DEF TxsOK, TxOK
<1>7. TxOK(c)'
  <2>1. Course(t)
    BY <1>1, <1>2, <1>6 DEF Course, RowOps
  <2>2. tx[c].row = {} /\ tx[c].op \in LockedOps
    BY <1>1, <1>6 DEF Course, RowOps, LockedOps, Types, Transactions, Ops
  <2>3. AdvisoryHeld(c)'
    BY <1>1, <1>2, <1>4, <2>2 DEF AdvisoryHeld, LockedOps
  <2>4. \A p \in Policies : c \notin rowLock'[p]
    BY <1>1, <1>6, <2>2 DEF RowHeld
  <2> QED BY <2>1, <2>2, <2>3, <2>4, <1>2, <1>4, Bare
<1>8. ASSUME NEW d \in Callers, d # c PROVE TxOK(d)'
  <2>1. tx[d].row # {} => rowLock'[tx[d].args.p] = {d}
    BY <1>1 DEF TxsOK, TxOK, RowHeld
  <2> QED BY <1>1, <1>4, <1>8, <2>1, Frame DEF TxsOK
<1>9. OneHolder' /\ CommittedOK'
  BY <1>1 DEF OneHolder, CommittedOK
<1>10. Linking'
  <2>1. tx'[c].rows = <<>>
    BY <1>1, <1>2, <1>4, <1>6 DEF Course
  <2>2. chain \o <<>> = chain
    BY ConcatEmptySeq DEF Types
  <2> QED BY <1>1, <2>1, <2>2 DEF Linking
<1> QED BY <1>5, <1>7, <1>8, <1>9, <1>10 DEF TxsOK

(* What an operation on a row writes once it holds the row.                *)
LEMMA WriteStep ==
    ASSUME RolloutInv, NEW c \in Callers, NEW p \in Policies, NEW row \in PolicyRows, NEW events,
           tx[c].pc = "load", p = tx[c].args.p, tx[c].op \in RowOps, rowLock[p] = {},
           RowOK(row), Succeeds(tx[c].op, policy[p], row),
           \/ tx[c].op = "simulate" /\ events = <<>>
           \/ tx[c].op # "simulate" /\ \E e \in Events : events = <<e>> /\ RowEvent(c, e),
           Write(c, p, row, events)
    PROVE  RolloutInv'
<1> USE DEF RolloutInv
<1> DEFINE pc == IF events = <<>> THEN "commit" ELSE "audit"
           t == [tx[c] EXCEPT !.row = {row}, !.todo = events, !.pc = pc]
<1>1. /\ policy' = policy /\ anomaly' = anomaly /\ chain' = chain /\ advisory' = advisory
      /\ rowLock' = [rowLock EXCEPT ![p] = {c}]
      /\ tx' = [tx EXCEPT ![c] = t]
  BY DEF Write
<1>2. /\ t.pc = pc /\ t.op = tx[c].op /\ t.args = tx[c].args /\ t.row = {row} /\ t.todo = events
      /\ t.rows = tx[c].rows /\ t.found = tx[c].found
  BY DEF Types, Transactions
<1>3. /\ tx[c].op = "simulate" => pc = "commit"
      /\ tx[c].op # "simulate" => pc = "audit"
  OBVIOUS
<1>4. events \in Seq(Events)
  <2>1. CASE events = <<>>
    BY <2>1, EmptySeq
  <2>2. ASSUME NEW e \in Events, events = <<e>> PROVE events \in Seq(Events)
    BY <2>2
  <2> QED BY <2>1, <2>2
<1>5. t \in Transactions
  BY <1>4 DEF Types, Transactions, Steps
<1> HIDE DEF t, pc
<1>6. tx'[c] = t /\ \A d \in Callers : d # c => tx'[d] = tx[d]
  BY <1>1 DEF Types
<1>7. Types'
  BY <1>1, <1>5 DEF Types
<1>8. /\ Course(tx[c]) /\ AdvisoryHeld(c) /\ RowHeld(c) /\ tx[c].rows = <<>> /\ tx[c].found = {}
      /\ tx[c].op # "create" /\ tx[c].row = {}
  BY DEF TxsOK, TxOK, Course
<1>9. TxOK(c)'
  <2>1. Course(t)
    BY <1>2, <1>3, <1>8 DEF Course, RowOps
  <2>2. AdvisoryHeld(c)'
    BY <1>1, <1>2, <1>3, <1>6, <1>8 DEF AdvisoryHeld, LockedOps, RowOps
  <2>3. RowHeld(c)'
    BY <1>1, <1>2, <1>6, <1>8 DEF RowHeld, Types
  <2>4. Buffered(c)'
    <3>1. tx'[c].row = {row} /\ tx'[c].op = tx[c].op /\ policy'[tx'[c].args.p] = policy[p]
      BY <1>1, <1>2, <1>6
    <3> QED BY <3>1 DEF Buffered
  <2>5. RowPlan(c)'
    <3>1. \A e : RowEvent(c, e)' <=> RowEvent(c, e)
      BY <1>1, <1>2, <1>6 DEF RowEvent, hardConflicts
    <3>2. CASE tx[c].op = "simulate"
      BY <3>2, <1>2, <1>6, <1>8 DEF RowPlan
    <3>3. CASE tx[c].op # "simulate"
      <4>1. PICK e \in Events : events = <<e>> /\ RowEvent(c, e)
        BY <3>3
      <4>2. Len(<<e>>) = 1 /\ <<e>>[1] = e
        OBVIOUS
      <4>3. tx'[c].op # "simulate" /\ tx'[c].pc = "audit" /\ tx'[c].rows = <<>> /\ tx'[c].todo = <<e>>
        BY <3>3, <4>1, <1>2, <1>3, <1>6, <1>8
      <4>4. RowEvent(c, e)'
        BY <3>1, <4>1
      <4> QED BY <4>2, <4>3, <4>4 DEF RowPlan
    <3> QED BY <3>2, <3>3
  <2>6. AppendPlan(c)' /\ SweepPlan(c)'
    BY <1>2, <1>6 DEF AppendPlan, SweepPlan, RowOps
  <2> QED BY <2>1, <2>2, <2>3, <2>4, <2>5, <2>6, <1>6 DEF TxOK
<1>10. ASSUME NEW d \in Callers, d # c PROVE TxOK(d)'
  <2>1. \A q \in Policies : d \in rowLock'[q] <=> d \in rowLock[q]
    BY <1>1, <1>10 DEF Types
  <2>2. tx[d].row # {} => rowLock'[tx[d].args.p] = {d}
    <3>1. tx[d].row # {} => tx[d].args.p \in Policies /\ rowLock[tx[d].args.p] = {d}
      BY DEF TxsOK, TxOK, RowHeld, Course
    <3> QED BY <1>1, <1>10, <3>1 DEF Types
  <2> QED BY <1>1, <1>6, <1>10, <2>1, <2>2, Frame DEF TxsOK
<1>11. OneHolder' /\ CommittedOK'
  BY <1>1 DEF OneHolder, CommittedOK
<1>12. Linking'
  <2>1. \A d \in advisory : tx'[d].rows = tx[d].rows
    BY <1>2, <1>6 DEF Types
  <2> QED BY <1>1, <2>1 DEF Linking
<1> QED BY <1>7, <1>9, <1>10, <1>11, <1>12 DEF TxsOK

LEMMA CreateStep ==
    ASSUME RolloutInv, NEW c \in Callers, CreatePolicyTx(c)
    PROVE  RolloutInv'
<1> USE DEF RolloutInv
<1>0. PICK p \in Policies, d0 \in Defs :
        /\ tx[c].pc = "idle"
        /\ policy[p].state = "none"
        /\ rowLock[p] = Nobody
        /\ rowLock' = [rowLock EXCEPT ![p] = {c}]
        /\ tx' = [tx EXCEPT ![c] =
                    [Idle EXCEPT !.pc = "audit", !.op = "create", !.args = [p |-> p],
                                 !.row = {[state |-> "draft", def |-> d0, impact |-> NoImpact]},
                                 !.todo = <<AuditEvent("policy.created", p)>>]]
        /\ UNCHANGED <<policy, anomaly, chain, advisory>>
  BY DEF CreatePolicyTx
<1> DEFINE row == [state |-> "draft", def |-> d0, impact |-> NoImpact]
           e == AuditEvent("policy.created", p)
           t == [Idle EXCEPT !.pc = "audit", !.op = "create", !.args = [p |-> p],
                             !.row = {row}, !.todo = <<e>>]
<1>1. /\ policy' = policy /\ anomaly' = anomaly /\ chain' = chain /\ advisory' = advisory
      /\ rowLock' = [rowLock EXCEPT ![p] = {c}] /\ rowLock[p] = {}
      /\ tx' = [tx EXCEPT ![c] = t]
  BY <1>0 DEF Nobody
<1>2. /\ t.pc = "audit" /\ t.op = "create" /\ t.args = [p |-> p] /\ t.row = {row} /\ t.todo = <<e>>
      /\ t.rows = <<>> /\ t.found = {}
  BY DEF Idle
<1>3. row \in PolicyRows /\ RowOK(row) /\ Succeeds("create", policy[p], row)
  BY <1>0 DEF PolicyRows, States, RowOK, Succeeds, NoImpact
<1>4. e \in Events /\ <<e>> \in Seq(Events) /\ Len(<<e>>) = 1 /\ <<e>>[1] = e
  BY DEF Events, AuditEvent
<1>5. t \in Transactions
  BY <1>3, <1>4, IdleType DEF Transactions, Steps, Ops, Arguments
<1>6. e.target = p /\ e.action = "policy.created"
  BY DEF AuditEvent
<1> HIDE DEF t, row, e
<1>7. tx'[c] = t /\ \A d \in Callers : d # c => tx'[d] = tx[d]
  BY <1>1 DEF Types
<1>8. Types'
  BY <1>1, <1>5 DEF Types
<1>9. c \notin advisory /\ \A q \in Policies : c \notin rowLock[q]
  BY <1>0, IdleHoldsNothing
<1>10. TxOK(c)'
  <2>1. Course(t)
    BY <1>2 DEF Course, RowOps
  <2>2. AdvisoryHeld(c)'
    BY <1>1, <1>2, <1>7, <1>9 DEF AdvisoryHeld, LockedOps
  <2>3. RowHeld(c)'
    <3>1. tx'[c].args.p = p /\ tx'[c].row # {}
      BY <1>2, <1>7
    <3>2. rowLock'[p] = {c}
      BY <1>1 DEF Types
    <3>3. \A q \in Policies : c \in rowLock'[q] => q = p
      BY <1>1, <1>9 DEF Types
    <3> QED BY <3>1, <3>2, <3>3 DEF RowHeld
  <2>4. Buffered(c)'
    <3>1. tx'[c].row = {row} /\ tx'[c].op = "create" /\ policy'[tx'[c].args.p] = policy[p]
      BY <1>1, <1>2, <1>7
    <3> QED BY <3>1, <1>3 DEF Buffered
  <2>5. RowPlan(c)'
    <3>1. RowEvent(c, e)'
      BY <1>2, <1>6, <1>7 DEF RowEvent, PromotionActions
    <3> QED BY <3>1, <1>2, <1>4, <1>7 DEF RowPlan
  <2>6. AppendPlan(c)' /\ SweepPlan(c)'
    BY <1>2, <1>7 DEF AppendPlan, SweepPlan
  <2> QED BY <2>1, <2>2, <2>3, <2>4, <2>5, <2>6, <1>7 DEF TxOK
<1>11. ASSUME NEW d \in Callers, d # c PROVE TxOK(d)'
  <2>1. \A q \in Policies : d \in rowLock'[q] <=> d \in rowLock[q]
    BY <1>1, <1>11 DEF Types
  <2>2. tx[d].row # {} => rowLock'[tx[d].args.p] = {d}
    <3>1. tx[d].row # {} => tx[d].args.p \in Policies /\ rowLock[tx[d].args.p] = {d}
      BY DEF TxsOK, TxOK, RowHeld, Course
    <3> QED BY <1>1, <1>11, <3>1 DEF Types
  <2> QED BY <1>1, <1>7, <1>11, <2>1, <2>2, Frame DEF TxsOK
<1>12. OneHolder' /\ CommittedOK'
  BY <1>1 DEF OneHolder, CommittedOK
<1>13. Linking'
  <2>1. \A d \in advisory : tx'[d] = tx[d]
    BY <1>7, <1>9 DEF Types
  <2> QED BY <1>1, <2>1 DEF Linking
<1> QED BY <1>8, <1>10, <1>11, <1>12, <1>13 DEF TxsOK

-----------------------------------------------------------------------------
(* The sweep and the append                                                *)

LEMMA RecordedEvent ==
    ASSUME NEW S \in SUBSET Anomalies, NEW s \in Orders(S), IsFiniteSet(S),
           NEW i \in 1 .. 2 * Cardinality(S)
    PROVE  Recorded(s, i) \in Events
<1>1. Cardinality(S) \in Nat
  BY FS_CardinalityType
<1>2. i % 2 = 1 => (i + 1) \div 2 \in 1 .. Cardinality(S)
  BY <1>1
<1>3. i % 2 # 1 => i \div 2 \in 1 .. Cardinality(S)
  BY <1>1
<1>4. \A k \in 1 .. Cardinality(S) : s[k] \in Anomalies
  BY DEF Orders
<1> QED BY <1>2, <1>3, <1>4 DEF Recorded, Events, AuditEvent

LEMMA DetectStep ==
    ASSUME RolloutInv, NEW c \in Callers, DetectRecord(c)
    PROVE  RolloutInv'
<1> USE DEF RolloutInv
<1>1. CASE Fresh(c) = {}
  BY <1>1, RollbackStep DEF DetectRecord
<1>2. CASE Fresh(c) # {}
  <2>1. PICK found : found = Fresh(c)
    OBVIOUS
  <2>2. Course(tx[c]) /\ AdvisoryHeld(c) /\ RowHeld(c)
    BY DEF TxsOK, TxOK
  <2>3. tx[c].pc = "record" /\ tx[c].op = "detect" /\ c \in advisory /\ tx[c].row = {} /\ tx[c].rows = <<>>
    BY <2>2 DEF DetectRecord, Course, AdvisoryHeld, Types, Transactions, Ops, LockedOps, RowOps
  <2>4. found \in SUBSET Anomalies /\ found # {} /\ found \cap anomaly = {}
    BY <1>2, <2>1, <2>2, <2>3 DEF Fresh, Course
  <2>5. IsFiniteSet(found) /\ Cardinality(found) \in Nat /\ Cardinality(found) > 0
    <3>1. IsFiniteSet(found)
      BY <2>4, FS_Subset, RolloutAssumption
    <3> QED BY <2>4, <3>1, FS_CardinalityType, FS_EmptySet
  <2> DEFINE n == Cardinality(found)
  <2>6. PICK events \in Evidence(c) :
          tx' = [tx EXCEPT ![c].found = Fresh(c), ![c].todo = events, ![c].pc = "audit"]
    BY <1>2 DEF DetectRecord
  <2>7. policy' = policy /\ anomaly' = anomaly /\ chain' = chain /\ advisory' = advisory /\ rowLock' = rowLock
    BY <1>2 DEF DetectRecord
  <2>8. PICK s \in Orders(found) : events = [i \in 1 .. 2 * n |-> Recorded(s, i)]
    BY <2>1 DEF Evidence, Orders
  <2>9. \A i \in 1 .. 2 * n : Recorded(s, i) \in Events
    BY <2>4, <2>5, RecordedEvent
  <2>10. events \in Seq(Events) /\ Len(events) = 2 * n
    <3>1. 2 * n \in Nat
      BY <2>5
    <3>2. events \in [1 .. 2 * n -> Events]
      BY <2>8, <2>9
    <3> QED BY <3>1, <3>2
  <2> DEFINE t == [tx[c] EXCEPT !.found = found, !.todo = events, !.pc = "audit"]
  <2>11. tx' = [tx EXCEPT ![c] = t]
    BY <2>1, <2>6
  <2>12. /\ t.pc = "audit" /\ t.op = "detect" /\ t.args = tx[c].args /\ t.row = {} /\ t.todo = events
         /\ t.rows = <<>> /\ t.found = found
    BY <2>3 DEF Types, Transactions
  <2>13. t \in Transactions
    BY <2>4, <2>10 DEF Types, Transactions, Steps
  <2> HIDE DEF t
  <2>14. tx'[c] = t /\ \A d \in Callers : d # c => tx'[d] = tx[d]
    BY <2>11 DEF Types
  <2>15. Types'
    BY <2>7, <2>11, <2>13 DEF Types
  <2>16. TxOK(c)'
    <3>1. Course(t)
      BY <2>2, <2>3, <2>12 DEF Course, RowOps
    <3>2. AdvisoryHeld(c)'
      BY <2>3, <2>7, <2>12, <2>14 DEF AdvisoryHeld
    <3>3. RowHeld(c)'
      BY <2>2, <2>3, <2>7, <2>12, <2>14 DEF RowHeld
    <3>4. Buffered(c)' /\ RowPlan(c)' /\ AppendPlan(c)'
      BY <2>12, <2>14 DEF Buffered, RowPlan, AppendPlan
    <3>5. Sweeping(c, s)'
      <4>1. /\ tx'[c].rows = <<>> /\ tx'[c].todo = events /\ tx'[c].found = found
            /\ Len(<<>>) = 0
        BY <2>12, <2>14, EmptySeq
      <4>2. \A i \in 1 .. Len(events) : events[i] = Recorded(s, 0 + i)
        BY <2>5, <2>8, <2>10
      <4> QED BY <4>1, <4>2, <2>5, <2>10 DEF Sweeping
    <3>6. SweepPlan(c)'
      <4>1. events # <<>>
        BY <2>5, <2>10, EmptySeq
      <4> QED BY <3>5, <4>1, <2>4, <2>7, <2>8, <2>12, <2>14 DEF SweepPlan
    <3> QED BY <3>1, <3>2, <3>3, <3>4, <3>6, <2>14 DEF TxOK
  <2>17. ASSUME NEW d \in Callers, d # c PROVE TxOK(d)'
    <3>1. tx[d].row # {} => rowLock'[tx[d].args.p] = {d}
      BY <2>7 DEF TxsOK, TxOK, RowHeld
    <3> QED BY <2>7, <2>14, <2>17, <3>1, Frame DEF TxsOK
  <2>18. OneHolder' /\ CommittedOK'
    BY <2>7 DEF OneHolder, CommittedOK
  <2>19. Linking'
    <3>1. \A d \in advisory : tx'[d].rows = tx[d].rows
      BY <2>3, <2>12, <2>14 DEF Types
    <3> QED BY <2>7, <3>1 DEF Linking
  <2> QED BY <2>15, <2>16, <2>17, <2>18, <2>19 DEF TxsOK
<1> QED BY <1>1, <1>2

(* Something is left to record whenever appendAudit runs.                  *)
LEMMA TodoLeft ==
    ASSUME RolloutInv, NEW c \in Callers, tx[c].pc = "audit"
    PROVE  Todo(c) \in Seq(Events) /\ Todo(c) # <<>>
<1> USE DEF RolloutInv
<1>1. TxOK(c) /\ tx[c].todo \in Seq(Events) /\ tx[c].op \in Ops
  BY DEF TxsOK, Types, Transactions
<1>2. CASE tx[c].op = "append"
  <2>1. AuditEvent("session.event", "none") \in Events
    BY DEF Events
  <2> QED BY <1>2, <2>1 DEF Todo
<1>3. CASE tx[c].op \in RowOps
  <2>1. tx[c].row # {} /\ tx[c].op # "simulate"
    BY <1>1, <1>3 DEF TxOK, Course
  <2>2. Len(tx[c].todo) = 1
    BY <1>1, <2>1 DEF TxOK, RowPlan
  <2>3. tx[c].todo # <<>>
    BY <2>2, EmptySeq
  <2> QED BY <1>1, <1>3, <2>3 DEF Todo, RowOps
<1>4. CASE tx[c].op = "detect"
  BY <1>1, <1>4 DEF Todo, TxOK, SweepPlan
<1>5. tx[c].op # "none"
  BY <1>1 DEF TxOK, Course
<1> QED BY <1>1, <1>2, <1>3, <1>4, <1>5 DEF Ops, RowOps

LEMMA AppendStep ==
    ASSUME RolloutInv, NEW c \in Callers, appendAudit(c)
    PROVE  RolloutInv'
<1> USE DEF RolloutInv
<1>1. PICK td : td = Todo(c)
  OBVIOUS
<1>2. PICK rows : rows = tx[c].rows
  OBVIOUS
<1>3. td \in Seq(Events) /\ td # <<>>
  BY <1>1, TodoLeft DEF appendAudit
<1>4. Len(td) \in Nat \ {0} /\ Head(td) \in Events /\ Head(td) = td[1] /\ Tail(td) \in Seq(Events)
      /\ Len(Tail(td)) = Len(td) - 1 /\ \A i \in 1 .. Len(Tail(td)) : Tail(td)[i] = td[i + 1]
  BY <1>3, HeadTailProperties, EmptySeq
<1>5. TxOK(c) /\ tx[c].pc = "audit" /\ advisory \subseteq {c}
  BY DEF TxsOK, appendAudit, MayAppend
<1>6. rows \in Seq(ChainRows) /\ chain \in Seq(ChainRows) /\ chain \o rows \in Seq(ChainRows)
  BY <1>2, ConcatProperties DEF Types, Transactions
<1>7. Linked(chain \o rows)
  <2>1. CASE c \in advisory
    BY <1>2, <2>1 DEF Linking
  <2>2. CASE c \notin advisory
    <3>1. rows = <<>>
      BY <1>2, <1>5, <2>2 DEF TxOK, AdvisoryHeld
    <3> QED BY <3>1, ConcatEmptySeq, <1>6 DEF Linking
  <2> QED BY <2>1, <2>2
<1>8. PICK new : new = NextRow(chain \o rows, Head(td))
  OBVIOUS
<1>9. new \in ChainRows /\ new.event = td[1] /\ Linked(Append(chain \o rows, new))
  BY <1>4, <1>6, <1>7, <1>8, NextRowLinks
<1>10. /\ Append(rows, new) \in Seq(ChainRows) /\ Len(Append(rows, new)) = Len(rows) + 1
       /\ Append(rows, new)[Len(rows) + 1] = new
       /\ \A i \in 1 .. Len(rows) : Append(rows, new)[i] = rows[i]
       /\ Append(rows, new) # <<>> /\ Len(rows) \in Nat
  BY <1>6, <1>9, AppendProperties, LenProperties
<1>11. chain \o Append(rows, new) = Append(chain \o rows, new)
  <2>1. <<new>> \in Seq(ChainRows)
    BY <1>9
  <2>2. chain \o (rows \o <<new>>) = (chain \o rows) \o <<new>>
    BY <1>6, <2>1, ConcatAssociative
  <2> QED BY <1>6, <1>9, <2>2, AppendIsConcat
<1> DEFINE pc == IF Len(td) = 1 THEN "commit" ELSE "audit"
           t == [tx[c] EXCEPT !.rows = Append(rows, new), !.todo = Tail(td), !.pc = pc]
<1>12. /\ policy' = policy /\ anomaly' = anomaly /\ chain' = chain /\ rowLock' = rowLock
       /\ advisory' = {c} /\ tx' = [tx EXCEPT ![c] = t]
  BY <1>1, <1>2, <1>5, <1>8 DEF appendAudit
<1>13. /\ t.pc = pc /\ t.op = tx[c].op /\ t.args = tx[c].args /\ t.row = tx[c].row
       /\ t.todo = Tail(td) /\ t.rows = Append(rows, new) /\ t.found = tx[c].found
  BY DEF Types, Transactions
<1>14. t \in Transactions
  <2>1. \A a \in Seq(ChainRows), b \in Seq(Events), q \in Steps :
          [tx[c] EXCEPT !.rows = a, !.todo = b, !.pc = q] \in Transactions
    BY DEF Types, Transactions
  <2>2. pc \in Steps
    BY DEF Steps
  <2> HIDE DEF pc
  <2> QED BY <2>1, <2>2, <1>4, <1>10
<1>15. (pc = "audit" <=> Tail(td) # <<>>) /\ pc \in {"audit", "commit"} /\ (Len(td) = 1 => pc = "commit")
  <2>1. Tail(td) # <<>> => Len(Tail(td)) # 0
    BY <1>4, EmptySeq
  <2>2. Tail(td) = <<>> => Len(Tail(td)) = 0
    BY EmptySeq
  <2>3. Tail(td) = <<>> <=> Len(td) = 1
    BY <2>1, <2>2, <1>4
  <2> QED BY <2>3
<1> HIDE DEF t, pc
<1>16. tx'[c] = t /\ \A d \in Callers : d # c => tx'[d] = tx[d]
  BY <1>12 DEF Types
<1>17. Types'
  BY <1>12, <1>14 DEF Types
<1>18. TxOK(c)'
  <2>1. Course(t)
    BY <1>5, <1>13, <1>15 DEF TxOK, Course, RowOps
  <2>2. AdvisoryHeld(c)'
    <3>1. tx[c].op # "simulate"
      BY <1>5 DEF TxOK, Course
    <3> QED BY <3>1, <1>12, <1>13, <1>15, <1>16 DEF AdvisoryHeld
  <2>3. RowHeld(c)'
    BY <1>5, <1>12, <1>13, <1>16 DEF TxOK, RowHeld
  <2>4. Buffered(c)'
    BY <1>5, <1>12, <1>13, <1>16 DEF TxOK, Buffered
  <2>5. RowPlan(c)'
    <3> SUFFICES ASSUME tx[c].row # {} PROVE RowPlan(c)'
      BY <1>13, <1>16 DEF RowPlan
    <3>1. tx[c].op # "simulate" /\ tx[c].op # "append"
      BY <1>5 DEF TxOK, Course, RowOps
    <3>2. rows = <<>> /\ Len(td) = 1 /\ RowEvent(c, td[1])
      BY <1>1, <1>2, <1>5, <3>1 DEF TxOK, RowPlan, Todo
    <3>3. Len(rows) = 0
      BY <3>2, EmptySeq
    <3>4. Len(Append(rows, new)) = 1 /\ Append(rows, new)[1] = new
      BY <3>3, <1>10
    <3>5. RowEvent(c, td[1])' <=> RowEvent(c, td[1])
      BY <1>12, <1>13, <1>16 DEF RowEvent, hardConflicts
    <3>6. tx'[c].pc = "commit" /\ tx'[c].op # "simulate" /\ Len(tx'[c].rows) = 1 /\ tx'[c].rows[1].event = td[1]
      BY <3>1, <3>2, <3>4, <1>9, <1>13, <1>15, <1>16
    <3> QED BY <3>2, <3>5, <3>6 DEF RowPlan
  <2>6. AppendPlan(c)'
    <3> SUFFICES ASSUME tx[c].op = "append" PROVE AppendPlan(c)'
      BY <1>13, <1>16 DEF AppendPlan
    <3>1. rows = <<>> /\ td = <<SessionEvent>>
      BY <1>1, <1>2, <1>5 DEF TxOK, AppendPlan, Todo, SessionEvent
    <3>2. Len(rows) = 0 /\ Len(td) = 1 /\ td[1] = SessionEvent
      BY <3>1, EmptySeq
    <3>3. Len(Append(rows, new)) = 1 /\ Append(rows, new)[1] = new
      BY <3>2, <1>10
    <3> QED BY <3>2, <3>3, <1>9, <1>13, <1>15, <1>16 DEF AppendPlan
  <2>7. SweepPlan(c)'
    <3> SUFFICES ASSUME tx[c].op = "detect" PROVE SweepPlan(c)'
      BY <1>13, <1>16 DEF SweepPlan
    <3>1. td = tx[c].todo
      BY <1>1 DEF Todo
    <3>2. PICK s \in Orders(tx[c].found) : Sweeping(c, s)
      BY <1>5 DEF TxOK, SweepPlan
    <3>3. /\ Len(rows) + Len(td) = 2 * Cardinality(tx[c].found)
          /\ \A i \in 1 .. Len(rows) : rows[i].event = Recorded(s, i)
          /\ \A i \in 1 .. Len(td) : td[i] = Recorded(s, Len(rows) + i)
      BY <3>1, <3>2, <1>2 DEF Sweeping
    <3>4. Len(Append(rows, new)) + Len(Tail(td)) = 2 * Cardinality(tx[c].found)
      BY <3>3, <1>4, <1>10
    <3>5. ASSUME NEW i \in 1 .. Len(rows) + 1
          PROVE  Append(rows, new)[i].event = Recorded(s, i)
      <4>1. CASE i \in 1 .. Len(rows)
        BY <4>1, <3>3, <1>10
      <4>2. CASE i = Len(rows) + 1
        BY <4>2, <3>3, <1>4, <1>9, <1>10
      <4> QED BY <4>1, <4>2, <1>10
    <3>6. ASSUME NEW i \in 1 .. Len(Tail(td))
          PROVE  Tail(td)[i] = Recorded(s, Len(rows) + 1 + i)
      <4>1. i + 1 \in 1 .. Len(td) /\ Len(rows) + (i + 1) = Len(rows) + 1 + i
        BY <1>4, <1>10
      <4> QED BY <4>1, <3>3, <1>4
    <3>7. Sweeping(c, s)'
      BY <3>4, <3>5, <3>6, <1>10, <1>13, <1>16 DEF Sweeping
    <3> QED BY <3>2, <3>7, <1>5, <1>12, <1>13, <1>15, <1>16 DEF TxOK, SweepPlan
  <2> QED BY <2>1, <2>2, <2>3, <2>4, <2>5, <2>6, <2>7, <1>16 DEF TxOK
<1>19. ASSUME NEW d \in Callers, d # c PROVE TxOK(d)'
  <2>1. tx[d].row # {} => rowLock'[tx[d].args.p] = {d}
    BY <1>12 DEF TxsOK, TxOK, RowHeld
  <2>2. d \in advisory' <=> d \in advisory
    BY <1>5, <1>12, <1>19
  <2> QED BY <1>12, <1>16, <1>19, <2>1, <2>2, Frame DEF TxsOK
<1>20. OneHolder' /\ CommittedOK'
  BY <1>12 DEF OneHolder, CommittedOK
<1>21. Linking'
  <2>1. Linked(chain \o tx[c].rows)'
    BY <1>9, <1>11, <1>12, <1>13, <1>16
  <2> QED BY <2>1, <1>12 DEF Linking
<1> QED BY <1>17, <1>18, <1>19, <1>20, <1>21 DEF TxsOK

-----------------------------------------------------------------------------
(* The commit                                                              *)

(* A commit replaces the one row the transaction wrote, if any.            *)
LEMMA CommitRow ==
    ASSUME RolloutInv, NEW c \in Callers, Commit(c)
    PROVE  /\ tx[c].row = {} => policy' = policy
           /\ tx[c].row # {} =>
                /\ tx[c].args.p \in Policies
                /\ \E r \in PolicyRows :
                     /\ RowOK(r) /\ Succeeds(tx[c].op, policy[tx[c].args.p], r)
                     /\ policy' = [policy EXCEPT ![tx[c].args.p] = r]
<1> USE DEF RolloutInv
<1>1. policy' = [p \in Policies |-> IF tx[c].row # {} /\ p = tx[c].args.p
                                    THEN CHOOSE r \in tx[c].row : TRUE ELSE policy[p]]
  BY DEF Commit
<1>2. policy \in [Policies -> PolicyRows] /\ TxOK(c)
  BY DEF Types, TxsOK
<1>3. CASE tx[c].row = {}
  <2>1. policy' = [p \in Policies |-> policy[p]]
    BY <1>1, <1>3
  <2> QED BY <2>1, <1>2, <1>3
<1>4. CASE tx[c].row # {}
  <2>1. tx[c].args.p \in Policies
    BY <1>2, <1>4 DEF TxOK, Course
  <2>2. PICK r \in PolicyRows : tx[c].row = {r} /\ RowOK(r) /\ Succeeds(tx[c].op, policy[tx[c].args.p], r)
    BY <1>2, <1>4 DEF TxOK, Buffered
  <2>3. (CHOOSE x \in tx[c].row : TRUE) = r
    BY <2>2
  <2>4. policy' = [p \in Policies |-> IF p = tx[c].args.p THEN r ELSE policy[p]]
    BY <1>1, <1>4, <2>3
  <2>5. policy' = [policy EXCEPT ![tx[c].args.p] = r]
    BY <2>4, <1>2
  <2> QED BY <1>4, <2>1, <2>2, <2>5
<1> QED BY <1>3, <1>4

(* While another transaction holds the advisory lock, only the caching of  *)
(* a simulation commits: no event, no anomaly, no state or definition.     *)
LEMMA CommitUnderLock ==
    ASSUME RolloutInv, NEW c \in Callers, Commit(c), c \notin advisory
    PROVE  /\ tx[c].op = "simulate" /\ tx[c].rows = <<>>
           /\ chain' = chain /\ anomaly' = anomaly
           /\ \A q \in Policies : policy'[q].state = policy[q].state /\ policy'[q].def = policy[q].def
<1> USE DEF RolloutInv
<1>1. TxOK(c) /\ tx[c].pc = "commit"
  BY DEF TxsOK, Commit
<1>2. tx[c].op = "simulate" /\ tx[c].rows = <<>> /\ tx[c].found = {}
  BY <1>1 DEF TxOK, AdvisoryHeld, Course
<1>3. chain' = chain /\ anomaly' = anomaly
  BY <1>2, ConcatEmptySeq DEF Commit, Types
<1>4. tx[c].row # {}
  BY <1>1, <1>2 DEF TxOK, Course, RowOps
<1>5. PICK r \in PolicyRows :
        Succeeds(tx[c].op, policy[tx[c].args.p], r) /\ policy' = [policy EXCEPT ![tx[c].args.p] = r]
  BY <1>4, CommitRow
<1>6. r.state = policy[tx[c].args.p].state /\ r.def = policy[tx[c].args.p].def
  BY <1>2, <1>5 DEF Succeeds
<1>7. ASSUME NEW q \in Policies
      PROVE  policy'[q].state = policy[q].state /\ policy'[q].def = policy[q].def
  BY <1>5, <1>6 DEF Types
<1> QED BY <1>2, <1>3, <1>7

LEMMA CommitStep ==
    ASSUME RolloutInv, NEW c \in Callers, Commit(c)
    PROVE  RolloutInv'
<1> USE DEF RolloutInv
<1>1. /\ anomaly' = anomaly \cup tx[c].found /\ chain' = chain \o tx[c].rows
      /\ tx' = [tx EXCEPT ![c] = Idle]
      /\ advisory' = advisory \ {c}
      /\ rowLock' = [p \in Policies |-> rowLock[p] \ {c}]
  BY DEF Commit, Locks
<1>2. tx'[c] = Idle /\ \A d \in Callers : d # c => tx'[d] = tx[d]
  BY <1>1 DEF Types
<1>3. TxOK(c) /\ tx[c] \in Transactions
  BY DEF TxsOK, Types
<1>4. policy' \in [Policies -> PolicyRows] /\ CommittedOK'
  <2>1. CASE tx[c].row = {}
    BY <2>1, CommitRow DEF Types, CommittedOK
  <2>2. CASE tx[c].row # {}
    <3>1. PICK r \in PolicyRows : RowOK(r) /\ policy' = [policy EXCEPT ![tx[c].args.p] = r]
      BY <2>2, CommitRow
    <3>2. policy' \in [Policies -> PolicyRows]
      BY <3>1 DEF Types
    <3>3. \A q \in Policies : policy'[q] = r \/ policy'[q] = policy[q]
      BY <3>1 DEF Types
    <3>4. \A q \in Policies : RowOK(policy'[q])
      BY <3>1, <3>3 DEF CommittedOK
    <3> QED BY <3>2, <3>4 DEF CommittedOK
  <2> QED BY <2>1, <2>2
<1>5. Types'
  <2>1. chain' \in Seq(ChainRows)
    BY <1>1, <1>3, ConcatProperties DEF Types, Transactions
  <2>2. anomaly' \subseteq Anomalies
    BY <1>1, <1>3 DEF Types, Transactions
  <2> QED BY <1>1, <1>4, <2>1, <2>2, IdleType DEF Types
<1>6. TxOK(c)'
  <2>1. Course(tx[c])' /\ AdvisoryHeld(c)'
    BY <1>1, <1>2 DEF Idle, Course, AdvisoryHeld, RowOps, LockedOps
  <2>2. \A p \in Policies : c \notin rowLock'[p]
    BY <1>1
  <2> QED BY <2>1, <2>2, <1>2, Bare DEF Idle
<1>7. ASSUME NEW d \in Callers, d # c PROVE TxOK(d)'
  <2>1. TxOK(d) /\ tx'[d] = tx[d] /\ (d \in advisory' <=> d \in advisory)
    BY <1>1, <1>2, <1>7 DEF TxsOK
  <2>2. d \in advisory => c \notin advisory
    BY <1>7 DEF OneHolder
  <2>3. tx[d].row # {} => tx[d].args.p \in Policies /\ rowLock[tx[d].args.p] = {d}
    BY <2>1 DEF TxOK, RowHeld, Course
  <2>4. Course(tx[d])' /\ AdvisoryHeld(d)'
    BY <2>1 DEF TxOK, AdvisoryHeld
  <2>5. RowHeld(d)'
    <3>1. \A p \in Policies : d \in rowLock'[p] => d \in rowLock[p]
      BY <1>1
    <3>2. tx[d].row # {} => rowLock'[tx[d].args.p] = {d}
      BY <1>1, <1>7, <2>3
    <3> QED BY <2>1, <3>1, <3>2 DEF TxOK, RowHeld
  <2>6. Buffered(d)'
    <3>1. tx[d].row # {} => policy'[tx[d].args.p] = policy[tx[d].args.p]
      <4>1. CASE tx[c].row = {}
        BY <4>1, CommitRow
      <4>2. CASE tx[c].row # {}
        <5>1. tx[c].args.p \in Policies /\ rowLock[tx[c].args.p] = {c}
          BY <4>2, <1>3 DEF TxOK, RowHeld, Course
        <5>2. tx[d].row # {} => tx[d].args.p # tx[c].args.p
          BY <5>1, <2>3, <1>7
        <5> QED BY <4>2, <5>2, <2>3, CommitRow DEF Types
      <4> QED BY <4>1, <4>2
    <3> QED BY <2>1, <3>1 DEF TxOK, Buffered
  <2>7. RowPlan(d)'
    <3>1. CASE d \in advisory
      <4>1. \A q \in Policies : policy'[q].state = policy[q].state /\ policy'[q].def = policy[q].def
        BY <2>2, <3>1, CommitUnderLock
      <4>2. \A p, def : hardConflicts(p, def)' = hardConflicts(p, def)
        BY <4>1 DEF hardConflicts
      <4>3. tx[d].row # {} => policy'[tx[d].args.p].def = policy[tx[d].args.p].def
        BY <2>3, <4>1
      <4>4. \A e : tx[d].row # {} /\ RowEvent(d, e) => RowEvent(d, e)'
        BY <2>1, <4>2, <4>3 DEF RowEvent
      <4> QED BY <2>1, <4>4 DEF TxOK, RowPlan
    <3>2. CASE d \notin advisory
      <4>1. tx[d].row # {} => tx[d].op # "promote"
        BY <2>1, <3>2 DEF TxOK, AdvisoryHeld, Course, LockedOps
      <4>2. \A e : tx[d].row # {} /\ RowEvent(d, e) => RowEvent(d, e)'
        BY <2>1, <4>1 DEF RowEvent
      <4> QED BY <2>1, <4>2 DEF TxOK, RowPlan
    <3> QED BY <3>1, <3>2
  <2>8. AppendPlan(d)'
    BY <2>1 DEF TxOK, AppendPlan
  <2>9. SweepPlan(d)'
    <3> SUFFICES ASSUME tx[d].op = "detect", tx[d].pc \in {"audit", "commit"} PROVE SweepPlan(d)'
      BY <2>1 DEF SweepPlan
    <3>1. d \in advisory
      BY <2>1 DEF TxOK, AdvisoryHeld, LockedOps
    <3>2. anomaly' = anomaly
      BY <2>2, <3>1, CommitUnderLock
    <3>3. \A s : Sweeping(d, s)' <=> Sweeping(d, s)
      BY <2>1 DEF Sweeping
    <3> QED BY <2>1, <3>2, <3>3 DEF TxOK, SweepPlan
  <2> QED BY <2>1, <2>4, <2>5, <2>6, <2>7, <2>8, <2>9 DEF TxOK
<1>8. OneHolder'
  BY <1>1 DEF OneHolder
<1>9. Linking'
  <2>1. CASE c \in advisory
    <3>1. Linked(chain')
      BY <1>1, <2>1 DEF Linking
    <3>2. advisory' = {}
      BY <1>1, <2>1 DEF OneHolder
    <3> QED BY <3>1, <3>2 DEF Linking
  <2>2. CASE c \notin advisory
    <3>1. chain' = chain /\ \A d \in advisory' : d \in advisory /\ tx'[d] = tx[d]
      BY <1>1, <1>2, <2>2, CommitUnderLock DEF Types
    <3> QED BY <3>1 DEF Linking
  <2> QED BY <2>1, <2>2
<1> QED BY <1>4, <1>5, <1>6, <1>7, <1>8, <1>9 DEF TxsOK

-----------------------------------------------------------------------------
(* The operations on a row                                                 *)

(* What loadPolicyTx leaves the caller with.                               *)
LEMMA LoadedRow ==
    ASSUME RolloutInv, NEW c \in Callers, NEW op \in RowOps, Loaded(c, op)
    PROVE  /\ tx[c].pc = "load" /\ tx[c].op = op /\ tx[c].args.p \in Policies
           /\ policy[tx[c].args.p].state # "none" => rowLock[tx[c].args.p] = {}
           /\ policy[tx[c].args.p] \in PolicyRows /\ RowOK(policy[tx[c].args.p])
<1>1. tx[c].pc = "load" /\ tx[c].op = op /\ tx[c].args.p \in Policies
  BY DEF RolloutInv, TxsOK, TxOK, Course, Loaded
<1> QED BY <1>1 DEF RolloutInv, Types, CommittedOK, Loaded, RowHolder, Nobody

LEMMA UpdateDraftStep ==
    ASSUME RolloutInv, NEW c \in Callers, UpdateDraft(c)
    PROVE  RolloutInv'
<1> USE DEF RolloutInv
<1>1. PICK p : p = tx[c].args.p
  OBVIOUS
<1>2. Loaded(c, "update")
  BY DEF UpdateDraft
<1>3. /\ tx[c].pc = "load" /\ tx[c].op = "update" /\ p \in Policies
      /\ policy[p].state # "none" => rowLock[p] = {}
      /\ policy[p] \in PolicyRows /\ RowOK(policy[p])
  BY <1>1, <1>2, LoadedRow DEF RowOps
<1>4. CASE Editable(p)
  <2>1. PICK row : row = [policy[p] EXCEPT !.def = tx[c].args.def, !.impact = NoImpact]
    OBVIOUS
  <2>2. PICK e : e = AuditEvent("policy.draft_updated", p)
    OBVIOUS
  <2>3. Write(c, p, row, <<e>>)
    BY <1>1, <1>4, <2>1, <2>2 DEF UpdateDraft
  <2>4. tx[c].args.def \in Defs
    BY <1>3 DEF TxsOK, TxOK, Course
  <2>5. row \in PolicyRows /\ RowOK(row) /\ Succeeds("update", policy[p], row)
    BY <1>3, <1>4, <2>1, <2>4 DEF PolicyRows, States, RowOK, Succeeds, Editable, NoImpact
  <2>6. e \in Events
    BY <1>3, <2>2 DEF Events, AuditEvent
  <2>7. RowEvent(c, e)
    BY <1>1, <1>3, <2>2 DEF RowEvent, AuditEvent, PromotionActions
  <2> QED BY <1>1, <1>3, <1>4, <2>3, <2>5, <2>6, <2>7, WriteStep DEF Editable, RowOps
<1>5. CASE ~Editable(p)
  BY <1>1, <1>5, RollbackStep DEF UpdateDraft
<1> QED BY <1>4, <1>5

LEMMA PromoteStep ==
    ASSUME RolloutInv, NEW c \in Callers, Promote(c)
    PROVE  RolloutInv'
<1> USE DEF RolloutInv
<1>1. PICK p : p = tx[c].args.p
  OBVIOUS
<1>2. Loaded(c, "promote")
  BY DEF Promote
<1>3. /\ tx[c].pc = "load" /\ tx[c].op = "promote" /\ p \in Policies
      /\ policy[p].state # "none" => rowLock[p] = {}
      /\ policy[p] \in PolicyRows /\ RowOK(policy[p])
  BY <1>1, <1>2, LoadedRow DEF RowOps
<1>4. PICK toxic \in BOOLEAN :
        IF Promotable(p, tx[c].args.force, toxic)
        THEN Write(c, p, [policy[p] EXCEPT !.state = "active", !.impact = NoImpact],
                   <<AuditEvent(IF Blocked(p, toxic) THEN "policy.promoted_with_override"
                                                ELSE "policy.promoted", p)>>)
        ELSE Rollback(c)
  BY <1>1 DEF Promote
<1>5. CASE Promotable(p, tx[c].args.force, toxic)
  <2>1. PICK row : row = [policy[p] EXCEPT !.state = "active", !.impact = NoImpact]
    OBVIOUS
  <2>2. PICK e : e = AuditEvent(IF Blocked(p, toxic) THEN "policy.promoted_with_override"
                                                ELSE "policy.promoted", p)
    OBVIOUS
  <2>3. Write(c, p, row, <<e>>)
    BY <1>4, <1>5, <2>1, <2>2
  <2>4. policy[p].state = "draft"
    BY <1>5 DEF Promotable
  <2>5. row \in PolicyRows /\ RowOK(row) /\ Succeeds("promote", policy[p], row)
    BY <1>3, <2>1, <2>4 DEF PolicyRows, States, RowOK, Succeeds, NoImpact
  <2>6. e \in Events /\ e.target = p /\ e.action \in PromotionActions
    BY <1>3, <2>2 DEF Events, AuditEvent, PromotionActions
  <2>7. e.action = "policy.promoted" => hardConflicts(p, policy[p].def) = {}
    BY <2>2 DEF AuditEvent, Blocked
  <2>8. RowEvent(c, e)
    BY <1>1, <1>3, <2>6, <2>7 DEF RowEvent
  <2> QED BY <1>1, <1>3, <2>3, <2>4, <2>5, <2>6, <2>8, WriteStep DEF RowOps
<1>6. CASE ~Promotable(p, tx[c].args.force, toxic)
  BY <1>4, <1>6, RollbackStep
<1> QED BY <1>5, <1>6

LEMMA ArchiveStep ==
    ASSUME RolloutInv, NEW c \in Callers, Archive(c)
    PROVE  RolloutInv'
<1> USE DEF RolloutInv
<1>1. PICK p : p = tx[c].args.p
  OBVIOUS
<1>2. Loaded(c, "archive")
  BY DEF Archive
<1>3. /\ tx[c].pc = "load" /\ tx[c].op = "archive" /\ p \in Policies
      /\ policy[p].state # "none" => rowLock[p] = {}
      /\ policy[p] \in PolicyRows /\ RowOK(policy[p])
  BY <1>1, <1>2, LoadedRow DEF RowOps
<1>4. CASE policy[p].state \in {"draft", "active"}
  <2>1. PICK row : row = [policy[p] EXCEPT !.state = "archived"]
    OBVIOUS
  <2>2. PICK e : e = AuditEvent("policy.archived", p)
    OBVIOUS
  <2>3. Write(c, p, row, <<e>>)
    BY <1>1, <1>4, <2>1, <2>2 DEF Archive
  <2>4. row \in PolicyRows /\ RowOK(row) /\ Succeeds("archive", policy[p], row)
    BY <1>3, <1>4, <2>1 DEF PolicyRows, States, RowOK, Succeeds
  <2>5. e \in Events
    BY <1>3, <2>2 DEF Events, AuditEvent
  <2>6. RowEvent(c, e)
    BY <1>1, <1>3, <2>2 DEF RowEvent, AuditEvent, PromotionActions
  <2> QED BY <1>1, <1>3, <1>4, <2>3, <2>4, <2>5, <2>6, WriteStep DEF RowOps
<1>5. CASE policy[p].state \notin {"draft", "active"}
  BY <1>1, <1>5, RollbackStep DEF Archive
<1> QED BY <1>4, <1>5

LEMMA SimulateCacheStep ==
    ASSUME RolloutInv, NEW c \in Callers, SimulateCache(c)
    PROVE  RolloutInv'
<1> USE DEF RolloutInv
<1>1. PICK p : p = tx[c].args.p
  OBVIOUS
<1>2. Loaded(c, "simulate")
  BY DEF SimulateCache
<1>3. /\ tx[c].pc = "load" /\ tx[c].op = "simulate" /\ p \in Policies
      /\ policy[p].state # "none" => rowLock[p] = {}
      /\ policy[p] \in PolicyRows /\ RowOK(policy[p])
  BY <1>1, <1>2, LoadedRow DEF RowOps
<1>4. CASE Unedited(c)
  <2>1. PICK row : row = [policy[p] EXCEPT !.impact = tx[c].args.def]
    OBVIOUS
  <2>2. Write(c, p, row, <<>>)
    BY <1>1, <1>4, <2>1 DEF SimulateCache
  <2>3. tx[c].args.def \in Defs
    BY <1>3 DEF TxsOK, TxOK, Course
  <2>4. policy[p].state = "draft" /\ policy[p].def = tx[c].args.def
    BY <1>1, <1>4 DEF Unedited
  <2>5. row \in PolicyRows /\ RowOK(row) /\ Succeeds("simulate", policy[p], row)
    BY <1>3, <2>1, <2>3, <2>4 DEF PolicyRows, States, RowOK, Succeeds
  <2> QED BY <1>1, <1>3, <2>2, <2>4, <2>5, WriteStep DEF RowOps
<1>5. CASE ~Unedited(c)
  BY <1>1, <1>5, RollbackStep DEF SimulateCache
<1> QED BY <1>4, <1>5

-----------------------------------------------------------------------------
(* The invariant                                                           *)

LEMMA InitInv == Init => RolloutInv
<1> SUFFICES ASSUME Init PROVE RolloutInv
  OBVIOUS
<1>1. Types
  BY IdleType, EmptySeq DEF Init, Types, Missing, PolicyRows, States, NoImpact, Nobody
<1>2. OneHolder /\ CommittedOK
  BY DEF Init, OneHolder, CommittedOK, RowOK, Missing, Nobody
<1>3. ASSUME NEW c \in Callers PROVE TxOK(c)
  <2>1. tx[c] = Idle /\ advisory = {} /\ \A p \in Policies : rowLock[p] = {}
    BY DEF Init, Nobody
  <2>2. Course(tx[c]) /\ AdvisoryHeld(c) /\ RowHeld(c)
    BY <2>1 DEF Idle, Course, AdvisoryHeld, RowHeld, RowOps, LockedOps
  <2>3. Buffered(c) /\ RowPlan(c) /\ AppendPlan(c) /\ SweepPlan(c)
    BY <2>1 DEF Idle, Buffered, RowPlan, AppendPlan, SweepPlan
  <2> QED BY <2>2, <2>3 DEF TxOK
<1>4. Linking
  BY EmptySeq DEF Init, Linking, Linked, Nobody
<1> QED BY <1>1, <1>2, <1>3, <1>4 DEF RolloutInv, TxsOK

LEMMA SimulateReadStep ==
    ASSUME RolloutInv, NEW c \in Callers, SimulateRead(c)
    PROVE  RolloutInv'
<1>1. PICK p \in Policies :
        policy[p].state = "draft" /\ Begin(c, "simulate", [p |-> p, def |-> policy[p].def], "load")
  BY DEF SimulateRead
<1>2. PICK def : def = policy[p].def
  OBVIOUS
<1>3. def \in Defs
  BY <1>1, <1>2 DEF RolloutInv, CommittedOK, RowOK
<1>4. Beginning("simulate", [p |-> p, def |-> def], "load")
  BY <1>3 DEF Beginning
<1>5. Begin(c, "simulate", [p |-> p, def |-> def], "load")
  BY <1>1, <1>2
<1> QED BY <1>4, <1>5, BeginStep

LEMMA BeginSteps ==
    ASSUME RolloutInv, NEW c \in Callers,
           BeginUpdate(c) \/ BeginPromote(c) \/ BeginArchive(c) \/ BeginAppend(c) \/ DetectRead(c)
    PROVE  RolloutInv'
<1>1. CASE BeginUpdate(c)
  <2>1. PICK p \in Policies, d \in Defs : Begin(c, "update", [p |-> p, def |-> d], "lock")
    BY <1>1 DEF BeginUpdate
  <2>2. Beginning("update", [p |-> p, def |-> d], "lock")
    BY DEF Beginning
  <2> QED BY <2>1, <2>2, BeginStep
<1>2. CASE BeginPromote(c)
  <2>1. PICK p \in Policies, f \in BOOLEAN : Begin(c, "promote", [p |-> p, force |-> f], "lock")
    BY <1>2 DEF BeginPromote
  <2>2. Beginning("promote", [p |-> p, force |-> f], "lock")
    BY DEF Beginning
  <2> QED BY <2>1, <2>2, BeginStep
<1>3. CASE BeginArchive(c)
  <2>1. PICK p \in Policies : Begin(c, "archive", [p |-> p], "lock")
    BY <1>3 DEF BeginArchive
  <2>2. Beginning("archive", [p |-> p], "lock")
    BY DEF Beginning
  <2> QED BY <2>1, <2>2, BeginStep
<1>4. CASE BeginAppend(c)
  <2>1. Beginning("append", [p |-> "none"], "audit")
    BY DEF Beginning
  <2> QED BY <1>4, <2>1, BeginStep DEF BeginAppend
<1>5. CASE DetectRead(c)
  <2>1. PICK found \in SUBSET Anomalies : Begin(c, "detect", [p |-> "none", found |-> found], "lock")
    BY <1>5 DEF DetectRead
  <2>2. Beginning("detect", [p |-> "none", found |-> found], "lock")
    BY DEF Beginning
  <2> QED BY <2>1, <2>2, BeginStep
<1> QED BY <1>1, <1>2, <1>3, <1>4, <1>5

LEMMA NextInv == RolloutInv /\ [Next]_vars => RolloutInv'
<1> SUFFICES ASSUME RolloutInv, [Next]_vars PROVE RolloutInv'
  OBVIOUS
<1>1. CASE UNCHANGED vars
  <2>1. \A c \in Callers : TxOK(c)'
    BY <1>1, Frame DEF vars, RolloutInv, TxsOK, TxOK, RowHeld
  <2> QED BY <1>1, <2>1 DEF vars, RolloutInv, Types, OneHolder, CommittedOK, TxsOK, Linking
<1>2. CASE Next
  <2>1. PICK c \in Callers :
         \/ BeginUpdate(c) \/ BeginPromote(c) \/ BeginArchive(c) \/ BeginAppend(c)
         \/ CreatePolicyTx(c) \/ SimulateRead(c) \/ DetectRead(c)
         \/ lockWorkspace(c) \/ UpdateDraft(c) \/ Promote(c) \/ Archive(c)
         \/ SimulateCache(c) \/ DetectRecord(c) \/ appendAudit(c) \/ Commit(c) \/ Abort(c)
    BY <1>2 DEF Next
  <2>2. CASE Abort(c)
    BY <2>2, RollbackStep DEF Abort
  <2> QED BY <2>1, <2>2, BeginSteps, CreateStep, SimulateReadStep, LockStep, UpdateDraftStep,
             PromoteStep, ArchiveStep, SimulateCacheStep, DetectStep, AppendStep, CommitStep
<1> QED BY <1>1, <1>2

(* RolloutInv holds of every reachable state.                              *)
THEOREM RolloutInvariant == Spec => []RolloutInv
BY InitInv, NextInv, PTL DEF Spec

(* The rows hold what their columns may, for any number of policies and    *)
(* callers, and only an open transaction holds a lock.                     *)
THEOREM RolloutTypeCorrect == Spec => []TypeOK
<1>1. RolloutInv => TypeOK
  <2> SUFFICES ASSUME RolloutInv PROVE TypeOK
    OBVIOUS
  <2> USE DEF RolloutInv
  <2>1. ASSUME NEW p \in Policies
        PROVE  /\ policy[p].state \in {"none", "draft", "active", "archived"}
               /\ policy[p].def \in Defs \cup {NoDef}
               /\ policy[p].impact \in Defs \cup {NoImpact}
               /\ rowLock[p] \subseteq Callers
    BY DEF Types, PolicyRows, States, NoImpact
  <2>2. ASSUME NEW p \in Policies PROVE Cardinality(rowLock[p]) <= 1
    <3>1. CASE rowLock[p] = {}
      BY <3>1, FS_EmptySet
    <3>2. CASE rowLock[p] # {}
      <4>1. PICK c \in Callers : c \in rowLock[p]
        BY <3>2, <2>1
      <4>2. rowLock[p] = {c}
        BY <4>1 DEF TxsOK, TxOK, RowHeld
      <4>3. Cardinality({c}) = 1
        BY FS_Singleton
      <4> QED BY <4>2, <4>3
    <3> QED BY <3>1, <3>2
  <2>3. ASSUME NEW c \in Callers
        PROVE  /\ tx[c].pc \in {"idle", "lock", "load", "record", "audit", "commit"}
               /\ tx[c].pc = "idle" => c \notin advisory /\ \A p \in Policies : c \notin rowLock[p]
    BY IdleHoldsNothing DEF Types, Transactions, Steps
  <2>4. anomaly \subseteq Anomalies
    BY DEF Types
  <2> QED BY <2>1, <2>2, <2>3, <2>4 DEF TypeOK
<1> QED BY <1>1, RolloutInvariant, PTL

(* A cached impact is always that of the definition beside it and a live   *)
(* policy carries none, for any number of simulations, edits and           *)
(* promotions in flight (Simulate's guard under the row lock).             *)
THEOREM CachedImpactTrue == Spec => []ImpactFresh
<1>1. RolloutInv => ImpactFresh
  BY DEF RolloutInv, CommittedOK, RowOK, ImpactFresh
<1> QED BY <1>1, RolloutInvariant, PTL

(* No set of transactions, however many, waits for itself: whoever holds a *)
(* row somebody waits for has the advisory lock or is about to commit.     *)
THEOREM NoDeadlock == Spec => []NoLockCycle
<1>1. RolloutInv => NoLockCycle
  <2> SUFFICES ASSUME RolloutInv, NEW S \in SUBSET Callers, S # {}
               PROVE  \E c \in S : \A d \in S : ~WaitsFor(c, d)
    BY DEF NoLockCycle
  <2> USE DEF RolloutInv
  <2>1. ASSUME NEW c \in Callers, NEW d \in Callers, WaitsFor(c, d)
        PROVE  /\ d # c /\ tx[c].pc # "commit"
               /\ d \in advisory \/ tx[d].pc = "commit"
    <3>1. d # c /\ tx[c].pc # "commit"
      BY <2>1 DEF WaitsFor
    <3>2. CASE d \in advisory
      BY <3>1, <3>2
    <3>3. CASE tx[c].pc = "load" /\ d \in RowHolder(c)
      <4>1. PICK p : p = tx[c].args.p
        OBVIOUS
      <4>2. policy[p].state # "none" /\ d \in rowLock[p]
        BY <3>3, <4>1 DEF RowHolder, Nobody
      <4>3. p \in Policies
        BY <3>3, <4>1 DEF TxsOK, TxOK, Course, Types, Transactions, Ops, RowOps
      <4>4. tx[d].row # {} /\ tx[d].args.p = p /\ tx[d].op \in RowOps /\ tx[d].pc \in {"audit", "commit"}
        BY <4>2, <4>3 DEF TxsOK, TxOK, RowHeld, Course
      <4>5. tx[d].op # "create"
        BY <4>2, <4>4 DEF TxsOK, TxOK, Buffered, Succeeds
      <4>6. d \in advisory \/ tx[d].pc = "commit"
        BY <4>4, <4>5 DEF TxsOK, TxOK, AdvisoryHeld, Course, RowOps, LockedOps
      <4> QED BY <3>1, <3>3, <4>6
    <3> QED BY <2>1, <3>2, <3>3 DEF WaitsFor
  <2>2. CASE \E c \in S : tx[c].pc = "commit"
    BY <2>1, <2>2
  <2>3. CASE \A c \in S : tx[c].pc # "commit"
    <3>1. CASE \E c \in S : c \in advisory
      <4>1. PICK c \in S : c \in advisory
        BY <3>1
      <4>2. ASSUME NEW d \in S, WaitsFor(c, d) PROVE FALSE
        <5>1. d # c /\ d \in advisory
          BY <2>1, <2>3, <4>1, <4>2
        <5> QED BY <4>1, <5>1 DEF OneHolder
      <4> QED BY <4>2
    <3>2. CASE \A c \in S : c \notin advisory
      BY <2>1, <2>3, <3>2
    <3> QED BY <3>1, <3>2
  <2> QED BY <2>2, <2>3
<1> QED BY <1>1, RolloutInvariant, PTL

(* The full verification accepts the chain, and the incremental one from   *)
(* every head ever anchored on, for any number of appenders and failures.  *)
THEOREM ChainAlwaysVerifies == Spec => []VerifierNeverAlarms
<1>1. RolloutInv => VerifierNeverAlarms
  <2> SUFFICES ASSUME RolloutInv, NEW a \in Rows \cup {Start}
               PROVE  HeadVerdict(chain, a) = "scan" /\ ScanVerdict(chain, a) = "consistent"
    BY DEF VerifierNeverAlarms
  <2>1. chain \in Seq(ChainRows) /\ Linked(chain)
    BY DEF RolloutInv, Types, Linking
  <2>2. PICK n : n = Len(chain)
    OBVIOUS
  <2>3. n \in Nat /\ DOMAIN chain = 1 .. n
    BY <2>1, <2>2, LenProperties
  <2>4. \A i \in 1 .. n : /\ chain[i].seq = i
                         /\ chain[i].prev = (IF i = 1 THEN Genesis ELSE chain[i - 1].hash)
                         /\ chain[i].hash = ChainHash(chain[i].prev, chain[i].event)
    BY <2>1, <2>2 DEF Linked, ChainHash
  <2>5. PICK k \in 0 .. n : a.seq = k /\ a.hash = (IF k = 0 THEN Genesis ELSE chain[k].hash)
    <3>1. CASE a = Start
      <4>1. 0 \in 0 .. n /\ a.seq = 0 /\ a.hash = Genesis
        BY <3>1, <2>3 DEF Start
      <4> QED BY <4>1
    <3>2. CASE a \in Rows
      <4>1. PICK i \in 1 .. n : a = chain[i]
        BY <3>2, <2>3 DEF Rows
      <4>2. i \in 0 .. n /\ i # 0
        BY <2>3
      <4> QED BY <4>1, <4>2, <2>4
    <3> QED BY <3>1, <3>2
  <2>6. HeadOf(chain).seq = n /\ HeadOf(chain).hash = (IF n = 0 THEN Genesis ELSE chain[n].hash)
    <3>1. CASE chain = <<>>
      <4>1. n = 0
        BY <3>1, <2>2, EmptySeq
      <4>2. HeadOf(chain) = Start
        BY <3>1, <2>1, HeadOfLinked
      <4> QED BY <4>1, <4>2 DEF Start
    <3>2. CASE chain # <<>>
      <4>1. n \in 1 .. n /\ HeadOf(chain) = chain[n]
        BY <3>2, <2>1, <2>2, <2>3, HeadOfLinked, EmptySeq
      <4> QED BY <4>1, <2>3, <2>4
    <3> QED BY <3>1, <3>2
  <2>7. HeadVerdict(chain, a) = "scan"
    <3>1. ~(a.seq > HeadOf(chain).seq)
      BY <2>3, <2>5, <2>6
    <3>2. ~(a.seq = HeadOf(chain).seq /\ a.hash # HeadOf(chain).hash)
      BY <2>3, <2>5, <2>6
    <3> QED BY <3>1, <3>2 DEF HeadVerdict
  <2>8. Scans(chain, a)
    <3> DEFINE suffix == {i \in DOMAIN chain : chain[i].seq > a.seq}
               At(m) == {r \in {chain[i] : i \in suffix} : r.seq = a.seq + m}
    <3>1. suffix = k + 1 .. n
      BY <2>3, <2>4, <2>5
    <3>2. Cardinality(suffix) = n - k
      <4>1. k + 1 \in Int /\ n \in Int
        BY <2>3
      <4>2. Cardinality(k + 1 .. n) = IF k + 1 > n THEN 0 ELSE n - (k + 1) + 1
        BY <4>1, FS_Interval
      <4>3. (IF k + 1 > n THEN 0 ELSE n - (k + 1) + 1) = n - k
        BY <2>3
      <4> QED BY <3>1, <4>2, <4>3
    <3>3. \A m \in 1 .. n - k : k + m \in 1 .. n /\ k + m \in suffix
      BY <3>1, <2>3
    <3>4. \A m \in 1 .. n - k : chain[k + m] \in At(m)
      BY <3>3, <2>4, <2>5
    <3> HIDE DEF suffix, At
    <3>5. ASSUME NEW m \in 1 .. n - k
          PROVE  \E r \in At(m) :
                   /\ r.hash = ChainHash(r.prev, r.event)
                   /\ IF m = 1 THEN r.prev = a.hash
                               ELSE \E q \in At(m - 1) : r.prev = q.hash
      <4>1. chain[k + m].hash = ChainHash(chain[k + m].prev, chain[k + m].event)
        BY <3>3, <2>4
      <4>2. CASE m = 1
        <5>1. k + 1 \in 1 .. n /\ (k + 1 = 1 <=> k = 0) /\ (k + 1) - 1 = k
          BY <3>3, <4>2
        <5>2. chain[k + 1].prev = a.hash
          BY <5>1, <2>4, <2>5
        <5> QED BY <4>1, <4>2, <5>2, <3>4
      <4>3. CASE m # 1
        <5>1. m - 1 \in 1 .. n - k /\ k + m # 1 /\ (k + m) - 1 = k + (m - 1)
          BY <4>3, <2>3
        <5>2. chain[k + m].prev = chain[k + (m - 1)].hash
          BY <5>1, <3>3, <2>4
        <5> QED BY <4>1, <4>3, <5>1, <5>2, <3>4
      <4> QED BY <4>2, <4>3
    <3>6. \A m \in 1 .. Cardinality(suffix) :
            \E r \in At(m) :
                   /\ r.hash = ChainHash(r.prev, r.event)
                   /\ IF m = 1 THEN r.prev = a.hash
                               ELSE \E q \in At(m - 1) : r.prev = q.hash
      BY <3>2, <3>5
    <3> QED BY <3>6 DEF Scans, suffix, At
  <2> QED BY <2>7, <2>8 DEF ScanVerdict
<1> QED BY <1>1, RolloutInvariant, PTL

-----------------------------------------------------------------------------
(* What the chain records                                                  *)

(* In the evidence of a sweep every finding has each of its two events     *)
(* once, and nothing else has any.                                         *)
LEMMA EvidenceUnique ==
    ASSUME NEW S, IsFiniteSet(S), NEW s \in Orders(S), NEW f,
           NEW a \in {"orphan.detected", "orphan.disposition.flagged"}
    PROVE  /\ f \in S => \E i \in 1 .. 2 * Cardinality(S) : Recorded(s, i) = AuditEvent(a, f)
           /\ \A i \in 1 .. 2 * Cardinality(S) : Recorded(s, i) = AuditEvent(a, f) => f \in S
           /\ \A i, j \in 1 .. 2 * Cardinality(S) :
                Recorded(s, i) = AuditEvent(a, f) /\ Recorded(s, j) = AuditEvent(a, f) => i = j
<1> DEFINE n == Cardinality(S)
<1>1. n \in Nat
  BY FS_CardinalityType
<1>2. s \in [1 .. n -> S] /\ \A x \in S : \E k \in 1 .. n : s[k] = x
  BY DEF Orders
<1>3. \A k, l \in 1 .. n : s[k] = s[l] => k = l
  <2>1. IsFiniteSet(1 .. n) /\ Cardinality(1 .. n) = n
    BY <1>1, FS_Interval
  <2>2. s \in Surjection(1 .. n, S)
    BY <1>2 DEF Surjection
  <2>3. s \in Injection(1 .. n, S)
    BY <2>1, <2>2, FS_SurjSameCardinalityImpliesInj
  <2> QED BY <2>3 DEF Injection, IsInjective
<1> HIDE DEF n
<1> DEFINE at(i) == IF i % 2 = 1 THEN (i + 1) \div 2 ELSE i \div 2
<1>4. ASSUME NEW i \in 1 .. 2 * n
      PROVE  /\ at(i) \in 1 .. n
             /\ i % 2 = 1 => i = 2 * at(i) - 1
             /\ i % 2 # 1 => i = 2 * at(i)
  BY <1>1
<1>5. ASSUME NEW k \in 1 .. n
      PROVE  /\ 2 * k - 1 \in 1 .. 2 * n /\ (2 * k - 1) % 2 = 1 /\ at(2 * k - 1) = k
             /\ 2 * k \in 1 .. 2 * n /\ (2 * k) % 2 = 0 /\ at(2 * k) = k
  BY <1>1
<1>6. \A i \in 1 .. 2 * n :
        Recorded(s, i) = AuditEvent(IF i % 2 = 1 THEN "orphan.detected" ELSE "orphan.disposition.flagged", s[at(i)])
  BY DEF Recorded
<1> HIDE DEF at
<1>7. \A i \in 1 .. 2 * n : Recorded(s, i) = AuditEvent(a, f) <=>
        (a = "orphan.detected" <=> i % 2 = 1) /\ s[at(i)] = f
  BY <1>6 DEF AuditEvent
<1>8. ASSUME f \in S PROVE \E i \in 1 .. 2 * n : Recorded(s, i) = AuditEvent(a, f)
  <2>1. PICK k \in 1 .. n : s[k] = f
    BY <1>2, <1>8
  <2>2. CASE a = "orphan.detected"
    BY <2>1, <2>2, <1>5, <1>7
  <2>3. CASE a # "orphan.detected"
    BY <2>1, <2>3, <1>5, <1>7
  <2> QED BY <2>2, <2>3
<1>9. \A i \in 1 .. 2 * n : Recorded(s, i) = AuditEvent(a, f) => f \in S
  BY <1>2, <1>4, <1>7
<1>10. ASSUME NEW i \in 1 .. 2 * n, NEW j \in 1 .. 2 * n,
              Recorded(s, i) = AuditEvent(a, f), Recorded(s, j) = AuditEvent(a, f)
       PROVE  i = j
  <2>1. (i % 2 = 1 <=> j % 2 = 1) /\ at(i) = at(j)
    BY <1>3, <1>4, <1>7, <1>10
  <2> QED BY <2>1, <1>4
<1> QED BY <1>8, <1>9, <1>10 DEF n

(* Where an event is after a commit: where it was, or among the rows of    *)
(* the transaction.                                                        *)
LEMMA CommittedRows ==
    ASSUME RolloutInv, NEW c \in Callers, Commit(c)
    PROVE  /\ Len(chain) \in Nat /\ Len(tx[c].rows) \in Nat
           /\ Len(chain') = Len(chain) + Len(tx[c].rows)
           /\ \A i \in 1 .. Len(chain) : chain'[i] = chain[i]
           /\ \A i \in 1 .. Len(tx[c].rows) : chain'[Len(chain) + i] = tx[c].rows[i]
<1>1. chain \in Seq(ChainRows) /\ tx[c].rows \in Seq(ChainRows) /\ chain' = chain \o tx[c].rows
  BY DEF RolloutInv, Types, Transactions, Commit
<1>2. Len(chain) \in Nat /\ Len(tx[c].rows) \in Nat
  BY <1>1, LenProperties
<1> QED BY <1>1, <1>2, ConcatProperties

(* Nobody but a sweep records an anomaly, and nobody but a promotion a     *)
(* promotion.                                                              *)
LEMMA RowEvents ==
    ASSUME RolloutInv, NEW c \in Callers, tx[c].pc = "commit", NEW i \in 1 .. Len(tx[c].rows)
    PROVE  /\ tx[c].op # "detect" =>
                tx[c].rows[i].event.action \notin {"orphan.detected", "orphan.disposition.flagged"}
           /\ tx[c].op # "promote" => tx[c].rows[i].event.action \notin PromotionActions
           /\ tx[c].op = "promote" => /\ i = 1 /\ Len(tx[c].rows) = 1
                                      /\ RowEvent(c, tx[c].rows[1].event)
<1>1. TxOK(c) /\ tx[c] \in Transactions
  BY DEF RolloutInv, TxsOK, Types
<1>2. CASE tx[c].op \in RowOps
  <2>1. tx[c].row # {}
    BY <1>1, <1>2 DEF TxOK, Course
  <2>2. tx[c].op # "simulate"
    <3>1. tx[c].op = "simulate" => tx[c].rows = <<>>
      BY <1>1, <2>1 DEF TxOK, RowPlan
    <3> QED BY <3>1, EmptySeq
  <2>3. Len(tx[c].rows) = 1 /\ RowEvent(c, tx[c].rows[1].event)
    BY <1>1, <2>1, <2>2 DEF TxOK, RowPlan
  <2>4. i = 1
    BY <2>3
  <2> QED BY <1>2, <2>3, <2>4 DEF RowEvent, RowOps, PromotionActions
<1>3. CASE tx[c].op = "append"
  <2>1. Len(tx[c].rows) = 1 /\ tx[c].rows[1].event = SessionEvent
    BY <1>1, <1>3 DEF TxOK, AppendPlan
  <2>2. i = 1
    BY <2>1
  <2> QED BY <1>3, <2>1, <2>2 DEF SessionEvent, AuditEvent, PromotionActions
<1>4. CASE tx[c].op = "detect"
  <2>1. PICK s \in Orders(tx[c].found) : Sweeping(c, s)
    BY <1>1, <1>4 DEF TxOK, SweepPlan
  <2>2. tx[c].rows[i].event = Recorded(s, i)
    BY <2>1 DEF Sweeping
  <2> QED BY <1>4, <2>2 DEF Recorded, AuditEvent, PromotionActions
<1>5. tx[c].op # "none"
  BY <1>1 DEF TxOK, Course
<1> QED BY <1>1, <1>2, <1>3, <1>4, <1>5 DEF Transactions, Ops, RowOps

LEMMA EvidenceStep ==
    ASSUME RolloutInv, EvidenceOnce, NEW c \in Callers, Commit(c)
    PROVE  EvidenceOnce'
<1> SUFFICES ASSUME NEW f \in Anomalies, NEW a \in {"orphan.detected", "orphan.disposition.flagged"}
             PROVE  /\ f \in anomaly' => \E i : RecordedAt(AuditEvent(a, f), i)'
                    /\ f \notin anomaly' => \A i : ~RecordedAt(AuditEvent(a, f), i)'
                    /\ \A i, j : RecordedAt(AuditEvent(a, f), i)' /\ RecordedAt(AuditEvent(a, f), j)' => i = j
  BY DEF EvidenceOnce
<1>0. PICK n : n = Len(chain)
  OBVIOUS
<1> DEFINE e == AuditEvent(a, f)
           rows == tx[c].rows
           m == Len(rows)
<1>1. /\ n \in Nat /\ m \in Nat /\ Len(chain') = n + m
      /\ \A i \in 1 .. n : chain'[i] = chain[i]
      /\ \A i \in 1 .. m : chain'[n + i] = rows[i]
  BY <1>0, CommittedRows
<1>2. /\ f \in anomaly => \E i : RecordedAt(e, i)
      /\ f \notin anomaly => \A i : ~RecordedAt(e, i)
      /\ \A i, j : RecordedAt(e, i) /\ RecordedAt(e, j) => i = j
  BY DEF EvidenceOnce
<1>3. anomaly' = anomaly \cup tx[c].found /\ TxOK(c) /\ tx[c].pc = "commit" /\ tx[c].found \subseteq Anomalies
  BY DEF Commit, RolloutInv, TxsOK, Types, Transactions
<1>4. e.action = a
  BY DEF AuditEvent
<1> DEFINE New(i) == i \in 1 .. m /\ rows[i].event = e
<1>5. \A i : RecordedAt(e, i)' => RecordedAt(e, i) \/ (i \in Nat /\ New(i - n))
  <2>1. ASSUME NEW i \in 1 .. n + m PROVE i \in 1 .. n \/ (i - n \in 1 .. m /\ n + (i - n) = i)
    BY <1>1
  <2> QED BY <1>0, <1>1, <2>1 DEF RecordedAt
<1>6. \A i : RecordedAt(e, i) => RecordedAt(e, i)'
  BY <1>0, <1>1 DEF RecordedAt
<1>7. \A i : New(i) => RecordedAt(e, n + i)'
  <2>1. \A i \in 1 .. m : n + i \in 1 .. n + m
    BY <1>1
  <2> QED BY <1>0, <1>1, <2>1 DEF RecordedAt
<1>9. CASE tx[c].op # "detect"
  <2>1. \A i : ~New(i)
    BY <1>3, <1>4, <1>9, RowEvents
  <2>2. anomaly' = anomaly
    BY <1>3, <1>9 DEF TxOK, Course
  <2> HIDE DEF New, e
  <2>3. \A i : RecordedAt(e, i)' <=> RecordedAt(e, i)
    BY <2>1, <1>5, <1>6
  <2>4. /\ f \in anomaly' => \E i : RecordedAt(e, i)'
        /\ f \notin anomaly' => \A i : ~RecordedAt(e, i)'
        /\ \A i, j : RecordedAt(e, i)' /\ RecordedAt(e, j)' => i = j
    BY <2>2, <2>3, <1>2
  <2> QED BY <2>4, Zenon DEF e
<1>10. CASE tx[c].op = "detect"
  <2>1. PICK s \in Orders(tx[c].found) : Sweeping(c, s)
    BY <1>3, <1>10 DEF TxOK, SweepPlan
  <2>2. tx[c].found \cap anomaly = {} /\ tx[c].todo = <<>>
    BY <1>3, <1>10 DEF TxOK, SweepPlan
  <2>3. m = 2 * Cardinality(tx[c].found) /\ \A i \in 1 .. m : rows[i].event = Recorded(s, i)
    BY <2>1, <2>2, <1>1, EmptySeq DEF Sweeping
  <2>4. IsFiniteSet(tx[c].found)
    BY <1>3, FS_Subset, RolloutAssumption
  <2>5. /\ f \in tx[c].found => \E i : New(i)
        /\ \A i : New(i) => f \in tx[c].found /\ i \in Int
        /\ \A i, j : New(i) /\ New(j) => i = j
    <3>1. /\ f \in tx[c].found => \E i \in 1 .. m : Recorded(s, i) = e
          /\ \A i \in 1 .. m : Recorded(s, i) = e => f \in tx[c].found
          /\ \A i, j \in 1 .. m : Recorded(s, i) = e /\ Recorded(s, j) = e => i = j
      BY <2>1, <2>3, <2>4, EvidenceUnique
    <3>2. \A i : New(i) <=> i \in 1 .. m /\ Recorded(s, i) = e
      BY <2>3
    <3>3. \A i \in 1 .. m : i \in Int
      BY <1>1
    <3> HIDE DEF New, e, m
    <3> QED BY <3>1, <3>2, <3>3
  <2> HIDE DEF New, m, rows, e
  <2>6. CASE f \in tx[c].found
    <3>1. \A i : ~RecordedAt(e, i)
      BY <2>2, <2>6, <1>2
    <3>2. f \in anomaly' /\ \E i : RecordedAt(e, i)'
      BY <2>5, <2>6, <1>3, <1>7
    <3>3. ASSUME NEW i, NEW j, RecordedAt(e, i)', RecordedAt(e, j)' PROVE i = j
      <4>1. i \in Nat /\ j \in Nat /\ New(i - n) /\ New(j - n)
        BY <3>1, <3>3, <1>5
      <4>2. i - n = j - n
        BY <4>1, <2>5
      <4> QED BY <4>1, <4>2, <1>1
    <3> QED BY <3>2, <3>3 DEF e
  <2>7. CASE f \notin tx[c].found
    <3>1. \A i : RecordedAt(e, i)' <=> RecordedAt(e, i)
      BY <2>5, <2>7, <1>5, <1>6
    <3>2. f \in anomaly' <=> f \in anomaly
      BY <2>7, <1>3
    <3> QED BY <3>1, <3>2, <1>2 DEF e
  <2> QED BY <2>6, <2>7
<1> QED BY <1>9, <1>10

(* Which promotions are on record after a commit.                          *)
LEMMA PromotionsAfter ==
    ASSUME RolloutInv, NEW c \in Callers, Commit(c), NEW n, n = Len(chain)
    PROVE  /\ n \in Nat
           /\ \A i \in 1 .. n : chain'[i] = chain[i]
           /\ tx[c].op # "promote" => \A q, i : PromotedAt(q, i)' <=> PromotedAt(q, i)
           /\ tx[c].op = "promote" =>
                /\ chain'[n + 1] = tx[c].rows[1] /\ RowEvent(c, tx[c].rows[1].event)
                /\ \A q, i : PromotedAt(q, i)' <=>
                      PromotedAt(q, i) \/ (q = tx[c].args.p /\ i = n + 1)
<1> DEFINE rows == tx[c].rows
           m == Len(rows)
<1>1. /\ n \in Nat /\ m \in Nat /\ Len(chain') = n + m
      /\ \A i \in 1 .. n : chain'[i] = chain[i]
      /\ \A i \in 1 .. m : chain'[n + i] = rows[i]
  BY CommittedRows
<1>2. tx[c].pc = "commit"
  BY DEF Commit
<1>3. \A q, i : PromotedAt(q, i) => PromotedAt(q, i)'
  <2>1. \A i \in 1 .. n : i \in 1 .. n + m
    BY <1>1
  <2> QED BY <1>1, <2>1 DEF PromotedAt
<1>4. ASSUME NEW q, NEW i, PromotedAt(q, i)'
      PROVE  \/ PromotedAt(q, i)
             \/ /\ i - n \in 1 .. m /\ i = n + (i - n) /\ rows[i - n].event.target = q
                /\ rows[i - n].event.action \in PromotionActions
  <2>1. i \in 1 .. n + m /\ chain'[i].event.target = q /\ chain'[i].event.action \in PromotionActions
    BY <1>1, <1>4 DEF PromotedAt
  <2>2. i \in 1 .. n \/ (i - n \in 1 .. m /\ i = n + (i - n))
    BY <1>1, <2>1
  <2>3. CASE i \in 1 .. n
    BY <1>1, <2>1, <2>3 DEF PromotedAt
  <2>4. CASE i - n \in 1 .. m /\ i = n + (i - n)
    <3>1. chain'[i] = rows[i - n]
      BY <1>1, <2>4
    <3> QED BY <2>1, <2>4, <3>1
  <2> QED BY <2>2, <2>3, <2>4
<1>5. CASE tx[c].op # "promote"
  <2>1. \A i \in 1 .. m : rows[i].event.action \notin PromotionActions
    BY <1>2, <1>5, RowEvents
  <2> QED BY <1>1, <1>3, <1>4, <1>5, <2>1
<1>6. CASE tx[c].op = "promote"
  <2>1. m = 1 /\ RowEvent(c, rows[1].event)
    <3>1. TxOK(c) /\ tx[c].row # {}
      BY <1>2, <1>6 DEF RolloutInv, TxsOK, TxOK, Course, RowOps
    <3> QED BY <3>1, <1>2, <1>6 DEF TxOK, RowPlan
  <2>2. chain'[n + 1] = rows[1] /\ n + 1 \in 1 .. n + m
    BY <1>1, <2>1
  <2>3. rows[1].event.target = tx[c].args.p /\ rows[1].event.action \in PromotionActions
    BY <2>1, <1>6 DEF RowEvent
  <2>4. ASSUME NEW q, q = tx[c].args.p PROVE PromotedAt(q, n + 1)'
    BY <2>2, <2>3, <2>4, <1>1 DEF PromotedAt
  <2>5. ASSUME NEW q, NEW i, PromotedAt(q, i)'
        PROVE  PromotedAt(q, i) \/ (q = tx[c].args.p /\ i = n + 1)
    <3>1. CASE /\ i - n \in 1 .. m /\ i = n + (i - n) /\ rows[i - n].event.target = q
               /\ rows[i - n].event.action \in PromotionActions
      <4>1. i - n = 1
        BY <3>1, <2>1
      <4> QED BY <3>1, <4>1, <2>3
    <3> QED BY <2>5, <3>1, <1>4
  <2>6. \A q, i : PromotedAt(q, i)' <=> PromotedAt(q, i) \/ (q = tx[c].args.p /\ i = n + 1)
    BY <2>4, <2>5, <1>3
  <2> QED BY <1>1, <1>6, <2>1, <2>2, <2>6
<1> QED BY <1>5, <1>6

(* A commit other than a promotion makes no policy live and leaves the     *)
(* live ones alone.                                                        *)
LEMMA NoPromotionStep ==
    ASSUME RolloutInv, PromotionsOnce, LaterOverrides, NEW c \in Callers, Commit(c),
           tx[c].op # "promote"
    PROVE  PromotionsOnce' /\ LaterOverrides'
<1>1. PICK n : n = Len(chain)
  OBVIOUS
<1>2. n \in Nat /\ (\A i \in 1 .. n : chain'[i] = chain[i]) /\ \A q, i : PromotedAt(q, i)' <=> PromotedAt(q, i)
  BY <1>1, PromotionsAfter
<1>3. ASSUME NEW q \in Policies
      PROVE  /\ policy'[q].state = "active" => policy'[q] = policy[q]
             /\ policy'[q].state \in {"none", "draft"} => policy[q].state \in {"none", "draft"}
  <2>1. CASE tx[c].row = {}
    BY <2>1, CommitRow
  <2>2. CASE tx[c].row # {}
    <3>1. PICK r \in PolicyRows : Succeeds(tx[c].op, policy[tx[c].args.p], r)
                                   /\ policy' = [policy EXCEPT ![tx[c].args.p] = r]
      BY <2>2, CommitRow
    <3>2. q # tx[c].args.p => policy'[q] = policy[q]
      BY <3>1
    <3>3. q = tx[c].args.p => policy'[q] = r
      BY <3>1 DEF RolloutInv, Types
    <3>4. /\ r.state # "active"
          /\ r.state \in {"none", "draft"} => policy[tx[c].args.p].state \in {"none", "draft"}
      BY <3>1 DEF Succeeds
    <3> QED BY <3>2, <3>3, <3>4
  <2> QED BY <2>1, <2>2
<1>4. PromotionsOnce'
  BY <1>2, <1>3 DEF PromotionsOnce
<1>5. ASSUME NEW p \in Policies, NEW q \in Policies, Contradict(p, q)' PROVE Contradict(p, q)
  BY <1>3, <1>5 DEF Contradict, hardConflicts
<1>6. LaterOverrides'
  <2> SUFFICES ASSUME NEW p \in Policies, NEW q \in Policies, Contradict(p, q)', NEW i, NEW j,
                      PromotedAt(p, i)', PromotedAt(q, j)', j <= i
               PROVE  chain'[i].event.action = "policy.promoted_with_override"
    BY DEF LaterOverrides
  <2>1. Contradict(p, q) /\ PromotedAt(p, i) /\ PromotedAt(q, j)
    BY <1>2, <1>5
  <2>2. chain'[i] = chain[i]
    BY <1>1, <1>2, <2>1 DEF PromotedAt
  <2> QED BY <2>1, <2>2 DEF LaterOverrides
<1> QED BY <1>4, <1>6

(* The commit of a promotion: nothing contradicted it when it was written, *)
(* and nothing has become live since, or it is recorded as an override.    *)
LEMMA PromotionStep ==
    ASSUME RolloutInv, PromotionsOnce, LaterOverrides, NEW c \in Callers, Commit(c),
           tx[c].op = "promote"
    PROVE  PromotionsOnce' /\ LaterOverrides'
<1>1. PICK n : n = Len(chain)
  OBVIOUS
<1>2. PICK p : p = tx[c].args.p
  OBVIOUS
<1>3. PICK e : e = tx[c].rows[1].event
  OBVIOUS
<1>4. /\ n \in Nat /\ (\A i \in 1 .. n : chain'[i] = chain[i])
      /\ chain'[n + 1].event = e /\ RowEvent(c, e)
      /\ \A q, i : PromotedAt(q, i)' <=> PromotedAt(q, i) \/ (q = p /\ i = n + 1)
  BY <1>1, <1>2, <1>3, PromotionsAfter
<1>5. \A q, i : PromotedAt(q, i) => i \in 1 .. n
  BY <1>1 DEF PromotedAt
<1>6. tx[c].row # {}
  BY DEF Commit, RolloutInv, TxsOK, TxOK, Course, RowOps
<1>7. PICK r \in PolicyRows : /\ Succeeds("promote", policy[p], r) /\ p \in Policies
                              /\ policy' = [policy EXCEPT ![p] = r]
  BY <1>2, <1>6, CommitRow
<1>8. policy[p].state = "draft" /\ policy'[p] = r /\ r.state = "active" /\ r.def = policy[p].def
  BY <1>7 DEF Succeeds, RolloutInv, Types
<1>9. \A q \in Policies : q # p => policy'[q] = policy[q]
  BY <1>7 DEF RolloutInv, Types
<1>10. \A i : ~PromotedAt(p, i)
  BY <1>7, <1>8 DEF PromotionsOnce
<1>11. PromotionsOnce'
  <2> SUFFICES ASSUME NEW q \in Policies
               PROVE  /\ policy'[q].state \in {"none", "draft"} => \A i : ~PromotedAt(q, i)'
                      /\ policy'[q].state = "active" => \E i : PromotedAt(q, i)'
                      /\ \A i, j : PromotedAt(q, i)' /\ PromotedAt(q, j)' => i = j
    BY DEF PromotionsOnce
  <2>1. CASE q = p
    BY <2>1, <1>4, <1>8, <1>10
  <2>2. CASE q # p
    <3>1. \A i : PromotedAt(q, i)' <=> PromotedAt(q, i)
      BY <2>2, <1>4
    <3> QED BY <2>2, <3>1, <1>9 DEF PromotionsOnce
  <2> QED BY <2>1, <2>2
<1>12. LaterOverrides'
  <2> SUFFICES ASSUME NEW x \in Policies, NEW y \in Policies, Contradict(x, y)', NEW i, NEW j,
                      PromotedAt(x, i)', PromotedAt(y, j)', j <= i
               PROVE  chain'[i].event.action = "policy.promoted_with_override"
    BY DEF LaterOverrides
  <2>1. x # y
    BY DEF Contradict, hardConflicts
  <2>2. CASE x = p
    <3>1. i = n + 1
      BY <2>2, <1>4, <1>10
    <3>2. y \in hardConflicts(p, policy[p].def)
      BY <2>1, <2>2, <1>8, <1>9 DEF Contradict, hardConflicts
    <3>3. e.action = "policy.promoted_with_override"
      BY <3>2, <1>2, <1>4 DEF RowEvent, PromotionActions
    <3> QED BY <3>1, <3>3, <1>4
  <2>3. CASE y = p
    <3>1. j = n + 1 /\ PromotedAt(x, i)
      BY <2>1, <2>3, <1>4, <1>10
    <3> QED BY <3>1, <1>4, <1>5
  <2>4. CASE x # p /\ y # p
    <3>1. PromotedAt(x, i) /\ PromotedAt(y, j)
      BY <2>4, <1>4
    <3>2. Contradict(x, y)
      BY <2>4, <1>9 DEF Contradict, hardConflicts
    <3>3. chain'[i] = chain[i]
      BY <3>1, <1>4, <1>5
    <3> QED BY <3>1, <3>2, <3>3 DEF LaterOverrides
  <2> QED BY <2>2, <2>3, <2>4
<1> QED BY <1>11, <1>12

(* Only a commit changes what is on record.                                *)
LEMMA OnlyCommits ==
    ASSUME [Next]_vars
    PROVE  UNCHANGED <<policy, anomaly, chain>> \/ \E c \in Callers : Commit(c)
<1>1. CASE UNCHANGED vars
  BY <1>1 DEF vars
<1>2. CASE Next
  <2> DEFINE Kept == UNCHANGED <<policy, anomaly, chain>>
  <2>1. PICK c \in Callers :
         \/ BeginUpdate(c) \/ BeginPromote(c) \/ BeginArchive(c) \/ BeginAppend(c)
         \/ CreatePolicyTx(c) \/ SimulateRead(c) \/ DetectRead(c)
         \/ lockWorkspace(c) \/ UpdateDraft(c) \/ Promote(c) \/ Archive(c)
         \/ SimulateCache(c) \/ DetectRecord(c) \/ appendAudit(c) \/ Commit(c) \/ Abort(c)
    BY <1>2 DEF Next
  <2>2. /\ \A op, args, pc : Begin(c, op, args, pc) => Kept
        /\ \A p, row, events : Write(c, p, row, events) => Kept
        /\ Rollback(c) => Kept
    BY DEF Begin, Write, Rollback
  <2>3. ASSUME BeginUpdate(c) \/ BeginPromote(c) \/ BeginArchive(c) \/ BeginAppend(c) PROVE Kept
    <3> HIDE DEF Kept
    <3> QED BY <2>2, <2>3 DEF BeginUpdate, BeginPromote, BeginArchive, BeginAppend
  <2>4. ASSUME SimulateRead(c) \/ DetectRead(c) PROVE Kept
    <3> HIDE DEF Kept
    <3> QED BY <2>2, <2>4 DEF SimulateRead, DetectRead
  <2>5. ASSUME CreatePolicyTx(c) \/ lockWorkspace(c) \/ appendAudit(c) PROVE Kept
    BY <2>5 DEF CreatePolicyTx, lockWorkspace, appendAudit
  <2>6. ASSUME UpdateDraft(c) \/ Promote(c) \/ Archive(c) \/ SimulateCache(c) \/ Abort(c) PROVE Kept
    <3> HIDE DEF Kept
    <3> QED BY <2>2, <2>6 DEF UpdateDraft, Promote, Archive, SimulateCache, Abort
  <2>7. ASSUME DetectRecord(c) PROVE Kept
    BY <2>2, <2>7 DEF DetectRecord
  <2> QED BY <2>1, <2>3, <2>4, <2>5, <2>6, <2>7
<1> QED BY <1>1, <1>2

LEMMA RecordNext == RolloutInv /\ RecordInv /\ [Next]_vars => RecordInv'
<1> SUFFICES ASSUME RolloutInv, RecordInv, [Next]_vars PROVE RecordInv'
  OBVIOUS
<1> USE DEF RecordInv
<1>1. CASE UNCHANGED <<policy, anomaly, chain>>
  <2>1. /\ \A e, i : RecordedAt(e, i)' <=> RecordedAt(e, i)
        /\ \A p, i : PromotedAt(p, i)' <=> PromotedAt(p, i)
        /\ \A p, q : Contradict(p, q)' <=> Contradict(p, q)
    BY <1>1 DEF RecordedAt, PromotedAt, Contradict, hardConflicts
  <2>2. EvidenceOnce'
    BY <1>1, <2>1 DEF EvidenceOnce
  <2>3. PromotionsOnce'
    BY <1>1, <2>1 DEF PromotionsOnce
  <2>4. LaterOverrides'
    BY <1>1, <2>1 DEF LaterOverrides
  <2> QED BY <2>2, <2>3, <2>4
<1>2. CASE \E c \in Callers : Commit(c)
  BY <1>2, EvidenceStep, PromotionStep, NoPromotionStep
<1> QED BY <1>1, <1>2, OnlyCommits

LEMMA RecordInit == Init => RecordInv
<1> SUFFICES ASSUME Init PROVE RecordInv
  OBVIOUS
<1>1. Len(chain) = 0
  BY EmptySeq DEF Init
<1>2. (\A e, i : ~RecordedAt(e, i)) /\ \A p, i : ~PromotedAt(p, i)
  BY <1>1 DEF RecordedAt, PromotedAt
<1>3. EvidenceOnce /\ PromotionsOnce
  BY <1>2 DEF Init, EvidenceOnce, PromotionsOnce, Missing
<1>4. LaterOverrides
  BY <1>2 DEF LaterOverrides
<1> QED BY <1>3, <1>4 DEF RecordInv

(* RecordInv holds of every reachable state.                               *)
THEOREM RecordInvariant == Spec => [](RolloutInv /\ RecordInv)
BY InitInv, NextInv, RecordInit, RecordNext, PTL DEF Spec

(* Every anomaly is evidenced once, by a detection and a disposition, and  *)
(* nothing is evidenced without its row, for any number of sweeps side by  *)
(* side and any number of findings.                                        *)
THEOREM EvidencedOnce == Spec => []AnomalyEvidencedOnce
<1>1. RolloutInv /\ RecordInv => AnomalyEvidencedOnce
  <2> SUFFICES ASSUME RolloutInv, RecordInv, NEW f \in Anomalies,
                      NEW a \in {"orphan.detected", "orphan.disposition.flagged"}
               PROVE  Cardinality({r \in Rows : r.event = AuditEvent(a, f)}) = IF f \in anomaly THEN 1 ELSE 0
    BY DEF AnomalyEvidencedOnce
  <2>1. PICK e : e = AuditEvent(a, f)
    OBVIOUS
  <2>2. /\ f \in anomaly => \E i : RecordedAt(e, i)
        /\ f \notin anomaly => \A i : ~RecordedAt(e, i)
        /\ \A i, j : RecordedAt(e, i) /\ RecordedAt(e, j) => i = j
    BY <2>1 DEF RecordInv, EvidenceOnce
  <2>3. DOMAIN chain = 1 .. Len(chain)
    BY LenProperties DEF RolloutInv, Types
  <2> DEFINE found == {r \in Rows : r.event = e}
  <2>4. \A r : r \in found <=> \E i : RecordedAt(e, i) /\ r = chain[i]
    BY <2>3 DEF Rows, RecordedAt
  <2> HIDE DEF found
  <2>5. CASE f \in anomaly
    <3>1. PICK i : RecordedAt(e, i)
      BY <2>2, <2>5
    <3>2. found = {chain[i]}
      BY <2>2, <2>4, <3>1
    <3>3. Cardinality({chain[i]}) = 1
      BY FS_Singleton
    <3> QED BY <2>1, <2>5, <3>2, <3>3 DEF found
  <2>6. CASE f \notin anomaly
    <3>1. found = {}
      BY <2>2, <2>4, <2>6
    <3> QED BY <2>1, <2>6, <3>1, FS_EmptySet DEF found
  <2> QED BY <2>5, <2>6
<1> QED BY <1>1, RecordInvariant, PTL

(* Two definitions that overlap do so both ways: the scan of either finds  *)
(* the other.                                                              *)
LEMMA OverlapSymmetric ==
    ASSUME NEW x \in Defs, NEW y \in Defs, Overlap(x, y)
    PROVE  Overlap(y, x)
<1>1. x.resources # {} /\ y.resources # {}
  BY RolloutAssumption
<1>2. x.subjects \cap y.subjects # {}
  BY DEF Overlap
<1>3. PICK r \in y.resources : r \in x.resources \/ Star \in x.resources \/ r = Star
  BY DEF Overlap
<1>4. PICK z : z \in x.resources
  BY <1>1
<1>5. \E u \in x.resources : u \in y.resources \/ Star \in y.resources \/ u = Star
  BY <1>3, <1>4
<1> QED BY <1>2, <1>5 DEF Overlap

(* Test before rollout: every live policy has exactly one promotion on     *)
(* record, and of two live policies that contradict each other the one     *)
(* promoted last was promoted over an override, for any number of policies *)
(* and of promotions, edits and archivals in flight.                       *)
THEOREM LiveConflictsOverridden == Spec => []ConflictsOverridden
<1>1. RolloutInv /\ RecordInv => ConflictsOverridden
  <2> SUFFICES ASSUME RolloutInv, RecordInv, NEW p \in Policies, policy[p].state = "active"
               PROVE  /\ Cardinality(Promotions(p)) = 1
                      /\ \A q \in hardConflicts(p, policy[p].def) :
                           \E r \in Promotions(p) \cup Promotions(q) :
                              /\ \A s \in Promotions(p) \cup Promotions(q) : s.seq <= r.seq
                              /\ r.event.action = "policy.promoted_with_override"
    BY DEF ConflictsOverridden
  <2>1. DOMAIN chain = 1 .. Len(chain) /\ \A i \in 1 .. Len(chain) : chain[i].seq = i
    BY LenProperties DEF RolloutInv, Types, Linking, Linked
  <2>2. \A q, r : r \in Promotions(q) <=> \E i : PromotedAt(q, i) /\ r = chain[i]
    BY <2>1 DEF Promotions, Rows, PromotedAt, PromotionActions
  <2>3. ASSUME NEW q \in Policies, policy[q].state = "active"
        PROVE  \E i : PromotedAt(q, i) /\ Promotions(q) = {chain[i]} /\ chain[i].seq = i /\ i \in Nat
    <3>1. PICK i : PromotedAt(q, i)
      BY <2>3 DEF RecordInv, PromotionsOnce
    <3>2. \A j : PromotedAt(q, j) => j = i
      BY <3>1 DEF RecordInv, PromotionsOnce
    <3>3. Promotions(q) = {chain[i]}
      BY <3>1, <3>2, <2>2
    <3>4. i \in 1 .. Len(chain)
      BY <3>1 DEF PromotedAt
    <3> QED BY <3>1, <3>3, <3>4, <2>1
  <2>4. PICK i : PromotedAt(p, i) /\ Promotions(p) = {chain[i]} /\ chain[i].seq = i /\ i \in Nat
    BY <2>3
  <2>5. Cardinality(Promotions(p)) = 1
    BY <2>4, FS_Singleton
  <2>6. ASSUME NEW q \in hardConflicts(p, policy[p].def)
        PROVE  \E r \in Promotions(p) \cup Promotions(q) :
                  /\ \A s \in Promotions(p) \cup Promotions(q) : s.seq <= r.seq
                  /\ r.event.action = "policy.promoted_with_override"
    <3>1. q \in Policies /\ policy[q].state = "active" /\ Contradict(p, q)
      BY <2>6 DEF hardConflicts, Contradict
    <3>2. Contradict(q, p)
      <4>1. policy[p].def \in Defs /\ policy[q].def \in Defs
        BY <3>1 DEF RolloutInv, CommittedOK, RowOK
      <4>2. Overlap(policy[q].def, policy[p].def)
        BY <4>1, <2>6, OverlapSymmetric DEF hardConflicts
      <4> QED BY <4>2, <2>6, <3>1 DEF Contradict, hardConflicts
    <3>3. PICK j : PromotedAt(q, j) /\ Promotions(q) = {chain[j]} /\ chain[j].seq = j /\ j \in Nat
      BY <2>3, <3>1
    <3>4. \A s \in Promotions(p) \cup Promotions(q) : s = chain[i] \/ s = chain[j]
      BY <2>4, <3>3
    <3>5. CASE j <= i
      <4>1. chain[i].event.action = "policy.promoted_with_override"
        BY <2>4, <3>1, <3>3, <3>5 DEF RecordInv, LaterOverrides
      <4>2. \A s \in Promotions(p) \cup Promotions(q) : s.seq <= chain[i].seq
        BY <2>4, <3>3, <3>4, <3>5
      <4> QED BY <2>4, <4>1, <4>2
    <3>6. CASE i <= j
      <4>1. chain[j].event.action = "policy.promoted_with_override"
        BY <2>4, <3>1, <3>2, <3>3, <3>6 DEF RecordInv, LaterOverrides
      <4>2. \A s \in Promotions(p) \cup Promotions(q) : s.seq <= chain[j].seq
        BY <2>4, <3>3, <3>4, <3>6
      <4> QED BY <3>3, <4>1, <4>2
    <3> QED BY <2>4, <3>3, <3>5, <3>6
  <2> QED BY <2>5, <2>6
<1> QED BY <1>1, RecordInvariant, PTL

-----------------------------------------------------------------------------
(* The log the chain implements                                            *)

(* Read in chain order, a linked chain is the list of its events.          *)
LEMMA EventsOfLinked ==
    ASSUME NEW rows \in Seq(ChainRows), Linked(rows)
    PROVE  /\ EventsOf(rows) \in Seq(Events)
           /\ Len(EventsOf(rows)) = Len(rows)
           /\ \A i \in 1 .. Len(rows) : EventsOf(rows)[i] = rows[i].event
<1>1. CASE rows = <<>>
  <2>1. EventsOf(rows) = <<>>
    BY <1>1 DEF EventsOf, HeadOf, Genesis
  <2>2. Len(rows) = 0
    BY <1>1, EmptySeq
  <2> QED BY <2>1, <2>2, EmptySeq
<1>2. CASE rows # <<>>
  <2>1. Len(rows) \in Nat \ {0} /\ Len(rows) \in 1 .. Len(rows)
    BY <1>2, EmptySeq
  <2>2. EventsOf(rows) = rows[Len(rows)].hash
    BY <1>2, HeadOfLinked DEF EventsOf
  <2>3. rows[Len(rows)] \in ChainRows
    BY <2>1, ElementOfSeq
  <2>4. rows[Len(rows)].hash \in Seq(Events)
    BY <2>3 DEF ChainRows
  <2> QED BY <2>1, <2>2, <2>4 DEF Linked
<1> QED BY <1>1, <1>2

(* A transaction records no more than a sweep of every anomaly.            *)
LEMMA BatchBound ==
    ASSUME RolloutInv, NEW c \in Callers, tx[c].pc = "commit"
    PROVE  Len(tx[c].rows) <= 2 * Cardinality(Anomalies)
<1>1. TxOK(c) /\ tx[c] \in Transactions
  BY DEF RolloutInv, TxsOK, Types
<1>2. /\ Cardinality(Anomalies) \in Nat /\ Cardinality(Anomalies) > 0
      /\ 0 <= 2 * Cardinality(Anomalies) /\ 1 <= 2 * Cardinality(Anomalies)
  <2>1. Cardinality(Anomalies) \in Nat /\ Cardinality(Anomalies) # 0
    BY RolloutAssumption, FS_CardinalityType, FS_EmptySet
  <2> QED BY <2>1
<1>3. CASE tx[c].op \in RowOps
  <2>1. tx[c].row # {}
    BY <1>1, <1>3 DEF TxOK, Course
  <2>2. tx[c].rows = <<>> \/ Len(tx[c].rows) = 1
    BY <1>1, <2>1 DEF TxOK, RowPlan
  <2>3. Len(tx[c].rows) = 0 \/ Len(tx[c].rows) = 1
    BY <2>2, EmptySeq
  <2> QED BY <1>2, <2>3
<1>4. CASE tx[c].op = "append"
  <2>1. Len(tx[c].rows) = 1
    BY <1>1, <1>4 DEF TxOK, AppendPlan
  <2> QED BY <1>2, <2>1
<1>5. CASE tx[c].op = "detect"
  <2>1. Len(tx[c].rows) + Len(tx[c].todo) = 2 * Cardinality(tx[c].found)
    BY <1>1, <1>5 DEF TxOK, SweepPlan, Sweeping
  <2>2. Len(tx[c].rows) \in Nat /\ Len(tx[c].todo) \in Nat
    BY <1>1, LenProperties DEF Transactions
  <2>3. IsFiniteSet(tx[c].found) /\ Cardinality(tx[c].found) <= Cardinality(Anomalies)
    BY <1>1, FS_Subset, RolloutAssumption DEF Transactions
  <2>4. Cardinality(tx[c].found) \in Nat
    BY <2>3, FS_CardinalityType
  <2>5. \A x, y, k, l \in Nat : x + y = 2 * k /\ k <= l => x <= 2 * l
    OBVIOUS
  <2> QED BY <1>2, <2>1, <2>2, <2>3, <2>4, <2>5
<1>6. tx[c].op # "none"
  BY <1>1 DEF TxOK, Course
<1> QED BY <1>1, <1>3, <1>4, <1>5, <1>6 DEF Transactions, Ops, RowOps

LEMMA CommitExtends ==
    ASSUME RolloutInv, RolloutInv', NEW c \in Callers, Commit(c)
    PROVE  chain' = chain \/ Abstract!Next
<1>1. PICK old : old = EventsOf(chain)
  OBVIOUS
<1>2. PICK new : new = EventsOf(chain')
  OBVIOUS
<1>3. PICK n : n = Len(chain)
  OBVIOUS
<1>4. PICK m : m = Len(tx[c].rows)
  OBVIOUS
<1>5. /\ n \in Nat /\ m \in Nat /\ Len(chain') = n + m
      /\ \A i \in 1 .. n : chain'[i] = chain[i]
  BY <1>3, <1>4, CommittedRows
<1>6. /\ chain \in Seq(ChainRows) /\ Linked(chain)
      /\ chain' \in Seq(ChainRows) /\ Linked(chain')
  BY DEF RolloutInv, Types, Linking
<1>7. /\ old \in Seq(Events) /\ Len(old) = n /\ \A i \in 1 .. n : old[i] = chain[i].event
      /\ new \in Seq(Events) /\ Len(new) = n + m /\ \A i \in 1 .. n + m : new[i] = chain'[i].event
  BY <1>1, <1>2, <1>3, <1>5, <1>6, EventsOfLinked
<1>8. CASE m = 0
  <2>1. tx[c].rows \in Seq(ChainRows) /\ chain' = chain \o tx[c].rows
    BY DEF RolloutInv, Types, Transactions, Commit
  <2>2. tx[c].rows = <<>>
    BY <1>4, <1>8, <2>1, EmptySeq
  <2> QED BY <1>6, <2>1, <2>2, ConcatEmptySeq
<1>9. CASE m # 0
  <2>1. Len(new) \in Len(old) + 1 .. Len(old) + 2 * Cardinality(Anomalies)
    <3>1. m <= 2 * Cardinality(Anomalies) /\ Cardinality(Anomalies) \in Nat
      BY <1>4, BatchBound, RolloutAssumption, FS_CardinalityType DEF Commit
    <3> QED BY <3>1, <1>5, <1>7, <1>9
  <2>2. SubSeq(new, 1, Len(old)) = old
    <3>1. \A i \in 1 .. n : new[i] = old[i] /\ new[i] \in Events
      <4>1. \A i \in 1 .. n : i \in 1 .. n + m
        BY <1>5
      <4> QED BY <4>1, <1>5, <1>7, ElementOfSeq
    <3>2. /\ SubSeq(new, 1, n) \in Seq(Events) /\ Len(SubSeq(new, 1, n)) = n
          /\ \A i \in 1 .. n : SubSeq(new, 1, n)[i] = new[i]
      BY <3>1, <1>5, <1>7
    <3> QED BY <3>1, <3>2, <1>5, <1>7, SeqEqual
  <2>3. \A i \in DOMAIN new : new[i] \in Events
    BY <1>7, LenProperties, ElementOfSeq
  <2> QED BY <1>1, <1>2, <2>1, <2>2, <2>3 DEF Abstract!Next
<1> QED BY <1>8, <1>9

(* The chain, read in chain order, implements the append-only log: every   *)
(* commit, of any number of appenders, adds its own events at the end.     *)
THEOREM ChainImplementsLog == Spec => ImplementsLog
<1>1. Init => Abstract!Init
  BY DEF Init, Abstract!Init, EventsOf, HeadOf, Genesis
<1>2. ASSUME RolloutInv, RolloutInv', [Next]_vars PROVE [Abstract!Next]_(EventsOf(chain))
  <2>1. CASE chain' = chain
    BY <2>1
  <2>2. CASE chain' # chain
    BY <1>2, <2>2, OnlyCommits, CommitExtends
  <2> QED BY <2>1, <2>2
<1> QED BY <1>1, <1>2, RolloutInvariant, PTL DEF Spec, ImplementsLog, Abstract!Spec
=============================================================================

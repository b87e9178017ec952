------------------------ MODULE SessionControlProofs ------------------------
(***************************************************************************)
(* Proofs about SessionControl for any number of administrators, forwarding*)
(* loops and channels, requests, commands and retries.                     *)
(*                                                                         *)
(* The inductive invariant has one part for each promise: a command number *)
(* a loop has read is at most one past the log (Numbered), a loop that has *)
(* leaked its command waits at the gate (Leaks), and a handler does not    *)
(* leave the hub before the row has ended (Ends).                          *)
(***************************************************************************)
EXTENDS SessionControl, TLAPS, FiniteSetTheorems

Pcs == {"gate", "read", "log", "insert", "forward", "stopped", "absent"}
LoopRows == [pc : Pcs, seq : Nat, tries : 0 .. MaxRetries - 1]
AdminRows == [pc : {"idle", "set", "hub", "interrupt", "cancel", "end"}, pause : BOOLEAN]
Passes == [pc : {"idle", "apply", "cancel"}, active : BOOLEAN, paused : BOOLEAN]

Types ==
    /\ row \in [state : {"active", "closed", "terminated"}, paused : BOOLEAN]
    /\ rec \in [paused : BOOLEAN, aborted : BOOLEAN, closed : BOOLEAN]
    /\ live \in BOOLEAN /\ ctx \in BOOLEAN /\ conn \in BOOLEAN
    /\ loop \in [Channels -> LoopRows]
    /\ handler \in {"serving", "close", "deregister", "unclosed", "gone", "lost"}
    /\ admin \in [Admins -> AdminRows]
    /\ recon \in Passes
    /\ count \in [paused : Int, ended : Int, ops : Nat, commands : Nat]
    /\ leaked \in [Loops -> Nat]

(* Until the row has ended the handler is in the hub, or was lost.         *)
Ends ==
    /\ handler \in {"deregister", "gone"} => row.state # "active"
    /\ ~live => handler \in {"gone", "lost"}

(* Behind a closed gate a loop has leaked at most once, and one that has   *)
(* does not come to another command.                                       *)
Leaks ==
    \A c \in Loops :
        /\ leaked[c] <= 1
        /\ ~GateOpen /\ leaked[c] = 1 => loop[c].pc \in {"gate", "stopped", "absent"}

(* What a loop holds of the log: a number that is taken or the next one,   *)
(* then a row that allows the command.                                     *)
Holds(l) ==
    /\ l.pc = "insert" => l.seq \in 1 .. Cardinality(cmds) + 1
    /\ l.pc = "forward" => [seq |-> l.seq, allowed |-> TRUE] \in cmds

Numbered ==
    /\ IsFiniteSet(cmds) /\ cmds \subseteq [seq : Nat, allowed : BOOLEAN]
    /\ CommandTrail
    /\ \A c \in Channels : Holds(loop[c])

ControlInv == Types /\ AuditMatchesRow /\ Ends /\ Leaks /\ Numbered

LEMMA ReadyRow ==
    ASSUME NEW c \in Channels
    PROVE  Ready(c) \in LoopRows /\ Absent \in LoopRows /\ Stopped \in LoopRows
           /\ Ready(c).pc \in {"gate", "read"} /\ (c \in Loops => Ready(c).pc = "gate")
           /\ Stopped.pc = "stopped" /\ Absent.pc = "absent"
BY ControlAssumption DEF Ready, Absent, Stopped, LoopRows, Pcs

LEMMA ControlInit == Init => ControlInv
<1>. SUFFICES ASSUME Init PROVE ControlInv
  OBVIOUS
<1>1. PICK of \in {Loops, Execs} : loop = [c \in Channels |-> IF c \in of THEN Ready(c) ELSE Absent]
  BY DEF Init
<1>2. loop \in [Channels -> LoopRows] /\ \A c \in Channels : loop[c].pc \in {"gate", "read", "absent"}
  BY <1>1, ReadyRow
<1>3. Types
  <2>1. NoRequest \in AdminRows /\ NoPass \in Passes
    BY DEF NoRequest, NoPass, AdminRows, Passes
  <2>2. /\ row \in [state : {"active", "closed", "terminated"}, paused : BOOLEAN]
        /\ rec \in [paused : BOOLEAN, aborted : BOOLEAN, closed : BOOLEAN]
        /\ count \in [paused : Int, ended : Int, ops : Nat, commands : Nat]
    BY DEF Init
  <2>. QED  BY <1>2, <2>1, <2>2 DEF Init, Types
<1>4. AuditMatchesRow /\ Ends /\ Leaks
  BY DEF Init, AuditMatchesRow, Ends, Leaks, GateOpen
<1>5. Numbered
  <2>1. cmds = {} /\ IsFiniteSet(cmds) /\ Cardinality(cmds) = 0 /\ Seqs = {}
    BY FS_EmptySet DEF Init, Seqs
  <2>. QED  BY <1>2, <2>1 DEF Init, Numbered, CommandTrail, Holds
<1>. QED  BY <1>3, <1>4, <1>5 DEF ControlInv

-----------------------------------------------------------------------------
(* The steps, by who takes them                                            *)

AdminAct(a) == SetPauseRead(a) \/ TerminateBegin(a) \/ AdminStep(a)
LoopAct(c) == LoopStep(c) \/ LoopEnds(c) \/ OpenChannel(c)
SessionAct ==
    \/ UpstreamEnds \/ WatchContext \/ CloseConns
    \/ Reconcile \/ Flush \/ Teardown \/ GatewayDies

LEMMA AdminTypes == ASSUME Types, NEW a \in Admins, AdminAct(a) PROVE Types'
<1>1. ASSUME NEW p \in BOOLEAN, Request(a, "set", p) PROVE Types'
  BY <1>1 DEF Types, Request, gateway, AdminRows
<1>2. CASE TerminateBegin(a)
  BY <1>2 DEF Types, TerminateBegin, Request, gateway, AdminRows
<1>3. CASE SetPauseCommit(a)
  <2>1. admin[a] \in AdminRows /\ [admin[a] EXCEPT !.pc = "hub"] \in AdminRows /\ NoRequest \in AdminRows
    BY DEF Types, AdminRows, NoRequest
  <2>2. admin' \in [Admins -> AdminRows]
    BY <1>3, <2>1 DEF Types, SetPauseCommit
  <2>3. row' \in [state : {"active", "closed", "terminated"}, paused : BOOLEAN]
    BY <1>3, <2>1 DEF Types, SetPauseCommit, AdminRows
  <2>4. count' \in [paused : Int, ended : Int, ops : Nat, commands : Nat]
    BY <1>3 DEF Types, SetPauseCommit
  <2>. QED  BY <1>3, <2>2, <2>3, <2>4 DEF Types, SetPauseCommit, gateway
<1>4. CASE SetPauseHub(a)
  <2>1. admin[a].pause \in BOOLEAN
    BY DEF Types, AdminRows
  <2>2. /\ rec' \in [paused : BOOLEAN, aborted : BOOLEAN, closed : BOOLEAN] /\ leaked' \in [Loops -> Nat]
    BY <1>4, <2>1 DEF Types, SetPauseHub, SetGate
  <2>. QED  BY <1>4, <2>2 DEF Types, SetPauseHub, NoRequest, AdminRows
<1>5. CASE TerminateInterrupt(a) \/ TerminateCancel(a)
  <2>1. admin[a] \in AdminRows /\ \A pc \in {"cancel", "end"} : [admin[a] EXCEPT !.pc = pc] \in AdminRows
    BY DEF Types, AdminRows
  <2>2. admin' \in [Admins -> AdminRows]
    BY <1>5, <2>1 DEF Types, TerminateInterrupt, TerminateCancel
  <2>3. ctx' \in BOOLEAN
    BY <1>5 DEF Types, TerminateInterrupt, TerminateCancel, Interrupt, Cancel
  <2>4. rec' \in [paused : BOOLEAN, aborted : BOOLEAN, closed : BOOLEAN]
    BY <1>5 DEF Types, TerminateInterrupt, TerminateCancel, Interrupt, Cancel
  <2>. QED  BY <1>5, <2>2, <2>3, <2>4 DEF Types, TerminateInterrupt, TerminateCancel, Interrupt, Cancel
<1>6. CASE TerminateEnd(a)
  BY <1>6 DEF Types, TerminateEnd, EndSession, gateway, NoRequest, AdminRows
<1>. QED  BY <1>1, <1>2, <1>3, <1>4, <1>5, <1>6 DEF AdminAct, AdminStep, SetPauseRead

LEMMA SessionTypes == ASSUME Types, SessionAct PROVE Types'
<1>1. CASE UpstreamEnds \/ WatchContext \/ CloseConns \/ Flush \/ CloseError \/ Deregister
  BY <1>1 DEF Types, UpstreamEnds, WatchContext, CloseConns, Flush, CloseError, Deregister, others
<1>2. CASE CloseSession
  BY <1>2 DEF Types, CloseSession, EndSession
<1>3. CASE ReconcileRead \/ ApplyInterrupt \/ ApplyCancel
  <2>1. recon' \in Passes
    <3>1. CASE ReconcileRead
      <4>1. (row.state = "active") \in BOOLEAN /\ row.paused \in BOOLEAN
        BY DEF Types
      <4>. QED  BY <3>1, <4>1 DEF ReconcileRead, Passes
    <3>2. CASE ApplyInterrupt
      BY <3>2 DEF Types, ApplyInterrupt, Passes
    <3>3. CASE ApplyCancel
      BY <3>3 DEF ApplyCancel, NoPass, Passes
    <3>. QED  BY <1>3, <3>1, <3>2, <3>3
  <2>2. ctx' \in BOOLEAN
    BY <1>3 DEF Types, ReconcileRead, ApplyInterrupt, ApplyCancel, Interrupt, Cancel, gateway
  <2>3. rec' \in [paused : BOOLEAN, aborted : BOOLEAN, closed : BOOLEAN]
    BY <1>3 DEF Types, ReconcileRead, ApplyInterrupt, ApplyCancel, Interrupt, Cancel, gateway
  <2>. QED  BY <1>3, <2>1, <2>2, <2>3 DEF Types, ReconcileRead, ApplyInterrupt, ApplyCancel, Interrupt, Cancel, gateway
<1>4. CASE ApplyControl
  BY <1>4 DEF Types, ApplyControl, SetGate, NoPass, Passes
<1>5. CASE GatewayDies
  <2>1. loop' \in [Channels -> LoopRows]
    BY <1>5, ReadyRow DEF GatewayDies
  <2>2. admin' \in [Admins -> AdminRows]
    BY <1>5 DEF Types, GatewayDies, NoRequest, AdminRows
  <2>. QED  BY <1>5, <2>1, <2>2 DEF Types, GatewayDies, NoPass, Passes
<1>. QED  BY <1>1, <1>2, <1>3, <1>4, <1>5 DEF SessionAct, Reconcile, Teardown

(* MaxSeq is the number of commands.                                       *)
LEMMA MaxSeqIs == ASSUME Numbered PROVE MaxSeq = Cardinality(cmds) /\ Cardinality(cmds) \in Nat
<1>1. Cardinality(cmds) \in Nat /\ Seqs = 1 .. Cardinality(cmds)
  BY FS_CardinalityType DEF Numbered, CommandTrail
<1>. DEFINE n == Cardinality(cmds)
<1>. HIDE DEF n
<1>2. n \in Seqs \cup {0} /\ \A m \in Seqs : m <= n
  BY <1>1 DEF n
<1>3. \A k \in Seqs \cup {0} : (\A m \in Seqs : m <= k) => k = n
  BY <1>1, <1>2 DEF n
<1>. QED  BY <1>1, <1>2, <1>3 DEF MaxSeq, n

(* Every step of a loop moves that loop's row, and nothing of the session  *)
(* but the context.                                                        *)
LoopMoves(c) ==
    /\ UNCHANGED <<row, live, rec, conn, handler, admin, recon>>
    /\ \E l \in LoopRows :
         /\ loop' = [loop EXCEPT ![c] = l]
         /\ l.pc \in {"read", "log", "insert", "forward"} =>
              \/ loop[c].pc \notin {"gate", "stopped", "absent"}
              \/ loop[c].pc = "gate" /\ GateOpen
              \/ c \in Execs

LEMMA LoopActMoves ==
    ASSUME Types, Numbered, NEW c \in Channels, LoopAct(c) PROVE LoopMoves(c)
<1>0. loop[c] \in LoopRows
  BY DEF Types
<1>1. UNCHANGED <<row, live, rec, conn, handler, admin, recon>>
  BY DEF LoopAct, LoopStep, PassGate, ReadCommand, LogRead, LogInsert, LogDuplicate, LogError, Forward,
     ForwardFails, LoopEnds, OpenChannel, others
<1>2. CASE PassGate(c)
  <2>1. [loop[c] EXCEPT !.pc = "read"] \in LoopRows
    BY <1>0 DEF LoopRows, Pcs
  <2>. QED  BY <1>0, <1>1, <1>2, <2>1 DEF PassGate, At, Goto, LoopMoves
<1>3. CASE ReadCommand(c)
  <2>1. [loop[c] EXCEPT !.pc = "log"] \in LoopRows
    BY <1>0 DEF LoopRows, Pcs
  <2>. QED  BY <1>0, <1>1, <1>3, <2>1 DEF ReadCommand, At, Goto, LoopMoves
<1>4. CASE LogRead(c)
  <2>1. [loop[c] EXCEPT !.pc = "insert", !.seq = MaxSeq + 1] \in LoopRows
    <3>1. MaxSeq + 1 \in Nat
      BY MaxSeqIs
    <3>. QED  BY <1>0, <3>1 DEF LoopRows, Pcs
  <2>. QED  BY <1>0, <1>1, <1>4, <2>1 DEF LogRead, At, Goto, LoopMoves
<1>5. CASE LogInsert(c)
  <2>1. [loop[c] EXCEPT !.pc = "forward"] \in LoopRows
    BY <1>0 DEF LoopRows, Pcs
  <2>2. \E l \in LoopRows : loop' = [loop EXCEPT ![c] = l]
    BY <1>5, <2>1, ReadyRow DEF LogInsert, Goto, Refuse
  <2>. QED  BY <1>0, <1>1, <1>5, <2>2 DEF LogInsert, At, LoopMoves
<1>6. CASE LogDuplicate(c)
  <2>1. [loop[c] EXCEPT !.pc = "log", !.tries = @ + 1] \in LoopRows
    <3>1. loop[c].tries + 1 \in 0 .. MaxRetries - 1
      BY <1>0, <1>6, ControlAssumption DEF LogDuplicate, LoopRows
    <3>. QED  BY <1>0, <3>1 DEF LoopRows, Pcs
  <2>. QED  BY <1>0, <1>1, <1>6, <2>1 DEF LogDuplicate, At, Goto, LoopMoves
<1>7. CASE LogError(c)
  BY <1>0, <1>1, <1>7, ReadyRow DEF LogError, Refuse, Goto, LoopMoves
<1>8. CASE Forward(c)
  BY <1>0, <1>1, <1>8, ReadyRow DEF Forward, At, Goto, LoopMoves
<1>9. CASE ForwardFails(c) \/ LoopEnds(c)
  BY <1>0, <1>1, <1>9, ReadyRow DEF ForwardFails, LoopEnds, At, Goto, LoopMoves
<1>10. CASE OpenChannel(c)
  BY <1>0, <1>1, <1>10, ReadyRow DEF OpenChannel, Goto, LoopMoves
<1>. QED  BY <1>2, <1>3, <1>4, <1>5, <1>6, <1>7, <1>8, <1>9, <1>10 DEF LoopAct, LoopStep

LEMMA LoopTypes ==
    ASSUME Types, Numbered, NEW c \in Channels, LoopAct(c) PROVE Types'
<1>1. UNCHANGED <<row, live, rec, conn, handler, admin, recon>> /\ loop' \in [Channels -> LoopRows]
  BY LoopActMoves DEF LoopMoves, Types
<1>2. ctx' \in BOOLEAN
  BY DEF Types, LoopAct, LoopStep, PassGate, ReadCommand, LogRead, LogInsert, LogDuplicate, LogError, Forward,
     ForwardFails, LoopEnds, OpenChannel, Refuse
<1>3. count' \in [paused : Int, ended : Int, ops : Nat, commands : Nat]
  BY DEF Types, LoopAct, LoopStep, PassGate, ReadCommand, LogRead, LogInsert, LogDuplicate, LogError, Forward,
     ForwardFails, LoopEnds, OpenChannel
<1>4. leaked' \in [Loops -> Nat]
  BY DEF Types, LoopAct, LoopStep, PassGate, ReadCommand, LogRead, LogInsert, LogDuplicate, LogError, Forward,
     ForwardFails, LoopEnds, OpenChannel
<1>. QED  BY <1>1, <1>2, <1>3, <1>4 DEF Types

-----------------------------------------------------------------------------
(* The row, its audit events and the handler                               *)

LEMMA EndFacts ==
    ASSUME Types, AuditMatchesRow, NEW state \in {"closed", "terminated"}, EndSession(state)
    PROVE  AuditMatchesRow' /\ row'.state # "active" /\ row'.paused = row.paused
BY DEF Types, AuditMatchesRow, EndSession

LEMMA AuditAdmin == ASSUME Types, AuditMatchesRow, NEW a \in Admins, AdminAct(a)
                    PROVE  AuditMatchesRow' /\ (row.state # "active" => row'.state # "active")
<1>1. CASE SetPauseRead(a) \/ TerminateBegin(a)
  BY <1>1 DEF SetPauseRead, TerminateBegin, Request, Types, AuditMatchesRow
<1>2. CASE SetPauseCommit(a)
  <2>1. admin[a].pause \in BOOLEAN /\ row.paused \in BOOLEAN
    BY DEF Types, AdminRows
  <2>. QED  BY <1>2, <2>1 DEF SetPauseCommit, Flips, Types, AuditMatchesRow
<1>3. CASE SetPauseHub(a) \/ TerminateInterrupt(a) \/ TerminateCancel(a)
  BY <1>3 DEF SetPauseHub, TerminateInterrupt, TerminateCancel, Interrupt, Cancel, AuditMatchesRow
<1>4. CASE TerminateEnd(a)
  BY <1>4, EndFacts DEF TerminateEnd
<1>. QED  BY <1>1, <1>2, <1>3, <1>4 DEF AdminAct, AdminStep

LEMMA AuditLoop == ASSUME Types, AuditMatchesRow, NEW c \in Channels, LoopAct(c) PROVE AuditMatchesRow'
<1>1. UNCHANGED row /\ count'.paused = count.paused /\ count'.ended = count.ended
  BY DEF Types, LoopAct, LoopStep, PassGate, ReadCommand, LogRead, LogInsert, LogDuplicate, LogError, Forward,
     ForwardFails, LoopEnds, OpenChannel, others
<1>. QED  BY <1>1 DEF AuditMatchesRow

LEMMA AuditSession == ASSUME Types, AuditMatchesRow, SessionAct PROVE AuditMatchesRow'
<1>1. CASE CloseSession
  BY <1>1, EndFacts DEF CloseSession
<1>2. CASE UNCHANGED <<row, count>>
  BY <1>2 DEF AuditMatchesRow
<1>. QED  BY <1>1, <1>2 DEF SessionAct, UpstreamEnds, WatchContext, CloseConns, Reconcile, ReconcileRead, ApplyControl,
     ApplyInterrupt, ApplyCancel, Interrupt, Cancel, Flush, Teardown, CloseError, Deregister, GatewayDies, others

LEMMA EndsAdmin == ASSUME Types, AuditMatchesRow, Ends, NEW a \in Admins, AdminAct(a) PROVE Ends'
<1>1. UNCHANGED <<live, handler>>
  BY DEF AdminAct, AdminStep, SetPauseRead, TerminateBegin, Request, SetPauseCommit, SetPauseHub,
     TerminateInterrupt, TerminateCancel, Interrupt, Cancel, TerminateEnd, gateway
<1>. QED  BY <1>1, AuditAdmin DEF Ends

LEMMA EndsSession == ASSUME Types, AuditMatchesRow, Ends, SessionAct PROVE Ends'
<1>1. CASE CloseSession
  BY <1>1, EndFacts DEF CloseSession, Ends
<1>2. CASE UNCHANGED <<row, live, handler>>
  BY <1>2 DEF Ends
<1>3. CASE Flush \/ CloseError \/ Deregister \/ GatewayDies
  BY <1>3 DEF Flush, CloseError, Deregister, GatewayDies, Ends
<1>. QED  BY <1>1, <1>2, <1>3 DEF SessionAct, UpstreamEnds, WatchContext, CloseConns, Reconcile, ReconcileRead,
     ApplyControl, ApplyInterrupt, ApplyCancel, Interrupt, Cancel, Teardown, gateway, others

-----------------------------------------------------------------------------
(* The gate                                                                *)

(* Raising the gate starts the count again; lowering it opens it.          *)
LEMMA GateLeaks ==
    ASSUME Types, Leaks, NEW p \in BOOLEAN, SetGate(p), UNCHANGED loop PROVE Leaks'
<1>1. CASE p /\ ~rec.paused
  BY <1>1 DEF Types, Leaks, SetGate
<1>2. CASE ~(p /\ ~rec.paused)
  <2>1. leaked' = leaked /\ (GateOpen => GateOpen')
    BY <1>2 DEF Types, SetGate, GateOpen
  <2>. QED  BY <2>1 DEF Leaks
<1>. QED  BY <1>1, <1>2

LEMMA OpenerLeaks ==
    ASSUME Leaks, UNCHANGED <<loop, leaked>>, GateOpen => GateOpen' PROVE Leaks'
BY DEF Leaks

LEMMA LeaksAdmin == ASSUME Types, Leaks, NEW a \in Admins, AdminAct(a) PROVE Leaks'
<1>1. CASE SetPauseHub(a) /\ live
  <2>1. admin[a].pause \in BOOLEAN
    BY DEF Types, AdminRows
  <2>. QED  BY <1>1, <2>1, GateLeaks DEF SetPauseHub
<1>2. CASE UNCHANGED <<rec, loop, leaked>>
  BY <1>2, OpenerLeaks DEF GateOpen
<1>3. CASE Interrupt
  BY <1>3, OpenerLeaks DEF Interrupt, Types, GateOpen
<1>. QED  BY <1>1, <1>2, <1>3 DEF AdminAct, AdminStep, SetPauseRead, TerminateBegin, Request, SetPauseCommit, SetPauseHub,
     TerminateInterrupt, TerminateCancel, Cancel, TerminateEnd, gateway

LEMMA LeaksSession == ASSUME Types, Leaks, SessionAct PROVE Leaks'
<1>1. CASE ApplyControl
  <2>1. CASE live /\ Applied(recon.paused)
    <3>1. recon.paused \in BOOLEAN
      BY DEF Types, Passes
    <3>. QED  BY <1>1, <2>1, <3>1, GateLeaks DEF ApplyControl
  <2>2. CASE ~(live /\ Applied(recon.paused))
    BY <1>1, <2>2, OpenerLeaks DEF ApplyControl, GateOpen
  <2>. QED  BY <2>1, <2>2
<1>2. CASE UNCHANGED <<rec, loop, leaked>>
  BY <1>2, OpenerLeaks DEF GateOpen
<1>3. CASE Interrupt
  BY <1>3, OpenerLeaks DEF Interrupt, Types, GateOpen
<1>4. CASE WatchContext \/ Flush
  BY <1>4, OpenerLeaks DEF WatchContext, Flush, Types, GateOpen
<1>5. CASE GatewayDies
  BY <1>5 DEF GatewayDies, Leaks, GateOpen
<1>. QED  BY <1>1, <1>2, <1>3, <1>4, <1>5 DEF SessionAct, UpstreamEnds, CloseConns, Reconcile, ReconcileRead,
     ApplyInterrupt, ApplyCancel, Cancel, Teardown, CloseSession, CloseError, Deregister, gateway, others

LEMMA LeaksLoop == ASSUME Types, Numbered, Leaks, NEW c \in Channels, LoopAct(c) PROVE Leaks'
<1>1. PICK l \in LoopRows :
        /\ loop' = [loop EXCEPT ![c] = l]
        /\ l.pc \in {"read", "log", "insert", "forward"} =>
             \/ loop[c].pc \notin {"gate", "stopped", "absent"}
             \/ loop[c].pc = "gate" /\ GateOpen
             \/ c \in Execs
  BY LoopActMoves DEF LoopMoves
<1>2. (GateOpen' <=> GateOpen) /\ loop'[c] = l /\ \A d \in Channels \ {c} : loop'[d] = loop[d]
  BY <1>1, LoopActMoves DEF LoopMoves, GateOpen, Types
<1>3. l.pc \in Pcs
  BY <1>1 DEF LoopRows
<1>4. CASE Forward(c)
  <2>1. l.pc = "gate" \/ c \notin Loops
    BY <1>1, <1>2, <1>4, ReadyRow DEF Forward, Goto, Types
  <2>2. CASE ~GateOpen /\ c \in Loops
    <3>1. leaked[c] \in Nat /\ leaked[c] # 1 /\ leaked[c] <= 1
      BY <1>4, <2>2 DEF Forward, At, Leaks, Types
    <3>2. leaked' = [leaked EXCEPT ![c] = leaked[c] + 1]
      BY <1>4, <2>2 DEF Forward
    <3>3. leaked'[c] = 1 /\ \A d \in Loops \ {c} : leaked'[d] = leaked[d]
      BY <2>2, <3>1, <3>2 DEF Types
    <3>. QED  BY <1>2, <2>1, <2>2, <3>3 DEF Leaks, Channels
  <2>3. CASE ~(~GateOpen /\ c \in Loops)
    <3>1. leaked' = leaked
      BY <1>4, <2>3 DEF Forward
    <3>. QED  BY <1>2, <2>3, <3>1 DEF Leaks, Channels
  <2>. QED  BY <2>2, <2>3
<1>5. CASE ~Forward(c)
  <2>1. leaked' = leaked
    BY <1>5 DEF LoopAct, LoopStep, PassGate, ReadCommand, LogRead, LogInsert, LogDuplicate, LogError, ForwardFails,
       LoopEnds, OpenChannel
  <2>2. c \in Loops => c \notin Execs
    BY ControlAssumption
  <2>. QED  BY <1>1, <1>2, <1>3, <2>1, <2>2 DEF Leaks, Channels, Pcs
<1>. QED  BY <1>4, <1>5

-----------------------------------------------------------------------------
(* The command log                                                         *)

(* A loop moves and the log stands still.                                  *)
LEMMA LogStands ==
    ASSUME Types, Numbered, NEW c \in Channels, NEW l, loop' = [loop EXCEPT ![c] = l], Holds(l),
           UNCHANGED cmds, up' \subseteq up \cup {loop[c].seq}, up' # up => loop[c].pc = "forward"
    PROVE  Numbered'
<1>1. \A d \in Channels : Holds(loop'[d])
  BY DEF Types, Numbered
<1>2. \A d \in Channels : Holds(loop[d])'
  BY <1>1 DEF Holds
<1>3. CommandTrail'
  BY DEF Numbered, CommandTrail, Seqs, Holds
<1>. QED  BY <1>2, <1>3 DEF Numbered

(* A loop that is not past its read of MaxSeq holds nothing.               *)
LEMMA HoldsNothing == ASSUME NEW l, l.pc \notin {"insert", "forward"} PROVE Holds(l)
BY DEF Holds

(* The unique index: the number inserted is the next one.                  *)
LEMMA InsertNumbers ==
    ASSUME Types, Numbered, NEW c \in Channels, LogInsert(c) PROVE Numbered'
<1>1. PICK allowed \in BOOLEAN :
        /\ cmds' = cmds \cup {[seq |-> loop[c].seq, allowed |-> allowed]}
        /\ IF allowed THEN Goto(c, [loop[c] EXCEPT !.pc = "forward"]) ELSE Refuse(c)
  BY DEF LogInsert
<1>. DEFINE n == Cardinality(cmds)
            e == [seq |-> loop[c].seq, allowed |-> allowed]
<1>2. n \in Nat /\ Seqs = 1 .. n /\ IsFiniteSet(cmds)
  BY MaxSeqIs DEF Numbered, CommandTrail
<1>3. loop[c].seq = n + 1
  <2>1. loop[c].seq \in 1 .. n + 1 /\ loop[c].seq \notin Seqs
    BY DEF LogInsert, At, Numbered, Holds
  <2>. QED  BY <1>2, <2>1
<1>4. e \notin cmds /\ e.seq = n + 1 /\ e \in [seq : Nat, allowed : BOOLEAN]
  BY <1>2, <1>3 DEF Seqs
<1>5. cmds' = cmds \cup {e}
  BY <1>1
<1>. HIDE DEF e
<1>6. IsFiniteSet(cmds') /\ Cardinality(cmds') = n + 1
  BY <1>2, <1>4, <1>5, FS_AddElement
<1>7. Seqs' = 1 .. n + 1
  <2>1. Seqs' = Seqs \cup {n + 1}
    BY <1>4, <1>5 DEF Seqs
  <2>. QED  BY <1>2, <2>1
<1>8. CommandTrail' /\ cmds' \subseteq [seq : Nat, allowed : BOOLEAN]
  <2>1. \A k \in up' : [seq |-> k, allowed |-> TRUE] \in cmds'
    BY <1>5 DEF LogInsert, Numbered, CommandTrail
  <2>. QED  BY <1>4, <1>5, <1>6, <1>7, <2>1 DEF Numbered, CommandTrail
<1>9. ASSUME NEW d \in Channels PROVE Holds(loop[d])'
  <2>1. CASE d # c
    <3>1. loop'[d] = loop[d] /\ Holds(loop[d])
      BY <1>1, <2>1 DEF Goto, Refuse, Types, Numbered
    <3>2. Holds(loop[d])' <=> /\ loop[d].pc = "insert" => loop[d].seq \in 1 .. n + 2
                              /\ loop[d].pc = "forward" => [seq |-> loop[d].seq, allowed |-> TRUE] \in cmds'
      BY <1>2, <1>6, <3>1 DEF Holds
    <3>. QED  BY <1>2, <1>5, <3>1, <3>2 DEF Holds
  <2>2. CASE d = c /\ allowed
    <3>1. loop'[c].pc = "forward" /\ loop'[c].seq = loop[c].seq
      BY <1>1, <2>2 DEF Goto, Types, LoopRows
    <3>2. [seq |-> loop[c].seq, allowed |-> TRUE] \in cmds'
      BY <1>5, <2>2 DEF e
    <3>. QED  BY <2>2, <3>1, <3>2 DEF Holds
  <2>3. CASE d = c /\ ~allowed
    <3>1. loop'[c].pc \notin {"insert", "forward"}
      BY <1>1, <2>3, ReadyRow DEF Refuse, Goto, Types
    <3>. QED  BY <2>3, <3>1 DEF Holds
  <2>. QED  BY <2>1, <2>2, <2>3
<1>. HIDE DEF n
<1>. QED  BY <1>6, <1>8, <1>9 DEF Numbered

LEMMA NumberedLoop == ASSUME Types, Numbered, NEW c \in Channels, LoopAct(c) PROVE Numbered'
<1>0. loop[c] \in LoopRows
  BY DEF Types
<1>1. CASE PassGate(c)
  <2>1. [loop[c] EXCEPT !.pc = "read"].pc = "read"
    BY <1>0 DEF LoopRows
  <2>. QED  BY <1>1, <2>1, HoldsNothing, LogStands DEF PassGate, Goto, trail
<1>2. CASE ReadCommand(c)
  <2>1. [loop[c] EXCEPT !.pc = "log"].pc = "log"
    BY <1>0 DEF LoopRows
  <2>. QED  BY <1>2, <2>1, HoldsNothing, LogStands DEF ReadCommand, Goto, trail
<1>3. CASE LogRead(c)
  <2>. DEFINE l == [loop[c] EXCEPT !.pc = "insert", !.seq = MaxSeq + 1]
  <2>1. l.pc = "insert" /\ l.seq = MaxSeq + 1
    BY <1>0 DEF LoopRows
  <2>2. loop' = [loop EXCEPT ![c] = l] /\ UNCHANGED <<cmds, up>>
    BY <1>3 DEF LogRead, Goto, trail
  <2>. HIDE DEF l
  <2>3. Holds(l)
    BY <2>1, MaxSeqIs DEF Holds
  <2>. QED  BY <2>2, <2>3, LogStands
<1>4. CASE LogInsert(c)
  BY <1>4, InsertNumbers
<1>5. CASE LogDuplicate(c)
  <2>1. [loop[c] EXCEPT !.pc = "log", !.tries = @ + 1].pc = "log"
    BY <1>0 DEF LoopRows
  <2>. QED  BY <1>5, <2>1, HoldsNothing, LogStands DEF LogDuplicate, Goto, trail
<1>6. CASE LogError(c)
  BY <1>6, ReadyRow, HoldsNothing, LogStands DEF LogError, Refuse, Goto, trail
<1>7. CASE Forward(c)
  BY <1>7, ReadyRow, HoldsNothing, LogStands DEF Forward, At, Goto
<1>8. CASE ForwardFails(c) \/ LoopEnds(c) \/ OpenChannel(c)
  BY <1>8, ReadyRow, HoldsNothing, LogStands DEF ForwardFails, LoopEnds, OpenChannel, Goto, trail
<1>. QED  BY <1>1, <1>2, <1>3, <1>4, <1>5, <1>6, <1>7, <1>8 DEF LoopAct, LoopStep

LEMMA NumberedFrame == ASSUME Numbered, UNCHANGED <<loop, cmds, up>> PROVE Numbered'
BY DEF Numbered, CommandTrail, Seqs, Holds

LEMMA NumberedSession == ASSUME Types, Numbered, SessionAct PROVE Numbered'
<1>1. CASE GatewayDies
  <2>1. \A c \in Channels : loop'[c].pc \in {"absent", "stopped"}
    BY <1>1, ReadyRow DEF GatewayDies
  <2>2. \A c \in Channels : Holds(loop[c])'
    BY <2>1 DEF Holds
  <2>3. UNCHANGED <<cmds, up>>
    BY <1>1 DEF GatewayDies, trail
  <2>. QED  BY <2>2, <2>3 DEF Numbered, CommandTrail, Seqs
<1>2. CASE UNCHANGED <<loop, cmds, up>>
  BY <1>2, NumberedFrame
<1>. QED  BY <1>1, <1>2 DEF SessionAct, UpstreamEnds, WatchContext, CloseConns, Reconcile, ReconcileRead, ApplyControl,
     ApplyInterrupt, ApplyCancel, Interrupt, Cancel, Flush, Teardown, CloseSession, CloseError, Deregister, gateway,
     trail, others

LEMMA NumberedAdmin == ASSUME Types, Numbered, NEW a \in Admins, AdminAct(a) PROVE Numbered'
<1>1. UNCHANGED <<loop, cmds, up>>
  BY DEF AdminAct, AdminStep, SetPauseRead, TerminateBegin, Request, SetPauseCommit, SetPauseHub,
     TerminateInterrupt, TerminateCancel, Interrupt, Cancel, TerminateEnd, gateway, trail
<1>. QED  BY <1>1, NumberedFrame

-----------------------------------------------------------------------------
(* The theorems                                                            *)

LEMMA ControlStep == ASSUME ControlInv, [Next]_vars PROVE ControlInv'
<1>. Types /\ AuditMatchesRow /\ Ends /\ Leaks /\ Numbered
  BY DEF ControlInv
<1>1. ASSUME NEW a \in Admins, AdminAct(a) PROVE ControlInv'
  BY <1>1, AdminTypes, AuditAdmin, EndsAdmin, LeaksAdmin, NumberedAdmin DEF ControlInv
<1>2. ASSUME NEW c \in Channels, LoopAct(c) PROVE ControlInv'
  <2>1. Ends'
    BY <1>2, LoopActMoves DEF LoopMoves, Ends
  <2>. QED  BY <1>2, <2>1, LoopTypes, AuditLoop, LeaksLoop, NumberedLoop DEF ControlInv
<1>3. CASE SessionAct
  BY <1>3, SessionTypes, AuditSession, EndsSession, LeaksSession, NumberedSession DEF ControlInv
<1>4. CASE UNCHANGED vars
  <2>1. Types' /\ AuditMatchesRow' /\ Ends'
    BY <1>4 DEF vars, Types, AuditMatchesRow, Ends
  <2>. QED  BY <1>4, <2>1, OpenerLeaks, NumberedFrame DEF vars, GateOpen, ControlInv
<1>. QED  BY <1>1, <1>2, <1>3, <1>4 DEF Next, AdminAct, LoopAct, SessionAct

(* The inductive invariant holds in every reachable state.                 *)
THEOREM ControlInvariant == Spec => []ControlInv
<1>. QED  BY ControlInit, ControlStep, PTL DEF Spec

(* Columns, flags and loops keep their types; a command is tried at most   *)
(* MaxRetries times.                                                       *)
THEOREM ControlTypeCorrect == Spec => []TypeOK
<1>1. ControlInv => TypeOK
  BY DEF ControlInv, Types, TypeOK, LoopRows, Pcs, AdminRows
<1>. QED  BY <1>1, ControlInvariant, PTL

(* However administrators and the handler's teardown race, the audit chain *)
(* has one event per flip of the flag and one for the end of the session.  *)
THEOREM AuditTellsRow == Spec => []AuditMatchesRow
<1>1. ControlInv => AuditMatchesRow
  BY DEF ControlInv
<1>. QED  BY <1>1, ControlInvariant, PTL

(* Any number of channels number their commands without gap or repeat, and *)
(* nothing is forwarded that is not logged as allowed.                     *)
THEOREM NothingUnlogged == Spec => []CommandTrail
<1>1. ControlInv => CommandTrail
  BY DEF ControlInv, Numbered
<1>. QED  BY <1>1, ControlInvariant, PTL

(* A pause lets at most one command of a loop through.                     *)
THEOREM PauseHolds == Spec => []PauseLeaksAtMostOne
<1>1. ControlInv => PauseLeaksAtMostOne
  BY DEF ControlInv, Leaks, PauseLeaksAtMostOne
<1>. QED  BY <1>1, ControlInvariant, PTL

(* A row is left active without a session behind it only by a gateway that *)
(* died or a close that failed.                                            *)
THEOREM OrphansExplained == Spec => []OrphanRowCauses
<1>1. ControlInv => OrphanRowCauses
  BY DEF ControlInv, Types, Ends, OrphanRowCauses
<1>. QED  BY <1>1, ControlInvariant, PTL
=============================================================================

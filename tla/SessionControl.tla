---------------------------- MODULE SessionControl ----------------------------
(***************************************************************************)
(* Live takeover of one proxied session: administrators who pause, resume  *)
(* and terminate it (pam.SessionManager), the hub and the recorder's pause *)
(* gate in the gateway process, the reconciler that carries the row's      *)
(* intent to the gate, the loops that forward the operator's commands, and *)
(* the handler's teardown.                                                 *)
(*                                                                         *)
(* A loop is a protocol handler's (pg, mysql, redis, mongo, mssql: it asks *)
(* the gate before every read) or an SSH channel's exec requests, which do *)
(* not ask it.  A session has the one or the others, and the channels it   *)
(* does not have are absent.                                               *)
(*                                                                         *)
(* Granularity.  A database transaction, a critical section of the         *)
(* recorder and a blocking read are one action each; everything between    *)
(* them interleaves.                                                       *)
(***************************************************************************)
EXTENDS Integers, FiniteSets

CONSTANTS
    Loops,       \* a protocol handler's forwarding loop
    Execs,       \* the request loops of an SSH session's channels
    Admins,
    Local,       \* the administrators whose manager has the hub for controller
    MaxRetries,  \* LogCommand's maxSeqRetries
    MaxOps,      \* bound: administrators' requests
    MaxCommands  \* bound: the operator's commands

ASSUME ControlAssumption ==
    /\ Local \subseteq Admins
    /\ Loops \cap Execs = {}
    /\ MaxRetries \in Nat \ {0} /\ MaxOps \in Nat /\ MaxCommands \in Nat

VARIABLES
    row,     \* pam_sessions: state and paused
    live,    \* the session is in the hub of a running gateway
    rec,     \* the IORecorder: paused, aborted, closed
    ctx,     \* the session's context is cancelled
    conn,    \* the operator's and the upstream's connections are open
    loop,    \* each forwarding loop
    handler, \* the handler's progress through its deferred calls
    admin,   \* each administrator's request
    recon,   \* the reconciler's pass
    cmds,    \* pam_session_commands: seq and decision
    up,      \* the commands forwarded upstream, by seq
    count,   \* history: paused less resumed events, end events, requests, commands
    leaked   \* history: commands a protocol loop forwarded since the gate was raised

vars == <<row, live, rec, ctx, conn, loop, handler, admin, recon, cmds, up, count, leaked>>

Channels == Loops \cup Execs

gateway == <<live, rec, ctx, conn, loop, handler>>
trail == <<cmds, up>>

Absent == [pc |-> "absent", seq |-> 0, tries |-> 0]
Stopped == [pc |-> "stopped", seq |-> 0, tries |-> 0]
Ready(c) == [pc |-> IF c \in Loops THEN "gate" ELSE "read", seq |-> 0, tries |-> 0]
NoRequest == [pc |-> "idle", pause |-> FALSE]
NoPass == [pc |-> "idle", active |-> FALSE, paused |-> FALSE]

Init ==
    /\ row = [state |-> "active", paused |-> FALSE]
    /\ live = TRUE
    /\ rec = [paused |-> FALSE, aborted |-> FALSE, closed |-> FALSE]
    /\ ctx = FALSE
    /\ conn = TRUE
    /\ \E of \in {Loops, Execs} :
         loop = [c \in Channels |-> IF c \in of THEN Ready(c) ELSE Absent]
    /\ handler = "serving"
    /\ admin = [a \in Admins |-> NoRequest]
    /\ recon = NoPass
    /\ cmds = {}
    /\ up = {}
    /\ count = [paused |-> 0, ended |-> 0, ops |-> 0, commands |-> 0]
    /\ leaked = [c \in Loops |-> 0]

-----------------------------------------------------------------------------
(* The recorder's gate                                                     *)

(* Pause and Resume; either does nothing when the gate is there already.   *)
SetGate(paused) ==
    /\ rec' = [rec EXCEPT !.paused = paused]
    /\ leaked' = IF paused /\ ~rec.paused THEN [c \in Loops |-> 0] ELSE leaked

(* Mutant: an interrupt does not release a paused loop.                    *)
MutGateOpen == ~rec.paused \/ rec.closed

GateOpen == ~rec.paused \/ rec.aborted \/ rec.closed

(* watchContext, and the goroutine of splice that closes both connections. *)
WatchContext ==
    /\ ctx /\ ~rec.aborted
    /\ rec' = [rec EXCEPT !.aborted = TRUE]
    /\ UNCHANGED <<row, live, ctx, conn, loop, handler, admin, recon, trail, count, leaked>>

CloseConns ==
    /\ ctx /\ conn
    /\ conn' = FALSE
    /\ UNCHANGED <<row, live, rec, ctx, loop, handler, admin, recon, trail, count, leaked>>

-----------------------------------------------------------------------------
(* Administrators                                                          *)

Request(a, pc, pause) ==
    /\ admin[a].pc = "idle"
    /\ count.ops < MaxOps
    /\ admin' = [admin EXCEPT ![a] = [pc |-> pc, pause |-> pause]]
    /\ count' = [count EXCEPT !.ops = @ + 1]
    /\ UNCHANGED <<row, gateway, recon, trail, leaked>>

(* setPause reads the row, without a lock, and refuses an ended session.   *)
SetPauseRead(a) == row.state = "active" /\ \E p \in BOOLEAN : Request(a, "set", p)

(* Mutant: the update does not ask whether the flag changes.               *)
MutFlips(p) == row.state = "active"

Flips(p) == row.state = "active" /\ row.paused = ~p

(* The conditional update and its audit event.                             *)
SetPauseCommit(a) ==
    LET p == admin[a].pause IN
    /\ admin[a].pc = "set"
    /\ IF Flips(p)
       THEN /\ row' = [row EXCEPT !.paused = p]
            /\ count' = [count EXCEPT !.paused = IF p THEN @ + 1 ELSE @ - 1]
            /\ admin' = [admin EXCEPT ![a] = IF a \in Local THEN [@ EXCEPT !.pc = "hub"]
                                                            ELSE NoRequest]
       ELSE /\ admin' = [admin EXCEPT ![a] = NoRequest]
            /\ UNCHANGED <<row, count>>
    /\ UNCHANGED <<gateway, recon, trail, leaked>>

(* After the commit: SessionHub.Pause or Resume.                           *)
SetPauseHub(a) ==
    /\ admin[a].pc = "hub"
    /\ IF live THEN SetGate(admin[a].pause) ELSE UNCHANGED <<rec, leaked>>
    /\ admin' = [admin EXCEPT ![a] = NoRequest]
    /\ UNCHANGED <<row, live, ctx, conn, loop, handler, recon, trail, count>>

(* TerminateSession severs the stream before it ends the row; a manager    *)
(* without the hub only ends the row.                                      *)
TerminateBegin(a) == Request(a, IF a \in Local THEN "interrupt" ELSE "end", FALSE)

(* SessionHub.Terminate: Interrupt, then cancel.                           *)
Interrupt ==
    /\ rec' = IF live THEN [rec EXCEPT !.aborted = TRUE] ELSE rec
    /\ UNCHANGED <<row, live, ctx, conn, loop, handler, trail, count, leaked>>

Cancel ==
    /\ ctx' = (ctx \/ live)
    /\ UNCHANGED <<row, live, rec, conn, loop, handler, trail, count, leaked>>

TerminateInterrupt(a) ==
    /\ admin[a].pc = "interrupt"
    /\ Interrupt
    /\ admin' = [admin EXCEPT ![a].pc = "cancel"]
    /\ UNCHANGED recon

TerminateCancel(a) ==
    /\ admin[a].pc = "cancel"
    /\ Cancel
    /\ admin' = [admin EXCEPT ![a].pc = "end"]
    /\ UNCHANGED recon

EndSession(state) ==
    IF row.state = "active"
    THEN /\ row' = [row EXCEPT !.state = state]
         /\ count' = [count EXCEPT !.ended = @ + 1]
    ELSE UNCHANGED <<row, count>>

TerminateEnd(a) ==
    /\ admin[a].pc = "end"
    /\ EndSession("terminated")
    /\ admin' = [admin EXCEPT ![a] = NoRequest]
    /\ UNCHANGED <<gateway, recon, trail, leaked>>

-----------------------------------------------------------------------------
(* The reconciler reads the intent of every session in the hub, and then   *)
(* applies what it read.                                                   *)

ReconcileRead ==
    /\ recon.pc = "idle" /\ live
    /\ recon' = [pc |-> "apply", active |-> row.state = "active", paused |-> row.paused]
    /\ UNCHANGED <<row, gateway, admin, trail, count, leaked>>

(* Mutant: the reconciler pauses but never resumes.                        *)
MutApplied(paused) == paused

Applied(paused) == rec.paused # paused

ApplyControl ==
    /\ recon.pc = "apply" /\ recon.active
    /\ IF live /\ Applied(recon.paused) THEN SetGate(recon.paused) ELSE UNCHANGED <<rec, leaked>>
    /\ recon' = NoPass
    /\ UNCHANGED <<row, live, ctx, conn, loop, handler, admin, trail, count>>

ApplyInterrupt ==
    /\ recon.pc = "apply" /\ ~recon.active
    /\ Interrupt
    /\ recon' = [recon EXCEPT !.pc = "cancel"]
    /\ UNCHANGED admin

ApplyCancel ==
    /\ recon.pc = "cancel"
    /\ Cancel
    /\ recon' = NoPass
    /\ UNCHANGED admin

-----------------------------------------------------------------------------
(* Forwarding                                                              *)

At(c, pc) == loop[c].pc = pc

(* Only the loop moves, and with it what the caller of Goto says.          *)
Goto(c, l) == loop' = [loop EXCEPT ![c] = l]

others == <<row, live, rec, conn, handler, admin, recon>>

Protocol == \E c \in Loops : ~At(c, "absent")

Returned == \A c \in Channels : At(c, "stopped") \/ At(c, "absent")

(* The operator of an SSH session opens another channel.  One opened after *)
(* the context was cancelled is closed at once and can log nothing.        *)
OpenChannel(c) ==
    /\ c \in Execs /\ At(c, "stopped")
    /\ handler = "serving" /\ ~ctx
    /\ Goto(c, Ready(c))
    /\ UNCHANGED <<others, ctx, trail, count, leaked>>

(* The upstream hangs up: the copy back to the operator cancels a protocol *)
(* handler's session; an SSH channel waits for the operator.               *)
UpstreamEnds ==
    /\ Protocol /\ handler = "serving" /\ ~ctx
    /\ ctx' = TRUE
    /\ UNCHANGED <<others, loop, trail, count, leaked>>

(* Mutant: a protocol loop does not wait at the gate.                      *)
MutPassGate(c) ==
    /\ At(c, "gate")
    /\ Goto(c, [loop[c] EXCEPT !.pc = "read"])
    /\ UNCHANGED <<others, ctx, trail, count, leaked>>

PassGate(c) ==
    /\ At(c, "gate")
    /\ GateOpen
    /\ Goto(c, [loop[c] EXCEPT !.pc = "read"])
    /\ UNCHANGED <<others, ctx, trail, count, leaked>>

ReadCommand(c) ==
    /\ At(c, "read") /\ conn
    /\ count.commands < MaxCommands
    /\ Goto(c, [loop[c] EXCEPT !.pc = "log"])
    /\ count' = [count EXCEPT !.commands = @ + 1]
    /\ UNCHANGED <<others, ctx, trail, leaked>>

(* The operator hangs up, or the connection was closed: a protocol loop    *)
(* cancels the session on its way out.                                     *)
LoopEnds(c) ==
    /\ At(c, "read")
    /\ Goto(c, Stopped)
    /\ ctx' = (ctx \/ c \in Loops)
    /\ UNCHANGED <<others, trail, count, leaked>>

(* A command that is denied, or could not be logged: a protocol loop       *)
(* answers with an error and goes on, an exec request ends the session.    *)
Refuse(c) ==
    /\ Goto(c, IF c \in Loops THEN Ready(c) ELSE Stopped)
    /\ ctx' = (ctx \/ c \in Execs)

Seqs == {r.seq : r \in cmds}

MaxSeq == CHOOSE n \in Seqs \cup {0} : \A m \in Seqs : m <= n

(* LogCommand: MAX(seq) is read ...                                        *)
LogRead(c) ==
    /\ At(c, "log") /\ ~ctx
    /\ Goto(c, [loop[c] EXCEPT !.pc = "insert", !.seq = MaxSeq + 1])
    /\ UNCHANGED <<others, ctx, trail, count, leaked>>

(* ... and the row inserted after it, unless another loop took the number  *)
(* meanwhile: the unique index refuses it and the read is tried again.     *)
LogInsert(c) ==
    /\ At(c, "insert") /\ ~ctx
    /\ loop[c].seq \notin Seqs
    /\ \E allowed \in BOOLEAN :
         /\ cmds' = cmds \cup {[seq |-> loop[c].seq, allowed |-> allowed]}
         /\ IF allowed
            THEN Goto(c, [loop[c] EXCEPT !.pc = "forward"]) /\ UNCHANGED ctx
            ELSE Refuse(c)
    /\ UNCHANGED <<others, up, count, leaked>>

LogDuplicate(c) ==
    /\ At(c, "insert") /\ ~ctx
    /\ loop[c].seq \in Seqs
    /\ loop[c].tries + 1 < MaxRetries
    /\ Goto(c, [loop[c] EXCEPT !.pc = "log", !.tries = @ + 1])
    /\ UNCHANGED <<others, ctx, trail, count, leaked>>

(* Mutant: a command that could not be logged is forwarded all the same.   *)
MutLogError(c) ==
    /\ loop[c].pc \in {"log", "insert"}
    /\ Goto(c, [loop[c] EXCEPT !.pc = "forward", !.seq = MaxSeq + 1])
    /\ UNCHANGED <<others, ctx, trail, count, leaked>>

(* The retries are used up, the context is cancelled or the database is    *)
(* away.                                                                   *)
LogError(c) ==
    /\ loop[c].pc \in {"log", "insert"}
    /\ Refuse(c)
    /\ UNCHANGED <<others, trail, count, leaked>>

Forward(c) ==
    /\ At(c, "forward") /\ conn
    /\ up' = up \cup {loop[c].seq}
    /\ leaked' = IF ~GateOpen /\ c \in Loops THEN [leaked EXCEPT ![c] = @ + 1] ELSE leaked
    /\ Goto(c, Ready(c))
    /\ UNCHANGED <<others, ctx, cmds, count>>

ForwardFails(c) ==
    /\ At(c, "forward") /\ ~conn
    /\ Goto(c, Stopped)
    /\ ctx' = (ctx \/ c \in Loops)
    /\ UNCHANGED <<others, trail, count, leaked>>

-----------------------------------------------------------------------------
(* The handler returns once its loops have, that of an SSH session not     *)
(* before the operator's client has closed the connection; its deferred    *)
(* calls run.                                                              *)

Flush ==
    /\ handler = "serving"
    /\ Returned
    /\ handler' = "close"
    /\ rec' = [rec EXCEPT !.closed = TRUE]
    /\ UNCHANGED <<row, live, ctx, conn, loop, admin, recon, trail, count, leaked>>

(* CloseSession; its error is only logged.                                 *)
CloseSession ==
    /\ handler = "close"
    /\ EndSession("closed")
    /\ handler' = "deregister"
    /\ UNCHANGED <<live, rec, ctx, conn, loop, admin, recon, trail, leaked>>

CloseError ==
    /\ handler = "close"
    /\ handler' = "unclosed"
    /\ UNCHANGED <<row, live, rec, ctx, conn, loop, admin, recon, trail, count, leaked>>

Deregister ==
    /\ handler \in {"deregister", "unclosed"}
    /\ handler' = IF handler = "deregister" THEN "gone" ELSE "lost"
    /\ live' = FALSE
    /\ ctx' = TRUE
    /\ conn' = FALSE
    /\ UNCHANGED <<row, rec, loop, admin, recon, trail, count, leaked>>

(* The gateway process dies with everything it holds in memory.            *)
GatewayDies ==
    /\ handler \notin {"gone", "lost"}
    /\ handler' = "lost"
    /\ live' = FALSE
    /\ conn' = FALSE
    /\ ctx' = TRUE
    /\ loop' = [c \in Channels |-> IF At(c, "absent") THEN Absent ELSE Stopped]
    /\ recon' = NoPass
    /\ rec' = [paused |-> FALSE, aborted |-> TRUE, closed |-> TRUE]
    /\ leaked' = [c \in Loops |-> 0]
    /\ admin' = [a \in Admins |-> IF a \in Local THEN NoRequest ELSE admin[a]]
    /\ UNCHANGED <<row, trail, count>>

-----------------------------------------------------------------------------

AdminStep(a) ==
    \/ SetPauseCommit(a) \/ SetPauseHub(a)
    \/ TerminateInterrupt(a) \/ TerminateCancel(a) \/ TerminateEnd(a)

Reconcile == ReconcileRead \/ ApplyControl \/ ApplyInterrupt \/ ApplyCancel

LoopStep(c) ==
    \/ PassGate(c) \/ ReadCommand(c) \/ LogRead(c) \/ LogInsert(c) \/ LogDuplicate(c)
    \/ LogError(c) \/ Forward(c) \/ ForwardFails(c)

Teardown == CloseSession \/ CloseError \/ Deregister

Next ==
    \/ \E a \in Admins : SetPauseRead(a) \/ TerminateBegin(a) \/ AdminStep(a)
    \/ \E c \in Channels : LoopStep(c) \/ LoopEnds(c) \/ OpenChannel(c)
    \/ UpstreamEnds \/ WatchContext \/ CloseConns
    \/ Reconcile \/ Flush \/ Teardown \/ GatewayDies

Spec == Init /\ [][Next]_vars

(* The reconciler ticks for as long as the gateway lives; a request that   *)
(* was accepted and a goroutine that can run do run.  The operator need    *)
(* neither type nor hang up, but a read of a closed connection returns and *)
(* a protocol handler with it.                                             *)
FairSpec ==
    /\ Spec
    /\ WF_vars(Reconcile) /\ WF_vars(WatchContext) /\ WF_vars(CloseConns)
    /\ WF_vars(Protocol /\ Flush) /\ WF_vars(Teardown)
    /\ \A a \in Admins : WF_vars(AdminStep(a))
    /\ \A c \in Channels : WF_vars(LoopStep(c)) /\ WF_vars(~conn /\ LoopEnds(c))

-----------------------------------------------------------------------------
(* Properties                                                              *)

(* Columns, flags and counters are of their types.                         *)
TypeOK ==
    /\ row \in [state : {"active", "closed", "terminated"}, paused : BOOLEAN]
    /\ rec \in [paused : BOOLEAN, aborted : BOOLEAN, closed : BOOLEAN]
    /\ live \in BOOLEAN /\ ctx \in BOOLEAN /\ conn \in BOOLEAN
    /\ \A c \in Channels :
         /\ loop[c].pc \in {"gate", "read", "log", "insert", "forward", "stopped", "absent"}
         /\ loop[c].tries \in 0 .. MaxRetries - 1
    /\ handler \in {"serving", "close", "deregister", "unclosed", "gone", "lost"}
    /\ \A a \in Admins : admin[a].pc \in {"idle", "set", "hub", "interrupt", "cancel", "end"}

(* The audit chain tells the row's story: one paused or resumed event for  *)
(* every flip, so that they alternate, and one end event, although         *)
(* administrators, the handler's deferred close and each other race.       *)
AuditMatchesRow ==
    /\ count.paused = IF row.paused THEN 1 ELSE 0
    /\ count.ended = IF row.state = "active" THEN 0 ELSE 1

(* Commands are numbered without a gap or a repeat although the channels   *)
(* of a session number them concurrently, and nothing goes upstream that   *)
(* is not on record as allowed (LogCommand fails closed).                  *)
CommandTrail ==
    /\ Seqs = 1 .. Cardinality(cmds)
    /\ \A n \in up : [seq |-> n, allowed |-> TRUE] \in cmds

(* What a pause lets through: at most the one command a protocol loop was  *)
(* already waiting for or handling when the gate went up, unless the       *)
(* session is being torn down.                                             *)
PauseLeaksAtMostOne ==
    \A c \in Loops : leaked[c] <= 1

(* The row says active without a handler only after the gateway died or    *)
(* its close failed; while the handler is up nothing else ends it unseen.  *)
OrphanRowCauses ==
    row.state = "active" /\ ~live => handler = "lost"

(* The gate follows the row: once administrators have stopped, a session   *)
(* that is still up has its gate where the row says, whatever order the    *)
(* hub calls and the reconciler's stale reads came in.                     *)
GateConverges ==
    <>[](live /\ row.state = "active" /\ ~rec.aborted => rec.paused = row.paused)

(* A row that has ended is followed by the end of the stream, paused or    *)
(* not: every loop returns, and a protocol session leaves the hub          *)
(* (Interrupt releases the gate, the reconciler carries the end across     *)
(* processes).  The handler of an SSH session stays until its operator's   *)
(* client lets go of the connection.                                       *)
EndedRowSevers ==
    row.state # "active" ~> (Returned /\ (Protocol => ~live))
=============================================================================

------------------------------- MODULE AuditLog -------------------------------
(***************************************************************************)
(* What a workspace's audit trail promises its readers: a log of events    *)
(* that a transaction extends by its own events, together and in order,    *)
(* and that nothing else ever changes.                                     *)
(***************************************************************************)
EXTENDS Integers, Sequences

CONSTANTS
    Recordable, \* the events a transaction may record
    MaxBatch    \* the most events one transaction records

VARIABLE log

Init == log = <<>>

Next ==
    /\ Len(log') \in Len(log) + 1 .. Len(log) + MaxBatch
    /\ SubSeq(log', 1, Len(log)) = log
    /\ \A i \in DOMAIN log' : log'[i] \in Recordable

Spec == Init /\ [][Next]_log
=============================================================================

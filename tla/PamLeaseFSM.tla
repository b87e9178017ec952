----------------------------- MODULE PamLeaseFSM -----------------------------
(***************************************************************************)
(* What a PAM lease promises, independently of how the rows are updated:   *)
(* the "strict state machine" Requested -> Approved -> Active ->           *)
(* Expired/Revoked of internal/models/pam_lease.go.  A lease's state is    *)
(* derived from its timestamps and the clock (PAMLease.Status), so one     *)
(* step of the program, a clock tick, may move several leases at once.     *)
(***************************************************************************)
CONSTANT Leases

VARIABLE status

(* "absent" is a lease nobody has requested yet.                           *)
States == {"absent", "requested", "approved", "active", "expired", "revoked"}

(* The only moves a lease may make.  Revoked is final; Expired can still   *)
(* be revoked, because an explicit kill takes precedence over the TTL.     *)
Edges ==
    { <<"absent", "requested">>,
      <<"requested", "approved">>, <<"requested", "revoked">>,
      <<"approved", "active">>, <<"approved", "expired">>, <<"approved", "revoked">>,
      <<"active", "expired">>, <<"active", "revoked">>,
      <<"expired", "revoked">> }

Init == status = [l \in Leases |-> "absent"]

Next == /\ status' \in [Leases -> States]
        /\ \A l \in Leases :
              status'[l] = status[l] \/ <<status[l], status'[l]>> \in Edges

Spec == Init /\ [][Next]_status
==============================================================================

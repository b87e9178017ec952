------------------------------ MODULE AuditChain ------------------------------
(***************************************************************************)
(* The tamper-evident audit chain every service of a workspace writes into *)
(* (lifecycle.appendAudit, and the pgx and GORM adapters that follow the   *)
(* same protocol), and the verifier that walks it (compliance.evidence).   *)
(*                                                                         *)
(* Rows are kept in the order they were inserted.  A hash is the list of   *)
(* the events it covers, which makes ChainHash injective, as SHA-256 is    *)
(* taken to be; metadata, actor and timestamp are not told apart.          *)
(***************************************************************************)
EXTENDS Integers, Sequences, FiniteSets

Genesis == <<>>

ChainHash(prev, event) == Append(prev, event)

(* The row with the largest chain_seq; seq 0 and no hash when there is none. *)
HeadOf(rows) ==
    IF rows = <<>> THEN [seq |-> 0, hash |-> Genesis]
    ELSE rows[CHOOSE i \in DOMAIN rows :
                  \A j \in DOMAIN rows : rows[j].seq <= rows[i].seq]

NextRow(rows, event) ==
    LET head == HeadOf(rows)
    IN  [seq |-> head.seq + 1, prev |-> head.hash,
         hash |-> ChainHash(head.hash, event), event |-> event]

(* scanChainFrom: past the anchor the rows are numbered without a gap or a *)
(* repeat, each names the hash of the one before and each recomputes.      *)
Scans(rows, anchor) ==
    LET suffix == {i \in DOMAIN rows : rows[i].seq > anchor.seq}
        At(n)  == {r \in {rows[i] : i \in suffix} : r.seq = anchor.seq + n}
    IN  \A n \in 1 .. Cardinality(suffix) :
            \E r \in At(n) :
                /\ r.hash = ChainHash(r.prev, r.event)
                /\ IF n = 1 THEN r.prev = anchor.hash
                            ELSE \E q \in At(n - 1) : r.prev = q.hash

Start == [seq |-> 0, hash |-> Genesis]

(* VerifyChainSince's verdict, from the head it reads first and the rows it *)
(* scans afterwards.                                                       *)
HeadVerdict(rows, anchor) ==
    LET head == HeadOf(rows)
    IN  CASE anchor.seq > head.seq -> "stale_anchor"
          [] anchor.seq = head.seq /\ anchor.hash # head.hash -> "tampered"
          [] OTHER -> "scan"

ScanVerdict(rows, anchor) == IF Scans(rows, anchor) THEN "consistent" ELSE "tampered"

(* The events in chain order: what the head's hash covers.                 *)
EventsOf(rows) == HeadOf(rows).hash
=============================================================================

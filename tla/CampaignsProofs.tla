--------------------------- MODULE CampaignsProofs ---------------------------
(***************************************************************************)
(* Proofs about Campaigns for any number of grants, campaigns, callers and *)
(* faults.                                                                 *)
(*                                                                         *)
(* The properties are not inductive: they rest on what a caller knows      *)
(* between two of its steps.  CampaignInv adds that a deciding caller of a *)
(* certification campaign still holds the campaign FOR SHARE (Deciding),   *)
(* that a closed one is shared with nobody (ClosedUnshared), and that a    *)
(* teardown carries out decisions that are on the items (Revoking) and     *)
(* stamps only what it has revoked (Stamping).                             *)
(***************************************************************************)
EXTENDS Campaigns, TLAPS

CampaignRows == [kind : {"none", "certification", "review"}, state : {"none", "running", "closed"},
                 due : BOOLEAN, overdue : {0, 1}]
ItemRows == [decision : Decisions \cup {"none", "pending"}, stamped : BOOLEAN]
CallStates == {"idle", "decide", "revoke", "stamp", "count", "overdue"}
Calls == [pc : CallStates, k : SUBSET Campaigns, g : SUBSET Grants, d : Decisions \cup {"none"},
          todo : SUBSET (Grants \cup Campaigns)]

RowTypes ==
    /\ grant \in [Grants -> {"active", "ended"}]
    /\ campaign \in [Campaigns -> CampaignRows]
    /\ item \in [Campaigns -> [Grants -> ItemRows]]
    /\ share \in [Campaigns -> SUBSET Callers]
    /\ decided \in [Campaigns -> [Grants -> Nat]]
    /\ call \in [Callers -> Calls]

(* The work list of a sweep holds campaigns, that of a teardown grants.    *)
WorkLists ==
    \A c \in Callers :
        /\ call[c].pc \in {"count", "overdue"} => call[c].todo \subseteq Campaigns
        /\ call[c].pc \in {"revoke", "stamp"} => call[c].todo \subseteq Grants

(* A campaign that was never started has no kind and no items.             *)
Unstarted ==
    \A k \in Campaigns :
        /\ campaign[k].state = "none" <=> campaign[k].kind = "none"
        /\ campaign[k].state = "none" => \A g \in Grants : item[k][g] = NoItem

(* A decision in flight is about an item of a started campaign, and in a   *)
(* certification campaign the caller still holds its share.                *)
DecisionHeld(c) ==
    call[c].pc = "decide" =>
        /\ call[c].d \in Decisions
        /\ \E k \in Campaigns : call[c].k = {k}
        /\ \A k \in call[c].k :
             /\ campaign[k].state # "none"
             /\ IsCertification(k) => c \in share[k]

Deciding == \A c \in Callers : DecisionHeld(c)

Sharing ==
    \A k \in Campaigns : \A c \in share[k] :
        call[c].pc = "decide" /\ call[c].k = {k} /\ IsCertification(k)

ClosedUnshared ==
    \A k \in Campaigns : IsCertification(k) /\ campaign[k].state = "closed" => share[k] = {}

(* What a teardown is about to revoke was decided so.                      *)
Revoking ==
    \A c \in Callers : call[c].pc \in {"revoke", "stamp"} =>
        \A k \in call[c].k, g \in call[c].todo : item[k][g].decision = "revoke"

(* What it is about to stamp is on its list and gone.                      *)
Stamping ==
    \A c \in Callers : call[c].pc = "stamp" =>
        \A g \in call[c].g : g \in call[c].todo /\ grant[g] = "ended"

CampaignInv == /\ RowTypes /\ WorkLists /\ Unstarted
               /\ Deciding /\ Sharing /\ ClosedUnshared
               /\ Revoking /\ Stamping
               /\ DecidedOnce /\ StampedIsGone

(* One entry of a table of rows is replaced.                               *)
LEMMA UpdateEntry ==
    ASSUME NEW K, NEW G, NEW R, NEW f \in [K -> [G -> R]], NEW k \in K, NEW g \in G, NEW r \in R,
           NEW f2, f2 = [f EXCEPT ![k][g] = r]
    PROVE  /\ f2 \in [K -> [G -> R]]
           /\ f2[k][g] = r
           /\ \A j \in K, h \in G : j # k \/ h # g => f2[j][h] = f[j][h]
OBVIOUS

(* Nothing has been started in an initial state.                           *)
LEMMA CampaignInit == Init => CampaignInv
BY DEF Init, Idle, NoItem, CampaignInv, RowTypes, WorkLists, Unstarted, Deciding, DecisionHeld, Sharing, ClosedUnshared,
   Revoking, Stamping, DecidedOnce, StampedIsGone, CampaignRows, ItemRows, CallStates, Calls, Decisions,
   Terminal, IsCertification

-----------------------------------------------------------------------------
(* Steps that leave items and decisions alone                              *)

(* The end of a grant only helps.                                          *)
LEMMA GrantEndsKeeps ==
    ASSUME CampaignInv, NEW g \in Grants, GrantEnds(g) PROVE CampaignInv'
<1>1. /\ grant' \in [Grants -> {"active", "ended"}]
      /\ \A h \in Grants : grant[h] = "ended" => grant'[h] = "ended"
      /\ \A h \in Grants : grant[h] # "active" => grant'[h] # "active"
  BY DEF GrantEnds, CampaignInv, RowTypes
<1>2. UNCHANGED <<campaign, item, share, call, decided>>
  BY DEF GrantEnds
<1>3. RowTypes' /\ WorkLists' /\ Unstarted' /\ Deciding' /\ Sharing' /\ ClosedUnshared' /\ Revoking'
  BY <1>1, <1>2 DEF CampaignInv, RowTypes, WorkLists, Unstarted, Deciding, DecisionHeld, Sharing, ClosedUnshared,
     Revoking, IsCertification
<1>4. Stamping'
  BY <1>1, <1>2 DEF CampaignInv, RowTypes, WorkLists, Stamping, Calls
<1>5. DecidedOnce' /\ StampedIsGone'
  BY <1>1, <1>2 DEF CampaignInv, DecidedOnce, StampedIsGone
<1>. QED  BY <1>3, <1>4, <1>5 DEF CampaignInv

(* A campaign is started with open items, none of them decided; nobody     *)
(* can have a request about it yet.                                        *)
LEMMA StartKeeps ==
    ASSUME CampaignInv, NEW k \in Campaigns, StartCampaign(k) PROVE CampaignInv'
<1>1. PICK kind \in {"certification", "review"}, scope \in SUBSET Grants :
        /\ campaign[k].state = "none"
        /\ campaign' = [campaign EXCEPT ![k].kind = kind, ![k].state = "running"]
        /\ item' = [item EXCEPT ![k] = [g \in Grants |->
              IF g \in scope /\ grant[g] = "active"
              THEN [NoItem EXCEPT !.decision = "pending"] ELSE NoItem]]
        /\ UNCHANGED <<grant, share, call, decided>>
  BY DEF StartCampaign
<1>2. /\ campaign' \in [Campaigns -> CampaignRows]
      /\ campaign'[k].kind = kind /\ campaign'[k].state = "running"
      /\ \A j \in Campaigns \ {k} : campaign'[j] = campaign[j]
  BY <1>1 DEF CampaignInv, RowTypes, CampaignRows
<1>3. /\ item' \in [Campaigns -> [Grants -> ItemRows]]
      /\ \A g \in Grants : item'[k][g].decision \in {"none", "pending"} /\ ~item'[k][g].stamped
      /\ \A j \in Campaigns \ {k} : item'[j] = item[j]
  BY <1>1 DEF CampaignInv, RowTypes, ItemRows, NoItem, Decisions
<1>4. share[k] = {} /\ campaign[k].kind = "none"
  BY <1>1 DEF CampaignInv, RowTypes, Unstarted, Sharing, IsCertification
<1>5. RowTypes' /\ WorkLists' /\ Unstarted'
  <2>1. RowTypes'
    BY <1>1, <1>2, <1>3 DEF CampaignInv, RowTypes
  <2>2. WorkLists'
    BY <1>1, <1>2, <1>3 DEF CampaignInv, WorkLists
  <2>3. Unstarted'
    BY <1>1, <1>2, <1>3 DEF CampaignInv, Unstarted
  <2>. QED  BY <2>1, <2>2, <2>3
<1>6. Deciding'
  BY <1>1, <1>2 DEF CampaignInv, RowTypes, Deciding, DecisionHeld, IsCertification
<1>7. Sharing' /\ ClosedUnshared'
  BY <1>1, <1>2, <1>4 DEF CampaignInv, Sharing, ClosedUnshared, IsCertification
<1>8. Revoking'
  <2>1. \A c \in Callers : call[c].pc \in {"revoke", "stamp"} /\ call[c].todo # {} => k \notin call[c].k
    BY <1>1 DEF CampaignInv, RowTypes, WorkLists, Calls, Revoking, Unstarted, NoItem
  <2>. QED  BY <1>1, <1>3, <2>1 DEF CampaignInv, RowTypes, Calls, Revoking
<1>9. Stamping'
  BY <1>1 DEF CampaignInv, Stamping
<1>10. DecidedOnce' /\ StampedIsGone'
  <2>1. \A g \in Grants : decided[k][g] = 0
    BY <1>1 DEF CampaignInv, DecidedOnce, Unstarted, NoItem, Terminal
  <2>. QED  BY <1>1, <1>3, <2>1 DEF CampaignInv, DecidedOnce, StampedIsGone, Terminal
<1>. QED  BY <1>5, <1>6, <1>7, <1>8, <1>9, <1>10 DEF CampaignInv

(* A step that rewrites a campaign row and keeps its kind, does not start  *)
(* it and closes a certification campaign only when nobody shares it.      *)
RowsMove ==
    /\ campaign' \in [Campaigns -> CampaignRows]
    /\ \A k \in Campaigns :
         /\ campaign'[k].kind = campaign[k].kind
         /\ campaign'[k].state = "none" <=> campaign[k].state = "none"
         /\ campaign'[k].state = "closed" /\ IsCertification(k)
               => campaign[k].state = "closed" \/ share[k] = {}

LEMMA RowChangeKeeps ==
    ASSUME CampaignInv, RowsMove, UNCHANGED <<grant, item, share, call, decided>>
    PROVE  CampaignInv'
<1>1. RowTypes' /\ WorkLists' /\ Revoking' /\ Stamping' /\ DecidedOnce' /\ StampedIsGone'
  BY DEF RowsMove, CampaignInv, RowTypes, WorkLists, Revoking, Stamping, DecidedOnce, StampedIsGone
<1>2. Unstarted'
  BY DEF RowsMove, CampaignInv, Unstarted
<1>3. Deciding'
  BY DEF RowsMove, CampaignInv, RowTypes, Calls, Deciding, DecisionHeld, IsCertification
<1>4. Sharing' /\ ClosedUnshared'
  BY DEF RowsMove, CampaignInv, Sharing, ClosedUnshared, IsCertification
<1>. QED  BY <1>1, <1>2, <1>3, <1>4 DEF CampaignInv

(* One row is replaced by another of the same kind.                        *)
LEMMA ReplaceRow ==
    ASSUME CampaignInv, NEW k \in Campaigns, NEW row \in CampaignRows, row.kind = campaign[k].kind,
           campaign' = [campaign EXCEPT ![k] = row]
    PROVE  /\ campaign' \in [Campaigns -> CampaignRows]
           /\ campaign'[k] = row
           /\ \A j \in Campaigns : campaign'[j].kind = campaign[j].kind
           /\ \A j \in Campaigns \ {k} : campaign'[j].state = campaign[j].state
BY DEF CampaignInv, RowTypes

LEMMA DuePassesKeeps ==
    ASSUME CampaignInv, NEW k \in Campaigns, DuePasses(k) PROVE CampaignInv'
<1>1. /\ campaign' \in [Campaigns -> CampaignRows]
      /\ \A j \in Campaigns : campaign'[j].kind = campaign[j].kind /\ campaign'[j].state = campaign[j].state
  <2>. DEFINE row == [campaign[k] EXCEPT !.due = TRUE]
  <2>1. campaign[k] \in CampaignRows
    BY DEF CampaignInv, RowTypes
  <2>2. row \in CampaignRows /\ row.kind = campaign[k].kind /\ row.state = campaign[k].state
    BY <2>1 DEF CampaignRows
  <2>3. campaign' = [campaign EXCEPT ![k] = row]
    BY DEF DuePasses
  <2>. HIDE DEF row
  <2>. QED  BY <2>2, <2>3, ReplaceRow
<1>. QED  BY <1>1, RowChangeKeeps DEF RowsMove, DuePasses

LEMMA CompleteKeeps ==
    ASSUME CampaignInv, NEW k \in Campaigns, CompleteCampaign(k) PROVE CampaignInv'
<1>1. /\ campaign' \in [Campaigns -> CampaignRows]
      /\ \A j \in Campaigns : campaign'[j].kind = campaign[j].kind
      /\ \A j \in Campaigns \ {k} : campaign'[j].state = campaign[j].state
      /\ campaign'[k].state = "closed"
  <2>. DEFINE row == [campaign[k] EXCEPT !.state = "closed"]
  <2>1. campaign[k] \in CampaignRows
    BY DEF CampaignInv, RowTypes
  <2>2. row \in CampaignRows /\ row.kind = campaign[k].kind /\ row.state = "closed"
    BY <2>1 DEF CampaignRows
  <2>3. campaign' = [campaign EXCEPT ![k] = row]
    BY DEF CompleteCampaign
  <2>. HIDE DEF row
  <2>. QED  BY <2>2, <2>3, ReplaceRow
<1>2. campaign[k].kind = "review" /\ campaign[k].state # "none"
  BY DEF CompleteCampaign, IsReview, CampaignInv, Unstarted
<1>. QED  BY <1>1, <1>2, RowChangeKeeps DEF RowsMove, CompleteCampaign, IsCertification

-----------------------------------------------------------------------------
(* Decisions                                                               *)

(* A caller starts to decide: in a certification campaign it has taken its *)
(* share while the campaign was running.                                   *)
LEMMA ReviewingKeeps ==
    ASSUME CampaignInv, NEW c \in Callers, NEW k \in Campaigns, NEW g \in Grants, NEW d \in Decisions,
           Reviewing(c, k, g, d), UNCHANGED <<grant, campaign, item, decided>>,
           \/ IsReview(k) /\ UNCHANGED share
           \/ IsCertification(k) /\ share' = [share EXCEPT ![k] = @ \cup {c}]
    PROVE  CampaignInv'
<1>1. /\ call' \in [Callers -> Calls]
      /\ call'[c].pc = "decide" /\ call'[c].k = {k} /\ call'[c].d = d
      /\ \A b \in Callers \ {c} : call'[b] = call[b]
      /\ call[c].pc = "idle" /\ campaign[k].state = "running"
  BY DEF Reviewing, Is, Idle, CampaignInv, RowTypes, Calls, CallStates
<1>2. /\ share' \in [Campaigns -> SUBSET Callers]
      /\ \A j \in Campaigns \ {k} : share'[j] = share[j]
      /\ share[k] \subseteq share'[k] /\ share'[k] \subseteq share[k] \cup {c}
      /\ IsCertification(k) => c \in share'[k]
      /\ ~IsCertification(k) => share' = share
  BY DEF CampaignInv, RowTypes, IsReview, IsCertification
<1>3. RowTypes' /\ WorkLists' /\ Unstarted'
  <2>1. RowTypes'
    BY <1>1, <1>2 DEF CampaignInv, RowTypes
  <2>2. WorkLists'
    BY <1>1, <1>2 DEF CampaignInv, WorkLists
  <2>3. Unstarted'
    BY <1>1, <1>2 DEF CampaignInv, Unstarted
  <2>. QED  BY <2>1, <2>2, <2>3
<1>4. Deciding'
  <2>1. ASSUME NEW b \in Callers, b # c
        PROVE  DecisionHeld(b)'
    <3>1. call'[b] = call[b] /\ campaign' = campaign
      BY <1>1, <2>1
    <3>2. \A j \in Campaigns : share[j] \subseteq share'[j]
      BY <1>2
    <3>. QED  BY <2>1, <3>1, <3>2 DEF CampaignInv, Deciding, DecisionHeld, IsCertification
  <2>2. DecisionHeld(c)'
    BY <1>1, <1>2 DEF DecisionHeld, IsCertification
  <2>. QED  BY <2>1, <2>2 DEF Deciding
<1>5. Sharing'
  <2>1. \A j \in Campaigns : c \notin share[j]
    BY <1>1 DEF CampaignInv, Sharing
  <2>2. ASSUME NEW j \in Campaigns, NEW b \in share'[j]
        PROVE  call'[b].pc = "decide" /\ call'[b].k = {j} /\ IsCertification(j)'
    <3>1. CASE b = c
      BY <1>1, <1>2, <2>1, <2>2, <3>1 DEF IsCertification
    <3>2. CASE b # c
      BY <1>1, <1>2, <2>2, <3>2 DEF CampaignInv, RowTypes, Sharing, IsCertification
    <3>. QED  BY <3>1, <3>2
  <2>. QED  BY <2>2 DEF Sharing
<1>6. ClosedUnshared'
  BY <1>1, <1>2 DEF CampaignInv, ClosedUnshared, IsCertification
<1>7. Revoking' /\ Stamping'
  BY <1>1 DEF CampaignInv, Revoking, Stamping
<1>8. DecidedOnce' /\ StampedIsGone'
  BY DEF CampaignInv, DecidedOnce, StampedIsGone
<1>. QED  BY <1>3, <1>4, <1>5, <1>6, <1>7, <1>8 DEF CampaignInv

(* A caller leaves a transaction without writing: it is idle again and has *)
(* given its shares back.                                                  *)
LEMMA ReleaseKeeps ==
    ASSUME CampaignInv, NEW c \in Callers, UNCHANGED <<grant, campaign, item, decided>>,
           share' = Released(c), call' = [call EXCEPT ![c] = Idle]
    PROVE  CampaignInv'
<1>1. /\ call' \in [Callers -> Calls]
      /\ call'[c].pc = "idle"
      /\ \A b \in Callers \ {c} : call'[b] = call[b]
  BY DEF Idle, CampaignInv, RowTypes, Calls, CallStates
<1>2. /\ share' \in [Campaigns -> SUBSET Callers]
      /\ \A k \in Campaigns : share'[k] = share[k] \ {c}
  BY DEF Released, CampaignInv, RowTypes
<1>3. RowTypes' /\ WorkLists' /\ Unstarted'
  <2>1. RowTypes'
    BY <1>1, <1>2 DEF CampaignInv, RowTypes
  <2>2. WorkLists'
    BY <1>1, <1>2 DEF CampaignInv, WorkLists
  <2>3. Unstarted'
    BY <1>1, <1>2 DEF CampaignInv, Unstarted
  <2>. QED  BY <2>1, <2>2, <2>3
<1>4. Deciding'
  BY <1>1, <1>2 DEF CampaignInv, RowTypes, Calls, Deciding, DecisionHeld, IsCertification
<1>5. Sharing' /\ ClosedUnshared'
  BY <1>1, <1>2 DEF CampaignInv, RowTypes, Sharing, ClosedUnshared, IsCertification
<1>6. Revoking' /\ Stamping' /\ DecidedOnce' /\ StampedIsGone'
  BY <1>1 DEF CampaignInv, Revoking, Stamping, DecidedOnce, StampedIsGone
<1>. QED  BY <1>3, <1>4, <1>5, <1>6 DEF CampaignInv

(* The transaction of a decision.  A terminal decision is written only     *)
(* over an open item, so that it is counted once; the teardown that may    *)
(* follow is for a revoke that is on the item by then.                     *)
LEMMA SubmitKeeps ==
    ASSUME CampaignInv, NEW c \in Callers, Submit(c) PROVE CampaignInv'
<1>1. PICK k \in call[c].k, g \in call[c].g : SubmitDecision(c, k, g, call[c].d)
  BY DEF Submit
<1>2. /\ call[c].pc = "decide" /\ k \in Campaigns /\ g \in Grants
      /\ call[c].d \in Decisions /\ campaign[k].state # "none"
  BY <1>1 DEF Submit, Is, CampaignInv, RowTypes, Calls, Deciding, DecisionHeld
<1>. DEFINE d == call[c].d
            old == item[k][g].decision
            writes == Accepted(old, d) /\ Recorded(old)
            next == IF IsReview(k) /\ Accepted(old, d) /\ d = "revoke"
                    THEN [Idle EXCEPT !.pc = "revoke", !.k = {k}, !.todo = {g}] ELSE Idle
<1>3. /\ share' = Released(c)
      /\ call' = [call EXCEPT ![c] = next]
      /\ UNCHANGED <<grant, campaign>>
      /\ writes => /\ item' = [item EXCEPT ![k][g].decision = d]
                   /\ decided' = IF d \in Terminal THEN [decided EXCEPT ![k][g] = @ + 1] ELSE decided
      /\ ~writes => UNCHANGED <<item, decided>>
  BY <1>1 DEF SubmitDecision
<1>4. /\ call' \in [Callers -> Calls]
      /\ call'[c] = next /\ call'[c].pc \in {"idle", "revoke"}
      /\ \A b \in Callers \ {c} : call'[b] = call[b]
  <2>1. next \in Calls /\ next.pc \in {"idle", "revoke"}
    BY <1>2 DEF Idle, Calls, CallStates
  <2>. QED  BY <1>3, <2>1 DEF CampaignInv, RowTypes
<1>5. /\ share' \in [Campaigns -> SUBSET Callers]
      /\ \A j \in Campaigns : share'[j] = share[j] \ {c}
  BY <1>3 DEF Released, CampaignInv, RowTypes
<1>6. /\ item' \in [Campaigns -> [Grants -> ItemRows]]
      /\ \A j \in Campaigns, h \in Grants : j # k \/ h # g => item'[j][h] = item[j][h]
      /\ item'[k][g].stamped = item[k][g].stamped
      /\ writes => item'[k][g].decision = d
      /\ ~writes => item' = item
  <2>1. CASE writes
    <3>. DEFINE row == [item[k][g] EXCEPT !.decision = d]
    <3>1. item \in [Campaigns -> [Grants -> ItemRows]] /\ item[k][g] \in ItemRows
      BY <1>2 DEF CampaignInv, RowTypes
    <3>2. row \in ItemRows /\ row.decision = d /\ row.stamped = item[k][g].stamped
      BY <1>2, <3>1 DEF ItemRows
    <3>3. item' = [item EXCEPT ![k][g] = row]
      BY <1>3, <2>1
    <3>. HIDE DEF row
    <3>. QED  BY <1>2, <2>1, <3>1, <3>2, <3>3, UpdateEntry
  <2>2. CASE ~writes
    BY <1>3, <2>2 DEF CampaignInv, RowTypes
  <2>. QED  BY <2>1, <2>2
<1>7. /\ decided' \in [Campaigns -> [Grants -> Nat]]
      /\ \A j \in Campaigns, h \in Grants : j # k \/ h # g => decided'[j][h] = decided[j][h]
      /\ writes => decided'[k][g] = IF d \in Terminal THEN decided[k][g] + 1 ELSE decided[k][g]
      /\ ~writes => decided' = decided
  <2>1. CASE writes /\ d \in Terminal
    <3>1. decided \in [Campaigns -> [Grants -> Nat]] /\ decided[k][g] + 1 \in Nat
      BY <1>2 DEF CampaignInv, RowTypes
    <3>2. decided' = [decided EXCEPT ![k][g] = decided[k][g] + 1]
      BY <1>3, <2>1
    <3>. QED  BY <1>2, <2>1, <3>1, <3>2, UpdateEntry
  <2>2. CASE writes /\ d \notin Terminal
    BY <1>3, <2>2 DEF CampaignInv, RowTypes
  <2>3. CASE ~writes
    BY <1>3, <2>3 DEF CampaignInv, RowTypes
  <2>. QED  BY <2>1, <2>2, <2>3
<1>8. \A j \in Campaigns, h \in Grants : item[j][h].decision = "revoke" => item'[j][h].decision = "revoke"
  <2>1. writes => old \notin Terminal
    BY DEF Recorded
  <2>. QED  BY <1>6, <2>1 DEF Terminal
<1>9. RowTypes'
  BY <1>3, <1>4, <1>5, <1>6, <1>7 DEF CampaignInv, RowTypes
<1>10. WorkLists'
  <2>1. next.pc = "revoke" => next.todo = {g}
    BY DEF Idle
  <2>2. /\ call'[c].pc \notin {"stamp", "count", "overdue"}
        /\ call'[c].pc = "revoke" => call'[c].todo \subseteq Grants
    BY <1>2, <1>4, <2>1
  <2>. QED  BY <1>4, <2>2 DEF CampaignInv, WorkLists
<1>11. Unstarted'
  BY <1>2, <1>3, <1>6 DEF CampaignInv, Unstarted
<1>12. Deciding'
  <2>1. ASSUME NEW b \in Callers, call'[b].pc = "decide"
        PROVE  DecisionHeld(b)'
    <3>1. b # c /\ call'[b] = call[b] /\ campaign' = campaign
      BY <1>3, <1>4, <2>1
    <3>. QED  BY <1>5, <2>1, <3>1 DEF CampaignInv, Deciding, DecisionHeld, IsCertification
  <2>2. ASSUME NEW b \in Callers, call'[b].pc # "decide" PROVE DecisionHeld(b)'
    BY <2>2 DEF DecisionHeld
  <2>. QED  BY <2>1, <2>2 DEF Deciding
<1>13. Sharing' /\ ClosedUnshared'
  BY <1>3, <1>4, <1>5 DEF CampaignInv, RowTypes, Sharing, ClosedUnshared, IsCertification
<1>14. Revoking'
  <2>1. ASSUME next.pc = "revoke" PROVE next.k = {k} /\ next.todo = {g} /\ item'[k][g].decision = "revoke"
    <3>1. d = "revoke" /\ Accepted(old, d) /\ next.k = {k} /\ next.todo = {g}
      BY <2>1 DEF Idle
    <3>2. CASE writes
      BY <1>6, <3>1, <3>2
    <3>3. CASE ~writes
      BY <1>6, <3>1, <3>3 DEF Accepted, Recorded
    <3>. QED  BY <3>1, <3>2, <3>3
  <2>2. ASSUME NEW b \in Callers, b # c, call'[b].pc \in {"revoke", "stamp"},
               NEW j \in call'[b].k, NEW h \in call'[b].todo
        PROVE  item'[j][h].decision = "revoke"
    <3>1. call'[b] = call[b]
      BY <1>4, <2>2
    <3>2. j \in Campaigns /\ h \in Grants /\ item[j][h].decision = "revoke"
      BY <2>2, <3>1 DEF CampaignInv, RowTypes, Calls, WorkLists, Revoking
    <3>. QED  BY <1>8, <3>2
  <2>. QED  BY <1>4, <2>1, <2>2 DEF Revoking
<1>15. Stamping'
  BY <1>3, <1>4 DEF CampaignInv, Stamping
<1>16. DecidedOnce'
  <2>1. CASE writes
    <3>1. decided[k][g] = 0
      BY <1>2, <2>1 DEF CampaignInv, DecidedOnce, Recorded
    <3>2. decided'[k][g] = IF item'[k][g].decision \in Terminal THEN 1 ELSE 0
      BY <1>6, <1>7, <2>1, <3>1
    <3>. QED  BY <1>6, <1>7, <3>2 DEF CampaignInv, DecidedOnce
  <2>2. CASE ~writes
    BY <1>6, <1>7, <2>2 DEF CampaignInv, DecidedOnce
  <2>. QED  BY <2>1, <2>2
<1>17. StampedIsGone'
  BY <1>3, <1>6, <1>8 DEF CampaignInv, StampedIsGone
<1>. QED  BY <1>9, <1>10, <1>11, <1>12, <1>13, <1>14, <1>15, <1>16, <1>17 DEF CampaignInv

-----------------------------------------------------------------------------
(* Closes, teardowns and sweeps                                            *)

(* A caller that is not deciding takes its next step: neither its shares   *)
(* nor anybody else's request change.                                      *)
Takes(c, q) ==
    /\ call[c].pc # "decide" /\ q.pc # "decide"
    /\ q \in Calls
    /\ call' = [call EXCEPT ![c] = q]
    /\ UNCHANGED share

LEMMA TakesFrame ==
    ASSUME CampaignInv, NEW c \in Callers, NEW q, Takes(c, q)
    PROVE  /\ call' \in [Callers -> Calls] /\ call'[c] = q
           /\ \A b \in Callers \ {c} : call'[b] = call[b]
           /\ share' = share /\ \A k \in Campaigns : c \notin share[k]
BY DEF Takes, CampaignInv, RowTypes, Sharing

LEMMA CallChangeKeeps ==
    ASSUME CampaignInv, NEW c \in Callers, NEW q, Takes(c, q), RowsMove,
           UNCHANGED <<grant, item, decided>>,
           q.pc \in {"count", "overdue"} => q.todo \subseteq Campaigns,
           q.pc # "stamp",
           q.pc = "revoke" => /\ q.todo \subseteq Grants
                              /\ \A k \in q.k, g \in q.todo : item[k][g].decision = "revoke"
    PROVE  CampaignInv'
<1>1. /\ call' \in [Callers -> Calls] /\ call'[c] = q
      /\ \A b \in Callers \ {c} : call'[b] = call[b]
      /\ share' = share /\ \A k \in Campaigns : c \notin share[k]
      /\ q.pc # "decide"
  BY TakesFrame DEF Takes
<1>2. RowTypes'
  BY <1>1 DEF RowsMove, CampaignInv, RowTypes
<1>3. Unstarted'
  BY DEF RowsMove, CampaignInv, Unstarted
<1>4. WorkLists'
  BY <1>1 DEF CampaignInv, WorkLists
<1>5. Deciding'
  <2>1. ASSUME NEW b \in Callers, b # c PROVE DecisionHeld(b)'
    <3>1. call'[b] = call[b] /\ call[b].k \subseteq Campaigns
      BY <1>1, <2>1 DEF CampaignInv, RowTypes, Calls
    <3>. QED  BY <1>1, <3>1 DEF RowsMove, CampaignInv, Deciding, DecisionHeld, IsCertification
  <2>. QED  BY <1>1, <2>1 DEF Deciding, DecisionHeld
<1>6. Sharing' /\ ClosedUnshared'
  BY <1>1 DEF RowsMove, CampaignInv, RowTypes, Sharing, ClosedUnshared, IsCertification
<1>7. Revoking'
  BY <1>1 DEF CampaignInv, Revoking
<1>8. Stamping'
  BY <1>1 DEF CampaignInv, Stamping
<1>9. DecidedOnce' /\ StampedIsGone'
  BY DEF CampaignInv, DecidedOnce, StampedIsGone
<1>. QED  BY <1>2, <1>3, <1>4, <1>5, <1>6, <1>7, <1>8, <1>9 DEF CampaignInv

(* A close waits for the shares to be gone and snapshots what is staged.   *)
LEMMA CloseKeeps ==
    ASSUME CampaignInv, NEW c \in Callers, CloseCampaign(c) PROVE CampaignInv'
<1>1. PICK k \in Campaigns :
        /\ Is(c, "idle") /\ IsCertification(k) /\ share[k] = {}
        /\ campaign' = [campaign EXCEPT ![k].state = "closed"]
        /\ call' = [call EXCEPT ![c] =
              IF stagedRevokes(k) = {} THEN Idle
              ELSE [Idle EXCEPT !.pc = "revoke", !.k = {k}, !.todo = stagedRevokes(k)]]
        /\ UNCHANGED <<grant, item, share, decided>>
  BY DEF CloseCampaign
<1>. DEFINE q == IF stagedRevokes(k) = {} THEN Idle
                 ELSE [Idle EXCEPT !.pc = "revoke", !.k = {k}, !.todo = stagedRevokes(k)]
<1>2. RowsMove
  <2>1. campaign[k].state # "none"
    BY <1>1 DEF CampaignInv, Unstarted, IsCertification
  <2>. QED  BY <1>1, <2>1 DEF RowsMove, CampaignInv, RowTypes, CampaignRows
<1>3. stagedRevokes(k) \subseteq Grants /\ \A g \in stagedRevokes(k) : item[k][g].decision = "revoke"
  BY DEF stagedRevokes
<1>4. /\ q \in Calls /\ q.pc \in {"idle", "revoke"}
      /\ q.pc = "revoke" => q.k = {k} /\ q.todo = stagedRevokes(k)
  BY <1>3 DEF Idle, Calls, CallStates
<1>5. Takes(c, q)
  BY <1>1, <1>4 DEF Takes, Is
<1>. HIDE DEF q
<1>. QED  BY <1>1, <1>2, <1>3, <1>4, <1>5, CallChangeKeeps

(* A grant of the work list is revoked at the provider.                    *)
LEMMA RevokeKeeps ==
    ASSUME CampaignInv, NEW c \in Callers, RevokeGrant(c) PROVE CampaignInv'
<1>1. PICK k \in call[c].k, g \in call[c].todo :
        /\ grant' = [grant EXCEPT ![g] = "ended"]
        /\ call' = [call EXCEPT ![c] =
              IF IsCertification(k) THEN [@ EXCEPT !.pc = "stamp", !.g = {g}] ELSE Idle]
  BY DEF RevokeGrant
<1>2. call[c].pc = "revoke" /\ UNCHANGED <<campaign, item, share, decided>>
  BY DEF RevokeGrant, Is
<1>3. call[c] \in Calls /\ k \in Campaigns /\ g \in Grants /\ call[c].todo \subseteq Grants
  BY <1>2 DEF CampaignInv, RowTypes, WorkLists, Calls
<1>. DEFINE q == IF IsCertification(k) THEN [call[c] EXCEPT !.pc = "stamp", !.g = {g}] ELSE Idle
<1>4. /\ q \in Calls /\ q.pc \in {"idle", "stamp"}
      /\ q.pc = "stamp" => q.k = call[c].k /\ q.todo = call[c].todo /\ q.g = {g}
  BY <1>3 DEF Idle, Calls, CallStates
<1>5. /\ call' \in [Callers -> Calls] /\ call'[c] = q
      /\ \A b \in Callers \ {c} : call'[b] = call[b]
      /\ \A j \in Campaigns : c \notin share[j]
  BY <1>1, <1>2, <1>4 DEF CampaignInv, RowTypes, Sharing
<1>. HIDE DEF q
<1>6. /\ grant' \in [Grants -> {"active", "ended"}]
      /\ grant'[g] = "ended"
      /\ \A h \in Grants \ {g} : grant'[h] = grant[h]
  BY <1>1, <1>3 DEF CampaignInv, RowTypes
<1>7. RowTypes'
  BY <1>2, <1>5, <1>6 DEF CampaignInv, RowTypes
<1>8. WorkLists'
  BY <1>3, <1>4, <1>5 DEF CampaignInv, WorkLists
<1>9. Unstarted'
  BY <1>2 DEF CampaignInv, Unstarted
<1>10. Deciding'
  BY <1>2, <1>4, <1>5 DEF CampaignInv, Deciding, DecisionHeld, IsCertification
<1>11. Sharing' /\ ClosedUnshared'
  BY <1>2, <1>5 DEF CampaignInv, RowTypes, Sharing, ClosedUnshared, IsCertification
<1>12. Revoking'
  BY <1>2, <1>4, <1>5 DEF CampaignInv, Revoking
<1>13. Stamping'
  <2>1. ASSUME NEW b \in Callers, b # c, call'[b].pc = "stamp", NEW h \in call'[b].g
        PROVE  h \in call'[b].todo /\ grant'[h] = "ended"
    <3>1. call'[b] = call[b] /\ h \in Grants
      BY <1>5, <2>1 DEF CampaignInv, RowTypes, Calls
    <3>. QED  BY <1>6, <2>1, <3>1 DEF CampaignInv, Stamping
  <2>2. call'[c].pc = "stamp" => \A h \in call'[c].g : h \in call'[c].todo /\ grant'[h] = "ended"
    BY <1>4, <1>5, <1>6
  <2>. QED  BY <2>1, <2>2 DEF Stamping
<1>14. DecidedOnce' /\ StampedIsGone'
  BY <1>2, <1>6 DEF CampaignInv, DecidedOnce, StampedIsGone
<1>. QED  BY <1>7, <1>8, <1>9, <1>10, <1>11, <1>12, <1>13, <1>14 DEF CampaignInv

(* The stamp goes on a revoke that has been carried out.                   *)
LEMMA StampKeeps ==
    ASSUME CampaignInv, NEW c \in Callers, Stamp(c) PROVE CampaignInv'
<1>1. PICK k \in call[c].k, g \in call[c].g :
        /\ item' = [item EXCEPT ![k][g].stamped = TRUE]
        /\ call' = [call EXCEPT ![c] =
              IF call[c].todo = {g} THEN Idle
              ELSE [call[c] EXCEPT !.pc = "revoke", !.g = {}, !.todo = call[c].todo \ {g}]]
  BY DEF Stamp
<1>2. call[c].pc = "stamp" /\ UNCHANGED <<grant, campaign, share, decided>>
  BY DEF Stamp, Is
<1>3. /\ call[c] \in Calls /\ k \in Campaigns /\ g \in Grants /\ call[c].todo \subseteq Grants
      /\ g \in call[c].todo /\ grant[g] = "ended" /\ item[k][g].decision = "revoke"
  BY <1>2 DEF CampaignInv, RowTypes, WorkLists, Calls, Stamping, Revoking
<1>. DEFINE q == IF call[c].todo = {g} THEN Idle
                 ELSE [call[c] EXCEPT !.pc = "revoke", !.g = {}, !.todo = call[c].todo \ {g}]
            row == [item[k][g] EXCEPT !.stamped = TRUE]
<1>4. /\ q \in Calls /\ q.pc \in {"idle", "revoke"}
      /\ q.pc = "revoke" => q.k = call[c].k /\ q.todo \subseteq call[c].todo
  BY <1>3 DEF Idle, Calls, CallStates
<1>5. call' = [call EXCEPT ![c] = q]
  BY <1>1
<1>6. /\ call' \in [Callers -> Calls] /\ call'[c] = q
      /\ \A b \in Callers \ {c} : call'[b] = call[b]
      /\ \A j \in Campaigns : c \notin share[j]
  BY <1>2, <1>4, <1>5 DEF CampaignInv, RowTypes, Sharing
<1>. HIDE DEF q
<1>7. item \in [Campaigns -> [Grants -> ItemRows]] /\ item[k][g] \in ItemRows
  BY <1>3 DEF CampaignInv, RowTypes
<1>8. row \in ItemRows /\ row.decision = item[k][g].decision
  BY <1>7 DEF ItemRows
<1>9. item' = [item EXCEPT ![k][g] = row]
  BY <1>1
<1>. HIDE DEF row
<1>10. /\ item' \in [Campaigns -> [Grants -> ItemRows]]
       /\ \A j \in Campaigns, h \in Grants : item'[j][h].decision = item[j][h].decision
       /\ \A j \in Campaigns, h \in Grants : j # k \/ h # g => item'[j][h] = item[j][h]
  BY <1>3, <1>7, <1>8, <1>9, UpdateEntry
<1>11. RowTypes'
  BY <1>2, <1>6, <1>10 DEF CampaignInv, RowTypes
<1>12. WorkLists'
  BY <1>3, <1>4, <1>6 DEF CampaignInv, WorkLists
<1>13. Unstarted'
  <2>1. campaign[k].state # "none"
    BY <1>3 DEF CampaignInv, Unstarted, NoItem
  <2>. QED  BY <1>2, <1>3, <1>10, <2>1 DEF CampaignInv, Unstarted
<1>14. Deciding'
  BY <1>2, <1>4, <1>6 DEF CampaignInv, Deciding, DecisionHeld, IsCertification
<1>15. Sharing' /\ ClosedUnshared'
  BY <1>2, <1>6 DEF CampaignInv, RowTypes, Sharing, ClosedUnshared, IsCertification
<1>16. Revoking'
  <2>1. ASSUME NEW b \in Callers, call'[b].pc \in {"revoke", "stamp"},
               NEW j \in call'[b].k, NEW h \in call'[b].todo
        PROVE  item'[j][h].decision = "revoke"
    <3>1. call[b].pc \in {"revoke", "stamp"} /\ j \in call[b].k /\ h \in call[b].todo
      BY <1>2, <1>4, <1>6, <2>1
    <3>2. j \in Campaigns /\ h \in Grants /\ item[j][h].decision = "revoke"
      BY <3>1 DEF CampaignInv, RowTypes, Calls, WorkLists, Revoking
    <3>. QED  BY <1>10, <3>2
  <2>. QED  BY <2>1 DEF Revoking
<1>17. Stamping'
  BY <1>2, <1>4, <1>6 DEF CampaignInv, Stamping
<1>18. DecidedOnce'
  BY <1>2, <1>10 DEF CampaignInv, DecidedOnce
<1>19. StampedIsGone'
  BY <1>2, <1>3, <1>10 DEF CampaignInv, StampedIsGone
<1>. QED  BY <1>11, <1>12, <1>13, <1>14, <1>15, <1>16, <1>17, <1>18, <1>19 DEF CampaignInv

(* A fault, or the client's leaving, ends a request; a transaction it      *)
(* meets rolls back.                                                       *)
LEMMA CutShortKeeps ==
    ASSUME CampaignInv, NEW c \in Callers, Fault(c) \/ Disconnect(c) PROVE CampaignInv'
BY ReleaseKeeps DEF Fault, Disconnect, CutShort

(* The steps of the overdue sweep.                                         *)
LEMMA SweepKeeps ==
    ASSUME CampaignInv, NEW c \in Callers, EnforceOverdue(c) \/ CountOpen(c) \/ StampOverdue(c)
    PROVE  CampaignInv'
<1>1. ASSUME UNCHANGED campaign PROVE RowsMove
  BY <1>1 DEF RowsMove, CampaignInv, RowTypes
<1>2. CASE EnforceOverdue(c)
  <2>. DEFINE q == [Idle EXCEPT !.pc = "count", !.todo = {k \in Campaigns : Unstamped(k)}]
  <2>1. q \in Calls /\ q.pc = "count" /\ q.todo \subseteq Campaigns
    BY DEF Idle, Calls, CallStates
  <2>2. Takes(c, q)
    BY <1>2, <2>1 DEF Takes, EnforceOverdue, Is
  <2>. HIDE DEF q
  <2>. QED  BY <1>1, <1>2, <2>1, <2>2, CallChangeKeeps DEF EnforceOverdue
<1>3. ASSUME NEW k, call[c].pc \in {"count", "overdue"}
      PROVE  /\ NextOverdue(c, k) \in Calls
             /\ NextOverdue(c, k).pc \in {"idle", "count"}
             /\ NextOverdue(c, k).pc = "count" => NextOverdue(c, k).todo \subseteq Campaigns
  BY <1>3 DEF NextOverdue, Idle, Calls, CallStates, CampaignInv, WorkLists
<1>4. CASE CountOpen(c)
  <2>1. PICK k \in call[c].todo :
          call' = [call EXCEPT ![c] =
              IF OpenItems(k) = {} THEN NextOverdue(c, k)
              ELSE [@ EXCEPT !.pc = "overdue", !.k = {k}]]
    BY <1>4 DEF CountOpen
  <2>2. call[c].pc = "count" /\ call[c] \in Calls /\ call[c].todo \subseteq Campaigns
    BY <1>4 DEF CountOpen, Is, CampaignInv, RowTypes, WorkLists
  <2>. DEFINE q == IF OpenItems(k) = {} THEN NextOverdue(c, k)
                   ELSE [call[c] EXCEPT !.pc = "overdue", !.k = {k}]
  <2>3. q \in Calls /\ q.pc \in {"idle", "count", "overdue"} /\ (q.pc # "idle" => q.todo \subseteq Campaigns)
    <3>1. CASE OpenItems(k) = {}
      BY <1>3, <2>2, <3>1
    <3>2. CASE OpenItems(k) # {}
      BY <2>2, <3>2 DEF Calls, CallStates
    <3>. QED  BY <3>1, <3>2
  <2>4. Takes(c, q)
    BY <1>4, <2>1, <2>2, <2>3 DEF Takes, CountOpen
  <2>. HIDE DEF q
  <2>. QED  BY <1>1, <1>4, <2>3, <2>4, CallChangeKeeps DEF CountOpen
<1>5. CASE StampOverdue(c)
  <2>1. PICK k \in call[c].k :
          /\ \/ campaign[k].overdue = 0 /\ campaign' = [campaign EXCEPT ![k].overdue = @ + 1]
             \/ UNCHANGED campaign
          /\ call' = [call EXCEPT ![c] = NextOverdue(c, k)]
    BY <1>5 DEF StampOverdue, StillUnstamped
  <2>2. call[c].pc = "overdue" /\ k \in Campaigns
    BY <1>5 DEF StampOverdue, Is, CampaignInv, RowTypes, Calls
  <2>3. RowsMove
    <3>1. CASE campaign[k].overdue = 0 /\ campaign' = [campaign EXCEPT ![k].overdue = @ + 1]
      <4>1. /\ campaign' \in [Campaigns -> CampaignRows]
            /\ \A j \in Campaigns : /\ campaign'[j].kind = campaign[j].kind
                                    /\ campaign'[j].state = campaign[j].state
        <5>. DEFINE row == [campaign[k] EXCEPT !.overdue = 1]
        <5>1. campaign[k] \in CampaignRows
          BY <2>2 DEF CampaignInv, RowTypes
        <5>2. row \in CampaignRows /\ row.kind = campaign[k].kind /\ row.state = campaign[k].state
          BY <5>1 DEF CampaignRows
        <5>3. campaign' = [campaign EXCEPT ![k] = row]
          <6>1. campaign[k].overdue + 1 = 1
            BY <3>1
          <6>. QED  BY <3>1, <6>1
        <5>. HIDE DEF row
        <5>. QED  BY <2>2, <5>2, <5>3, ReplaceRow
      <4>. QED  BY <4>1 DEF RowsMove
    <3>. QED  BY <1>1, <2>1, <3>1
  <2>. DEFINE q == NextOverdue(c, k)
  <2>4. q \in Calls /\ q.pc \in {"idle", "count"} /\ (q.pc = "count" => q.todo \subseteq Campaigns)
    BY <1>3, <2>2
  <2>5. call' = [call EXCEPT ![c] = q] /\ UNCHANGED share
    BY <1>5, <2>1 DEF StampOverdue
  <2>. HIDE DEF q
  <2>6. Takes(c, q)
    BY <2>2, <2>4, <2>5 DEF Takes
  <2>. QED  BY <1>5, <2>3, <2>4, <2>6, CallChangeKeeps DEF StampOverdue
<1>. QED  BY <1>2, <1>4, <1>5

-----------------------------------------------------------------------------
LEMMA CampaignStep == CampaignInv /\ [Next]_vars => CampaignInv'
<1>. SUFFICES ASSUME CampaignInv, [Next]_vars PROVE CampaignInv'
  OBVIOUS
<1>1. ASSUME NEW g \in Grants, GrantEnds(g) PROVE CampaignInv'
  BY <1>1, GrantEndsKeeps
<1>2. ASSUME NEW k \in Campaigns, StartCampaign(k) \/ DuePasses(k) \/ CompleteCampaign(k)
      PROVE  CampaignInv'
  BY <1>2, StartKeeps, DuePassesKeeps, CompleteKeeps
<1>3. ASSUME NEW c \in Callers, SubmitShare(c) PROVE CampaignInv'
  BY <1>3, ReviewingKeeps DEF SubmitShare
<1>4. ASSUME NEW c \in Callers, SubmitRead(c) PROVE CampaignInv'
  BY <1>4, ReviewingKeeps DEF SubmitRead
<1>5. ASSUME NEW c \in Callers, CloseCampaign(c) \/ EnforceOverdue(c) PROVE CampaignInv'
  BY <1>5, CloseKeeps, SweepKeeps
<1>6. ASSUME NEW c \in Callers, Progress(c) PROVE CampaignInv'
  BY <1>6, SubmitKeeps, RevokeKeeps, StampKeeps, SweepKeeps DEF Progress
<1>7. ASSUME NEW c \in Callers, Fault(c) \/ Disconnect(c) PROVE CampaignInv'
  BY <1>7, CutShortKeeps
<1>8. CASE UNCHANGED vars
  <2>1. RowsMove
    BY <1>8 DEF vars, RowsMove, CampaignInv, RowTypes
  <2>. QED  BY <1>8, <2>1, RowChangeKeeps DEF vars
<1>. QED  BY <1>1, <1>2, <1>3, <1>4, <1>5, <1>6, <1>7, <1>8 DEF Next

LEMMA CampaignInvariant == Spec => []CampaignInv
BY CampaignInit, CampaignStep, PTL DEF Spec

(* SubmitDecision of both services: a terminal decision is on record       *)
(* exactly once, whatever reviewers race and whatever is retried.          *)
THEOREM DecisionsFinal == Spec => []DecidedOnce
<1>1. CampaignInv => DecidedOnce
  BY DEF CampaignInv
<1>. QED  BY <1>1, CampaignInvariant, PTL

(* applyStagedRevoke: what is stamped as revoked is revoked.               *)
THEOREM StampsTrue == Spec => []StampedIsGone
<1>1. CampaignInv => StampedIsGone
  BY DEF CampaignInv
<1>. QED  BY <1>1, CampaignInvariant, PTL

(* EnforceOverdue: a campaign is stamped and put on record as overdue at   *)
(* most once, however many sweeps have found it.                           *)
THEOREM OverdueRecordedOnce == Spec => []OverdueOnce
<1>1. CampaignInv => OverdueOnce
  <2>. SUFFICES ASSUME CampaignInv, NEW k \in Campaigns PROVE campaign[k].overdue <= 1
    BY DEF OverdueOnce
  <2>1. campaign[k].overdue \in {0, 1}
    BY DEF CampaignInv, RowTypes, CampaignRows
  <2>. QED  BY <2>1
<1>. QED  BY <1>1, CampaignInvariant, PTL

(* FOR SHARE against FOR UPDATE: once a certification campaign is closed   *)
(* none of its decisions changes.                                          *)
THEOREM ClosedIsFinal == Spec => ClosedDecisionsFinal
<1>1. ASSUME CampaignInv, [Next]_vars, NEW k \in Campaigns, NEW g \in Grants,
             IsCertification(k), campaign[k].state = "closed"
      PROVE  item'[k][g].decision = item[k][g].decision
  <2>1. CASE UNCHANGED item
    BY <2>1
  <2>2. ASSUME NEW j \in Campaigns, StartCampaign(j) PROVE item'[k] = item[k]
    BY <1>1, <2>2 DEF StartCampaign, CampaignInv, RowTypes
  <2>3. ASSUME NEW c \in Callers, Submit(c) PROVE item'[k][g] = item[k][g]
    <3>1. PICK j \in call[c].k, h \in call[c].g : SubmitDecision(c, j, h, call[c].d)
      BY <2>3 DEF Submit
    <3>2. j # k
      BY <1>1, <2>3 DEF Submit, Is, CampaignInv, Deciding, DecisionHeld, ClosedUnshared
    <3>. QED  BY <1>1, <3>1, <3>2 DEF SubmitDecision, CampaignInv, RowTypes
  <2>4. ASSUME NEW c \in Callers, Stamp(c) PROVE item'[k][g].decision = item[k][g].decision
    <3>1. PICK j \in call[c].k, h \in call[c].g : item' = [item EXCEPT ![j][h].stamped = TRUE]
      BY <2>4 DEF Stamp
    <3>2. item[k][g] \in ItemRows /\ item \in [Campaigns -> [Grants -> ItemRows]]
      BY <1>1 DEF CampaignInv, RowTypes
    <3>. QED  BY <3>1, <3>2 DEF ItemRows
  <2>5. ASSUME ~UNCHANGED item
        PROVE  \/ \E j \in Campaigns : StartCampaign(j)
               \/ \E c \in Callers : Submit(c) \/ Stamp(c)
    BY <1>1, <2>5 DEF Next, vars, GrantEnds, DuePasses, CompleteCampaign, SubmitShare, SubmitRead,
       CloseCampaign, EnforceOverdue, Progress, RevokeGrant, CountOpen, StampOverdue, Fault, Disconnect, CutShort
  <2>. QED  BY <2>1, <2>2, <2>3, <2>4, <2>5
<1>2. CampaignInv /\ [Next]_vars =>
        [\A k \in Campaigns, g \in Grants :
            IsCertification(k) /\ campaign[k].state = "closed" =>
            item'[k][g].decision = item[k][g].decision]_vars
  BY <1>1
<1>. QED  BY <1>2, CampaignInvariant, PTL DEF Spec, ClosedDecisionsFinal

(* The columns hold what they may, and only a deciding caller shares.      *)
THEOREM CampaignTypeCorrect == Spec => []TypeOK
<1>1. CampaignInv => TypeOK
  <2>. SUFFICES ASSUME CampaignInv PROVE TypeOK
    OBVIOUS
  <2>1. \A k \in Campaigns : share[k] \subseteq {c \in Callers : Is(c, "decide") /\ call[c].k = {k}}
    BY DEF CampaignInv, RowTypes, Sharing, Is
  <2>2. \A k \in Campaigns, g \in Grants : item[k][g] \in ItemRows
    BY DEF CampaignInv, RowTypes
  <2>3. \A c \in Callers : call[c].pc \in CallStates
    BY DEF CampaignInv, RowTypes, Calls
  <2>4. \A k \in Campaigns :
          campaign[k] \in [kind : {"none", "certification", "review"}, state : {"none", "running", "closed"},
                          due : BOOLEAN, overdue : Nat]
    <3>. SUFFICES ASSUME NEW k \in Campaigns
                  PROVE  campaign[k] \in [kind : {"none", "certification", "review"},
                                         state : {"none", "running", "closed"},
                                         due : BOOLEAN, overdue : Nat]
      OBVIOUS
    <3>1. campaign[k] \in CampaignRows
      BY DEF CampaignInv, RowTypes
    <3>. QED  BY <3>1 DEF CampaignRows
  <2>. QED  BY <2>1, <2>2, <2>3, <2>4 DEF TypeOK, CampaignInv, RowTypes, ItemRows, CallStates
<1>. QED  BY <1>1, CampaignInvariant, PTL
=============================================================================

------------------------- MODULE MediaSystemProofs -------------------------
(***************************************************************************)
(* Proofs about MediaSystem, for any number of users, calls, grants,       *)
(* leases, workers, events and intents and any bounds.                     *)
(***************************************************************************)
EXTENDS MediaSystem, FiniteSetTheorems, TLAPS

(* What Update returns.                                                    *)
LEMMA UpdateType ==
    ASSUME NEW D, NEW R, NEW f \in [D -> R], NEW S, NEW v \in R
    PROVE  Update(f, S, v) \in [D -> R]
  BY DEF Update

LEMMA UpdateAt ==
    ASSUME NEW D, NEW R, NEW f \in [D -> R], NEW S, NEW v, NEW x \in D
    PROVE  Update(f, S, v)[x] = IF x \in S THEN v ELSE f[x]
  BY DEF Update

-----------------------------------------------------------------------------
(* The call transactions keep the tables within their types.               *)
LEMMA RepositoryTypes ==
    ASSUME TypeOK, NEW c \in Calls, NEW u \in Users,
           \/ CreateCallWithParticipant(c, u)
           \/ JoinParticipant(c, u)
           \/ LeaveParticipantAndMaybeEndCall(c, u)
           \/ EndCallWithParticipants(c, u)
    PROVE  TypeOK'
<1> USE DEF mediaVars, roomVars, grantVars, leaseVars, opVars, jobVars, denyVars, intentVars,
            roomJobVars
<1>1. CASE CreateCallWithParticipant(c, u)
  BY <1>1 DEF CreateCallWithParticipant, NewRow, TypeOK
<1>2. CASE JoinParticipant(c, u)
  BY <1>2 DEF JoinParticipant, NewRow, TypeOK
<1>3. CASE LeaveParticipantAndMaybeEndCall(c, u)
  BY <1>3 DEF LeaveParticipantAndMaybeEndCall, EndIfEmpty, TypeOK
<1>4. CASE EndCallWithParticipants(c, u)
  BY <1>4 DEF EndCallWithParticipants, Update, TypeOK
<1>5. QED
  BY <1>1, <1>2, <1>3, <1>4

-----------------------------------------------------------------------------
(* An existing grant has a well-formed binding, and its user is a user.    *)
LEMMA GrantBound ==
    ASSUME TypeOK, NEW g \in Grants, gState[g] # "none"
    PROVE  /\ bind[g] \in Binding
           /\ UserOf(g) \in Users
           /\ bind[g].call \in Calls
  BY AuthorityAssumption DEF TypeOK, Binding, Authority, UserOf

(* Staging a revoke of existing grants is well typed.                      *)
LEMMA StageTypes ==
    ASSUME TypeOK, NEW S \in SUBSET Grants, NEW out \in {"unchanged", "unavailable", "revoked"},
           Stage(S, out), \A g \in S : gState[g] # "none"
    PROVE  /\ gState' \in [Grants -> {"none", "prepared", "active", "revoking", "revoked"}]
           /\ opState' \in [Grants -> {"none", "pending", "complete"}]
           /\ outcome' \in [Grants -> {"none", "unchanged", "unavailable", "revoked"}]
           /\ target' \in [Grants -> Leases \cup {NoLease}]
           /\ jState' \in [Jobs -> {"none", "pending", "claimed", "acked"}]
           /\ lState' \in [Leases -> {"none", "open", "closing", "closed"}]
           /\ \A g \in Grants : gState'[g] # "none" => gState[g] # "none"
<1>1. target' \in [Grants -> Leases \cup {NoLease}]
  <2>1. ASSUME NEW g \in Grants, HeldLease(g) # {}
        PROVE  (CHOOSE l \in Leases : l \in HeldLease(g)) \in Leases
    BY <2>1 DEF HeldLease
  <2>2. QED
    BY <2>1 DEF Stage, TypeOK
<1>2. QED
  BY <1>1 DEF Stage, Update, TypeOK

(* So is the end of a participation.                                       *)
LEMMA FinishTypes ==
    ASSUME TypeOK, NEW g \in Grants, FinishParticipation(g)
    PROVE  /\ part' \in [Users -> Calls \cup {NoCall}]
           /\ callState' \in [Calls -> {"none", "active", "ended"}]
           /\ roomState' \in [Calls -> {"none", "prepared", "active", "closing", "closed"}]
<1>1. part' \in [Users -> Calls \cup {NoCall}]
  BY DEF FinishParticipation, TypeOK
<1>2. CASE EndPending(bind[g].call)
  BY <1>1, <1>2 DEF FinishParticipation, TypeOK
<1>3. CASE ~EndPending(bind[g].call)
  <2>1. callState' = callState \/ callState' = [callState EXCEPT ![bind[g].call] = "ended"]
    BY <1>3 DEF FinishParticipation, EndIfEmpty
  <2>2. roomState' = roomState \/ roomState' = [roomState EXCEPT ![bind[g].call] = "closed"]
    BY <1>3 DEF FinishParticipation, TypeOK
  <2>3. QED
    BY <1>1, <2>1, <2>2 DEF TypeOK
<1>4. QED
  BY <1>2, <1>3

-----------------------------------------------------------------------------
(* The grant store keeps the tables within their types.                    *)
LEMMA StoreTypes ==
    ASSUME TypeOK, StoreNext
    PROVE  TypeOK'
<1> USE DEF callVars, roomVars, grantVars, leaseVars, opVars, jobVars, denyVars, controlVars,
            intentVars, roomJobVars
<1>1. ASSUME NEW g \in Grants, NEW c \in Calls, NEW a \in Authorities, Reserve(g, c, a)
      PROVE  TypeOK'
  <2>1. a.user \in Users
    BY AuthorityAssumption DEF Authority
  <2>2. /\ part' \in [Users -> Calls \cup {NoCall}]
        /\ row' \in [Users -> Nat]
        /\ RoomFor(c) \in Nat
    BY <1>1, <2>1 DEF Reserve, NewRow, RoomFor, TypeOK
  <2>3. bind' = [bind EXCEPT ![g] = [call |-> c, row |-> row'[a.user], room |-> RoomFor(c), auth |-> a]]
    BY <1>1 DEF Reserve
  <2>4. /\ bind' \in [Grants -> Binding \cup {NoBinding}]
        /\ \A h \in Grants : gState'[h] # "none" => bind'[h] \in Binding
    BY <1>1, <2>1, <2>2, <2>3 DEF Reserve, Binding, TypeOK
  <2>5. QED
    BY <1>1, <2>2, <2>4 DEF Reserve, TypeOK
<1>2. ASSUME NEW g \in Grants, NEW a \in Authorities, Activate(g, a)
      PROVE  TypeOK'
  BY <1>2 DEF Activate, TypeOK
<1>3. ASSUME NEW l \in Leases, NEW g \in Grants, NEW a \in Authorities, RegisterLease(l, g, a)
      PROVE  TypeOK'
  BY <1>3 DEF RegisterLease, TypeOK
<1>4. ASSUME NEW l \in Leases, CloseLease(l)
      PROVE  TypeOK'
  BY <1>4 DEF CloseLease, TypeOK
<1>5. ASSUME NEW g \in Grants, NEW out \in {"unchanged", "unavailable"}, BeginRevoke(g, out)
      PROVE  TypeOK'
  BY <1>5, StageTypes DEF BeginRevoke, Revocable, TypeOK
<1>6. ASSUME NEW e \in Events, ApplySourceEvent(e)
      PROVE  TypeOK'
  <2>1. e.rev \in Nat
    BY AuthorityAssumption DEF SourceEvent
  <2>2. mark' \in [Marks -> Nat]
    BY <1>6, <2>1 DEF ApplySourceEvent, Advance, TypeOK
  <2>3. CASE Affected(e) = {}
    BY <1>6, <2>2, <2>3 DEF ApplySourceEvent, TypeOK
  <2>4. ASSUME NEW g \in Affected(e), receipt' = [receipt EXCEPT ![e] = g],
               IF Revocable(g)
                 THEN Stage({g}, "revoked")
                 ELSE /\ outcome' = [outcome EXCEPT ![g] = "revoked"]
                      /\ UNCHANGED <<gState, opState, target, jState, lState>>
        PROVE  TypeOK'
    <3>1. g \in Grants /\ gState[g] # "none"
      BY DEF Affected, HeldBy, Held
    <3>2. CASE Revocable(g)
      BY <1>6, <2>2, <2>4, <3>1, <3>2, StageTypes DEF ApplySourceEvent, TypeOK
    <3>3. CASE ~Revocable(g)
      BY <1>6, <2>2, <2>4, <3>1, <3>3 DEF ApplySourceEvent, TypeOK
    <3>4. QED
      BY <3>2, <3>3
  <2>5. QED
    BY <1>6, <2>3, <2>4 DEF ApplySourceEvent
<1>7. ASSUME NEW g \in Grants, NEW x \in Actions, NEW w \in Workers, ClaimCleanup(g, x, w)
      PROVE  TypeOK'
  BY <1>7 DEF ClaimCleanup, Jobs, Claim, TypeOK
<1>8. ASSUME NEW k \in claims, RetryCleanup(k)
      PROVE  TypeOK'
  BY <1>8 DEF RetryCleanup, Jobs, Claim, TypeOK
<1>9. ASSUME NEW k \in claims, RecordCleanupAcknowledgement(k)
      PROVE  TypeOK'
  <2>1. k.grant \in Grants /\ <<k.grant, k.action>> \in Jobs
    BY DEF Jobs, Claim, TypeOK
  <2>2. /\ part' \in [Users -> Calls \cup {NoCall}]
        /\ callState' \in [Calls -> {"none", "active", "ended"}]
        /\ roomState' \in [Calls -> {"none", "prepared", "active", "closing", "closed"}]
    BY <1>9, <2>1, FinishTypes DEF RecordCleanupAcknowledgement, TypeOK
  <2>3. \A h \in Grants : gState'[h] # "none" => bind'[h] \in Binding
    BY <1>9, <2>1 DEF RecordCleanupAcknowledgement, TypeOK
  <2>4. /\ jState' \in [Jobs -> {"none", "pending", "claimed", "acked"}]
        /\ lState' \in [Leases -> {"none", "open", "closing", "closed"}]
    BY <1>9, <2>1 DEF RecordCleanupAcknowledgement, TypeOK
  <2>5. /\ gState' \in [Grants -> {"none", "prepared", "active", "revoking", "revoked"}]
        /\ opState' \in [Grants -> {"none", "pending", "complete"}]
    BY <1>9, <2>1 DEF RecordCleanupAcknowledgement, TypeOK
  <2>6. UNCHANGED <<creator, row, roomGen, bind, lGrant, outcome, target, jOwner, jFence, claims,
                    denyVars, controlVars>>
    BY <1>9 DEF RecordCleanupAcknowledgement
  <2>7. QED
    BY <2>2, <2>3, <2>4, <2>5, <2>6 DEF TypeOK
<1>10. ASSUME NEW g \in Grants, ExpirePrepared(g)
       PROVE  TypeOK'
  BY <1>10, FinishTypes DEF ExpirePrepared, TypeOK
<1>11. QED
  BY <1>1, <1>2, <1>3, <1>4, <1>5, <1>6, <1>7, <1>8, <1>9, <1>10 DEF StoreNext

-----------------------------------------------------------------------------
(* The control coordinator keeps the tables within their types.            *)
LEMMA ControlTypes ==
    ASSUME TypeOK, ControlNext
    PROVE  TypeOK'
<1> USE DEF callVars, roomVars, grantVars, leaseVars, opVars, jobVars, denyVars,
            intentVars, roomJobVars
<1>0. ASSUME NEW S \in SUBSET Users
      PROVE  RowsOf(S) \subseteq Users \X Nat
  BY DEF RowsOf, TypeOK
<1>1. ASSUME NEW i \in Intents, NEW c \in Calls, NEW a \in Authorities, RequestLeave(i, c, a)
      PROVE  TypeOK'
  <2>1. a.user \in Users
    BY AuthorityAssumption DEF Authority
  <2>2. PICK g \in HeldBy(a.user) :
          /\ IF Revocable(g) THEN Stage({g}, "unchanged")
                             ELSE UNCHANGED <<gState, opVars, jState, lState>>
          /\ intent' = [intent EXCEPT ![i] =
                          [kind |-> "leave", call |-> c, actor |-> a.user, known |-> TRUE,
                           children |-> {g}, parts |-> RowsOf({a.user} \cap ActiveIn(c))]]
    BY <1>1 DEF RequestLeave
  <2>3. g \in Grants /\ gState[g] # "none"
    BY DEF HeldBy, Held
  <2>4. RowsOf({a.user} \cap ActiveIn(c)) \in SUBSET (Users \X Nat)
    BY <2>1, <1>0
  <2>5. intent' \in [Intents -> Snapshot \cup {NoSnapshot}]
    <3>1. [kind |-> "leave", call |-> c, actor |-> a.user, known |-> TRUE,
           children |-> {g}, parts |-> RowsOf({a.user} \cap ActiveIn(c))] \in Snapshot
      BY <2>1, <2>3, <2>4 DEF Snapshot
    <3>2. QED
      BY <2>2, <3>1 DEF TypeOK
  <2>6. CASE Revocable(g)
    BY <1>1, <2>2, <2>3, <2>5, <2>6, StageTypes DEF RequestLeave, TypeOK
  <2>7. CASE ~Revocable(g)
    BY <1>1, <2>2, <2>5, <2>7 DEF RequestLeave, TypeOK
  <2>8. QED
    BY <2>6, <2>7
<1>2. ASSUME NEW i \in Intents, NEW c \in Calls, NEW u \in Users, RequestEnd(i, c, u)
      PROVE  TypeOK'
  <2> DEFINE kids == HeldInCall(c)
             S == {g \in kids : Revocable(g)}
  <2>1. kids \in SUBSET Grants /\ RowsOf(ActiveIn(c)) \in SUBSET (Users \X Nat)
    BY <1>0 DEF HeldInCall, ActiveIn
  <2>2. S \in SUBSET Grants /\ \A g \in S : gState[g] # "none"
    BY DEF HeldInCall, Held
  <2>3. Stage(S, "unchanged")
    BY <1>2 DEF RequestEnd
  <2>4. /\ gState' \in [Grants -> {"none", "prepared", "active", "revoking", "revoked"}]
        /\ opState' \in [Grants -> {"none", "pending", "complete"}]
        /\ outcome' \in [Grants -> {"none", "unchanged", "unavailable", "revoked"}]
        /\ target' \in [Grants -> Leases \cup {NoLease}]
        /\ jState' \in [Jobs -> {"none", "pending", "claimed", "acked"}]
        /\ lState' \in [Leases -> {"none", "open", "closing", "closed"}]
        /\ \A g \in Grants : gState'[g] # "none" => gState[g] # "none"
    BY <2>2, <2>3, StageTypes
  <2>5. intent' \in [Intents -> Snapshot \cup {NoSnapshot}]
    <3>1. [kind |-> "end", call |-> c, actor |-> u, known |-> RoomHeld(c),
           children |-> kids, parts |-> RowsOf(ActiveIn(c))] \in Snapshot
      BY <2>1 DEF Snapshot, RoomHeld
    <3>2. QED
      BY <1>2, <3>1 DEF RequestEnd, TypeOK
  <2>6. QED
    BY <1>2, <2>4, <2>5 DEF RequestEnd, TypeOK
<1>3. ASSUME NEW i \in Intents, NEW w \in Workers, ClaimRoom(i, w)
      PROVE  TypeOK'
  BY <1>3 DEF ClaimRoom, RoomClaim, TypeOK
<1>4. ASSUME NEW k \in rClaims, RecordRoomAcknowledgement(k) \/ RetryRoom(k)
      PROVE  TypeOK'
  BY <1>4 DEF RecordRoomAcknowledgement, RetryRoom, RoomClaim, TypeOK
<1>5. ASSUME NEW i \in Intents, FinalizeLeave(i)
      PROVE  TypeOK'
  BY <1>5 DEF FinalizeLeave, TypeOK
<1>6. ASSUME NEW i \in Intents, FinalizeEnd(i)
      PROVE  TypeOK'
  BY <1>6 DEF FinalizeEnd, Update, TypeOK
<1>7. QED
  BY <1>1, <1>2, <1>3, <1>4, <1>5, <1>6 DEF ControlNext

-----------------------------------------------------------------------------
LEMMA InitTypes == Init => TypeOK
<1> SUFFICES ASSUME Init PROVE TypeOK
  OBVIOUS
<1>1. part \in [Users -> Calls \cup {NoCall}]
  BY ScopeAssumption DEF Init
<1>2. QED
  BY <1>1 DEF Init, TypeOK

LEMMA SameTypes == TypeOK /\ UNCHANGED vars => TypeOK'
  BY DEF TypeOK, vars, callVars, roomVars, grantVars, leaseVars, opVars, jobVars, denyVars,
         intentVars, roomJobVars

(* All tables of the service keep their types, and a grant that exists has *)
(* a binding.                                                              *)
THEOREM MediaTypes == Spec => []TypeOK
<1>1. TypeOK /\ [Next]_vars => TypeOK'
  <2> SUFFICES ASSUME TypeOK, [Next]_vars PROVE TypeOK'
    OBVIOUS
  <2>1. CASE RepositoryNext
    BY <2>1, RepositoryTypes DEF RepositoryNext
  <2>2. QED
    BY <2>1, SameTypes, StoreTypes, ControlTypes DEF Next
<1>2. QED
  BY <1>1, InitTypes, PTL DEF Spec

-----------------------------------------------------------------------------
(* Apart from Reserve and ApplySourceEvent, no step gives a grant back     *)
(* what it has lost, rebinds it or moves a watermark.                      *)
GrantsOnlyLose ==
    /\ bind' = bind
    /\ mark' = mark
    /\ \A g \in Grants : /\ Held(g)' => Held(g)
                         /\ Revocable(g)' => Revocable(g)

(* Staging a revoke only takes away.                                       *)
LEMMA StageLoses ==
    ASSUME TypeOK, NEW S \in SUBSET Grants, NEW out, Stage(S, out), \A g \in S : Held(g),
           NEW h \in Grants
    PROVE  /\ Held(h)' => Held(h)
           /\ Revocable(h)' => Revocable(h) /\ h \notin S
  BY DEF Stage, Update, Held, Revocable, TypeOK

LEMMA GrantSteps ==
    ASSUME TypeOK, [Next]_vars
    PROVE  \/ \E g \in Grants, c \in Calls, a \in Authorities : Reserve(g, c, a)
           \/ \E e \in Events : ApplySourceEvent(e)
           \/ GrantsOnlyLose
<1> USE DEF GrantsOnlyLose
<1>1. CASE UNCHANGED vars
  BY <1>1 DEF vars, grantVars, denyVars, Held, Revocable
<1>2. CASE RepositoryNext
  BY <1>2 DEF RepositoryNext, CreateCallWithParticipant, JoinParticipant,
              LeaveParticipantAndMaybeEndCall, EndCallWithParticipants, mediaVars, grantVars, denyVars,
              Held, Revocable
<1>3. CASE StoreNext
  <2>1. ASSUME NEW g \in Grants, NEW a \in Authorities, Activate(g, a)
        PROVE  GrantsOnlyLose
    BY <2>1 DEF Activate, denyVars, Held, Revocable, TypeOK
  <2>2. ASSUME NEW l \in Leases, NEW g \in Grants, NEW a \in Authorities, RegisterLease(l, g, a)
        PROVE  GrantsOnlyLose
    BY <2>2 DEF RegisterLease, grantVars, denyVars, Held, Revocable
  <2>3. ASSUME NEW l \in Leases, CloseLease(l)
        PROVE  GrantsOnlyLose
    BY <2>3 DEF CloseLease, grantVars, denyVars, Held, Revocable
  <2>4. ASSUME NEW g \in Grants, NEW out \in {"unchanged", "unavailable"}, BeginRevoke(g, out)
        PROVE  GrantsOnlyLose
    <3>1. Stage({g}, out) /\ Held(g) /\ bind' = bind /\ mark' = mark
      BY <2>4 DEF BeginRevoke, denyVars, Held, Revocable
    <3>2. QED
      BY <3>1, StageLoses
  <2>5. ASSUME NEW g \in Grants, NEW x \in Actions, NEW w \in Workers, ClaimCleanup(g, x, w)
        PROVE  GrantsOnlyLose
    BY <2>5 DEF ClaimCleanup, grantVars, denyVars, Held, Revocable
  <2>6. ASSUME NEW k \in claims, RetryCleanup(k)
        PROVE  GrantsOnlyLose
    BY <2>6 DEF RetryCleanup, grantVars, denyVars, Held, Revocable
  <2>7. ASSUME NEW k \in claims, RecordCleanupAcknowledgement(k)
        PROVE  GrantsOnlyLose
    <3>1. gState' = gState \/ gState' = [gState EXCEPT ![k.grant] = "revoked"]
      BY <2>7 DEF RecordCleanupAcknowledgement
    <3>2. bind' = bind /\ mark' = mark
      BY <2>7 DEF RecordCleanupAcknowledgement, denyVars
    <3>3. QED
      BY <3>1, <3>2 DEF Held, Revocable, TypeOK
  <2>8. ASSUME NEW g \in Grants, ExpirePrepared(g)
        PROVE  GrantsOnlyLose
    BY <2>8 DEF ExpirePrepared, denyVars, Held, Revocable, TypeOK
  <2>9. QED
    BY <1>3, <2>1, <2>2, <2>3, <2>4, <2>5, <2>6, <2>7, <2>8 DEF StoreNext
<1>4. CASE ControlNext
  <2>1. ASSUME NEW i \in Intents, NEW c \in Calls, NEW a \in Authorities, RequestLeave(i, c, a)
        PROVE  GrantsOnlyLose
    <3>1. PICK g \in HeldBy(a.user) :
            IF Revocable(g) THEN Stage({g}, "unchanged")
                            ELSE UNCHANGED <<gState, opVars, jState, lState>>
      BY <2>1 DEF RequestLeave
    <3>2. g \in Grants /\ Held(g)
      BY DEF HeldBy
    <3>3. bind' = bind /\ mark' = mark
      BY <2>1 DEF RequestLeave, denyVars
    <3>4. CASE Revocable(g)
      BY <3>1, <3>2, <3>3, <3>4, StageLoses
    <3>5. CASE ~Revocable(g)
      BY <3>1, <3>3, <3>5 DEF Held, Revocable
    <3>6. QED
      BY <3>4, <3>5
  <2>2. ASSUME NEW i \in Intents, NEW c \in Calls, NEW u \in Users, RequestEnd(i, c, u)
        PROVE  GrantsOnlyLose
    <3>1. Stage({g \in HeldInCall(c) : Revocable(g)}, "unchanged") /\ bind' = bind /\ mark' = mark
      BY <2>2 DEF RequestEnd, denyVars
    <3>2. /\ {g \in HeldInCall(c) : Revocable(g)} \in SUBSET Grants
          /\ \A g \in {h \in HeldInCall(c) : Revocable(h)} : Held(g)
      BY DEF HeldInCall
    <3>3. QED
      BY <3>1, <3>2, StageLoses
  <2>3. ASSUME NEW i \in Intents, NEW w \in Workers, ClaimRoom(i, w)
        PROVE  GrantsOnlyLose
    BY <2>3 DEF ClaimRoom, grantVars, denyVars, Held, Revocable
  <2>4. ASSUME NEW i \in Intents, FinalizeLeave(i) \/ FinalizeEnd(i)
        PROVE  GrantsOnlyLose
    BY <2>4 DEF FinalizeLeave, FinalizeEnd, grantVars, denyVars, Held, Revocable
  <2>5. ASSUME NEW k \in rClaims, RecordRoomAcknowledgement(k) \/ RetryRoom(k)
        PROVE  GrantsOnlyLose
    BY <2>5 DEF RecordRoomAcknowledgement, RetryRoom, grantVars, denyVars, Held, Revocable
  <2>6. QED
    BY <1>4, <2>1, <2>2, <2>3, <2>4, <2>5 DEF ControlNext
<1>5. QED
  BY <1>1, <1>2, <1>3, <1>4 DEF Next

-----------------------------------------------------------------------------
(* Reserve finds the user without a held grant, in the transaction that    *)
(* creates one.                                                            *)
LEMMA ReserveKeepsSlot ==
    ASSUME TypeOK, OneHeldGrantPerUser, DenyIsEffective,
           NEW g \in Grants, NEW c \in Calls, NEW a \in Authorities, Reserve(g, c, a)
    PROVE  OneHeldGrantPerUser' /\ DenyIsEffective'
<1>1. /\ gState' = [gState EXCEPT ![g] = "prepared"]
      /\ bind'[g].auth = a
      /\ \A h \in Grants : h # g => bind'[h] = bind[h] /\ gState'[h] = gState[h]
      /\ mark' = mark
  BY DEF Reserve, denyVars, TypeOK
<1>2. \A h \in Grants : ~(Held(h) /\ UserOf(h) = a.user)
  BY DEF Reserve, HeldBy
<1>3. OneHeldGrantPerUser'
  BY <1>1, <1>2 DEF OneHeldGrantPerUser, Held, UserOf
<1>4. DenyIsEffective'
  <2>1. ~Denied(a)
    BY DEF Reserve
  <2>2. SUFFICES ASSUME NEW h \in Grants, Revocable(h)'
                 PROVE  ~Denied(bind[h].auth)'
    BY DEF DenyIsEffective
  <2>3. CASE h = g
    BY <1>1, <2>1, <2>3 DEF Denied
  <2>4. CASE h # g
    <3>1. Revocable(h) /\ bind'[h] = bind[h]
      BY <1>1, <2>2, <2>4 DEF Revocable
    <3>2. QED
      BY <1>1, <3>1 DEF DenyIsEffective, Denied
  <2>5. QED
    BY <2>3, <2>4
<1>5. QED
  BY <1>3, <1>4

(* An event that raises the watermark over the authority of a live grant   *)
(* matches that grant; since the user holds no other one, it is the grant  *)
(* that the same transaction revokes.                                      *)
LEMMA DenyRevokes ==
    ASSUME TypeOK, OneHeldGrantPerUser, DenyIsEffective,
           NEW e \in Events, ApplySourceEvent(e)
    PROVE  OneHeldGrantPerUser' /\ DenyIsEffective'
<1>1. /\ bind' = bind
      /\ mark' = [mark EXCEPT ![<<e.kind, e.subject, e.user>>] = IF @ < e.rev THEN e.rev ELSE @]
  BY DEF ApplySourceEvent, Advance
<1>2. \/ Affected(e) = {} /\ gState' = gState
      \/ \E g \in Affected(e) : IF Revocable(g) THEN Stage({g}, "revoked") ELSE gState' = gState
  BY DEF ApplySourceEvent
<1>3. \A g \in Affected(e) : g \in Grants /\ Held(g)
  BY DEF Affected, HeldBy
<1>4. ASSUME NEW h \in Grants
      PROVE  /\ Held(h)' => Held(h)
             /\ Revocable(h)' => Revocable(h) /\ h \notin Affected(e)
  <2>1. CASE Affected(e) = {} /\ gState' = gState
    BY <2>1 DEF Held, Revocable
  <2>2. ASSUME NEW g \in Affected(e), Revocable(g), Stage({g}, "revoked")
        PROVE  /\ Held(h)' => Held(h)
               /\ Revocable(h)' => Revocable(h) /\ h \notin Affected(e)
    <3>1. (Held(h)' => Held(h)) /\ (Revocable(h)' => Revocable(h) /\ h # g)
      BY <1>3, <2>2, StageLoses
    <3>2. h \in Affected(e) => h = g
      BY <1>3 DEF Affected, HeldBy, OneHeldGrantPerUser
    <3>3. QED
      BY <3>1, <3>2
  <2>3. ASSUME NEW g \in Affected(e), ~Revocable(g), gState' = gState
        PROVE  /\ Held(h)' => Held(h)
               /\ Revocable(h)' => Revocable(h) /\ h \notin Affected(e)
    <3>1. h \in Affected(e) => h = g
      BY <1>3 DEF Affected, HeldBy, OneHeldGrantPerUser
    <3>2. QED
      BY <2>3, <3>1 DEF Held, Revocable
  <2>4. QED
    BY <1>2, <2>1, <2>2, <2>3
<1>5. OneHeldGrantPerUser'
  BY <1>1, <1>4 DEF OneHeldGrantPerUser, UserOf
<1>6. ASSUME NEW h \in Grants, Revocable(h), h \notin Affected(e)
      PROVE  ~Denied(bind[h].auth)'
  <2> DEFINE a == bind[h].auth
  <2>1. a \in Authority /\ Held(h) /\ ~Denied(a)
    BY <1>6, GrantBound, AuthorityAssumption DEF Revocable, Held, Binding, DenyIsEffective
  <2>2. ~Matches(e, a)
    BY <1>6, <2>1 DEF Affected, HeldBy, Matches, UserOf
  <2>3. ASSUME NEW k \in Kinds
        PROVE  ~(mark'[<<k, a.subject[k], a.user>>] >= a.rev[k])
    <3>1. <<k, a.subject[k], a.user>> \in Marks
      BY <2>1 DEF Marks, Authority
    <3>2. ~(mark[<<k, a.subject[k], a.user>>] >= a.rev[k])
      BY <2>1 DEF Denied
    <3>3. CASE <<k, a.subject[k], a.user>> = <<e.kind, e.subject, e.user>>
      <4>1. e.rev \in Nat /\ a.rev[k] \in Nat
        BY <2>1, AuthorityAssumption DEF Authority, SourceEvent
      <4>2. ~(a.rev[k] <= e.rev)
        BY <2>2, <3>3 DEF Matches
      <4>3. mark'[<<k, a.subject[k], a.user>>] \in {mark[<<k, a.subject[k], a.user>>], e.rev}
        BY <1>1, <3>1, <3>3 DEF TypeOK
      <4>4. QED
        BY <3>2, <4>1, <4>2, <4>3
    <3>4. CASE <<k, a.subject[k], a.user>> # <<e.kind, e.subject, e.user>>
      BY <1>1, <3>1, <3>2, <3>4 DEF TypeOK
    <3>5. QED
      BY <3>3, <3>4
  <2>4. QED
    BY <1>1, <2>3 DEF Denied
<1>7. DenyIsEffective'
  BY <1>4, <1>6 DEF DenyIsEffective
<1>8. QED
  BY <1>5, <1>7

-----------------------------------------------------------------------------
(* The two invariants support each other: a deny event can only be sure to *)
(* revoke every live grant it covers because a user holds at most one.     *)
LEMMA SlotInvariant == Spec => [](TypeOK /\ OneHeldGrantPerUser /\ DenyIsEffective)
<1> DEFINE Inv == OneHeldGrantPerUser /\ DenyIsEffective
<1>1. Init => Inv
  BY DEF Init, OneHeldGrantPerUser, DenyIsEffective, Held, Revocable
<1>2. TypeOK /\ Inv /\ [Next]_vars => Inv'
  <2> SUFFICES ASSUME TypeOK, Inv, [Next]_vars PROVE Inv'
    OBVIOUS
  <2>1. CASE \E g \in Grants, c \in Calls, a \in Authorities : Reserve(g, c, a)
    BY <2>1, ReserveKeepsSlot
  <2>2. CASE \E e \in Events : ApplySourceEvent(e)
    BY <2>2, DenyRevokes
  <2>3. CASE GrantsOnlyLose
    BY <2>3 DEF GrantsOnlyLose, OneHeldGrantPerUser, DenyIsEffective, UserOf, Denied
  <2>4. QED
    BY <2>1, <2>2, <2>3, GrantSteps
<1>3. QED
  BY <1>1, <1>2, MediaTypes, PTL DEF Spec

(* No interleaving of the transactions gives a user two grants that are    *)
(* not fully revoked.                                                      *)
THEOREM SlotIsExclusive == Spec => []OneHeldGrantPerUser
  BY SlotInvariant, PTL

(* Once a deny event has been applied, no grant it covers can admit media, *)
(* whatever was reserved before or after it.                               *)
THEOREM DenyHolds == Spec => []DenyIsEffective
  BY SlotInvariant, PTL

-----------------------------------------------------------------------------
(* Only the two claim actions hand out fences.                             *)
LEMMA FenceSteps ==
    ASSUME TypeOK, [Next]_vars
    PROVE  \/ \E g \in Grants, x \in Actions, w \in Workers : ClaimCleanup(g, x, w)
           \/ \E i \in Intents, w \in Workers : ClaimRoom(i, w)
           \/ UNCHANGED <<claims, jFence, rClaims, rFence>>
<1> USE DEF jobVars, roomJobVars, controlVars
<1>1. CASE UNCHANGED vars
  BY <1>1 DEF vars
<1>2. CASE RepositoryNext
  BY <1>2 DEF RepositoryNext, CreateCallWithParticipant, JoinParticipant,
              LeaveParticipantAndMaybeEndCall, EndCallWithParticipants, mediaVars
<1>3. CASE StoreNext
  BY <1>3 DEF StoreNext, Reserve, Activate, RegisterLease, CloseLease, BeginRevoke,
              ApplySourceEvent, RetryCleanup, RecordCleanupAcknowledgement, ExpirePrepared
<1>4. CASE ControlNext
  BY <1>4 DEF ControlNext, RequestLeave, RequestEnd, RecordRoomAcknowledgement, RetryRoom,
              FinalizeLeave, FinalizeEnd
<1>5. QED
  BY <1>1, <1>2, <1>3, <1>4 DEF Next

(* A new fence is above every fence of that row handed out before, so the  *)
(* row's current fence has one claimant and every older claim stays stale. *)
THEOREM FencesAreUnique == Spec => []FenceUnique
<1> DEFINE Inv == FenceUnique /\ FenceBound
<1>1. Init => Inv
  BY DEF Init, FenceUnique, FenceBound
<1>2. TypeOK /\ Inv /\ [Next]_vars => Inv'
  <2> SUFFICES ASSUME TypeOK, Inv, [Next]_vars PROVE Inv'
    OBVIOUS
  <2> USE DEF FenceUnique, FenceBound
  <2>1. ASSUME NEW g \in Grants, NEW x \in Actions, NEW w \in Workers, ClaimCleanup(g, x, w)
        PROVE  Inv'
    <3> DEFINE j == <<g, x>>
               new == [grant |-> g, action |-> x, worker |-> w, fence |-> jFence[j] + 1]
    <3>1. /\ claims' = claims \cup {new}
          /\ jFence' = [jFence EXCEPT ![j] = @ + 1]
          /\ UNCHANGED <<rClaims, rFence>>
      BY <2>1 DEF ClaimCleanup, controlVars, roomJobVars
    <3>2. j \in Jobs /\ jFence \in [Jobs -> Nat] /\ claims \subseteq Claim
      BY DEF Jobs, TypeOK
    <3>3. ASSUME NEW k \in claims
          PROVE  /\ k.fence \in Nat /\ <<k.grant, k.action>> \in Jobs
                 /\ k.fence <= jFence'[<<k.grant, k.action>>]
                 /\ k.grant = g /\ k.action = x => k.fence # new.fence
      <4>1. k.fence \in Nat /\ <<k.grant, k.action>> \in Jobs
        BY <3>2 DEF Claim, Jobs
      <4>2. k.fence <= jFence[<<k.grant, k.action>>]
        OBVIOUS
      <4>3. QED
        BY <3>1, <3>2, <4>1, <4>2
    <3>4. new.fence <= jFence'[<<new.grant, new.action>>]
      BY <3>1, <3>2
    <3>5. QED
      BY <3>1, <3>3, <3>4
  <2>2. ASSUME NEW i \in Intents, NEW w \in Workers, ClaimRoom(i, w)
        PROVE  Inv'
    <3> DEFINE new == [intent |-> i, worker |-> w, fence |-> rFence[i] + 1]
    <3>1. /\ rClaims' = rClaims \cup {new}
          /\ rFence' = [rFence EXCEPT ![i] = @ + 1]
          /\ UNCHANGED <<claims, jFence>>
      BY <2>2 DEF ClaimRoom, jobVars
    <3>2. rFence \in [Intents -> Nat] /\ rClaims \subseteq RoomClaim
      BY DEF TypeOK
    <3>3. ASSUME NEW k \in rClaims
          PROVE  /\ k.fence <= rFence'[k.intent]
                 /\ k.intent = i => k.fence # new.fence
      <4>1. k.fence \in Nat /\ k.intent \in Intents
        BY <3>2 DEF RoomClaim
      <4>2. k.fence <= rFence[k.intent]
        OBVIOUS
      <4>3. QED
        BY <3>1, <3>2, <4>1, <4>2
    <3>4. new.fence <= rFence'[new.intent]
      BY <3>1, <3>2
    <3>5. QED
      BY <3>1, <3>3, <3>4
  <2>3. CASE UNCHANGED <<claims, jFence, rClaims, rFence>>
    BY <2>3
  <2>4. QED
    BY <2>1, <2>2, <2>3, FenceSteps
<1>3. QED
  BY <1>1, <1>2, MediaTypes, PTL DEF Spec

-----------------------------------------------------------------------------
(* A deny event gives no grant anything back, so only Reserve makes a      *)
(* grant held or binds one.                                                *)
LEMMA ApplyLoses ==
    ASSUME TypeOK, NEW e \in Events, ApplySourceEvent(e), NEW h \in Grants
    PROVE  /\ bind' = bind
           /\ Held(h)' => Held(h)
           /\ Revocable(h)' => Revocable(h)
<1>1. bind' = bind
  BY DEF ApplySourceEvent
<1>2. \/ gState' = gState
      \/ \E g \in Affected(e) : Stage({g}, "revoked") \/ gState' = gState
  BY DEF ApplySourceEvent
<1>3. \A g \in Affected(e) : g \in Grants /\ Held(g)
  BY DEF Affected, HeldBy
<1>4. CASE gState' = gState
  BY <1>1, <1>4 DEF Held, Revocable
<1>5. ASSUME NEW g \in Affected(e), Stage({g}, "revoked")
      PROVE  (Held(h)' => Held(h)) /\ (Revocable(h)' => Revocable(h))
  BY <1>3, <1>5, StageLoses
<1>6. QED
  BY <1>1, <1>2, <1>4, <1>5

LEMMA HeldSteps ==
    ASSUME TypeOK, [Next]_vars
    PROVE  \/ \E g \in Grants, c \in Calls, a \in Authorities : Reserve(g, c, a)
           \/ /\ bind' = bind
              /\ \A h \in Grants : (Held(h)' => Held(h)) /\ (Revocable(h)' => Revocable(h))
<1>1. CASE \E e \in Events : ApplySourceEvent(e)
  BY <1>1, ApplyLoses DEF ApplySourceEvent
<1>2. QED
  BY <1>1, GrantSteps DEF GrantsOnlyLose

(* What the steps do to calls, participants and rooms.                     *)
LEMMA CallSteps ==
    ASSUME TypeOK, [Next]_vars
    PROVE  \/ RepositoryNext
           \/ \E g \in Grants, c \in Calls, a \in Authorities : Reserve(g, c, a)
           \/ \E g \in Grants, a \in Authorities : Activate(g, a)
           \/ \E k \in claims : RecordCleanupAcknowledgement(k)
           \/ \E g \in Grants : ExpirePrepared(g)
           \/ \E i \in Intents, c \in Calls, u \in Users : RequestEnd(i, c, u)
           \/ \E i \in Intents : FinalizeEnd(i)
           \/ UNCHANGED <<callVars, roomVars>>
<1>1. CASE UNCHANGED vars
  BY <1>1 DEF vars
<1>2. CASE StoreNext
  BY <1>2 DEF StoreNext, RegisterLease, CloseLease, BeginRevoke, ApplySourceEvent, ClaimCleanup,
              RetryCleanup
<1>3. CASE ControlNext
  BY <1>3 DEF ControlNext, RequestLeave, ClaimRoom, RecordRoomAcknowledgement, RetryRoom,
              FinalizeLeave
<1>4. QED
  BY <1>1, <1>2, <1>3 DEF Next

(* The end of a participation: at most the user of the grant leaves, and   *)
(* the call and the room it was in end only when nobody uses them.         *)
LEMMA FinishEffect ==
    ASSUME TypeOK, NEW g \in Grants, gState[g] # "none", FinishParticipation(g)
    PROVE  /\ \A v \in Users : part'[v] = part[v] \/ (v = UserOf(g) /\ part'[v] = NoCall)
           /\ \A d \in Calls : callState'[d] # callState[d] =>
                 d = bind[g].call /\ ~EndPending(d) /\ \A v \in Users : part'[v] # d
           /\ \A d \in Calls : roomState'[d] # roomState[d] =>
                 /\ d = bind[g].call /\ ~EndPending(d)
                 /\ HeldInRoom(d, bind[g].room) \subseteq {g} /\ roomGen[d] = bind[g].room
<1> DEFINE u == UserOf(g)
           c == bind[g].call
           left == RowActive(u, bind[g].row)
<1>1. u \in Users /\ c \in Calls /\ c # NoCall
  BY GrantBound, NoneAssumption
<1>2. part' = IF left THEN [part EXCEPT ![u] = NoCall] ELSE part
  BY DEF FinishParticipation
<1>3. \A v \in Users : part'[v] = part[v] \/ (v = u /\ part'[v] = NoCall)
  BY <1>1, <1>2 DEF TypeOK
<1>4. CASE EndPending(c)
  BY <1>3, <1>4 DEF FinishParticipation
<1>5. CASE ~EndPending(c)
  <2>1. /\ EndIfEmpty(c, IF left THEN ActiveIn(c) \ {u} ELSE ActiveIn(c))
        /\ roomState' = [roomState EXCEPT ![c] =
                           IF HeldInRoom(c, bind[g].room) \subseteq {g} /\ roomGen[c] = bind[g].room
                             THEN "closed" ELSE @]
    BY <1>5 DEF FinishParticipation
  <2>2. (IF left THEN ActiveIn(c) \ {u} ELSE ActiveIn(c)) = {} => \A v \in Users : part'[v] # c
    BY <1>1, <1>2 DEF ActiveIn, TypeOK
  <2>3. ASSUME NEW d \in Calls, callState'[d] # callState[d]
        PROVE  d = c /\ \A v \in Users : part'[v] # d
    BY <1>1, <2>1, <2>2, <2>3 DEF EndIfEmpty, TypeOK
  <2>4. ASSUME NEW d \in Calls, roomState'[d] # roomState[d]
        PROVE  d = c /\ HeldInRoom(c, bind[g].room) \subseteq {g} /\ roomGen[c] = bind[g].room
    BY <1>1, <2>1, <2>4 DEF TypeOK
  <2>5. QED
    BY <1>3, <1>5, <2>3, <2>4
<1>6. QED
  BY <1>4, <1>5

-----------------------------------------------------------------------------
(* What a held grant stands on.                                            *)
Backed(g) ==
    /\ callState[bind[g].call] = "active"
    /\ RoomHeld(bind[g].call) /\ roomGen[bind[g].call] = bind[g].room
    /\ part[UserOf(g)] = bind[g].call
    /\ row[UserOf(g)] = bind[g].row

(* The call transactions behind the guard: whoever creates or joins a call *)
(* holds no grant, and whoever leaves or ends one neither holds a grant    *)
(* nor takes the call away from somebody who does.                         *)
LEMMA RepositoryBacked ==
    ASSUME TypeOK, Guarded, \A g \in Grants : Held(g) => Backed(g), RepositoryNext
    PROVE  \A g \in Grants : Held(g)' => Backed(g)'
<1> SUFFICES ASSUME NEW g \in Grants, Held(g)' PROVE Backed(g)'
  OBVIOUS
<1> DEFINE o == UserOf(g)
           d == bind[g].call
<1>1. gState' = gState /\ bind' = bind /\ roomState' = roomState /\ roomGen' = roomGen
  BY DEF RepositoryNext, CreateCallWithParticipant, JoinParticipant, EndCallWithParticipants,
         LeaveParticipantAndMaybeEndCall, mediaVars, grantVars, roomVars
<1>2. Held(g) /\ Backed(g) /\ o \in Users /\ d \in Calls /\ d # NoCall
  BY <1>1, GrantBound, NoneAssumption DEF Held
<1>3. SUFFICES callState'[d] = "active" /\ part'[o] = d /\ row'[o] = row[o]
  BY <1>1, <1>2 DEF Backed, RoomHeld, UserOf
<1>4. g \in HeldBy(o) /\ g \in HeldInCall(d)
  BY <1>2 DEF HeldBy, HeldInCall
<1> USE DEF Backed
<1>5. ASSUME NEW c \in Calls, NEW u \in Users, CreateCallWithParticipant(c, u)
      PROVE  callState'[d] = "active" /\ part'[o] = d /\ row'[o] = row[o]
  <2>1. o # u /\ c # d
    BY <1>2, <1>4, <1>5 DEF CreateCallWithParticipant, SlotAllowsCreate
  <2>2. QED
    BY <1>2, <1>5, <2>1 DEF CreateCallWithParticipant, NewRow, TypeOK
<1>6. ASSUME NEW c \in Calls, NEW u \in Users, JoinParticipant(c, u)
      PROVE  callState'[d] = "active" /\ part'[o] = d /\ row'[o] = row[o]
  <2>1. o # u
    BY <1>2, <1>6 DEF JoinParticipant, Free
  <2>2. QED
    BY <1>2, <1>6, <2>1 DEF JoinParticipant, NewRow, TypeOK
<1>7. ASSUME NEW c \in Calls, NEW u \in Users, LeaveParticipantAndMaybeEndCall(c, u)
      PROVE  callState'[d] = "active" /\ part'[o] = d /\ row'[o] = row[o]
  <2>1. o # u
    BY <1>4, <1>7 DEF LeaveParticipantAndMaybeEndCall, SlotAllowsRelease, LeaveSlot
  <2>2. c = d => ActiveIn(c) \ {u} # {}
    BY <1>2, <2>1 DEF ActiveIn
  <2>3. QED
    BY <1>2, <1>7, <2>1, <2>2 DEF LeaveParticipantAndMaybeEndCall, EndIfEmpty, TypeOK
<1>8. ASSUME NEW c \in Calls, NEW u \in Users, EndCallWithParticipants(c, u)
      PROVE  callState'[d] = "active" /\ part'[o] = d /\ row'[o] = row[o]
  <2>1. c # d
    BY <1>4, <1>8 DEF EndCallWithParticipants, SlotAllowsRelease, EndSlot
  <2>2. o \notin ActiveIn(c)
    BY <1>2, <2>1 DEF ActiveIn
  <2>3. QED
    BY <1>2, <1>8, <2>1, <2>2, UpdateAt DEF EndCallWithParticipants, Update, TypeOK
<1>9. QED
  BY <1>5, <1>6, <1>7, <1>8 DEF RepositoryNext

(* A reservation is backed by the row, the room and the call it has found  *)
(* or made, and takes nothing from the grants of others.                   *)
LEMMA ReserveBacked ==
    ASSUME TypeOK, \A g \in Grants : Held(g) => Backed(g),
           NEW n \in Grants, NEW c \in Calls, NEW a \in Authorities, Reserve(n, c, a)
    PROVE  \A g \in Grants : Held(g)' => Backed(g)'
<1> DEFINE u == a.user
<1>1. u \in Users
  BY AuthorityAssumption DEF Authority
<1>2. /\ gState' = [gState EXCEPT ![n] = "prepared"]
      /\ bind' = [bind EXCEPT ![n] = [call |-> c, row |-> row'[u], room |-> RoomFor(c), auth |-> a]]
      /\ callState' = callState /\ callState[c] = "active"
      /\ roomGen' = [roomGen EXCEPT ![c] = RoomFor(c)]
      /\ roomState' = [roomState EXCEPT ![c] = IF RoomHeld(c) THEN @ ELSE "prepared"]
      /\ HeldBy(u) = {}
  BY DEF Reserve
<1>3. /\ part'[u] = c
      /\ \A v \in Users : v # u => part'[v] = part[v] /\ row'[v] = row[v]
  BY <1>1 DEF Reserve, NewRow, TypeOK
<1>4. /\ RoomHeld(c)' /\ roomGen'[c] = RoomFor(c)
      /\ \A d \in Calls : RoomHeld(d) => RoomHeld(d)' /\ roomGen'[d] = roomGen[d]
  BY <1>2 DEF RoomHeld, RoomFor, TypeOK
<1>5. Backed(n)'
  BY <1>2, <1>3, <1>4 DEF Backed, UserOf, TypeOK
<1>6. ASSUME NEW g \in Grants, g # n, Held(g)'
      PROVE  Backed(g)'
  <2>1. Held(g) /\ bind'[g] = bind[g]
    BY <1>2, <1>6 DEF Held, TypeOK
  <2>2. Backed(g) /\ UserOf(g) \in Users /\ UserOf(g) # u /\ bind[g].call \in Calls
    BY <1>2, <2>1, GrantBound DEF HeldBy, Held
  <2>3. QED
    BY <1>2, <1>3, <1>4, <2>1, <2>2 DEF Backed, UserOf
<1>7. QED
  BY <1>5, <1>6

(* The end of the last operation of a grant, or of a grant that expires,   *)
(* takes nothing from the grants of other users in the call.               *)
LEMMA FinishBacked ==
    ASSUME TypeOK, OneHeldGrantPerUser, \A g \in Grants : Held(g) => Backed(g),
           NEW n \in Grants, Held(n), FinishParticipation(n),
           gState' = [gState EXCEPT ![n] = "revoked"], UNCHANGED <<row, roomGen, bind>>
    PROVE  \A g \in Grants : Held(g)' => Backed(g)'
<1> SUFFICES ASSUME NEW g \in Grants, Held(g)' PROVE Backed(g)'
  OBVIOUS
<1>1. g # n /\ Held(g) /\ Backed(g) /\ UserOf(g) # UserOf(n)
  <2>1. g # n /\ Held(g)
    BY DEF Held, TypeOK
  <2>2. QED
    BY <2>1 DEF OneHeldGrantPerUser
<1>2. UserOf(g) \in Users /\ bind[g].call \in Calls /\ gState[n] # "none"
  BY <1>1, GrantBound DEF Held
<1>3. part'[UserOf(g)] = bind[g].call
  BY <1>1, <1>2, FinishEffect DEF Backed
<1>4. callState'[bind[g].call] = "active"
  BY <1>1, <1>2, <1>3, FinishEffect DEF Backed
<1>5. roomState'[bind[g].call] = roomState[bind[g].call]
  <2>1. bind[n].call = bind[g].call /\ roomGen[bind[g].call] = bind[n].room
           => g \in HeldInRoom(bind[g].call, bind[n].room)
    BY <1>1 DEF HeldInRoom, HeldInCall, Backed
  <2>2. QED
    BY <1>1, <1>2, <2>1, FinishEffect
<1>6. QED
  BY <1>1, <1>3, <1>4, <1>5 DEF Backed, RoomHeld, UserOf

LEMMA BackedStep ==
    ASSUME TypeOK, OneHeldGrantPerUser, Guarded, \A g \in Grants : Held(g) => Backed(g),
           [Next]_vars
    PROVE  \A g \in Grants : Held(g)' => Backed(g)'
<1>1. CASE RepositoryNext
  BY <1>1, RepositoryBacked
<1>2. CASE \E g \in Grants, c \in Calls, a \in Authorities : Reserve(g, c, a)
  BY <1>2, ReserveBacked
<1>3. ASSUME NEW k \in claims, RecordCleanupAcknowledgement(k)
      PROVE  \A g \in Grants : Held(g)' => Backed(g)'
  <2>1. k.grant \in Grants /\ Held(k.grant)
    BY <1>3 DEF RecordCleanupAcknowledgement, Claim, TypeOK, Held
  <2>2. UNCHANGED <<row, roomGen, bind>>
    BY <1>3 DEF RecordCleanupAcknowledgement
  <2>3. CASE LastAction(k.grant, k.action)
    BY <1>3, <2>1, <2>2, <2>3, FinishBacked DEF RecordCleanupAcknowledgement
  <2>4. CASE ~LastAction(k.grant, k.action)
    BY <1>3, <2>2, <2>4 DEF RecordCleanupAcknowledgement, Held, Backed, RoomHeld, UserOf
  <2>5. QED
    BY <2>3, <2>4
<1>4. ASSUME NEW n \in Grants, ExpirePrepared(n)
      PROVE  \A g \in Grants : Held(g)' => Backed(g)'
  BY <1>4, FinishBacked DEF ExpirePrepared, Held
<1>5. ASSUME bind' = bind, \A h \in Grants : Held(h)' => Held(h),
             NEW i \in Intents, FinalizeEnd(i)
      PROVE  \A g \in Grants : Held(g)' => Backed(g)'
  <2> SUFFICES ASSUME NEW g \in Grants, Held(g)' PROVE Backed(g)'
    OBVIOUS
  <2>1. Held(g) /\ Backed(g) /\ UserOf(g) \in Users /\ bind[g].call \in Calls
    BY <1>5, GrantBound DEF Held
  <2>2. bind[g].call # intent[i].call
    BY <1>5, <2>1 DEF FinalizeEnd, HeldInCall
  <2>3. UserOf(g) \notin ActiveIn(intent[i].call)
    BY <2>1, <2>2 DEF ActiveIn, Backed
  <2>4. part'[UserOf(g)] = part[UserOf(g)]
    BY <1>5, <2>1, <2>3 DEF FinalizeEnd, Update, TypeOK
  <2>5. QED
    BY <1>5, <2>1, <2>2, <2>4 DEF FinalizeEnd, Backed, RoomHeld, UserOf, TypeOK
<1>6. ASSUME bind' = bind, \A h \in Grants : Held(h)' => Held(h),
             \/ \E g \in Grants, a \in Authorities : Activate(g, a)
             \/ \E i \in Intents, c \in Calls, u \in Users : RequestEnd(i, c, u)
             \/ UNCHANGED <<callVars, roomVars>>
      PROVE  \A g \in Grants : Held(g)' => Backed(g)'
  <2>1. /\ UNCHANGED <<callVars, roomGen>>
        /\ \A c \in Calls : RoomHeld(c) => RoomHeld(c)'
    <3>1. CASE \E g \in Grants, a \in Authorities : Activate(g, a)
      BY <3>1 DEF Activate, RoomHeld, TypeOK
    <3>2. CASE \E i \in Intents, c \in Calls, u \in Users : RequestEnd(i, c, u)
      BY <3>2 DEF RequestEnd, RoomHeld, TypeOK
    <3>3. QED
      BY <1>6, <3>1, <3>2 DEF roomVars, RoomHeld
  <2>2. SUFFICES ASSUME NEW g \in Grants, Held(g)' PROVE Backed(g)'
    OBVIOUS
  <2>3. Held(g) /\ Backed(g) /\ bind[g].call \in Calls
    BY <1>6, <2>2, GrantBound DEF Held
  <2>4. QED
    BY <1>6, <2>1, <2>3 DEF callVars, Backed, UserOf
<1>7. QED
  BY <1>1, <1>2, <1>3, <1>4, <1>5, <1>6, HeldSteps, CallSteps

(* Behind the slot guard, no call transaction, finalization or teardown    *)
(* takes the call, the room or the participant row from a held grant.      *)
THEOREM SlotStaysBacked == Spec => []HeldSlotBacked
<1>1. Init => HeldSlotBacked
  BY DEF Init, HeldSlotBacked, Held
<1>2. TypeOK /\ OneHeldGrantPerUser /\ HeldSlotBacked /\ [Next]_vars => HeldSlotBacked'
  BY BackedStep DEF HeldSlotBacked, Backed
<1>3. QED
  BY <1>1, <1>2, SlotInvariant, PTL DEF Spec

-----------------------------------------------------------------------------
PendingEnd(i) == iState[i] = "pending" /\ intent[i].kind = "end"

(* Every request has a snapshot, and a call has one pending end at most.   *)
EndInv ==
    /\ \A i \in Intents : iState[i] # "none" => intent[i] \in Snapshot
    /\ \A i, j \in Intents : PendingEnd(i) /\ PendingEnd(j) /\ intent[i].call = intent[j].call
                                => i = j

(* The barrier of one pending end.                                         *)
Barred(i) ==
    LET c == intent[i].call IN
    /\ callState[c] = "active"
    /\ intent[i].known => roomState[c] = "closing"
    /\ \A g \in HeldInCall(c) : gState[g] = "revoking" /\ g \in intent[i].children
    /\ RosterInSnapshot(i)

(* A step that leaves the call of the end, its room and the request as     *)
(* they are, lets nobody into the call and gives back no grant, does not   *)
(* break the barrier.                                                      *)
LEMMA BarrierFrame ==
    ASSUME TypeOK, NEW i \in Intents, intent[i] \in Snapshot, Barred(i), intent'[i] = intent[i],
           callState'[intent[i].call] = callState[intent[i].call],
           roomState'[intent[i].call] = roomState[intent[i].call],
           \A u \in Users : part'[u] = intent[i].call => part[u] = part'[u] /\ row'[u] = row[u],
           \A g \in Grants : /\ bind'[g] = bind[g] \/ bind'[g].call # intent[i].call
                             /\ Held(g)' /\ bind'[g].call = intent[i].call => Held(g)
                             /\ gState[g] = "revoking" /\ Held(g)' => gState'[g] = "revoking"
    PROVE  Barred(i)'
<1> DEFINE c == intent[i].call
<1>1. \A g \in HeldInCall(c)' : g \in HeldInCall(c) /\ gState'[g] = "revoking"
  BY DEF HeldInCall, Barred
<1>2. RowsOf(ActiveIn(c))' \subseteq RowsOf(ActiveIn(c))
  BY DEF RowsOf, ActiveIn
<1>3. QED
  BY <1>1, <1>2 DEF Barred, RosterInSnapshot, HeldInCall

LEMMA EndsStart == Init => EndInv
  BY DEF Init, EndInv, PendingEnd

(* Requests are only added, by the two that request, and completed.        *)
LEMMA IntentSteps ==
    ASSUME TypeOK, [Next]_vars
    PROVE  \/ \E i \in Intents, c \in Calls, a \in Authorities : RequestLeave(i, c, a)
           \/ \E i \in Intents, c \in Calls, u \in Users : RequestEnd(i, c, u)
           \/ \E i \in Intents : FinalizeLeave(i)
           \/ \E i \in Intents : FinalizeEnd(i)
           \/ UNCHANGED intentVars
<1>1. CASE UNCHANGED vars
  BY <1>1 DEF vars
<1>2. CASE RepositoryNext
  BY <1>2 DEF RepositoryNext, CreateCallWithParticipant, JoinParticipant,
              LeaveParticipantAndMaybeEndCall, EndCallWithParticipants, mediaVars
<1>3. CASE StoreNext
  BY <1>3 DEF StoreNext, Reserve, Activate, RegisterLease, CloseLease, BeginRevoke,
              ApplySourceEvent, ClaimCleanup, RetryCleanup, RecordCleanupAcknowledgement,
              ExpirePrepared, controlVars
<1>4. CASE ControlNext
  BY <1>4 DEF ControlNext, ClaimRoom, RecordRoomAcknowledgement, RetryRoom
<1>5. QED
  BY <1>1, <1>2, <1>3, <1>4 DEF Next

LEMMA LeaveSnapshot ==
    ASSUME TypeOK, NEW i \in Intents, NEW c \in Calls, NEW a \in Authorities, RequestLeave(i, c, a)
    PROVE  /\ iState[i] = "none" /\ iState' = [iState EXCEPT ![i] = "pending"]
           /\ intent' = [intent EXCEPT ![i] = intent'[i]]
           /\ intent'[i] \in Snapshot /\ intent'[i].kind = "leave"
<1>1. a.user \in Users
  BY AuthorityAssumption DEF Authority
<1>2. PICK g \in HeldBy(a.user) :
        intent' = [intent EXCEPT ![i] =
                     [kind |-> "leave", call |-> c, actor |-> a.user, known |-> TRUE,
                      children |-> {g}, parts |-> RowsOf({a.user} \cap ActiveIn(c))]]
  BY DEF RequestLeave
<1>3. g \in Grants /\ RowsOf({a.user} \cap ActiveIn(c)) \in SUBSET (Users \X Nat)
  BY <1>1 DEF HeldBy, RowsOf, TypeOK
<1>4. [kind |-> "leave", call |-> c, actor |-> a.user, known |-> TRUE,
       children |-> {g}, parts |-> RowsOf({a.user} \cap ActiveIn(c))] \in Snapshot
  BY <1>1, <1>3 DEF Snapshot
<1>5. iState[i] = "none" /\ iState' = [iState EXCEPT ![i] = "pending"]
  BY DEF RequestLeave
<1>6. QED
  BY <1>2, <1>4, <1>5 DEF TypeOK

LEMMA EndSnapshot ==
    ASSUME TypeOK, NEW i \in Intents, NEW c \in Calls, NEW u \in Users, RequestEnd(i, c, u)
    PROVE  /\ iState[i] = "none" /\ iState' = [iState EXCEPT ![i] = "pending"]
           /\ intent' = [intent EXCEPT ![i] = intent'[i]]
           /\ intent'[i] \in Snapshot /\ intent'[i].kind = "end" /\ intent'[i].call = c
           /\ intent'[i].known = RoomHeld(c) /\ intent'[i].children = HeldInCall(c)
           /\ intent'[i].parts = RowsOf(ActiveIn(c))
<1>1. /\ HeldInCall(c) \in SUBSET Grants
      /\ RowsOf(ActiveIn(c)) \in SUBSET (Users \X Nat)
      /\ RoomHeld(c) \in BOOLEAN
  BY DEF HeldInCall, RowsOf, ActiveIn, RoomHeld, TypeOK
<1>2. intent' = [intent EXCEPT ![i] =
                   [kind |-> "end", call |-> c, actor |-> u, known |-> RoomHeld(c),
                    children |-> HeldInCall(c), parts |-> RowsOf(ActiveIn(c))]]
  BY DEF RequestEnd
<1>3. QED
  BY <1>1, <1>2 DEF RequestEnd, Snapshot, TypeOK

LEMMA EndsStep ==
    ASSUME TypeOK, EndInv, [Next]_vars
    PROVE  EndInv'
<1> USE DEF EndInv, PendingEnd
<1>1. ASSUME NEW i \in Intents, NEW c \in Calls, NEW a \in Authorities, RequestLeave(i, c, a)
      PROVE  EndInv'
  <2>1. /\ intent'[i] \in Snapshot /\ ~PendingEnd(i)'
        /\ \A j \in Intents : j # i => iState'[j] = iState[j] /\ intent'[j] = intent[j]
    BY <1>1, LeaveSnapshot DEF TypeOK
  <2>2. QED
    BY <2>1
<1>2. ASSUME NEW i \in Intents, NEW c \in Calls, NEW u \in Users, RequestEnd(i, c, u)
      PROVE  EndInv'
  <2>1. \A j \in Intents : PendingEnd(j) => intent[j].call # c
    BY <1>2 DEF RequestEnd, EndPending
  <2>2. /\ intent'[i] \in Snapshot /\ intent'[i].call = c
        /\ \A j \in Intents : j # i => iState'[j] = iState[j] /\ intent'[j] = intent[j]
    BY <1>2, EndSnapshot DEF TypeOK
  <2>3. QED
    BY <2>1, <2>2
<1>3. ASSUME NEW i \in Intents, FinalizeLeave(i) \/ FinalizeEnd(i)
      PROVE  EndInv'
  BY <1>3 DEF FinalizeLeave, FinalizeEnd, TypeOK
<1>4. CASE UNCHANGED intentVars
  BY <1>4 DEF intentVars
<1>5. QED
  BY <1>1, <1>2, <1>3, <1>4, IntentSteps

(* While the end of a call is pending, a step that is not about this end   *)
(* leaves the call and its room alone, and nobody comes in.                *)
LEMMA PendingCallRests ==
    ASSUME TypeOK, EndInv, [Next]_vars, NEW i \in Intents, PendingEnd(i), PendingEnd(i)',
           intent[i] \in Snapshot, callState[intent[i].call] = "active"
    PROVE  /\ callState'[intent[i].call] = callState[intent[i].call]
           /\ roomState'[intent[i].call] = roomState[intent[i].call]
           /\ \A v \in Users : part'[v] = intent[i].call => part[v] = part'[v] /\ row'[v] = row[v]
<1> DEFINE d == intent[i].call
           Rests == /\ callState'[d] = callState[d]
                    /\ roomState'[d] = roomState[d]
                    /\ \A v \in Users : part'[v] = d => part[v] = part'[v] /\ row'[v] = row[v]
<1>1. d \in Calls /\ EndPending(d) /\ d # NoCall
  BY NoneAssumption DEF Snapshot, EndPending, PendingEnd
<1>2. CASE RepositoryNext
  <2>1. roomState' = roomState
    BY <1>2 DEF RepositoryNext, CreateCallWithParticipant, JoinParticipant, EndCallWithParticipants,
                LeaveParticipantAndMaybeEndCall, mediaVars, roomVars
  <2>2. ASSUME NEW c \in Calls, NEW u \in Users, CreateCallWithParticipant(c, u)
        PROVE  Rests
    <3>1. c # d /\ part[u] # d
      BY <1>1, <2>2 DEF CreateCallWithParticipant
    <3>2. QED
      BY <1>1, <2>1, <2>2, <3>1 DEF CreateCallWithParticipant, NewRow, TypeOK
  <2>3. ASSUME NEW c \in Calls, NEW u \in Users, JoinParticipant(c, u)
        PROVE  Rests
    <3>1. c # d
      BY <1>1, <2>3 DEF JoinParticipant
    <3>2. QED
      BY <1>1, <2>1, <2>3, <3>1 DEF JoinParticipant, NewRow, TypeOK
  <2>4. ASSUME NEW c \in Calls, NEW u \in Users, LeaveParticipantAndMaybeEndCall(c, u)
        PROVE  Rests
    <3>1. c # d
      BY <1>1, <2>4 DEF LeaveParticipantAndMaybeEndCall
    <3>2. QED
      BY <1>1, <2>1, <2>4, <3>1 DEF LeaveParticipantAndMaybeEndCall, EndIfEmpty, TypeOK
  <2>5. ASSUME NEW c \in Calls, NEW u \in Users, EndCallWithParticipants(c, u)
        PROVE  Rests
    <3>1. c # d
      BY <1>1, <2>5 DEF EndCallWithParticipants
    <3>2. QED
      BY <1>1, <2>1, <2>5, <3>1 DEF EndCallWithParticipants, Update, TypeOK
  <2>6. QED
    BY <1>2, <2>2, <2>3, <2>4, <2>5 DEF RepositoryNext
<1>3. ASSUME NEW g \in Grants, NEW c \in Calls, NEW a \in Authorities, Reserve(g, c, a)
      PROVE  Rests
  <2>1. c # d /\ a.user \in Users
    BY <1>1, <1>3, AuthorityAssumption DEF Reserve, Authority
  <2>2. /\ callState' = callState
        /\ roomState' = [roomState EXCEPT ![c] = IF RoomHeld(c) THEN @ ELSE "prepared"]
        /\ \A v \in Users : v # a.user => part'[v] = part[v] /\ row'[v] = row[v]
        /\ part'[a.user] = c
    BY <1>3, <2>1 DEF Reserve, NewRow, TypeOK
  <2>3. QED
    BY <1>1, <2>1, <2>2 DEF TypeOK
<1>4. ASSUME NEW g \in Grants, NEW a \in Authorities, Activate(g, a)
      PROVE  Rests
  <2>1. bind[g].call # d
    BY <1>1, <1>4 DEF Activate, GrantUsable
  <2>2. QED
    BY <1>1, <1>4, <2>1 DEF Activate, callVars, TypeOK
<1>5. ASSUME NEW g \in Grants, gState[g] # "none", FinishParticipation(g), UNCHANGED row
      PROVE  Rests
  BY <1>1, <1>5, FinishEffect
<1>6. ASSUME NEW k \in claims, RecordCleanupAcknowledgement(k)
      PROVE  Rests
  <2>1. k.grant \in Grants /\ gState[k.grant] # "none" /\ row' = row
    BY <1>6 DEF RecordCleanupAcknowledgement, Claim, TypeOK
  <2>2. QED
    BY <1>5, <1>6, <2>1 DEF RecordCleanupAcknowledgement
<1>7. ASSUME NEW g \in Grants, ExpirePrepared(g)
      PROVE  Rests
  BY <1>5, <1>7 DEF ExpirePrepared
<1>8. ASSUME NEW j \in Intents, NEW c \in Calls, NEW u \in Users, RequestEnd(j, c, u)
      PROVE  Rests
  <2>1. c # d
    BY <1>1, <1>8 DEF RequestEnd
  <2>2. QED
    BY <1>1, <1>8, <2>1 DEF RequestEnd, callVars, TypeOK
<1>9. ASSUME NEW j \in Intents, FinalizeEnd(j)
      PROVE  Rests
  <2>1. PendingEnd(j) /\ j # i
    BY <1>9 DEF FinalizeEnd, PendingEnd, TypeOK
  <2>2. intent[j].call # d
    BY <2>1 DEF EndInv
  <2>3. QED
    BY <1>1, <1>9, <2>2 DEF FinalizeEnd, Update, TypeOK
<1>10. CASE UNCHANGED <<callVars, roomVars>>
  BY <1>10 DEF callVars, roomVars
<1>11. QED
  BY <1>2, <1>3, <1>4, <1>6, <1>7, <1>8, <1>9, <1>10, CallSteps

(* The barrier holds from the moment the end is requested.                 *)
LEMMA BarrierRises ==
    ASSUME TypeOK, NEW i \in Intents, NEW c \in Calls, NEW u \in Users, RequestEnd(i, c, u)
    PROVE  Barred(i)'
<1>1. /\ intent'[i].call = c /\ intent'[i].known = RoomHeld(c)
      /\ intent'[i].children = HeldInCall(c) /\ intent'[i].parts = RowsOf(ActiveIn(c))
  BY EndSnapshot
<1>2. /\ callState' = callState /\ callState[c] = "active" /\ part' = part /\ row' = row
      /\ roomState' = [roomState EXCEPT ![c] = IF RoomHeld(c) THEN "closing" ELSE @]
      /\ bind' = bind /\ Stage({g \in HeldInCall(c) : Revocable(g)}, "unchanged")
  BY DEF RequestEnd, callVars
<1>3. \A g \in HeldInCall(c)' : g \in HeldInCall(c) /\ gState'[g] = "revoking"
  <2>1. /\ {h \in HeldInCall(c) : Revocable(h)} \in SUBSET Grants
        /\ \A h \in {h \in HeldInCall(c) : Revocable(h)} : Held(h)
    BY DEF HeldInCall
  <2>2. SUFFICES ASSUME NEW g \in HeldInCall(c)'
                 PROVE  g \in HeldInCall(c) /\ gState'[g] = "revoking"
    OBVIOUS
  <2>3. g \in Grants /\ Held(g)' /\ bind[g].call = c
    BY <1>2 DEF HeldInCall
  <2>4. /\ Held(g)' => Held(g)
        /\ Revocable(g)' => Revocable(g) /\ g \notin {h \in HeldInCall(c) : Revocable(h)}
    BY <1>2, <2>1, <2>3, StageLoses
  <2>5. g \in HeldInCall(c)
    BY <2>3, <2>4 DEF HeldInCall
  <2>6. ~Revocable(g)'
    BY <2>4, <2>5
  <2>7. QED
    BY <2>3, <2>5, <2>6 DEF Held, Revocable
<1>4. RowsOf(ActiveIn(c))' = RowsOf(ActiveIn(c))
  BY <1>2 DEF RowsOf, ActiveIn
<1>5. QED
  BY <1>1, <1>2, <1>3, <1>4 DEF Barred, RosterInSnapshot, TypeOK

LEMMA BarrierStep ==
    ASSUME TypeOK, EndInv, \A i \in Intents : PendingEnd(i) => Barred(i), [Next]_vars
    PROVE  \A i \in Intents : PendingEnd(i)' => Barred(i)'
<1> SUFFICES ASSUME NEW i \in Intents, PendingEnd(i)' PROVE Barred(i)'
  OBVIOUS
<1>1. CASE \E c \in Calls, u \in Users : RequestEnd(i, c, u)
  BY <1>1, BarrierRises
<1>2. CASE ~\E c \in Calls, u \in Users : RequestEnd(i, c, u)
  <2>1. PendingEnd(i) /\ intent'[i] = intent[i]
    <3>1. ASSUME NEW j \in Intents, NEW c \in Calls, NEW a \in Authorities, RequestLeave(j, c, a)
          PROVE  PendingEnd(i) /\ intent'[i] = intent[i]
      BY <3>1, LeaveSnapshot DEF PendingEnd, TypeOK
    <3>2. ASSUME NEW j \in Intents, NEW c \in Calls, NEW u \in Users, RequestEnd(j, c, u)
          PROVE  PendingEnd(i) /\ intent'[i] = intent[i]
      BY <1>2, <3>2, EndSnapshot DEF PendingEnd, TypeOK
    <3>3. ASSUME NEW j \in Intents, FinalizeLeave(j) \/ FinalizeEnd(j)
          PROVE  PendingEnd(i) /\ intent'[i] = intent[i]
      BY <3>3 DEF FinalizeLeave, FinalizeEnd, PendingEnd, TypeOK
    <3>4. CASE UNCHANGED intentVars
      BY <3>4 DEF intentVars, PendingEnd
    <3>5. QED
      BY <3>1, <3>2, <3>3, <3>4, IntentSteps
  <2>2. intent[i] \in Snapshot /\ Barred(i) /\ EndPending(intent[i].call)
    BY <2>1 DEF EndInv, PendingEnd, EndPending
  <2>3. /\ callState'[intent[i].call] = callState[intent[i].call]
        /\ roomState'[intent[i].call] = roomState[intent[i].call]
        /\ \A v \in Users : part'[v] = intent[i].call => part[v] = part'[v] /\ row'[v] = row[v]
    BY <2>1, <2>2, PendingCallRests DEF Barred
  <2>4. \A g \in Grants : /\ bind'[g] = bind[g] \/ bind'[g].call # intent[i].call
                          /\ Held(g)' /\ bind'[g].call = intent[i].call => Held(g)
                          /\ gState[g] = "revoking" /\ Held(g)' => gState'[g] = "revoking"
    <3>1. ASSUME NEW n \in Grants, NEW c \in Calls, NEW a \in Authorities, Reserve(n, c, a)
          PROVE  \A g \in Grants : /\ bind'[g] = bind[g] \/ bind'[g].call # intent[i].call
                                   /\ Held(g)' /\ bind'[g].call = intent[i].call => Held(g)
                                   /\ gState[g] = "revoking" /\ Held(g)' => gState'[g] = "revoking"
      BY <2>2, <3>1 DEF Reserve, Held, TypeOK
    <3>2. ASSUME bind' = bind, NEW g \in Grants, Held(g)' => Held(g),
                 Revocable(g)' => Revocable(g)
          PROVE  /\ bind'[g] = bind[g]
                 /\ Held(g)' => Held(g)
                 /\ gState[g] = "revoking" /\ Held(g)' => gState'[g] = "revoking"
      BY <3>2 DEF Held, Revocable
    <3>3. QED
      BY <3>1, <3>2, HeldSteps
  <2>5. QED
    BY <2>1, <2>2, <2>3, <2>4, BarrierFrame
<1>3. QED
  BY <1>1, <1>2

(* From the request for the end of a call to its finalization the call and *)
(* its room wait, everything in it is being torn down, and nobody joins.   *)
THEOREM BarrierStands == Spec => []EndBarrier
<1> DEFINE Inv == EndInv /\ \A i \in Intents : PendingEnd(i) => Barred(i)
<1>1. Init => Inv
  BY EndsStart DEF Init, PendingEnd
<1>2. TypeOK /\ Inv /\ [Next]_vars => Inv'
  BY EndsStep, BarrierStep
<1>3. Inv => EndBarrier
  BY DEF EndBarrier, PendingEnd, Barred
<1>4. QED
  BY <1>1, <1>2, <1>3, MediaTypes, PTL DEF Spec

-----------------------------------------------------------------------------
(* The life of a grant: what the steps do to grants, leases, operations    *)
(* and cleanup actions.                                                    *)
lifeVars == <<grantVars, leaseVars, opVars, jState, receipt>>

Withdraws(S, out) ==
    /\ \A g \in S : Revocable(g)
    /\ Stage(S, out)
    /\ UNCHANGED <<bind, lGrant, receipt>>

(* A cleanup action is claimed or given back.                              *)
JobMoves(j) ==
    /\ gState[j[1]] = "revoking"
    /\ jState[j] \in {"pending", "claimed"}
    /\ \E v \in {"pending", "claimed"} : jState' = [jState EXCEPT ![j] = v]
    /\ UNCHANGED <<grantVars, leaseVars, opVars, receipt>>

LEMMA LifeSteps ==
    ASSUME TypeOK, [Next]_vars
    PROVE  \/ \E g \in Grants, c \in Calls, a \in Authorities : Reserve(g, c, a)
           \/ \E g \in Grants, a \in Authorities : Activate(g, a)
           \/ \E l \in Leases, g \in Grants, a \in Authorities : RegisterLease(l, g, a)
           \/ \E l \in Leases : CloseLease(l)
           \/ \E S \in SUBSET Grants, out \in {"unchanged", "unavailable"} : Withdraws(S, out)
           \/ \E e \in Events : ApplySourceEvent(e)
           \/ \E j \in Jobs : JobMoves(j)
           \/ \E k \in claims : RecordCleanupAcknowledgement(k)
           \/ \E g \in Grants : ExpirePrepared(g)
           \/ UNCHANGED lifeVars
<1> USE DEF lifeVars, denyVars, grantVars, leaseVars, opVars, jobVars
<1>1. CASE UNCHANGED vars
  BY <1>1 DEF vars
<1>2. CASE RepositoryNext
  BY <1>2 DEF RepositoryNext, CreateCallWithParticipant, JoinParticipant,
              LeaveParticipantAndMaybeEndCall, EndCallWithParticipants, mediaVars
<1>3. ASSUME NEW g \in Grants, NEW out \in {"unchanged", "unavailable"}, BeginRevoke(g, out)
      PROVE  Withdraws({g}, out)
  BY <1>3 DEF BeginRevoke, Withdraws
<1>4. ASSUME NEW g \in Grants, NEW x \in Actions, NEW w \in Workers, ClaimCleanup(g, x, w)
      PROVE  \E j \in Jobs : JobMoves(j)
  <2>1. <<g, x>> \in Jobs /\ JobMoves(<<g, x>>)
    BY <1>4 DEF ClaimCleanup, JobMoves, Jobs
  <2>2. QED
    BY <2>1
<1>5. ASSUME NEW k \in claims, RetryCleanup(k)
      PROVE  \E j \in Jobs : JobMoves(j)
  <2>1. <<k.grant, k.action>> \in Jobs
    BY DEF Claim, Jobs, TypeOK
  <2>2. JobMoves(<<k.grant, k.action>>)
    BY <1>5 DEF RetryCleanup, JobMoves
  <2>3. QED
    BY <2>1, <2>2
<1>6. CASE StoreNext
  BY <1>3, <1>4, <1>5, <1>6 DEF StoreNext
<1>7. ASSUME NEW i \in Intents, NEW c \in Calls, NEW a \in Authorities, RequestLeave(i, c, a)
      PROVE  \/ \E S \in SUBSET Grants : Withdraws(S, "unchanged")
             \/ UNCHANGED lifeVars
  <2>1. PICK g \in HeldBy(a.user) : IF Revocable(g) THEN Stage({g}, "unchanged")
                                       ELSE UNCHANGED <<gState, opVars, jState, lState>>
    BY <1>7 DEF RequestLeave
  <2>2. UNCHANGED <<bind, lGrant, receipt>> /\ g \in Grants
    BY <1>7 DEF RequestLeave, HeldBy
  <2>3. CASE Revocable(g)
    BY <2>1, <2>2, <2>3 DEF Withdraws
  <2>4. QED
    BY <2>1, <2>2, <2>3
<1>8. ASSUME NEW i \in Intents, NEW c \in Calls, NEW u \in Users, RequestEnd(i, c, u)
      PROVE  \E S \in SUBSET Grants : Withdraws(S, "unchanged")
  <2> DEFINE S == {g \in HeldInCall(c) : Revocable(g)}
  <2>1. S \in SUBSET Grants /\ Withdraws(S, "unchanged")
    BY <1>8 DEF RequestEnd, HeldInCall, Withdraws
  <2>2. QED
    BY <2>1
<1>9. CASE ControlNext
  BY <1>7, <1>8, <1>9 DEF ControlNext, ClaimRoom, RecordRoomAcknowledgement, RetryRoom,
                          FinalizeLeave, FinalizeEnd
<1>10. QED
  BY <1>1, <1>2, <1>6, <1>9 DEF Next

(* What staging does, one grant and one cleanup action at a time.          *)
LEMMA StageEffect ==
    ASSUME TypeOK, NEW S \in SUBSET Grants, NEW out, Stage(S, out), NEW g \in Grants
    PROVE  /\ g \in S => gState'[g] = "revoking" /\ opState'[g] = "pending" /\ outcome'[g] = out
           /\ g \notin S => gState'[g] = gState[g] /\ opState'[g] = opState[g]
                            /\ outcome'[g] = outcome[g] /\ target'[g] = target[g]
           /\ g \in S /\ HeldLease(g) # {} => target'[g] \in HeldLease(g)
           /\ \A x \in Actions : jState'[<<g, x>>] = IF g \in S /\ (x = "proxy" => HeldLease(g) # {})
                                                       THEN "pending" ELSE jState[<<g, x>>]
<1>1. HeldLease(g) # {} => (CHOOSE l \in Leases : l \in HeldLease(g)) \in HeldLease(g)
  BY DEF HeldLease
<1>2. \A x \in Actions : <<g, x>> \in Jobs
  BY DEF Jobs
<1>3. \A x \in Actions : <<g, x>> \in StagedJobs(S) <=> g \in S /\ (x = "proxy" => HeldLease(g) # {})
  BY <1>2 DEF StagedJobs
<1>4. target'[g] = IF g \in S /\ HeldLease(g) # {} THEN CHOOSE l \in Leases : l \in HeldLease(g)
                                                   ELSE target[g]
  BY DEF Stage
<1>5. QED
  BY <1>1, <1>2, <1>3, <1>4 DEF Stage, Update, TypeOK

-----------------------------------------------------------------------------
(* A receipt names a grant that is, or was, being revoked.                 *)
ReceiptInv == \A e \in Events, g \in Grants : receipt[e] = g => gState[g] \in {"revoking", "revoked"}

(* A step that neither applies an event nor makes a grant: an operation    *)
(* that says authority was revoked is not touched.                         *)
LEMMA ReceiptFrame ==
    ASSUME ReceiptHonest, ReceiptInv, receipt' = receipt, bind' = bind,
           \A g \in Grants : /\ gState'[g] = gState[g] \/ gState[g] \in {"prepared", "active"}
                                \/ gState'[g] \in {"revoking", "revoked"}
                             /\ outcome'[g] = outcome[g]
                                \/ (Revocable(g) /\ outcome'[g] # "revoked")
    PROVE  (ReceiptHonest /\ ReceiptInv)'
  BY DEF ReceiptHonest, ReceiptInv, Revocable, Matches

LEMMA ApplyHonest ==
    ASSUME TypeOK, ReceiptHonest, ReceiptInv, NEW e \in Events, ApplySourceEvent(e)
    PROVE  (ReceiptHonest /\ ReceiptInv)'
<1>1. bind' = bind /\ receipt[e] = NoReceipt
  BY DEF ApplySourceEvent
<1>2. CASE Affected(e) = {} /\ receipt' = [receipt EXCEPT ![e] = NoGrant]
           /\ UNCHANGED <<gState, outcome>>
  BY <1>1, <1>2, NoneAssumption DEF ReceiptHonest, ReceiptInv, Revocable, Matches, TypeOK
<1>3. ASSUME NEW g \in Affected(e), receipt' = [receipt EXCEPT ![e] = g],
             IF Revocable(g)
               THEN Stage({g}, "revoked")
               ELSE /\ outcome' = [outcome EXCEPT ![g] = "revoked"]
                    /\ UNCHANGED gState
      PROVE  (ReceiptHonest /\ ReceiptInv)'
  <2>1. g \in Grants /\ Held(g) /\ Matches(e, bind[g].auth)
    BY DEF Affected, HeldBy
  <2>2. /\ gState'[g] = "revoking" /\ outcome'[g] = "revoked"
        /\ \A h \in Grants : h # g => gState'[h] = gState[h] /\ outcome'[h] = outcome[h]
    <3>1. CASE Revocable(g)
      <4>1. {g} \in SUBSET Grants /\ Stage({g}, "revoked")
        BY <1>3, <2>1, <3>1
      <4>2. ASSUME NEW h \in Grants
            PROVE  /\ h = g => gState'[h] = "revoking" /\ outcome'[h] = "revoked"
                   /\ h # g => gState'[h] = gState[h] /\ outcome'[h] = outcome[h]
        BY <4>1, StageEffect
      <4>3. QED
        BY <2>1, <4>2
    <3>2. CASE ~Revocable(g)
      BY <1>3, <2>1, <3>2 DEF Held, Revocable, TypeOK
    <3>3. QED
      BY <3>1, <3>2
  <2>3. receipt'[e] = g /\ \A f \in Events : f # e => receipt'[f] = receipt[f]
    BY <1>3 DEF TypeOK
  <2>4. receipt[e] \notin Grants
    BY <1>1, NoneAssumption
  <2>5. ReceiptInv'
    BY <2>2, <2>3 DEF ReceiptInv
  <2>6. ASSUME NEW h \in Grants, NEW f \in Events, receipt'[f] = h
        PROVE  Matches(f, bind[h].auth)' /\ ~Revocable(h)' /\ outcome'[h] = "revoked"
    <3>1. CASE h = g
      BY <1>1, <2>1, <2>2, <2>3, <2>6, <3>1 DEF ReceiptHonest, Revocable, Matches
    <3>2. CASE h # g
      BY <1>1, <2>2, <2>3, <2>6, <3>2 DEF ReceiptHonest, Revocable, Matches
    <3>3. QED
      BY <3>1, <3>2
  <2>7. ASSUME NEW h \in Grants, outcome'[h] = "revoked"
        PROVE  \E f \in Events : receipt'[f] = h
    BY <2>2, <2>3, <2>4, <2>7 DEF ReceiptHonest
  <2>8. QED
    BY <2>5, <2>6, <2>7 DEF ReceiptHonest
<1>4. QED
  BY <1>2, <1>3 DEF ApplySourceEvent, opVars

(* The sender of a deny event gets an operation of a grant the event       *)
(* covers, which says that authority was revoked; no other says so.        *)
THEOREM ReceiptsAreHonest == Spec => []ReceiptHonest
<1> DEFINE Inv == ReceiptHonest /\ ReceiptInv
<1>1. Init => Inv
  BY NoneAssumption DEF Init, ReceiptHonest, ReceiptInv
<1>2. TypeOK /\ Inv /\ [Next]_vars => Inv'
  <2> SUFFICES ASSUME TypeOK, Inv, [Next]_vars PROVE Inv'
    OBVIOUS
  <2> USE DEF Revocable, denyVars
  <2>1. ASSUME NEW g \in Grants, NEW c \in Calls, NEW a \in Authorities, Reserve(g, c, a)
        PROVE  Inv'
    <3>1. /\ UNCHANGED <<receipt, outcome>> /\ gState[g] = "none"
          /\ \A h \in Grants : h # g => gState'[h] = gState[h] /\ bind'[h] = bind[h]
      BY <2>1 DEF Reserve, opVars, TypeOK
    <3>2. outcome[g] # "revoked" /\ \A e \in Events : receipt[e] # g
      BY <3>1 DEF ReceiptHonest, ReceiptInv
    <3>3. QED
      BY <3>1, <3>2 DEF ReceiptHonest, ReceiptInv, Matches
  <2>2. ASSUME NEW g \in Grants, NEW a \in Authorities, Activate(g, a)
        PROVE  Inv'
    BY <2>2, ReceiptFrame DEF Activate, opVars, TypeOK
  <2>3. ASSUME NEW S \in SUBSET Grants, NEW out \in {"unchanged", "unavailable"}, Withdraws(S, out)
        PROVE  Inv'
    BY <2>3, StageEffect, ReceiptFrame DEF Withdraws
  <2>4. ASSUME NEW k \in claims, RecordCleanupAcknowledgement(k)
        PROVE  Inv'
    BY <2>4, ReceiptFrame DEF RecordCleanupAcknowledgement, TypeOK
  <2>5. ASSUME NEW g \in Grants, ExpirePrepared(g)
        PROVE  Inv'
    BY <2>5, ReceiptFrame DEF ExpirePrepared, TypeOK
  <2>6. ASSUME UNCHANGED <<gState, bind, outcome, receipt>>
        PROVE  Inv'
    BY <2>6, ReceiptFrame
  <2>7. CASE \E l \in Leases, g \in Grants, a \in Authorities : RegisterLease(l, g, a)
    BY <2>6, <2>7 DEF RegisterLease, grantVars, opVars
  <2>8. CASE \E l \in Leases : CloseLease(l)
    BY <2>6, <2>8 DEF CloseLease, grantVars, opVars
  <2>9. CASE \E j \in Jobs : JobMoves(j)
    BY <2>6, <2>9 DEF JobMoves, grantVars, opVars
  <2>10. CASE UNCHANGED lifeVars
    BY <2>6, <2>10 DEF lifeVars, grantVars, opVars
  <2>11. QED
    BY <2>1, <2>2, <2>3, <2>4, <2>5, <2>7, <2>8, <2>9, <2>10, ApplyHonest, LifeSteps
<1>3. QED
  BY <1>1, <1>2, MediaTypes, PTL DEF Spec

-----------------------------------------------------------------------------
(* There are always finitely many grants, whatever set they are taken from.*)
Existing == {g \in Grants : gState[g] # "none"}

LEMMA ExistingStep ==
    ASSUME TypeOK, [Next]_vars
    PROVE  \/ Existing' \subseteq Existing
           \/ \E g \in Grants, c \in Calls, a \in Authorities : Reserve(g, c, a)
<1> USE DEF Existing
<1>1. ASSUME NEW S \in SUBSET Grants, NEW out, Stage(S, out), \A g \in S : gState[g] # "none"
      PROVE  Existing' \subseteq Existing
  BY <1>1, StageEffect
<1>2. CASE \E S \in SUBSET Grants, out \in {"unchanged", "unavailable"} : Withdraws(S, out)
  BY <1>1, <1>2 DEF Withdraws, Revocable
<1>3. CASE \E e \in Events : ApplySourceEvent(e)
  <2>1. ASSUME NEW e \in Events, NEW g \in Affected(e), Stage({g}, "revoked")
        PROVE  Existing' \subseteq Existing
    <3>1. {g} \in SUBSET Grants /\ gState[g] # "none"
      BY DEF Affected, HeldBy, Held
    <3>2. QED
      BY <1>1, <2>1, <3>1
  <2>2. QED
    BY <1>3, <2>1 DEF ApplySourceEvent
<1>4. CASE \E g \in Grants, a \in Authorities : Activate(g, a)
  BY <1>4 DEF Activate, TypeOK
<1>5. CASE \E k \in claims : RecordCleanupAcknowledgement(k)
  BY <1>5 DEF RecordCleanupAcknowledgement, TypeOK
<1>6. CASE \E g \in Grants : ExpirePrepared(g)
  BY <1>6 DEF ExpirePrepared, TypeOK
<1>7. CASE \/ \E l \in Leases, g \in Grants, a \in Authorities : RegisterLease(l, g, a)
           \/ \E l \in Leases : CloseLease(l)
           \/ \E j \in Jobs : JobMoves(j)
           \/ UNCHANGED lifeVars
  BY <1>7 DEF RegisterLease, CloseLease, JobMoves, lifeVars, grantVars
<1>8. QED
  BY <1>2, <1>3, <1>4, <1>5, <1>6, <1>7, LifeSteps

LEMMA RoomGenSteps ==
    ASSUME TypeOK, [Next]_vars
    PROVE  \/ roomGen' = roomGen
           \/ \E g \in Grants, c \in Calls, a \in Authorities : Reserve(g, c, a)
<1>1. CASE RepositoryNext
  BY <1>1 DEF RepositoryNext, CreateCallWithParticipant, JoinParticipant, EndCallWithParticipants,
              LeaveParticipantAndMaybeEndCall, mediaVars, roomVars
<1>2. QED
  BY <1>1, CallSteps DEF Activate, RecordCleanupAcknowledgement, ExpirePrepared, RequestEnd,
                         FinalizeEnd, roomVars

(* The limit of a room holds because Reserve counts the grants of the very *)
(* room it is about to use, an old one or a new one.                       *)
THEOREM RoomsStaySmall == Spec => []RoomCapacity
<1> DEFINE Inv == IsFiniteSet(Existing) /\ RoomCapacity
<1>1. Init => Inv
  <2> SUFFICES ASSUME Init PROVE Inv
    OBVIOUS
  <2>1. Existing = {}
    BY DEF Init, Existing
  <2>2. \A c \in Calls : HeldInRoom(c, roomGen[c]) = {}
    BY DEF Init, HeldInRoom, HeldInCall, Held
  <2>3. QED
    BY <2>1, <2>2, FS_EmptySet, BoundAssumption DEF RoomCapacity
<1>2. TypeOK /\ Inv /\ [Next]_vars => Inv'
  <2> SUFFICES ASSUME TypeOK, Inv, [Next]_vars PROVE Inv'
    OBVIOUS
  <2>1. \A c, n : HeldInRoom(c, n) \subseteq Existing
    BY DEF HeldInRoom, HeldInCall, Held, Existing
  <2>2. CASE ~\E g \in Grants, c \in Calls, a \in Authorities : Reserve(g, c, a)
    <3>1. IsFiniteSet(Existing')
      BY <2>2, ExistingStep, FS_Subset
    <3>2. ASSUME NEW c \in Calls
          PROVE  Cardinality(HeldInRoom(c, roomGen[c])') <= RoomLimit
      <4>1. HeldInRoom(c, roomGen[c])' \subseteq HeldInRoom(c, roomGen[c])
        BY <2>2, HeldSteps, RoomGenSteps DEF HeldInRoom, HeldInCall
      <4>2. IsFiniteSet(HeldInRoom(c, roomGen[c]))
        BY <2>1, FS_Subset
      <4>3. /\ Cardinality(HeldInRoom(c, roomGen[c])') <= Cardinality(HeldInRoom(c, roomGen[c]))
            /\ Cardinality(HeldInRoom(c, roomGen[c])') \in Nat
            /\ Cardinality(HeldInRoom(c, roomGen[c])) \in Nat
        BY <4>1, <4>2, FS_Subset, FS_CardinalityType
      <4>4. QED
        BY <4>3, BoundAssumption DEF RoomCapacity
    <3>3. QED
      BY <3>1, <3>2 DEF RoomCapacity
  <2>3. ASSUME NEW g \in Grants, NEW c \in Calls, NEW a \in Authorities, Reserve(g, c, a)
        PROVE  Inv'
    <3>1. /\ gState' = [gState EXCEPT ![g] = "prepared"] /\ gState[g] = "none"
          /\ \A h \in Grants : h # g => bind'[h] = bind[h]
          /\ bind'[g].call = c /\ bind'[g].room = RoomFor(c)
          /\ roomGen' = [roomGen EXCEPT ![c] = RoomFor(c)]
      BY <2>3 DEF Reserve, TypeOK
    <3>2. IsFiniteSet(Existing')
      <4>1. Existing' = Existing \cup {g}
        BY <3>1 DEF Existing, TypeOK
      <4>2. QED
        BY <4>1, FS_AddElement
    <3>3. ASSUME NEW d \in Calls, d # c
          PROVE  HeldInRoom(d, roomGen[d])' = HeldInRoom(d, roomGen[d])
      BY <3>1, <3>3 DEF HeldInRoom, HeldInCall, Held, TypeOK
    <3>4. Cardinality(HeldInRoom(c, roomGen[c])') <= RoomLimit
      <4> DEFINE old == HeldInRoom(c, RoomFor(c))
      <4>1. HeldInRoom(c, roomGen[c])' = old \cup {g} /\ g \notin old
        BY <3>1 DEF HeldInRoom, HeldInCall, Held, TypeOK
      <4>2. IsFiniteSet(old)
        BY <2>1, FS_Subset
      <4>3. Cardinality(old \cup {g}) = Cardinality(old) + 1 /\ Cardinality(old) \in Nat
        BY <4>1, <4>2, FS_AddElement, FS_CardinalityType
      <4>4. Cardinality(old) < RoomLimit
        BY <2>3 DEF Reserve, HasCapacity
      <4>5. QED
        BY <4>1, <4>3, <4>4, BoundAssumption
    <3>5. QED
      BY <3>2, <3>3, <3>4 DEF RoomCapacity
  <2>4. QED
    BY <2>2, <2>3
<1>3. QED
  BY <1>1, <1>2, MediaTypes, PTL DEF Spec

-----------------------------------------------------------------------------
(* The teardown of one grant: what its state says of its operation, its    *)
(* cleanup actions and the lease they are aimed at.                        *)
TornDown(g) ==
    /\ opState[g] = "complete"
    /\ \A x \in Actions : jState[<<g, x>>] \in {"none", "acked"}
    /\ \/ jState[<<g, "sfu">>] = "acked"
       \/ outcome[g] = "unchanged" /\ \A l \in Leases : lGrant[l] # g

GrantOK(g) ==
    /\ gState[g] \in {"none", "prepared"} => \A l \in Leases : lGrant[l] # g
    /\ gState[g] \in {"none", "prepared", "active"} =>
          opState[g] = "none" /\ \A x \in Actions : jState[<<g, x>>] = "none"
    /\ gState[g] = "revoking" => opState[g] = "pending" /\ jState[<<g, "sfu">>] # "none"
    /\ gState[g] = "revoked" => TornDown(g)
    /\ jState[<<g, "proxy">>] # "none" => target[g] \in Leases /\ lGrant[target[g]] = g

LeaseOK(l) ==
    /\ lState[l] = "none" <=> lGrant[l] = NoGrant
    /\ lState[l] = "open" => gState[lGrant[l]] = "active"
    /\ lState[l] = "closing" => /\ gState[lGrant[l]] = "revoking"
                                /\ target[lGrant[l]] = l
                                /\ jState[<<lGrant[l], "proxy">>] \in {"pending", "claimed"}
    /\ lState[l] \in {"open", "closing"} =>
          \A m \in Leases : lState[m] \in {"open", "closing"} /\ lGrant[m] = lGrant[l] => m = l

TeardownInv == (\A g \in Grants : GrantOK(g)) /\ (\A l \in Leases : LeaseOK(l))

(* What the two properties say follows from it.                            *)
LEMMA TeardownShows ==
    ASSUME TypeOK, TeardownInv
    PROVE  NoLeaseOutlivesGrant /\ CompleteMeansTornDown
<1>1. NoLeaseOutlivesGrant
  BY DEF TeardownInv, LeaseOK, NoLeaseOutlivesGrant
<1>2. ASSUME NEW g \in Grants, opState[g] = "complete"
      PROVE  gState[g] = "revoked" /\ TornDown(g)
  <2>1. GrantOK(g)
    BY DEF TeardownInv
  <2>2. gState[g] \in {"none", "prepared", "active", "revoking", "revoked"}
    BY DEF TypeOK
  <2>3. QED
    BY <1>2, <2>1, <2>2 DEF GrantOK
<1>3. QED
  BY <1>1, <1>2 DEF CompleteMeansTornDown, TornDown, Actions

LEMMA TeardownStarts == Init => TeardownInv
<1> SUFFICES ASSUME Init PROVE TeardownInv
  OBVIOUS
<1>1. ASSUME NEW g \in Grants PROVE GrantOK(g)
  <2>1. /\ gState[g] = "none" /\ opState[g] = "none"
        /\ \A l \in Leases : lGrant[l] # g
    BY NoneAssumption DEF Init
  <2>2. \A x \in Actions : <<g, x>> \in Jobs /\ jState[<<g, x>>] = "none"
    BY DEF Init, Jobs
  <2>3. "proxy" \in Actions
    BY DEF Actions
  <2>4. QED
    BY <2>1, <2>2, <2>3 DEF GrantOK
<1>2. ASSUME NEW l \in Leases PROVE LeaseOK(l)
  <2>1. \A m \in Leases : lState[m] = "none" /\ lGrant[m] = NoGrant
    BY DEF Init
  <2>2. QED
    BY <2>1 DEF LeaseOK
<1>3. QED
  BY <1>1, <1>2 DEF TeardownInv

(* A step that touches neither leases nor actions: grants move on before   *)
(* their revoke, and other columns change.                                 *)
LEMMA TeardownFrame ==
    ASSUME TypeOK, TeardownInv, UNCHANGED <<leaseVars, opState, target, jState>>,
           \A g \in Grants : /\ \/ gState'[g] = gState[g]
                                \/ gState[g] = "none" /\ gState'[g] = "prepared"
                                \/ gState[g] = "prepared" /\ gState'[g] = "active"
                             /\ outcome'[g] = outcome[g] \/ gState[g] = "revoking"
    PROVE  TeardownInv'
<1> USE DEF leaseVars
<1>1. ASSUME NEW g \in Grants PROVE GrantOK(g)'
  <2>1. GrantOK(g)
    BY DEF TeardownInv
  <2>2. QED
    BY <2>1 DEF GrantOK, TornDown
<1>2. ASSUME NEW l \in Leases PROVE LeaseOK(l)'
  <2>1. LeaseOK(l) /\ lGrant[l] \in Grants \cup {NoGrant}
    BY DEF TeardownInv, TypeOK
  <2>2. lState[l] # "none" => lGrant[l] \in Grants
    BY <2>1 DEF LeaseOK
  <2>3. QED
    BY <2>1, <2>2 DEF LeaseOK
<1>3. QED
  BY <1>1, <1>2 DEF TeardownInv

(* A new lease belongs to an active grant that has no other.               *)
LEMMA RegisterTeardown ==
    ASSUME TypeOK, TeardownInv, NEW n \in Leases, NEW r \in Grants, NEW a \in Authorities,
           RegisterLease(n, r, a)
    PROVE  TeardownInv'
<1>1. /\ gState[r] = "active" /\ HeldLease(r) = {} /\ lState[n] = "none"
      /\ lState' = [lState EXCEPT ![n] = "open"]
      /\ lGrant' = [lGrant EXCEPT ![n] = r]
      /\ UNCHANGED <<gState, opState, outcome, target, jState>>
  BY DEF RegisterLease, grantVars, opVars, jobVars
<1>2. lGrant[n] = NoGrant
  BY <1>1 DEF TeardownInv, LeaseOK
<1>3. /\ lState'[n] = "open" /\ lGrant'[n] = r
      /\ \A l \in Leases : l # n => lState'[l] = lState[l] /\ lGrant'[l] = lGrant[l]
  BY <1>1 DEF TypeOK
<1>4. ASSUME NEW g \in Grants PROVE GrantOK(g)'
  <2>1. GrantOK(g)
    BY DEF TeardownInv
  <2>2. target[g] \in Leases /\ lGrant[target[g]] = g => lGrant'[target[g]] = g
    BY <1>2, <1>3, NoneAssumption
  <2>3. gState[g] # "active" => \A l \in Leases : lGrant[l] # g => lGrant'[l] # g
    BY <1>1, <1>3
  <2>4. QED
    BY <1>1, <2>1, <2>2, <2>3 DEF GrantOK, TornDown
<1>5. ASSUME NEW l \in Leases PROVE LeaseOK(l)'
  <2>1. LeaseOK(l)
    BY DEF TeardownInv
  <2>2. \A m \in Leases : lState[m] \in {"open", "closing"} => lGrant[m] # r
    BY <1>1 DEF HeldLease
  <2>3. QED
    BY <1>1, <1>3, <2>1, <2>2, NoneAssumption DEF LeaseOK
<1>6. QED
  BY <1>4, <1>5 DEF TeardownInv

(* A connection that is gone leaves the actions as they are.               *)
LEMMA CloseTeardown ==
    ASSUME TypeOK, TeardownInv, NEW n \in Leases, CloseLease(n)
    PROVE  TeardownInv'
<1>1. /\ lState[n] \in {"open", "closing"}
      /\ lState' = [lState EXCEPT ![n] = "closed"]
      /\ UNCHANGED <<gState, lGrant, opState, outcome, target, jState>>
  BY DEF CloseLease, grantVars, opVars, jobVars
<1>2. lState'[n] = "closed" /\ \A l \in Leases : l # n => lState'[l] = lState[l]
  BY <1>1 DEF TypeOK
<1>3. ASSUME NEW g \in Grants PROVE GrantOK(g)'
  <2>1. GrantOK(g)
    BY DEF TeardownInv
  <2>2. QED
    BY <1>1, <2>1 DEF GrantOK, TornDown
<1>4. ASSUME NEW l \in Leases PROVE LeaseOK(l)'
  <2>1. LeaseOK(l)
    BY DEF TeardownInv
  <2>2. \A m \in Leases : lState'[m] = lState[m] \/ (lState'[m] = "closed" /\ lState[m] # "none")
    BY <1>1, <1>2
  <2>3. QED
    BY <1>1, <2>1, <2>2 DEF LeaseOK
<1>5. QED
  BY <1>3, <1>4 DEF TeardownInv

(* Staging aims the proxy action of a grant at the lease it has and turns  *)
(* that lease to closing.                                                  *)
LEMMA StageTeardown ==
    ASSUME TypeOK, TeardownInv, NEW S \in SUBSET Grants, NEW out, Stage(S, out),
           \A g \in S : Revocable(g), lGrant' = lGrant
    PROVE  TeardownInv'
<1>1. \A l \in Leases : lState'[l] = IF lGrant[l] \in S /\ lState[l] = "open" THEN "closing"
                                                                                ELSE lState[l]
  BY DEF Stage, Update, TypeOK
<1>2. ASSUME NEW g \in Grants PROVE GrantOK(g)'
  <2>1. GrantOK(g)
    BY DEF TeardownInv
  <2>2. CASE g \in S
    <3>1. gState'[g] = "revoking" /\ opState'[g] = "pending" /\ jState'[<<g, "sfu">>] = "pending"
      BY <2>2, StageEffect DEF Actions
    <3>2. jState'[<<g, "proxy">>] # "none" => target'[g] \in Leases /\ lGrant[target'[g]] = g
      <4>1. jState[<<g, "proxy">>] = "none"
        BY <2>1, <2>2 DEF GrantOK, Revocable, Actions
      <4>2. jState'[<<g, "proxy">>] = IF HeldLease(g) # {} THEN "pending" ELSE jState[<<g, "proxy">>]
        BY <2>2, StageEffect DEF Actions
      <4>3. HeldLease(g) # {} => target'[g] \in HeldLease(g)
        BY <2>2, StageEffect
      <4>4. QED
        BY <4>1, <4>2, <4>3 DEF HeldLease
    <3>3. QED
      BY <3>1, <3>2 DEF GrantOK
  <2>3. CASE g \notin S
    <3>1. /\ gState'[g] = gState[g] /\ opState'[g] = opState[g] /\ outcome'[g] = outcome[g]
          /\ target'[g] = target[g] /\ \A x \in Actions : jState'[<<g, x>>] = jState[<<g, x>>]
      BY <2>3, StageEffect
    <3>2. QED
      BY <2>1, <3>1 DEF GrantOK, TornDown, Actions
  <2>4. QED
    BY <2>2, <2>3
<1>3. ASSUME NEW l \in Leases PROVE LeaseOK(l)'
  <2> DEFINE g == lGrant[l]
  <2>1. LeaseOK(l) /\ g \in Grants \cup {NoGrant}
    BY DEF TeardownInv, TypeOK
  <2>2. \A m \in Leases : /\ lState'[m] = "none" <=> lState[m] = "none"
                          /\ lState'[m] \in {"open", "closing"} <=> lState[m] \in {"open", "closing"}
    BY <1>1
  <2>3. lState'[l] = "open" => g \in Grants /\ gState'[g] = "active"
    <3>1. ASSUME lState'[l] = "open" PROVE lState[l] = "open" /\ g \notin S /\ g \in Grants
      BY <1>1, <2>1, <3>1 DEF LeaseOK
    <3>2. QED
      BY <2>1, <3>1, StageEffect DEF LeaseOK
  <2>4. ASSUME lState'[l] = "closing"
        PROVE  /\ gState'[g] = "revoking" /\ target'[g] = l
               /\ jState'[<<g, "proxy">>] \in {"pending", "claimed"}
    <3>1. g \in Grants
      BY <1>1, <2>1, <2>4 DEF LeaseOK
    <3>2. CASE g \in S
      <4>1. l \in HeldLease(g) /\ \A m \in HeldLease(g) : m = l
        BY <1>1, <2>1, <2>4 DEF HeldLease, LeaseOK
      <4>2. target'[g] = l /\ gState'[g] = "revoking"
        BY <3>1, <3>2, <4>1, StageEffect
      <4>3. jState'[<<g, "proxy">>] = "pending"
        BY <3>1, <3>2, <4>1, StageEffect DEF Actions
      <4>4. QED
        BY <4>2, <4>3
    <3>3. CASE g \notin S
      <4>1. lState[l] = "closing"
        BY <1>1, <2>4, <3>3
      <4>2. \A h \in Grants : h \notin S =>
               /\ gState'[h] = gState[h] /\ target'[h] = target[h]
               /\ \A x \in Actions : jState'[<<h, x>>] = jState[<<h, x>>]
        BY StageEffect
      <4>3. /\ gState[g] = "revoking" /\ target[g] = l
            /\ jState[<<g, "proxy">>] \in {"pending", "claimed"}
        BY <2>1, <4>1 DEF LeaseOK
      <4>4. QED
        BY <3>1, <3>3, <4>2, <4>3 DEF Actions
    <3>4. QED
      BY <3>2, <3>3
  <2>5. QED
    BY <2>1, <2>2, <2>3, <2>4 DEF LeaseOK
<1>4. QED
  BY <1>2, <1>3 DEF TeardownInv

(* Claiming a cleanup action, or giving it back, leaves it outstanding.    *)
LEMMA JobMovesTeardown ==
    ASSUME TypeOK, TeardownInv, NEW j \in Jobs, JobMoves(j)
    PROVE  TeardownInv'
<1>1. /\ UNCHANGED <<gState, lState, lGrant, opState, outcome, target>>
      /\ gState[j[1]] = "revoking" /\ jState[j] \in {"pending", "claimed"}
      /\ jState'[j] \in {"pending", "claimed"} /\ \A i \in Jobs : i # j => jState'[i] = jState[i]
  BY DEF JobMoves, grantVars, leaseVars, opVars, TypeOK
<1>2. ASSUME NEW g \in Grants PROVE GrantOK(g)'
  <2>1. GrantOK(g) /\ \A x \in Actions : <<g, x>> \in Jobs
    BY DEF TeardownInv, Jobs
  <2>2. CASE gState[g] = "revoking"
    <3>1. \A x \in Actions : jState'[<<g, x>>] # "none" <=> jState[<<g, x>>] # "none"
      BY <1>1, <2>1
    <3>2. QED
      BY <1>1, <2>1, <2>2, <3>1 DEF GrantOK, Actions
  <2>3. CASE gState[g] # "revoking"
    <3>1. \A x \in Actions : jState'[<<g, x>>] = jState[<<g, x>>]
      BY <1>1, <2>1, <2>3
    <3>2. QED
      BY <1>1, <2>1, <2>3, <3>1 DEF GrantOK, TornDown, Actions
  <2>4. QED
    BY <2>2, <2>3
<1>3. ASSUME NEW l \in Leases PROVE LeaseOK(l)'
  <2>1. LeaseOK(l) /\ lGrant[l] \in Grants \cup {NoGrant}
    BY DEF TeardownInv, TypeOK
  <2>2. ASSUME lState[l] = "closing"
        PROVE  jState'[<<lGrant[l], "proxy">>] \in {"pending", "claimed"}
    <3>1. <<lGrant[l], "proxy">> \in Jobs
      BY <2>1, <2>2 DEF LeaseOK, Jobs, Actions
    <3>2. QED
      BY <1>1, <2>1, <2>2, <3>1 DEF LeaseOK
  <2>3. QED
    BY <1>1, <2>1, <2>2 DEF LeaseOK
<1>4. QED
  BY <1>2, <1>3 DEF TeardownInv

(* An acknowledgement of the proxy closes the lease the action was aimed   *)
(* at, and the last one finds the other side confirmed.                    *)
LEMMA AckTeardown ==
    ASSUME TypeOK, TeardownInv, NEW k \in claims, RecordCleanupAcknowledgement(k)
    PROVE  TeardownInv'
<1> DEFINE r == k.grant
           j == <<r, k.action>>
<1>1. r \in Grants /\ k.action \in Actions /\ j \in Jobs /\ GrantOK(r)
  BY DEF TypeOK, Claim, Jobs, TeardownInv
<1>2. /\ gState[r] = "revoking" /\ jState[j] = "claimed"
      /\ jState' = [jState EXCEPT ![j] = "acked"]
      /\ lState' = IF k.action = "proxy" THEN [lState EXCEPT ![target[r]] = "closed"] ELSE lState
      /\ UNCHANGED <<lGrant, outcome, target>>
      /\ IF LastAction(r, k.action) THEN /\ gState' = [gState EXCEPT ![r] = "revoked"]
                                         /\ opState' = [opState EXCEPT ![r] = "complete"]
                                    ELSE UNCHANGED <<gState, opState>>
  BY DEF RecordCleanupAcknowledgement
<1>3. jState'[j] = "acked" /\ \A i \in Jobs : i # j => jState'[i] = jState[i]
  BY <1>1, <1>2 DEF TypeOK
<1>4. \A g \in Grants : g # r => gState'[g] = gState[g] /\ opState'[g] = opState[g]
  BY <1>2 DEF TypeOK
<1>5. /\ k.action = "proxy" => lGrant[target[r]] = r /\ target[r] \in Leases
      /\ k.action = "proxy" => lState'[target[r]] = "closed"
      /\ \A l \in Leases : lState'[l] # lState[l] => k.action = "proxy" /\ l = target[r]
  BY <1>1, <1>2 DEF GrantOK, TypeOK
<1>6. ASSUME NEW g \in Grants PROVE GrantOK(g)'
  <2>1. GrantOK(g) /\ \A x \in Actions : <<g, x>> \in Jobs
    BY DEF TeardownInv, Jobs
  <2>2. CASE g # r
    <3>1. \A x \in Actions : jState'[<<g, x>>] = jState[<<g, x>>]
      BY <1>3, <2>1, <2>2
    <3>2. QED
      BY <1>2, <1>4, <2>1, <2>2, <3>1 DEF GrantOK, TornDown, Actions
  <2>3. CASE g = r
    <3>1. /\ opState[r] = "pending" /\ jState[<<r, "sfu">>] # "none"
          /\ jState[<<r, "proxy">>] # "none" => target[r] \in Leases /\ lGrant[target[r]] = r
      BY <1>1, <1>2 DEF GrantOK
    <3>2. \A x \in Actions : jState'[<<r, x>>] # "none" <=> jState[<<r, x>>] # "none"
      BY <1>2, <1>3, <2>1, <2>3
    <3>3. CASE LastAction(r, k.action)
      <4>1. gState'[r] = "revoked" /\ opState'[r] = "complete"
        BY <1>1, <1>2, <3>3 DEF TypeOK
      <4>2. \A x \in Actions : jState'[<<r, x>>] \in {"none", "acked"}
        BY <1>3, <2>1, <2>3, <3>3 DEF LastAction
      <4>3. jState'[<<r, "sfu">>] = "acked"
        BY <3>1, <3>2, <4>2 DEF Actions
      <4>4. jState'[<<r, "proxy">>] # "none" => target'[r] \in Leases /\ lGrant'[target'[r]] = r
        BY <1>2, <3>1, <3>2 DEF Actions
      <4>5. QED
        BY <2>3, <4>1, <4>2, <4>3, <4>4 DEF GrantOK, TornDown
    <3>4. CASE ~LastAction(r, k.action)
      <4>1. gState'[r] = "revoking" /\ opState'[r] = "pending"
        BY <1>2, <3>1, <3>4
      <4>2. jState'[<<r, "sfu">>] # "none"
        BY <3>1, <3>2 DEF Actions
      <4>3. jState'[<<r, "proxy">>] # "none" => target'[r] \in Leases /\ lGrant'[target'[r]] = r
        BY <1>2, <3>1, <3>2 DEF Actions
      <4>4. QED
        BY <2>3, <4>1, <4>2, <4>3 DEF GrantOK
    <3>5. QED
      BY <3>3, <3>4
  <2>4. QED
    BY <2>2, <2>3
<1>7. ASSUME NEW l \in Leases PROVE LeaseOK(l)'
  <2> DEFINE g == lGrant[l]
  <2>1. LeaseOK(l) /\ g \in Grants \cup {NoGrant}
    BY DEF TeardownInv, TypeOK
  <2>2. /\ lState'[l] = "none" <=> lState[l] = "none"
        /\ \A m \in Leases : lState'[m] \in {"open", "closing"} => lState'[m] = lState[m]
    <3>1. k.action = "proxy" => lState[target[r]] # "none"
      BY <1>1, <1>5, NoneAssumption DEF TeardownInv, LeaseOK
    <3>2. QED
      BY <1>5, <3>1
  <2>3. lState'[l] = "open" => gState'[g] = "active"
    BY <1>1, <1>2, <1>4, <2>1, <2>2, NoneAssumption DEF LeaseOK
  <2>4. ASSUME lState'[l] = "closing"
        PROVE  /\ gState'[g] = "revoking" /\ target'[g] = l
               /\ jState'[<<g, "proxy">>] \in {"pending", "claimed"}
    <3>1. /\ lState[l] = "closing" /\ gState[g] = "revoking" /\ target[g] = l
          /\ jState[<<g, "proxy">>] \in {"pending", "claimed"}
      BY <2>1, <2>2, <2>4 DEF LeaseOK
    <3>2. g \in Grants /\ <<g, "proxy">> \in Jobs
      BY <2>1, <3>1 DEF LeaseOK, Jobs, Actions
    <3>3. <<g, "proxy">> # j
      BY <1>5, <2>4, <3>1
    <3>4. g = r => ~LastAction(r, k.action)
      BY <3>1, <3>3 DEF LastAction, Actions
    <3>5. gState'[g] = "revoking"
      BY <1>2, <1>4, <3>1, <3>2, <3>4
    <3>6. QED
      BY <1>2, <1>3, <3>1, <3>2, <3>3, <3>5
  <2>5. lGrant' = lGrant
    BY <1>2
  <2>6. QED
    BY <2>1, <2>2, <2>3, <2>4, <2>5 DEF LeaseOK
<1>8. QED
  BY <1>6, <1>7 DEF TeardownInv

(* A grant that expires before it was activated never had a lease.         *)
LEMMA ExpireTeardown ==
    ASSUME TypeOK, TeardownInv, NEW r \in Grants, ExpirePrepared(r)
    PROVE  TeardownInv'
<1>1. /\ gState[r] = "prepared" /\ \A l \in Leases : lGrant[l] # r
      /\ gState'[r] = "revoked" /\ opState'[r] = "complete" /\ outcome'[r] = "unchanged"
      /\ UNCHANGED <<lState, lGrant, target, jState>>
      /\ \A g \in Grants : g # r => /\ gState'[g] = gState[g] /\ opState'[g] = opState[g]
                                     /\ outcome'[g] = outcome[g]
  BY DEF ExpirePrepared, leaseVars, jobVars, TypeOK
<1>2. ASSUME NEW g \in Grants PROVE GrantOK(g)'
  <2>1. GrantOK(g)
    BY DEF TeardownInv
  <2>2. CASE g = r
    BY <1>1, <2>1, <2>2 DEF GrantOK, TornDown, Actions
  <2>3. CASE g # r
    BY <1>1, <2>1, <2>3 DEF GrantOK, TornDown, Actions
  <2>4. QED
    BY <2>2, <2>3
<1>3. ASSUME NEW l \in Leases PROVE LeaseOK(l)'
  <2>1. LeaseOK(l) /\ lGrant[l] \in Grants \cup {NoGrant}
    BY DEF TeardownInv, TypeOK
  <2>2. QED
    BY <1>1, <2>1, NoneAssumption DEF LeaseOK
<1>4. QED
  BY <1>2, <1>3 DEF TeardownInv

LEMMA TeardownStep == TypeOK /\ TeardownInv /\ [Next]_vars => TeardownInv'
<1> SUFFICES ASSUME TypeOK, TeardownInv, [Next]_vars PROVE TeardownInv'
  OBVIOUS
<1>1. ASSUME NEW g \in Grants, NEW c \in Calls, NEW a \in Authorities, Reserve(g, c, a)
      PROVE  TeardownInv'
  BY <1>1, TeardownFrame DEF Reserve, opVars, jobVars, TypeOK
<1>2. ASSUME NEW g \in Grants, NEW a \in Authorities, Activate(g, a)
      PROVE  TeardownInv'
  BY <1>2, TeardownFrame DEF Activate, opVars, jobVars, TypeOK
<1>3. ASSUME NEW S \in SUBSET Grants, NEW out, Withdraws(S, out)
      PROVE  TeardownInv'
  BY <1>3, StageTeardown DEF Withdraws
<1>4. ASSUME NEW e \in Events, ApplySourceEvent(e)
      PROVE  TeardownInv'
  <2>1. lGrant' = lGrant
    BY <1>4 DEF ApplySourceEvent
  <2>2. CASE Affected(e) = {} /\ UNCHANGED <<gState, opVars, jState, lState>>
    BY <2>1, <2>2, TeardownFrame DEF opVars, leaseVars
  <2>3. ASSUME NEW g \in Affected(e), Revocable(g), Stage({g}, "revoked")
        PROVE  TeardownInv'
    <3>1. {g} \in SUBSET Grants
      BY DEF Affected, HeldBy
    <3>2. QED
      BY <2>1, <2>3, <3>1, StageTeardown
  <2>4. ASSUME NEW g \in Affected(e), ~Revocable(g),
               outcome' = [outcome EXCEPT ![g] = "revoked"],
               UNCHANGED <<gState, opState, target, jState, lState>>
        PROVE  TeardownInv'
    <3>1. gState[g] = "revoking"
      BY <2>4 DEF Affected, HeldBy, Held, Revocable
    <3>2. QED
      BY <2>1, <2>4, <3>1, TeardownFrame DEF leaseVars, TypeOK
  <2>5. QED
    BY <1>4, <2>2, <2>3, <2>4 DEF ApplySourceEvent
<1>5. CASE UNCHANGED lifeVars
  BY <1>5, TeardownFrame DEF lifeVars, grantVars, opVars
<1>6. QED
  BY <1>1, <1>2, <1>3, <1>4, <1>5, RegisterTeardown, CloseTeardown, JobMovesTeardown, AckTeardown,
     ExpireTeardown, LifeSteps

LEMMA TeardownHolds == Spec => [](TypeOK /\ TeardownInv)
  BY MediaTypes, TeardownStarts, TeardownStep, PTL DEF Spec

(* A lease never outlives its grant: one that is open belongs to an active *)
(* grant, and one that is closing is the target of an outstanding action.  *)
THEOREM LeasesEndWithGrants == Spec => []NoLeaseOutlivesGrant
<1>1. TypeOK /\ TeardownInv => NoLeaseOutlivesGrant
  BY TeardownShows
<1>2. QED
  BY <1>1, TeardownHolds, PTL

(* An operation that is complete was acknowledged by every side, unless    *)
(* the grant expired before anything could connect with it.                *)
THEOREM CompletionIsTeardown == Spec => []CompleteMeansTornDown
<1>1. TypeOK /\ TeardownInv => CompleteMeansTornDown
  BY TeardownShows
<1>2. QED
  BY <1>1, TeardownHolds, PTL

-----------------------------------------------------------------------------
(* Only ClaimCleanup and ClaimRoom turn something to "claimed", and only   *)
(* they change who is the claimant.                                        *)
LEMMA CleanupClaimSteps ==
    ASSUME TypeOK, [Next]_vars
    PROVE  \/ \E g \in Grants, x \in Actions, w \in Workers : ClaimCleanup(g, x, w)
           \/ /\ UNCHANGED <<jOwner, jFence, claims>>
              /\ \A j \in Jobs : jState'[j] = "claimed" => jState[j] = "claimed"
<1> DEFINE Rest == /\ UNCHANGED <<jOwner, jFence, claims>>
                   /\ \A j \in Jobs : jState'[j] = "claimed" => jState[j] = "claimed"
<1> USE DEF jobVars
<1>1. CASE UNCHANGED vars
  BY <1>1 DEF vars
<1>2. CASE RepositoryNext
  BY <1>2 DEF RepositoryNext, CreateCallWithParticipant, JoinParticipant,
              LeaveParticipantAndMaybeEndCall, EndCallWithParticipants, mediaVars
<1>3. ASSUME NEW S, NEW out, Stage(S, out), UNCHANGED <<jOwner, jFence, claims>>
      PROVE  Rest
  BY <1>3 DEF Stage, Update, TypeOK
<1>4. ASSUME NEW k \in claims, RetryCleanup(k) \/ RecordCleanupAcknowledgement(k)
      PROVE  Rest
  BY <1>4 DEF RetryCleanup, RecordCleanupAcknowledgement, TypeOK
<1>5. ASSUME NEW g \in Grants, NEW out, BeginRevoke(g, out) PROVE Rest
  BY <1>3, <1>5 DEF BeginRevoke
<1>6. ASSUME NEW e \in Events, ApplySourceEvent(e) PROVE Rest
  BY <1>3, <1>6 DEF ApplySourceEvent
<1>7. CASE StoreNext
  BY <1>4, <1>5, <1>6, <1>7 DEF StoreNext, Reserve, Activate, RegisterLease, CloseLease,
                                ExpirePrepared
<1>8. ASSUME NEW i \in Intents, NEW c \in Calls, NEW a \in Authorities, RequestLeave(i, c, a)
      PROVE  Rest
  BY <1>3, <1>8 DEF RequestLeave
<1>9. ASSUME NEW i \in Intents, NEW c \in Calls, NEW u \in Users, RequestEnd(i, c, u)
      PROVE  Rest
  BY <1>3, <1>9 DEF RequestEnd
<1>10. CASE ControlNext
  BY <1>8, <1>9, <1>10 DEF ControlNext, ClaimRoom, RecordRoomAcknowledgement, RetryRoom,
                           FinalizeLeave, FinalizeEnd
<1>11. QED
  BY <1>1, <1>2, <1>7, <1>10 DEF Next

LEMMA RoomClaimSteps ==
    ASSUME TypeOK, [Next]_vars
    PROVE  \/ \E i \in Intents, w \in Workers : ClaimRoom(i, w)
           \/ /\ UNCHANGED <<rOwner, rFence, rClaims>>
              /\ \A i \in Intents : /\ rState'[i] = "claimed" => rState[i] = "claimed"
                                    /\ rState[i] # "none" => rState'[i] # "none"
<1> USE DEF roomJobVars, controlVars
<1>1. CASE UNCHANGED vars
  BY <1>1 DEF vars
<1>2. CASE RepositoryNext
  BY <1>2 DEF RepositoryNext, CreateCallWithParticipant, JoinParticipant,
              LeaveParticipantAndMaybeEndCall, EndCallWithParticipants, mediaVars
<1>3. CASE StoreNext
  <2>1. UNCHANGED roomJobVars
    BY <1>3 DEF StoreNext, Reserve, Activate, RegisterLease, CloseLease, BeginRevoke,
                ApplySourceEvent, ClaimCleanup, RetryCleanup, RecordCleanupAcknowledgement,
                ExpirePrepared
  <2>2. QED
    BY <2>1
<1>4. ASSUME NEW k \in rClaims, RecordRoomAcknowledgement(k) \/ RetryRoom(k)
      PROVE  /\ UNCHANGED <<rOwner, rFence, rClaims>>
             /\ \A i \in Intents : /\ rState'[i] = "claimed" => rState[i] = "claimed"
                                   /\ rState[i] # "none" => rState'[i] # "none"
  BY <1>4 DEF RecordRoomAcknowledgement, RetryRoom, TypeOK
<1>5. ASSUME NEW j \in Intents, NEW c \in Calls, NEW u \in Users, RequestEnd(j, c, u)
      PROVE  /\ UNCHANGED <<rOwner, rFence, rClaims>>
             /\ \A i \in Intents : /\ rState'[i] = "claimed" => rState[i] = "claimed"
                                   /\ rState[i] # "none" => rState'[i] # "none"
  BY <1>5 DEF RequestEnd, TypeOK
<1>6. CASE ControlNext
  BY <1>4, <1>5, <1>6 DEF ControlNext, RequestLeave, FinalizeLeave, FinalizeEnd
<1>7. QED
  BY <1>1, <1>2, <1>3, <1>6 DEF Next

(* Whatever is claimed has a claimant whose acknowledgement is accepted.   *)
ClaimsOK ==
    /\ \A g \in Grants, x \in Actions : jState[<<g, x>>] = "claimed" => Claimed(g, x)
    /\ \A i \in Intents : rState[i] = "claimed" => RoomClaimed(i)

LEMMA ClaimsStart == Init => ClaimsOK
  BY DEF Init, ClaimsOK, Jobs

LEMMA CleanupClaimsStep ==
    ASSUME TypeOK, ClaimsOK, [Next]_vars,
           NEW g \in Grants, NEW x \in Actions, jState'[<<g, x>>] = "claimed"
    PROVE  Claimed(g, x)'
<1> DEFINE j == <<g, x>>
<1>1. j \in Jobs
  BY DEF Jobs
<1>2. CASE /\ UNCHANGED <<jOwner, jFence, claims>>
           /\ \A i \in Jobs : jState'[i] = "claimed" => jState[i] = "claimed"
  <2>1. Claimed(g, x)
    BY <1>1, <1>2 DEF ClaimsOK
  <2>2. QED
    BY <1>2, <2>1 DEF Claimed, Current
<1>3. ASSUME NEW h \in Grants, NEW y \in Actions, NEW w \in Workers, ClaimCleanup(h, y, w)
      PROVE  Claimed(g, x)'
  <2> DEFINE i == <<h, y>>
  <2>0. PICK n \in Nat : n = jFence[i] + 1
    BY DEF Jobs, TypeOK
  <2> DEFINE new == [grant |-> h, action |-> y, worker |-> w, fence |-> n]
  <2>1. /\ jState' = [jState EXCEPT ![i] = "claimed"]
        /\ jOwner' = [jOwner EXCEPT ![i] = w]
        /\ jFence' = [jFence EXCEPT ![i] = @ + 1]
        /\ claims' = claims \cup {new} /\ i \in Jobs
    BY <1>3, <2>0 DEF ClaimCleanup, Jobs
  <2>2. CASE j = i
    <3>1. new \in claims' /\ new.grant = g /\ new.action = x
      BY <2>1, <2>2
    <3>2. jOwner'[i] = w /\ jFence'[i] = n
      BY <2>0, <2>1 DEF TypeOK
    <3>3. Current(new)'
      BY <2>2, <3>2 DEF Current
    <3>4. QED
      BY <3>1, <3>3 DEF Claimed
  <2>3. CASE j # i
    <3>1. jState[j] = "claimed" /\ jOwner'[j] = jOwner[j] /\ jFence'[j] = jFence[j]
      BY <1>1, <2>1, <2>3 DEF TypeOK
    <3>2. PICK k \in claims : k.grant = g /\ k.action = x /\ Current(k)
      BY <3>1 DEF ClaimsOK, Claimed
    <3>3. k \in claims' /\ Current(k)'
      BY <2>1, <3>1, <3>2 DEF Current
    <3>4. QED
      BY <3>2, <3>3 DEF Claimed
  <2>4. QED
    BY <2>2, <2>3
<1>4. QED
  BY <1>2, <1>3, CleanupClaimSteps

LEMMA RoomClaimsStep ==
    ASSUME TypeOK, ClaimsOK, [Next]_vars, NEW i \in Intents, rState'[i] = "claimed"
    PROVE  RoomClaimed(i)'
<1>1. CASE /\ UNCHANGED <<rOwner, rFence, rClaims>>
           /\ \A n \in Intents : rState'[n] = "claimed" => rState[n] = "claimed"
  BY <1>1 DEF ClaimsOK, RoomClaimed, RoomClaimCurrent
<1>2. ASSUME NEW n \in Intents, NEW w \in Workers, ClaimRoom(n, w)
      PROVE  RoomClaimed(i)'
  <2>0. PICK f \in Nat : f = rFence[n] + 1
    BY DEF TypeOK
  <2> DEFINE new == [intent |-> n, worker |-> w, fence |-> f]
  <2>1. /\ rState' = [rState EXCEPT ![n] = "claimed"]
        /\ rOwner' = [rOwner EXCEPT ![n] = w]
        /\ rFence' = [rFence EXCEPT ![n] = @ + 1]
        /\ rClaims' = rClaims \cup {new}
    BY <1>2, <2>0 DEF ClaimRoom
  <2>2. CASE i = n
    <3>1. rOwner'[n] = w /\ rFence'[n] = f
      BY <2>0, <2>1 DEF TypeOK
    <3>2. new \in rClaims' /\ RoomClaimCurrent(new)'
      BY <2>1, <3>1 DEF RoomClaimCurrent
    <3>3. QED
      BY <2>2, <3>2 DEF RoomClaimed
  <2>3. CASE i # n
    <3>1. rState[i] = "claimed" /\ rOwner'[i] = rOwner[i] /\ rFence'[i] = rFence[i]
      BY <2>1, <2>3 DEF TypeOK
    <3>2. QED
      BY <2>1, <3>1 DEF ClaimsOK, RoomClaimed, RoomClaimCurrent
  <2>4. QED
    BY <2>2, <2>3
<1>3. QED
  BY <1>1, <1>2, RoomClaimSteps

(* A grant that is being revoked has an action that is not acknowledged.   *)
Unfinished(g) == \E x \in Actions : jState[<<g, x>>] \in {"pending", "claimed"}

LEMMA UnfinishedStep ==
    ASSUME TypeOK, TeardownInv, [Next]_vars,
           \A g \in Grants : gState[g] = "revoking" => Unfinished(g)
    PROVE  \A g \in Grants : /\ gState'[g] = "revoking" => Unfinished(g)'
                             /\ gState[g] \in {"revoking", "revoked"} =>
                                   gState'[g] \in {"revoking", "revoked"}
<1> DEFINE Goes(g) == /\ gState'[g] = "revoking" => Unfinished(g)'
                      /\ gState[g] \in {"revoking", "revoked"} =>
                            gState'[g] \in {"revoking", "revoked"}
<1> SUFFICES ASSUME NEW g \in Grants PROVE Goes(g)
  OBVIOUS
<1> USE DEF Unfinished
<1>0. \A x \in Actions : <<g, x>> \in Jobs
  BY DEF Jobs
<1>1. ASSUME gState'[g] = gState[g] \/ (gState[g] \notin {"revoking", "revoked"} /\ gState'[g] # "revoking"),
             jState' = jState
      PROVE  Goes(g)
  BY <1>1
<1>2. ASSUME NEW S \in SUBSET Grants, NEW out, Stage(S, out), \A h \in S : Revocable(h)
      PROVE  Goes(g)
  BY <1>2, StageEffect DEF Revocable, Actions
<1>3. ASSUME NEW e \in Events, ApplySourceEvent(e) PROVE Goes(g)
  <2>1. ASSUME NEW h \in Affected(e), Revocable(h), Stage({h}, "revoked") PROVE Goes(g)
    <3>1. {h} \in SUBSET Grants
      BY DEF Affected, HeldBy
    <3>2. QED
      BY <1>2, <2>1, <3>1
  <2>2. QED
    BY <1>1, <1>3, <2>1 DEF ApplySourceEvent
<1>4. ASSUME NEW j \in Jobs, JobMoves(j) PROVE Goes(g)
  <2>1. /\ gState' = gState /\ jState[j] \in {"pending", "claimed"}
        /\ jState'[j] \in {"pending", "claimed"} /\ \A i \in Jobs : i # j => jState'[i] = jState[i]
    BY <1>4 DEF JobMoves, grantVars, TypeOK
  <2>2. QED
    BY <1>0, <2>1
<1>5. ASSUME NEW k \in claims, RecordCleanupAcknowledgement(k) PROVE Goes(g)
  <2> DEFINE r == k.grant
             j == <<r, k.action>>
  <2>1. r \in Grants /\ j \in Jobs
    BY DEF TypeOK, Claim, Jobs
  <2>2. /\ gState[r] = "revoking" /\ jState' = [jState EXCEPT ![j] = "acked"]
        /\ IF LastAction(r, k.action) THEN gState' = [gState EXCEPT ![r] = "revoked"]
                                      ELSE gState' = gState
    BY <1>5 DEF RecordCleanupAcknowledgement
  <2>3. CASE g # r
    BY <1>0, <2>1, <2>2, <2>3 DEF TypeOK
  <2>4. CASE g = r /\ LastAction(r, k.action)
    BY <2>1, <2>2, <2>4 DEF TypeOK
  <2>5. CASE g = r /\ ~LastAction(r, k.action)
    <3>1. PICK y \in Actions : y # k.action /\ jState[<<r, y>>] \notin {"none", "acked"}
      BY <2>5 DEF LastAction
    <3>2. jState[<<r, y>>] \in {"pending", "claimed"} /\ jState'[<<r, y>>] = jState[<<r, y>>]
      BY <1>0, <2>1, <2>2, <2>5, <3>1 DEF TypeOK
    <3>3. QED
      BY <2>2, <2>5, <3>2
  <2>6. QED
    BY <2>3, <2>4, <2>5
<1>6. ASSUME NEW h \in Grants, NEW c \in Calls, NEW a \in Authorities, Reserve(h, c, a)
      PROVE  Goes(g)
  BY <1>1, <1>6 DEF Reserve, jobVars, TypeOK
<1>7. ASSUME NEW h \in Grants, NEW a \in Authorities,
             Activate(h, a) \/ \E l \in Leases : RegisterLease(l, h, a)
      PROVE  Goes(g)
  BY <1>1, <1>7 DEF Activate, RegisterLease, grantVars, jobVars, TypeOK
<1>8. ASSUME NEW S \in SUBSET Grants, NEW out, Withdraws(S, out) PROVE Goes(g)
  BY <1>2, <1>8 DEF Withdraws
<1>9. CASE (\E l \in Leases : CloseLease(l)) \/ UNCHANGED lifeVars
  BY <1>1, <1>9 DEF CloseLease, lifeVars, grantVars, jobVars
<1>10. ASSUME NEW h \in Grants, ExpirePrepared(h) PROVE Goes(g)
  BY <1>10 DEF ExpirePrepared, jobVars, TypeOK
<1>11. QED
  BY <1>3, <1>4, <1>5, <1>6, <1>7, <1>8, <1>9, <1>10, LifeSteps

(* What a request waits for is being revoked, and the room of an end whose *)
(* media is known is somebody's work.                                      *)
RequestOpen(i) ==
    iState[i] # "none" =>
        /\ \A g \in intent[i].children : gState[g] \in {"revoking", "revoked"}
        /\ intent[i].kind = "end" /\ intent[i].known => rState[i] # "none"

LEMMA LeaveOpens ==
    ASSUME TypeOK, NEW i \in Intents, NEW c \in Calls, NEW a \in Authorities, RequestLeave(i, c, a)
    PROVE  RequestOpen(i)'
<1>1. PICK g \in HeldBy(a.user) :
        /\ IF Revocable(g) THEN Stage({g}, "unchanged") ELSE gState' = gState
        /\ intent' = [intent EXCEPT ![i] =
                     [kind |-> "leave", call |-> c, actor |-> a.user, known |-> TRUE,
                      children |-> {g}, parts |-> RowsOf({a.user} \cap ActiveIn(c))]]
  BY DEF RequestLeave
<1>2. g \in Grants /\ Held(g)
  BY DEF HeldBy
<1>3. gState'[g] = "revoking"
  <2>1. CASE Revocable(g)
    BY <1>1, <1>2, <2>1, StageEffect
  <2>2. CASE ~Revocable(g)
    BY <1>1, <1>2, <2>2 DEF Held, Revocable
  <2>3. QED
    BY <2>1, <2>2
<1>4. intent'[i].kind = "leave" /\ intent'[i].children = {g}
  BY <1>1 DEF TypeOK
<1>5. QED
  BY <1>3, <1>4 DEF RequestOpen

LEMMA EndOpens ==
    ASSUME TypeOK, NEW i \in Intents, NEW c \in Calls, NEW u \in Users, RequestEnd(i, c, u)
    PROVE  RequestOpen(i)'
<1> DEFINE S == {g \in HeldInCall(c) : Revocable(g)}
<1>1. /\ Stage(S, "unchanged") /\ S \in SUBSET Grants
      /\ rState' = [rState EXCEPT ![i] = IF RoomHeld(c) THEN "pending" ELSE @]
  BY DEF RequestEnd, HeldInCall
<1>2. intent'[i].known = RoomHeld(c) /\ intent'[i].children = HeldInCall(c)
  BY EndSnapshot
<1>3. ASSUME NEW g \in HeldInCall(c) PROVE gState'[g] = "revoking"
  <2>1. g \in Grants /\ Held(g)
    BY DEF HeldInCall
  <2>2. CASE Revocable(g)
    BY <1>1, <2>1, <2>2, StageEffect
  <2>3. CASE ~Revocable(g)
    <3>1. g \notin S /\ gState[g] = "revoking"
      BY <2>1, <2>3 DEF Held, Revocable
    <3>2. QED
      BY <1>1, <2>1, <3>1, StageEffect
  <2>4. QED
    BY <2>2, <2>3
<1>4. RoomHeld(c) => rState'[i] = "pending"
  BY <1>1 DEF TypeOK
<1>5. QED
  BY <1>2, <1>3, <1>4 DEF RequestOpen

LEMMA RequestsStep ==
    ASSUME TypeOK, TeardownInv, EndInv, [Next]_vars,
           \A g \in Grants : gState[g] = "revoking" => Unfinished(g),
           \A i \in Intents : RequestOpen(i)
    PROVE  \A i \in Intents : RequestOpen(i)'
<1> SUFFICES ASSUME NEW i \in Intents PROVE RequestOpen(i)'
  OBVIOUS
<1>1. rState[i] # "none" => rState'[i] # "none"
  <2>1. ASSUME NEW n \in Intents, NEW w \in Workers, ClaimRoom(n, w)
        PROVE  rState[i] # "none" => rState'[i] # "none"
    BY <2>1 DEF ClaimRoom, TypeOK
  <2>2. QED
    BY <2>1, RoomClaimSteps
<1>2. ASSUME iState'[i] # "none" => iState[i] # "none", intent'[i] = intent[i]
      PROVE  RequestOpen(i)'
  <2>1. iState[i] # "none" => intent[i].children \subseteq Grants
    BY DEF EndInv, Snapshot
  <2>2. QED
    BY <1>1, <1>2, <2>1, UnfinishedStep DEF RequestOpen
<1>3. ASSUME NEW n \in Intents, NEW c \in Calls, NEW a \in Authorities, RequestLeave(n, c, a)
      PROVE  RequestOpen(i)'
  <2>1. n # i => iState'[i] = iState[i] /\ intent'[i] = intent[i]
    BY <1>3, LeaveSnapshot DEF TypeOK
  <2>2. QED
    BY <1>2, <1>3, <2>1, LeaveOpens
<1>4. ASSUME NEW n \in Intents, NEW c \in Calls, NEW u \in Users, RequestEnd(n, c, u)
      PROVE  RequestOpen(i)'
  <2>1. n # i => iState'[i] = iState[i] /\ intent'[i] = intent[i]
    BY <1>4, EndSnapshot DEF TypeOK
  <2>2. QED
    BY <1>2, <1>4, <2>1, EndOpens
<1>5. ASSUME NEW n \in Intents, FinalizeLeave(n) \/ FinalizeEnd(n)
      PROVE  RequestOpen(i)'
  BY <1>2, <1>5 DEF FinalizeLeave, FinalizeEnd, TypeOK
<1>6. CASE UNCHANGED intentVars
  BY <1>2, <1>6 DEF intentVars
<1>7. QED
  BY <1>3, <1>4, <1>5, <1>6, IntentSteps

OpenInv ==
    /\ TeardownInv /\ EndInv /\ ClaimsOK
    /\ \A g \in Grants : gState[g] = "revoking" => Unfinished(g)
    /\ \A i \in Intents : RequestOpen(i)

LEMMA OpenHolds == Spec => [](TypeOK /\ OpenInv)
<1>1. Init => OpenInv
  BY TeardownStarts, EndsStart, ClaimsStart DEF Init, OpenInv, RequestOpen
<1>2. ASSUME TypeOK, OpenInv, [Next]_vars PROVE OpenInv'
  <2>1. TeardownInv' /\ EndInv'
    BY <1>2, TeardownStep, EndsStep DEF OpenInv
  <2>2. ClaimsOK'
    BY <1>2, CleanupClaimsStep, RoomClaimsStep DEF OpenInv, ClaimsOK
  <2>3. \A g \in Grants : gState'[g] = "revoking" => Unfinished(g)'
    BY <1>2, UnfinishedStep DEF OpenInv
  <2>4. \A i \in Intents : RequestOpen(i)'
    BY <1>2, RequestsStep DEF OpenInv
  <2>5. QED
    BY <2>1, <2>2, <2>3, <2>4 DEF OpenInv
<1>3. QED
  BY <1>1, <1>2, MediaTypes, PTL DEF Spec

(* Lost claims, late acknowledgements and workers that give up never leave *)
(* a revoke that nobody can finish.                                        *)
THEOREM RevokesStayOpen == Spec => []RevokeStaysOpen
<1>1. TypeOK /\ OpenInv => RevokeStaysOpen
  BY DEF OpenInv, RevokeStaysOpen, TeardownInv, GrantOK, Unfinished, ClaimsOK
<1>2. QED
  BY <1>1, OpenHolds, PTL

(* A pending request can be finalized once its revokes are complete and,   *)
(* when it is an end, its room is acknowledged.                            *)
THEOREM RequestsStayOpen == Spec => []RequestStaysOpen
<1>1. ASSUME TypeOK, OpenInv, EndBarrier PROVE RequestStaysOpen
  <2> SUFFICES ASSUME NEW i \in Intents, iState[i] = "pending", intent[i].known
               PROVE  /\ ChildrenReady(i) \/ \E g \in intent[i].children : gState[g] = "revoking"
                      /\ intent[i].kind = "end" /\ ChildrenReady(i) =>
                            LET c == intent[i].call IN
                            /\ \/ rState[i] \in {"pending", "acked"}
                               \/ rState[i] = "claimed" /\ RoomClaimed(i)
                            /\ roomState[c] = "closing" /\ callState[c] = "active"
                            /\ HeldInCall(c) = {} /\ LeasesHeldInCall(c) = {}
                            /\ RosterInSnapshot(i)
    BY DEF RequestStaysOpen
  <2>1. intent[i] \in Snapshot /\ RequestOpen(i)
    BY <1>1 DEF OpenInv, EndInv
  <2>2. intent[i].children \subseteq Grants /\ intent[i].call \in Calls
    BY <2>1 DEF Snapshot
  <2>3. ChildrenReady(i) \/ \E g \in intent[i].children : gState[g] = "revoking"
    <3>1. ASSUME NEW g \in intent[i].children, gState[g] # "revoking"
          PROVE  gState[g] = "revoked" /\ TornDown(g)
      BY <1>1, <2>1, <2>2, <3>1 DEF RequestOpen, OpenInv, TeardownInv, GrantOK
    <3>2. QED
      BY <3>1 DEF ChildrenReady, TornDown
  <2>4. ASSUME intent[i].kind = "end", ChildrenReady(i), NEW c \in Calls, c = intent[i].call
        PROVE  /\ \/ rState[i] \in {"pending", "acked"}
                  \/ rState[i] = "claimed" /\ RoomClaimed(i)
               /\ roomState[c] = "closing" /\ callState[c] = "active"
               /\ HeldInCall(c) = {} /\ LeasesHeldInCall(c) = {}
               /\ RosterInSnapshot(i)
    <3>1. /\ roomState[c] = "closing" /\ callState[c] = "active" /\ RosterInSnapshot(i)
          /\ \A g \in HeldInCall(c) : gState[g] = "revoking" /\ g \in intent[i].children
      BY <1>1, <2>4 DEF EndBarrier
    <3>2. HeldInCall(c) = {}
      BY <2>4, <3>1 DEF ChildrenReady
    <3>3. ASSUME NEW l \in LeasesHeldInCall(c) PROVE FALSE
      <4>1. l \in Leases /\ lState[l] \in {"open", "closing"} /\ bind[lGrant[l]].call = c
        BY DEF LeasesHeldInCall
      <4>2. LeaseOK(l) /\ lGrant[l] \in Grants \cup {NoGrant}
        BY <1>1, <4>1 DEF OpenInv, TeardownInv, TypeOK
      <4>3. lGrant[l] \in Grants /\ Held(lGrant[l])
        BY <4>1, <4>2 DEF LeaseOK, Held
      <4>4. QED
        BY <3>2, <4>1, <4>3 DEF HeldInCall
    <3>4. rState[i] \in {"pending", "acked"} \/ (rState[i] = "claimed" /\ RoomClaimed(i))
      BY <1>1, <2>1, <2>4 DEF RequestOpen, OpenInv, ClaimsOK, TypeOK
    <3>5. QED
      BY <3>1, <3>2, <3>3, <3>4
  <2>5. QED
    BY <2>2, <2>3, <2>4
<1>2. QED
  BY <1>1, OpenHolds, BarrierStands, PTL

-----------------------------------------------------------------------------
(* The mapping of the contract: who is connected, whose SFU is down.       *)
Connected == [g \in Grants |-> HeldLease(g) # {}]
SfuDown == [g \in Grants |-> jState[<<g, "sfu">>] = "acked"]

(* A function of Booleans that differs from another at one place at most.  *)
LEMMA OnePlace ==
    ASSUME NEW D, NEW f \in [D -> BOOLEAN], NEW h \in [D -> BOOLEAN], NEW x \in D,
           NEW v \in BOOLEAN, h[x] = v, \A y \in D : y # x => h[y] = f[y]
    PROVE  h = [f EXCEPT ![x] = v]
  OBVIOUS

LEMMA SamePlaces ==
    ASSUME NEW D, NEW f \in [D -> BOOLEAN], NEW h \in [D -> BOOLEAN], \A y \in D : h[y] = f[y]
    PROVE  h = f
  OBVIOUS

LEMMA MappingTypes ==
    /\ Connected \in [Grants -> BOOLEAN] /\ Connected' \in [Grants -> BOOLEAN]
    /\ SfuDown \in [Grants -> BOOLEAN] /\ SfuDown' \in [Grants -> BOOLEAN]
    /\ \A g \in Grants : /\ Connected[g] <=> HeldLease(g) # {}
                         /\ Connected'[g] <=> HeldLease(g)' # {}
                         /\ SfuDown[g] <=> jState[<<g, "sfu">>] = "acked"
                         /\ SfuDown'[g] <=> jState'[<<g, "sfu">>] = "acked"
  BY DEF Connected, SfuDown

(* The steps of the contract over the mapped state.                        *)
ContractStep == [Contract!Next]_(Contract!contractVars)

LEMMA SfuStays ==
    ASSUME \A g \in Grants : jState'[<<g, "sfu">>] = "acked" <=> jState[<<g, "sfu">>] = "acked"
    PROVE  SfuDown' = SfuDown
<1>1. \A g \in Grants : SfuDown'[g] = SfuDown[g]
  BY DEF SfuDown
<1>2. QED
  BY <1>1, MappingTypes, SamePlaces

LEMMA ConnectedStays ==
    ASSUME \A g \in Grants : HeldLease(g)' = HeldLease(g)
    PROVE  Connected' = Connected
  BY DEF Connected

(* A grant that is being revoked has at most the lease its proxy action is *)
(* aimed at, and none when there is no such action outstanding.            *)
LEMMA OneLease ==
    ASSUME TypeOK, TeardownInv, NEW g \in Grants, gState[g] = "revoking"
    PROVE  /\ HeldLease(g) \subseteq {target[g]}
           /\ jState[<<g, "proxy">>] \in {"none", "acked"} => HeldLease(g) = {}
<1>1. ASSUME NEW l \in HeldLease(g)
      PROVE  l = target[g] /\ jState[<<g, "proxy">>] \in {"pending", "claimed"}
  BY <1>1 DEF HeldLease, TeardownInv, LeaseOK
<1>2. QED
  BY <1>1

LEMMA StageImplements ==
    ASSUME TypeOK, TeardownInv, NEW S \in SUBSET Grants, NEW out, Stage(S, out),
           \A g \in S : Revocable(g), lGrant' = lGrant
    PROVE  ContractStep
<1>1. gState' = [g \in Grants |-> IF g \in S THEN "revoking" ELSE gState[g]]
  BY DEF Stage, Update, TypeOK
<1>2. SfuDown' = SfuDown
  <2>1. ASSUME NEW g \in Grants
        PROVE  jState'[<<g, "sfu">>] = "acked" <=> jState[<<g, "sfu">>] = "acked"
    <3>1. g \in S => jState[<<g, "sfu">>] = "none"
      BY DEF TeardownInv, GrantOK, Revocable, Actions
    <3>2. jState'[<<g, "sfu">>] = IF g \in S THEN "pending" ELSE jState[<<g, "sfu">>]
      BY StageEffect DEF Actions
    <3>3. QED
      BY <3>1, <3>2
  <2>2. QED
    BY <2>1, SfuStays
<1>3. Connected' = Connected
  <2>1. \A l \in Leases : lState'[l] \in {"open", "closing"} <=> lState[l] \in {"open", "closing"}
    BY DEF Stage, Update, TypeOK
  <2>2. QED
    BY <2>1, ConnectedStays DEF HeldLease
<1>4. Contract!BeginRevoke(S)
  BY <1>1, <1>2, <1>3 DEF Contract!BeginRevoke, Revocable, Connected, SfuDown
<1>5. QED
  BY <1>4 DEF ContractStep, Contract!Next

LEMMA CloseImplements ==
    ASSUME TypeOK, TeardownInv, NEW n \in Leases, CloseLease(n)
    PROVE  ContractStep
<1> DEFINE r == lGrant[n]
<1>1. /\ lState[n] \in {"open", "closing"}
      /\ lState' = [lState EXCEPT ![n] = "closed"]
      /\ UNCHANGED <<gState, lGrant, jState>>
  BY DEF CloseLease, grantVars, jobVars
<1>2. r \in Grants /\ LeaseOK(n)
  BY <1>1 DEF TypeOK, TeardownInv, LeaseOK
<1>3. lState'[n] = "closed" /\ \A l \in Leases : l # n => lState'[l] = lState[l]
  BY <1>1 DEF TypeOK
<1>4. Connected' = [Connected EXCEPT ![r] = FALSE]
  <2>1. HeldLease(r)' = {}
    BY <1>1, <1>2, <1>3 DEF HeldLease, LeaseOK
  <2>2. \A h \in Grants : h # r => HeldLease(h)' = HeldLease(h)
    BY <1>1, <1>3 DEF HeldLease
  <2>3. Connected'[r] = FALSE /\ \A h \in Grants : h # r => Connected'[h] = Connected[h]
    BY <1>1, <1>2, <2>1, <2>2 DEF Connected
  <2>4. QED
    BY <1>2, <2>3, MappingTypes, OnePlace
<1>5. SfuDown' = SfuDown
  BY <1>1 DEF SfuDown
<1>6. Contract!Disconnect(r)
  BY <1>1, <1>4, <1>5 DEF Contract!Disconnect, Connected, SfuDown
<1>7. QED
  BY <1>2, <1>6 DEF ContractStep, Contract!Next

LEMMA RegisterImplements ==
    ASSUME TypeOK, TeardownInv, NEW n \in Leases, NEW r \in Grants, NEW a \in Authorities,
           RegisterLease(n, r, a)
    PROVE  ContractStep
<1>1. /\ gState[r] = "active" /\ lState[n] = "none"
      /\ lState' = [lState EXCEPT ![n] = "open"]
      /\ lGrant' = [lGrant EXCEPT ![n] = r]
      /\ UNCHANGED <<gState, jState>>
  BY DEF RegisterLease, grantVars, jobVars
<1>2. /\ lState'[n] = "open" /\ lGrant'[n] = r
      /\ \A l \in Leases : l # n => lState'[l] = lState[l] /\ lGrant'[l] = lGrant[l]
  BY <1>1 DEF TypeOK
<1>3. Connected' = [Connected EXCEPT ![r] = TRUE]
  <2>1. n \in HeldLease(r)'
    BY <1>2 DEF HeldLease
  <2>2. \A h \in Grants : h # r => HeldLease(h)' = HeldLease(h)
    BY <1>1, <1>2 DEF HeldLease
  <2>3. Connected'[r] = TRUE /\ \A h \in Grants : h # r => Connected'[h] = Connected[h]
    BY <2>1, <2>2 DEF Connected
  <2>4. QED
    BY <2>3, MappingTypes, OnePlace
<1>4. SfuDown' = SfuDown
  BY <1>1 DEF SfuDown
<1>5. Contract!CheckAdmission(r)
  BY <1>1, <1>3, <1>4 DEF Contract!CheckAdmission, Connected, SfuDown
<1>6. QED
  BY <1>5 DEF ContractStep, Contract!Next

LEMMA AckImplements ==
    ASSUME TypeOK, TeardownInv, NEW k \in claims, RecordCleanupAcknowledgement(k)
    PROVE  ContractStep
<1> DEFINE r == k.grant
           j == <<r, k.action>>
<1>1. r \in Grants /\ k.action \in Actions /\ j \in Jobs
  BY DEF TypeOK, Claim, Jobs
<1>2. /\ gState[r] = "revoking"
      /\ jState[j] = "claimed"
      /\ jState' = [jState EXCEPT ![j] = "acked"]
      /\ lState' = IF k.action = "proxy" THEN [lState EXCEPT ![target[r]] = "closed"] ELSE lState
      /\ lGrant' = lGrant
      /\ gState' = IF LastAction(r, k.action) THEN [gState EXCEPT ![r] = "revoked"] ELSE gState
  BY DEF RecordCleanupAcknowledgement
<1>3. jState'[j] = "acked" /\ \A i \in Jobs : i # j => jState'[i] = jState[i]
  BY <1>1, <1>2 DEF TypeOK
<1>4. /\ k.action = "proxy" => target[r] \in Leases /\ lGrant[target[r]] = r
      /\ jState[<<r, "sfu">>] # "none"
  BY <1>1, <1>2 DEF TeardownInv, GrantOK
<1>5. \A h \in Grants : h # r => /\ HeldLease(h)' = HeldLease(h)
                               /\ jState'[<<h, "sfu">>] = jState[<<h, "sfu">>]
  <2>1. ASSUME NEW h \in Grants, h # r PROVE jState'[<<h, "sfu">>] = jState[<<h, "sfu">>]
    BY <1>3, <2>1 DEF Jobs, Actions
  <2>2. ASSUME NEW h \in Grants, h # r, NEW l \in Leases, lGrant[l] = h PROVE lState'[l] = lState[l]
    BY <1>2, <1>4, <2>2 DEF TypeOK
  <2>3. QED
    BY <1>2, <2>1, <2>2 DEF HeldLease
<1>6. CASE k.action = "proxy"
  <2>1. HeldLease(r)' = {}
    <3>1. lState'[target[r]] = "closed" /\ \A l \in Leases : l # target[r] => lState'[l] = lState[l]
      BY <1>2, <1>4, <1>6 DEF TypeOK
    <3>2. HeldLease(r) \subseteq {target[r]}
      BY <1>1, <1>2, OneLease
    <3>3. QED
      BY <1>2, <3>1, <3>2 DEF HeldLease
  <2>2. Connected' = [Connected EXCEPT ![r] = FALSE]
    <3>1. Connected'[r] = FALSE /\ \A h \in Grants : h # r => Connected'[h] = Connected[h]
      BY <1>1, <1>5, <2>1 DEF Connected
    <3>2. QED
      BY <1>1, <3>1, MappingTypes, OnePlace
  <2>3. jState'[<<r, "sfu">>] = jState[<<r, "sfu">>]
    BY <1>1, <1>3, <1>6 DEF Jobs, Actions
  <2>4. CASE LastAction(r, k.action)
    <3>1. SfuDown[r]
      BY <1>1, <1>4, <1>6, <2>4 DEF LastAction, Actions, SfuDown
    <3>2. SfuDown' = [SfuDown EXCEPT ![r] = TRUE]
      <4>1. SfuDown'[r] = TRUE /\ \A h \in Grants : h # r => SfuDown'[h] = SfuDown[h]
        BY <1>1, <1>5, <2>3, <3>1 DEF SfuDown
      <4>2. QED
        BY <1>1, <4>1, MappingTypes, OnePlace
    <3>3. Contract!ConfirmTeardown(r)
      BY <1>2, <2>2, <2>4, <3>1, <3>2 DEF Contract!ConfirmTeardown, Connected, SfuDown
    <3>4. QED
      BY <1>1, <3>3 DEF ContractStep, Contract!Next
  <2>5. CASE ~LastAction(r, k.action)
    <3>1. SfuDown' = SfuDown
      BY <1>5, <2>3, SfuStays
    <3>2. Contract!Disconnect(r)
      BY <1>2, <2>2, <2>5, <3>1 DEF Contract!Disconnect, Connected, SfuDown
    <3>3. QED
      BY <1>1, <3>2 DEF ContractStep, Contract!Next
  <2>6. QED
    BY <2>4, <2>5
<1>7. CASE k.action = "sfu"
  <2>1. SfuDown' = [SfuDown EXCEPT ![r] = TRUE]
    <3>1. SfuDown'[r] = TRUE /\ \A h \in Grants : h # r => SfuDown'[h] = SfuDown[h]
      BY <1>1, <1>3, <1>5, <1>7 DEF SfuDown
    <3>2. QED
      BY <1>1, <3>1, MappingTypes, OnePlace
  <2>2. UNCHANGED <<lState, lGrant>>
    BY <1>2, <1>7
  <2>3. Connected' = Connected
    BY <2>2, ConnectedStays DEF HeldLease
  <2>4. CASE LastAction(r, k.action)
    <3>1. HeldLease(r) = {}
      <4>1. jState[<<r, "proxy">>] \in {"none", "acked"}
        BY <1>7, <2>4 DEF LastAction, Actions
      <4>2. QED
        BY <1>1, <1>2, <4>1, OneLease
    <3>2. Connected[r] = FALSE
      BY <1>1, <3>1 DEF Connected
    <3>3. Connected' = [Connected EXCEPT ![r] = FALSE]
      BY <1>1, <2>3, <3>2, MappingTypes
    <3>4. Contract!ConfirmTeardown(r)
      BY <1>2, <2>1, <2>4, <3>2, <3>3 DEF Contract!ConfirmTeardown, Connected, SfuDown
    <3>5. QED
      BY <1>1, <3>4 DEF ContractStep, Contract!Next
  <2>5. CASE ~LastAction(r, k.action)
    <3>1. Contract!SfuConfirmed(r)
      BY <1>2, <2>1, <2>3, <2>5 DEF Contract!SfuConfirmed, Connected, SfuDown
    <3>2. QED
      BY <1>1, <3>1 DEF ContractStep, Contract!Next
  <2>6. QED
    BY <2>4, <2>5
<1>8. QED
  BY <1>1, <1>6, <1>7 DEF Actions

LEMMA ImplementsStep == TypeOK /\ TeardownInv /\ [Next]_vars => ContractStep
<1> SUFFICES ASSUME TypeOK, TeardownInv, [Next]_vars PROVE ContractStep
  OBVIOUS
<1>1. ASSUME UNCHANGED <<lState, lGrant>>,
             \A g \in Grants : jState'[<<g, "sfu">>] = "acked" <=> jState[<<g, "sfu">>] = "acked"
      PROVE  Connected' = Connected /\ SfuDown' = SfuDown
  BY <1>1, ConnectedStays, SfuStays DEF HeldLease
<1>2. ASSUME UNCHANGED <<gState, lState, lGrant>>,
             \A g \in Grants : jState'[<<g, "sfu">>] = "acked" <=> jState[<<g, "sfu">>] = "acked"
      PROVE  ContractStep
  BY <1>1, <1>2 DEF ContractStep, Contract!contractVars, Connected, SfuDown
<1>3. ASSUME NEW g \in Grants, NEW c \in Calls, NEW a \in Authorities, Reserve(g, c, a)
      PROVE  ContractStep
  <2>1. /\ gState[g] = "none" /\ gState' = [gState EXCEPT ![g] = "prepared"]
        /\ UNCHANGED <<lState, lGrant, jState>>
    BY <1>3 DEF Reserve, leaseVars, jobVars
  <2>2. Contract!Prepare(g)
    BY <1>1, <2>1 DEF Contract!Prepare, Connected, SfuDown
  <2>3. QED
    BY <2>2 DEF ContractStep, Contract!Next
<1>4. ASSUME NEW g \in Grants, NEW a \in Authorities, Activate(g, a)
      PROVE  ContractStep
  <2>1. /\ gState[g] = "prepared" /\ gState' = [gState EXCEPT ![g] = "active"]
        /\ UNCHANGED <<lState, lGrant, jState>>
    BY <1>4 DEF Activate, leaseVars, jobVars
  <2>2. Contract!Activate(g)
    BY <1>1, <2>1 DEF Contract!Activate, Connected, SfuDown
  <2>3. QED
    BY <2>2 DEF ContractStep, Contract!Next
<1>5. ASSUME NEW S \in SUBSET Grants, NEW out, Withdraws(S, out)
      PROVE  ContractStep
  BY <1>5, StageImplements DEF Withdraws
<1>6. ASSUME NEW e \in Events, ApplySourceEvent(e)
      PROVE  ContractStep
  <2>1. lGrant' = lGrant
    BY <1>6 DEF ApplySourceEvent
  <2>2. ASSUME NEW g \in Affected(e), Revocable(g), Stage({g}, "revoked")
        PROVE  ContractStep
    <3>1. {g} \in SUBSET Grants
      BY DEF Affected, HeldBy
    <3>2. QED
      BY <2>1, <2>2, <3>1, StageImplements
  <2>3. CASE UNCHANGED <<gState, jState, lState>>
    BY <1>2, <2>1, <2>3
  <2>4. QED
    BY <1>6, <2>2, <2>3 DEF ApplySourceEvent
<1>7. ASSUME NEW j \in Jobs, JobMoves(j)
      PROVE  ContractStep
  <2>1. /\ UNCHANGED <<gState, lState, lGrant>>
        /\ \A i \in Jobs : jState'[i] = "acked" <=> jState[i] = "acked"
    BY <1>7 DEF JobMoves, grantVars, leaseVars, TypeOK
  <2>2. \A g \in Grants : <<g, "sfu">> \in Jobs
    BY DEF Jobs, Actions
  <2>3. QED
    BY <1>2, <2>1, <2>2
<1>8. ASSUME NEW g \in Grants, ExpirePrepared(g)
      PROVE  ContractStep
  <2>1. /\ gState[g] = "prepared" /\ \A l \in Leases : lGrant[l] # g
        /\ gState' = [gState EXCEPT ![g] = "revoked"]
        /\ UNCHANGED <<lState, lGrant, jState>>
    BY <1>8 DEF ExpirePrepared, leaseVars, jobVars
  <2>2. ~Connected[g]
    BY <2>1 DEF Connected, HeldLease
  <2>3. Contract!NeverActivated(g)
    BY <1>1, <2>1, <2>2 DEF Contract!NeverActivated, Connected, SfuDown
  <2>4. QED
    BY <2>3 DEF ContractStep, Contract!Next
<1>9. CASE UNCHANGED lifeVars
  BY <1>2, <1>9 DEF lifeVars, grantVars, leaseVars
<1>10. QED
  BY <1>3, <1>4, <1>5, <1>6, <1>7, <1>8, <1>9, RegisterImplements, CloseImplements, AckImplements,
     LifeSteps

(* The store keeps what the reference model of the media plane promises of *)
(* a grant, step by step: only an active grant admits a connection and no  *)
(* grant is revoked without the evidence that its media is gone.           *)
THEOREM StoreImplementsContract == Spec => ImplementsContract
<1>1. Init => Contract!Init
  <2> SUFFICES ASSUME Init PROVE Contract!Init
    OBVIOUS
  <2>1. \A g \in Grants : HeldLease(g) = {}
    BY DEF Init, HeldLease
  <2>2. \A g \in Grants : jState[<<g, "sfu">>] = "none"
    BY DEF Init, Jobs, Actions
  <2>3. gState = [g \in Grants |-> "none"]
    BY DEF Init
  <2>4. QED
    BY <2>1, <2>2, <2>3 DEF Contract!Init
<1>2. TypeOK /\ TeardownInv /\ [Next]_vars => [Contract!Next]_(Contract!contractVars)
  BY ImplementsStep DEF ContractStep
<1>3. QED
  BY <1>1, <1>2, TeardownHolds, PTL DEF Spec, ImplementsContract, Contract!Spec
=============================================================================

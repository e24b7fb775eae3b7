----------------------------- MODULE MediaStore -----------------------------
(***************************************************************************)
(* The media grant store of aero-rtc-control                               *)
(* (internal/storage/postgres/media_store.go): a grant is reserved, then   *)
(* activated, carries at most one connection lease at a time, and is       *)
(* revoked in two phases: the revoke stages cleanup actions in an outbox,  *)
(* and the grant becomes revoked when every action has been acknowledged   *)
(* by the worker that holds its current claim.                             *)
(***************************************************************************)
EXTENDS CallRepository

controlVars == <<intentVars, roomJobVars>>

(* The room Reserve uses: the held room of the call or a new generation.   *)
RoomFor(c) == IF RoomHeld(c) THEN roomGen[c] ELSE roomGen[c] + 1

(* Mutant: one participant too many.                                       *)
HasCapacity_offByOne(c, u) ==
    /\ Cardinality(HeldInRoom(c, RoomFor(c))) <= RoomLimit
    /\ Cardinality(ActiveIn(c) \ {u}) <= RoomLimit

(* The capacity checks of Reserve: grants of the room, participants of the *)
(* call with u among them.                                                 *)
HasCapacity(c, u) ==
    /\ Cardinality(HeldInRoom(c, RoomFor(c))) < RoomLimit
    /\ IF part[u] = c THEN Cardinality(ActiveIn(c)) <= RoomLimit
                      ELSE Cardinality(ActiveIn(c)) < RoomLimit

(* Reserve of a fresh request id; a repeated one returns its grant or is a *)
(* conflict, and changes nothing.  The user's participant row is reused    *)
(* when it is in this call, else a row is created, after the guard has     *)
(* released the row of an ended call.                                      *)
Reserve(g, c, a) ==
    LET u == a.user IN
    /\ gState[g] = "none"
    /\ callState[c] = "active"
    /\ ScopeOf[c] = a.subject["group"]
    /\ ~EndPending(c)
    /\ roomState[c] # "closing"
    /\ ~Denied(a)
    /\ HeldBy(u) = {}
    /\ HasCapacity(c, u)
    /\ IF part[u] = c
         THEN UNCHANGED <<part, row>>
         ELSE /\ part[u] # NoCall => Guarded /\ callState[part[u]] = "ended"
              /\ NewRow(u, c)
    /\ RoomFor(c) <= MaxGen
    /\ roomGen' = [roomGen EXCEPT ![c] = RoomFor(c)]
    /\ roomState' = [roomState EXCEPT ![c] = IF RoomHeld(c) THEN @ ELSE "prepared"]
    /\ gState' = [gState EXCEPT ![g] = "prepared"]
    /\ bind' = [bind EXCEPT ![g] = [call |-> c, row |-> row'[u], room |-> RoomFor(c), auth |-> a]]
    /\ UNCHANGED <<callState, creator, leaseVars, opVars, jobVars, denyVars, controlVars>>

(* What Activate and RegisterLease check after lockedGrant: the caller's   *)
(* fresh authority is the bound one and is not denied, no end is pending,  *)
(* the call is active and the bound participant row is the user's row.     *)
GrantUsable(g, fresh) ==
    /\ ~EndPending(bind[g].call)
    /\ bind[g].auth = fresh
    /\ ~Denied(fresh)
    /\ callState[bind[g].call] = "active"
    /\ part[UserOf(g)] = bind[g].call
    /\ row[UserOf(g)] = bind[g].row

Activate(g, fresh) ==
    /\ gState[g] = "prepared"
    /\ GrantUsable(g, fresh)
    /\ gState' = [gState EXCEPT ![g] = "active"]
    /\ roomState' = [roomState EXCEPT ![bind[g].call] =
                        IF roomGen[bind[g].call] = bind[g].room /\ @ = "prepared"
                          THEN "active" ELSE @]
    /\ UNCHANGED <<callVars, roomGen, bind, leaseVars, opVars, jobVars, denyVars, controlVars>>

RegisterLease(l, g, fresh) ==
    /\ gState[g] = "active"
    /\ GrantUsable(g, fresh)
    /\ HeldLease(g) = {}
    /\ lState[l] = "none"
    /\ lState' = [lState EXCEPT ![l] = "open"]
    /\ lGrant' = [lGrant EXCEPT ![l] = g]
    /\ UNCHANGED <<callVars, roomVars, grantVars, opVars, jobVars, denyVars, controlVars>>

(* The owner reports that its connection is gone; the grant stays.         *)
CloseLease(l) ==
    /\ lState[l] \in {"open", "closing"}
    /\ lState' = [lState EXCEPT ![l] = "closed"]
    /\ UNCHANGED <<callVars, roomVars, grantVars, lGrant, opVars, jobVars, denyVars, controlVars>>

-----------------------------------------------------------------------------
(* Mutant: the connection proxy is never told.                             *)
StagedJobs_sfuOnly(S) == S \X {"sfu"}

(* createMediaOperation and stageMediaRevoke for every grant of S: the     *)
(* grant is revoking, its operation is pending with the lease it had as    *)
(* target, and one cleanup action per side that has to be torn down waits  *)
(* in the outbox.                                                          *)
StagedJobs(S) == {j \in Jobs : /\ j[1] \in S
                               /\ j[2] = "proxy" => HeldLease(j[1]) # {}}

Stage(S, out) ==
    /\ gState' = Update(gState, S, "revoking")
    /\ opState' = Update(opState, S, "pending")
    /\ outcome' = Update(outcome, S, out)
    /\ target' = [g \in Grants |-> IF g \in S /\ HeldLease(g) # {}
                                     THEN CHOOSE l \in Leases : l \in HeldLease(g)
                                     ELSE target[g]]
    /\ jState' = Update(jState, StagedJobs(S), "pending")
    /\ lState' = Update(lState, {l \in Leases : lGrant[l] \in S /\ lState[l] = "open"}, "closing")

(* Mutant: a request id without a grant is not refused.                    *)
Revocable_unknown(g) == gState[g] \in {"none", "prepared", "active"}

(* A grant that can still admit media, and so has no operation yet.        *)
Revocable(g) == gState[g] \in {"prepared", "active"}

(* BeginRevoke of a grant that has no operation yet; otherwise the one it  *)
(* has is returned.                                                        *)
BeginRevoke(g, out) ==
    /\ Revocable(g)
    /\ Stage({g}, out)
    /\ UNCHANGED <<callVars, roomVars, bind, lGrant, jOwner, jFence, claims, denyVars, controlVars>>

(* AdvanceMediaDenyWatermark.                                              *)
Advance(e) ==
    mark' = [mark EXCEPT ![<<e.kind, e.subject, e.user>>] = IF @ < e.rev THEN e.rev ELSE @]

(* Mutant: every grant of the user is taken for an affected one.           *)
Affected_anyGrant(e) == HeldBy(e.user)

Affected(e) == {g \in HeldBy(e.user) : Matches(e, bind[g].auth)}

(* ApplySourceEvent of an event that is not in the inbox: the watermark    *)
(* moves in the same transaction in which the held grant of the user, if   *)
(* the event matches it, is revoked or, when it is being revoked already,  *)
(* its operation is marked.                                                *)
ApplySourceEvent(e) ==
    /\ receipt[e] = NoReceipt
    /\ Advance(e)
    /\ \/ /\ Affected(e) = {}
          /\ receipt' = [receipt EXCEPT ![e] = NoGrant]
          /\ UNCHANGED <<gState, opVars, jState, lState>>
       \/ \E g \in Affected(e) :
          /\ receipt' = [receipt EXCEPT ![e] = g]
          /\ IF Revocable(g)
               THEN Stage({g}, "revoked")
               ELSE /\ outcome' = [outcome EXCEPT ![g] = "revoked"]
                    /\ UNCHANGED <<gState, opState, target, jState, lState>>
    /\ UNCHANGED <<callVars, roomVars, bind, lGrant, jOwner, jFence, claims, controlVars>>

-----------------------------------------------------------------------------
(* ClaimCleanup: a pending action, or one whose claim has lapsed by the    *)
(* clock of this worker, gets a new owner and a higher fence.              *)
ClaimCleanup(g, x, w) ==
    LET j == <<g, x>> IN
    /\ gState[g] = "revoking"
    /\ jState[j] \in {"pending", "claimed"}
    /\ jFence[j] < MaxFence
    /\ jState' = [jState EXCEPT ![j] = "claimed"]
    /\ jOwner' = [jOwner EXCEPT ![j] = w]
    /\ jFence' = [jFence EXCEPT ![j] = @ + 1]
    /\ claims' = claims \cup {[grant |-> g, action |-> x, worker |-> w, fence |-> jFence[j] + 1]}
    /\ UNCHANGED <<callVars, roomVars, grantVars, leaseVars, opVars, denyVars, controlVars>>

(* The claim is the one the outbox row records.                            *)
Current(k) == LET j == <<k.grant, k.action>> IN
              jOwner[j] = k.worker /\ jFence[j] = k.fence

(* RetryCleanup: the worker gives its action back.                         *)
RetryCleanup(k) ==
    LET j == <<k.grant, k.action>> IN
    /\ gState[k.grant] = "revoking"
    /\ jState[j] = "claimed"
    /\ Current(k)
    /\ jFence[j] < MaxFence
    /\ jState' = [jState EXCEPT ![j] = "pending"]
    /\ UNCHANGED <<callVars, roomVars, grantVars, leaseVars, opVars, jOwner, jFence, claims,
                   denyVars, controlVars>>

(* finishMediaParticipation: the bound participant row is left; unless an  *)
(* end is pending, the last exit ends the call and the last grant closes   *)
(* the room.                                                               *)
FinishParticipation(g) ==
    LET u == UserOf(g)
        c == bind[g].call
        left == RowActive(u, bind[g].row) IN
    /\ part' = IF left THEN [part EXCEPT ![u] = NoCall] ELSE part
    /\ IF EndPending(c)
         THEN UNCHANGED <<callState, roomState>>
         ELSE /\ EndIfEmpty(c, IF left THEN ActiveIn(c) \ {u} ELSE ActiveIn(c))
              /\ roomState' = [roomState EXCEPT ![c] =
                    IF HeldInRoom(c, bind[g].room) \subseteq {g} /\ roomGen[c] = bind[g].room
                      THEN "closed" ELSE @]

(* Mutants: the first acknowledgement counts for all; the one that is      *)
(* being recorded is still counted as outstanding.                         *)
LastAction_any(g, x) == TRUE
LastAction_readFirst(g, x) == \A y \in Actions : jState[<<g, y>>] \in {"none", "acked"}

(* x is the only cleanup action of g that was not acknowledged.            *)
LastAction(g, x) == \A y \in Actions : y = x \/ jState[<<g, y>>] \in {"none", "acked"}

(* RecordCleanupAcknowledgement by the current claimant; a repeated one    *)
(* changes nothing, one with a stale fence is denied.                      *)
RecordCleanupAcknowledgement(k) ==
    LET g == k.grant
        j == <<g, k.action>> IN
    /\ gState[g] = "revoking"
    /\ jState[j] = "claimed"
    /\ Current(k)
    /\ jState' = [jState EXCEPT ![j] = "acked"]
    /\ lState' = IF k.action = "proxy"
                   THEN [lState EXCEPT ![target[g]] = "closed"] ELSE lState
    /\ IF LastAction(g, k.action)
         THEN /\ gState' = [gState EXCEPT ![g] = "revoked"]
              /\ opState' = [opState EXCEPT ![g] = "complete"]
              /\ FinishParticipation(g)
         ELSE UNCHANGED <<gState, opState, part, callState, roomState>>
    /\ UNCHANGED <<creator, row, roomGen, bind, lGrant, outcome, target, jOwner, jFence, claims,
                   denyVars, controlVars>>

(* ExpirePrepared: a grant that was never activated is released without    *)
(* any teardown, since nothing can have connected with it.                 *)
ExpirePrepared(g) ==
    /\ gState[g] = "prepared"
    /\ \A l \in Leases : lGrant[l] # g
    /\ gState' = [gState EXCEPT ![g] = "revoked"]
    /\ opState' = [opState EXCEPT ![g] = "complete"]
    /\ outcome' = [outcome EXCEPT ![g] = "unchanged"]
    /\ FinishParticipation(g)
    /\ UNCHANGED <<creator, row, roomGen, bind, leaseVars, target, jobVars, denyVars, controlVars>>

StoreNext ==
    \/ \E g \in Grants, c \in Calls, a \in Authorities : Reserve(g, c, a)
    \/ \E g \in Grants, a \in Authorities : Activate(g, a)
    \/ \E l \in Leases, g \in Grants, a \in Authorities : RegisterLease(l, g, a)
    \/ \E l \in Leases : CloseLease(l)
    \/ \E g \in Grants, out \in {"unchanged", "unavailable"} : BeginRevoke(g, out)
    \/ \E e \in Events : ApplySourceEvent(e)
    \/ \E g \in Grants, x \in Actions, w \in Workers : ClaimCleanup(g, x, w)
    \/ \E k \in claims : RetryCleanup(k)
    \/ \E k \in claims : RecordCleanupAcknowledgement(k)
    \/ \E g \in Grants : ExpirePrepared(g)
=============================================================================

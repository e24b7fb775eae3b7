---------------------------- MODULE MediaControl ----------------------------
(***************************************************************************)
(* The media control coordinator of aero-rtc-control                       *)
(* (internal/storage/postgres/media_control.go): leave and end requests    *)
(* become durable intents.  An intent snapshots the grants it has to see   *)
(* revoked and the participants it will release; an end also closes the    *)
(* call's open room, which a worker must acknowledge after every child.    *)
(***************************************************************************)
EXTENDS MediaStore

(* Actor.Bound: the requester's session and device are the ones the grant  *)
(* is bound to, at the same revisions; its eligibility epoch is not        *)
(* compared.                                                               *)
Bound(a, g) ==
    /\ a.user = UserOf(g)
    /\ a.subject = bind[g].auth.subject
    /\ \A k \in {"session", "device"} : a.rev[k] = bind[g].auth.rev[k]

RowsOf(S) == {<<u, row[u]>> : u \in S}

(* Request with kind "leave" and a fresh request id.                       *)
RequestLeave(i, c, a) ==
    /\ iState[i] = "none"
    /\ ScopeOf[c] = a.subject["group"]
    /\ callState[c] = "active"
    /\ \E g \in HeldBy(a.user) :
       /\ bind[g].call = c
       /\ Bound(a, g)
       /\ RoomHeld(c) /\ roomGen[c] = bind[g].room
       /\ IF Revocable(g) THEN Stage({g}, "unchanged")
                          ELSE UNCHANGED <<gState, opVars, jState, lState>>
       /\ intent' = [intent EXCEPT ![i] =
                       [kind |-> "leave", call |-> c, actor |-> a.user, known |-> TRUE,
                        children |-> {g}, parts |-> RowsOf({a.user} \cap ActiveIn(c))]]
    /\ iState' = [iState EXCEPT ![i] = "pending"]
    /\ UNCHANGED <<callVars, roomVars, bind, lGrant, jOwner, jFence, claims, denyVars, roomJobVars>>

(* Request with kind "end" and a fresh request id, by the creator of the   *)
(* call, who must still be eligible in the group.  Without an open room    *)
(* the set of media to tear down is unknown, and the intent says so.       *)
RequestEnd(i, c, u) ==
    LET kids == HeldInCall(c) IN
    /\ iState[i] = "none"
    /\ ScopeOf[c] \in Groups
    /\ creator[c] = u
    /\ callState[c] = "active"
    /\ ~EndPending(c)
    /\ \A g \in kids : RoomHeld(c) /\ roomGen[c] = bind[g].room
    /\ Stage({g \in kids : Revocable(g)}, "unchanged")
    /\ intent' = [intent EXCEPT ![i] =
                    [kind |-> "end", call |-> c, actor |-> u, known |-> RoomHeld(c),
                     children |-> kids, parts |-> RowsOf(ActiveIn(c))]]
    /\ iState' = [iState EXCEPT ![i] = "pending"]
    /\ rState' = [rState EXCEPT ![i] = IF RoomHeld(c) THEN "pending" ELSE @]
    /\ roomState' = [roomState EXCEPT ![c] = IF RoomHeld(c) THEN "closing" ELSE @]
    /\ UNCHANGED <<callVars, roomGen, bind, lGrant, jOwner, jFence, claims, denyVars,
                   rOwner, rFence, rClaims>>

-----------------------------------------------------------------------------
(* A child is ready when its grant is revoked, its operation complete and  *)
(* no cleanup action of it outstanding.                                    *)
ChildrenReady(i) ==
    \A g \in intent[i].children :
        /\ gState[g] = "revoked"
        /\ opState[g] = "complete"
        /\ \A x \in Actions : jState[<<g, x>>] \in {"none", "acked"}

ClaimRoom(i, w) ==
    /\ iState[i] = "pending"
    /\ intent[i].kind = "end"
    /\ ChildrenReady(i)
    /\ rState[i] \in {"pending", "claimed"}
    /\ rFence[i] < MaxFence
    /\ rState' = [rState EXCEPT ![i] = "claimed"]
    /\ rOwner' = [rOwner EXCEPT ![i] = w]
    /\ rFence' = [rFence EXCEPT ![i] = @ + 1]
    /\ rClaims' = rClaims \cup {[intent |-> i, worker |-> w, fence |-> rFence[i] + 1]}
    /\ UNCHANGED <<callVars, roomVars, grantVars, leaseVars, opVars, jobVars, denyVars, intentVars>>

RoomClaimCurrent(k) == rOwner[k.intent] = k.worker /\ rFence[k.intent] = k.fence

RecordRoomAcknowledgement(k) ==
    /\ RoomClaimCurrent(k)
    /\ rState[k.intent] = "claimed"
    /\ rState' = [rState EXCEPT ![k.intent] = "acked"]
    /\ UNCHANGED <<callVars, roomVars, grantVars, leaseVars, opVars, jobVars, denyVars, intentVars,
                   rOwner, rFence, rClaims>>

RetryRoom(k) ==
    /\ RoomClaimCurrent(k)
    /\ rState[k.intent] = "claimed"
    /\ rFence[k.intent] < MaxFence
    /\ rState' = [rState EXCEPT ![k.intent] = "pending"]
    /\ UNCHANGED <<callVars, roomVars, grantVars, leaseVars, opVars, jobVars, denyVars, intentVars,
                   rOwner, rFence, rClaims>>

-----------------------------------------------------------------------------
(* Finalize of a leave: its grant has been revoked.                        *)
FinalizeLeave(i) ==
    /\ iState[i] = "pending"
    /\ intent[i].kind = "leave"
    /\ ChildrenReady(i)
    /\ iState' = [iState EXCEPT ![i] = "complete"]
    /\ UNCHANGED <<callVars, roomVars, grantVars, leaseVars, opVars, jobVars, denyVars, intent,
                   roomJobVars>>

LeasesHeldInCall(c) ==
    {l \in Leases : lState[l] \in {"open", "closing"} /\ bind[lGrant[l]].call = c}

(* Nobody has joined the call since the end was requested.                 *)
RosterInSnapshot(i) == RowsOf(ActiveIn(intent[i].call)) \subseteq intent[i].parts

(* Finalize of an end whose media is known to be down: the participants of *)
(* the snapshot leave, the room closes and the call ends.                  *)
FinalizeEnd(i) ==
    LET c == intent[i].call IN
    /\ iState[i] = "pending"
    /\ intent[i].kind = "end"
    /\ intent[i].known
    /\ ChildrenReady(i)
    /\ roomState[c] = "closing"
    /\ rState[i] = "acked"
    /\ HeldInCall(c) = {}
    /\ LeasesHeldInCall(c) = {}
    /\ RosterInSnapshot(i)
    /\ callState[c] = "active"
    /\ part' = Update(part, {u \in ActiveIn(c) : <<u, row[u]>> \in intent[i].parts}, NoCall)
    /\ roomState' = [roomState EXCEPT ![c] = "closed"]
    /\ callState' = [callState EXCEPT ![c] = "ended"]
    /\ iState' = [iState EXCEPT ![i] = "complete"]
    /\ UNCHANGED <<creator, row, roomGen, grantVars, leaseVars, opVars, jobVars, denyVars, intent,
                   roomJobVars>>

ControlNext ==
    \/ \E i \in Intents, c \in Calls, a \in Authorities : RequestLeave(i, c, a)
    \/ \E i \in Intents, c \in Calls, u \in Users : RequestEnd(i, c, u)
    \/ \E i \in Intents, w \in Workers : ClaimRoom(i, w)
    \/ \E k \in rClaims : RecordRoomAcknowledgement(k)
    \/ \E k \in rClaims : RetryRoom(k)
    \/ \E i \in Intents : FinalizeLeave(i)
    \/ \E i \in Intents : FinalizeEnd(i)
=============================================================================

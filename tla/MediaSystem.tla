---------------------------- MODULE MediaSystem ----------------------------
(***************************************************************************)
(* The call repository, the media grant store and the media control        *)
(* coordinator of aero-rtc-control over one database: any number of        *)
(* service processes and workers issue their transactions in any order.    *)
(***************************************************************************)
EXTENDS MediaControl

Next == RepositoryNext \/ StoreNext \/ ControlNext

Spec == Init /\ [][Next]_vars

-----------------------------------------------------------------------------
(* A user occupies one media slot: no interleaving of Reserve, revoke,     *)
(* expiry and acknowledgement gives a user two grants that are not fully   *)
(* revoked.                                                                *)
OneHeldGrantPerUser ==
    \A g, h \in Grants : Held(g) /\ Held(h) /\ UserOf(g) = UserOf(h) => g = h

(* Once a deny event of identity or chat has been applied, no grant that   *)
(* could still admit media is covered by it, whether the grant was         *)
(* reserved before or after the event and in whatever order events of      *)
(* different revisions arrived.                                            *)
DenyIsEffective == \A g \in Grants : Revocable(g) => ~Denied(bind[g].auth)

(* With the slot guard, the legacy call transactions never pull the ground *)
(* from under a held grant: its call is active, its room generation is the *)
(* held one and the participant row it is bound to is the user's row.      *)
HeldSlotBacked ==
    Guarded => \A g \in Grants : Held(g) =>
        /\ callState[bind[g].call] = "active"
        /\ RoomHeld(bind[g].call) /\ roomGen[bind[g].call] = bind[g].room
        /\ part[UserOf(g)] = bind[g].call
        /\ row[UserOf(g)] = bind[g].row

(* A connection never outlives its grant: an open lease belongs to an      *)
(* active grant, a closing one to a grant being revoked whose proxy        *)
(* teardown is outstanding and aimed at this very lease.                   *)
NoLeaseOutlivesGrant ==
    \A l \in Leases :
        /\ lState[l] = "open" => gState[lGrant[l]] = "active"
        /\ lState[l] = "closing" => /\ gState[lGrant[l]] = "revoking"
                                    /\ target[lGrant[l]] = l
                                    /\ jState[<<lGrant[l], "proxy">>] \in {"pending", "claimed"}

(* An operation is reported complete only after every cleanup action of    *)
(* its grant was acknowledged; the one exception is a grant that expired   *)
(* before it was activated, which never had any.                           *)
CompleteMeansTornDown ==
    \A g \in Grants : opState[g] = "complete" =>
        /\ gState[g] = "revoked"
        /\ \/ jState[<<g, "sfu">>] = "acked" /\ jState[<<g, "proxy">>] # "pending"
                                             /\ jState[<<g, "proxy">>] # "claimed"
           \/ outcome[g] = "unchanged" /\ \A l \in Leases : lGrant[l] # g

(* The terminal barrier of a pending end: until it is finalized the call   *)
(* stays active, its room stays closing, nothing in it can be activated    *)
(* and nobody new has joined, so Finalize never finds a changed world.     *)
EndBarrier ==
    \A i \in Intents : iState[i] = "pending" /\ intent[i].kind = "end" =>
        LET c == intent[i].call IN
        /\ callState[c] = "active"
        /\ intent[i].known => roomState[c] = "closing"
        /\ \A g \in HeldInCall(c) : gState[g] = "revoking" /\ g \in intent[i].children
        /\ RosterInSnapshot(i)

(* The SFU room never carries more grants than the limit of the code.      *)
RoomCapacity ==
    \A c \in Calls : Cardinality(HeldInRoom(c, roomGen[c])) <= RoomLimit

(* What the sender of a deny event is told: the operation it gets belongs  *)
(* to a grant the event covers and says that authority was revoked, and no *)
(* operation says so without such an event.                                *)
ReceiptHonest ==
    \A g \in Grants :
        /\ \A e \in Events : receipt[e] = g => /\ Matches(e, bind[g].auth)
                                               /\ ~Revocable(g)
                                               /\ outcome[g] = "revoked"
        /\ outcome[g] = "revoked" => \E e \in Events : receipt[e] = g

(* A fence is handed out once: of two workers that were given the same     *)
(* cleanup action or room, at most one holds the fence the row records.    *)
FenceUnique ==
    /\ \A k, m \in claims : k.grant = m.grant /\ k.action = m.action /\ k.fence = m.fence => k = m
    /\ \A k, m \in rClaims : k.intent = m.intent /\ k.fence = m.fence => k = m

(* No claim is ahead of the fence its row records.                         *)
FenceBound ==
    /\ \A k \in claims : k.fence <= jFence[<<k.grant, k.action>>]
    /\ \A k \in rClaims : k.fence <= rFence[k.intent]

-----------------------------------------------------------------------------
(* The store implements the contract of the reference model: its grants    *)
(* move as the contract says, a lease is a connection, and the SFU is down *)
(* when its cleanup action has been acknowledged.                          *)
Contract == INSTANCE MediaContract WITH
    state <- gState,
    connected <- [g \in Grants |-> HeldLease(g) # {}],
    sfuDown <- [g \in Grants |-> jState[<<g, "sfu">>] = "acked"]

ImplementsContract == Contract!Spec

-----------------------------------------------------------------------------
(* A claim that would be accepted if it were acknowledged now.             *)
Claimed(g, x) == \E k \in claims : k.grant = g /\ k.action = x /\ Current(k)
RoomClaimed(i) == \E k \in rClaims : k.intent = i /\ RoomClaimCurrent(k)

(* A revoke can always be finished, whatever became of its claims: an      *)
(* action is left whose acknowledgement finishes it, the action can be     *)
(* claimed, and whoever has claimed it last is listened to.                *)
RevokeStaysOpen ==
    \A g \in Grants : gState[g] = "revoking" =>
        /\ opState[g] = "pending"
        /\ \E x \in Actions : jState[<<g, x>>] \in {"pending", "claimed"}
        /\ \A x \in Actions : jState[<<g, x>>] = "claimed" => Claimed(g, x)

(* A leave, and an end whose media is known, can always be finalized: it   *)
(* waits for revokes and then for the room, and for nothing else, as the   *)
(* rest of what Finalize asks for holds once they are there.               *)
RequestStaysOpen ==
    \A i \in Intents : iState[i] = "pending" /\ intent[i].known =>
        /\ ChildrenReady(i) \/ \E g \in intent[i].children : gState[g] = "revoking"
        /\ intent[i].kind = "end" /\ ChildrenReady(i) =>
              LET c == intent[i].call IN
              /\ \/ rState[i] \in {"pending", "acked"}
                 \/ rState[i] = "claimed" /\ RoomClaimed(i)
              /\ roomState[c] = "closing" /\ callState[c] = "active"
              /\ HeldInCall(c) = {} /\ LeasesHeldInCall(c) = {}
              /\ RosterInSnapshot(i)
=============================================================================

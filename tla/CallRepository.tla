--------------------------- MODULE CallRepository ---------------------------
(***************************************************************************)
(* The call and participant transactions of the aero-rtc-control           *)
(* repository (internal/storage/postgres/repository.go), with the media    *)
(* slot guard (media_slot_guard.go) in front of them when Guarded.         *)
(*                                                                         *)
(* A participant row is the pair <<user, serial>>: the unique index        *)
(* rtc_call_participants_active_user_idx lets a user have one active row   *)
(* at a time, so part[u] says where it is and row[u] which one it is.      *)
(***************************************************************************)
EXTENDS MediaLedger

mediaVars == <<roomVars, grantVars, leaseVars, opVars, jobVars, denyVars,
               intentVars, roomJobVars>>

(* ReleaseEndedParticipationByUserID: the row of a call that has ended     *)
(* does not stop the user from joining another one.                        *)
Free(u) == part[u] # NoCall => callState[part[u]] = "ended"

(* slotTransaction.allowLegacyJoin for a call that is being created.       *)
SlotAllowsCreate(u) == Guarded => HeldBy(u) = {}

(* slotTransaction.allowLegacyJoin for an existing call: a user with a     *)
(* held grant may only repeat the join its grant is bound to.              *)
SlotAllowsJoin(c, u) ==
    Guarded => \A g \in HeldBy(u) : /\ bind[g].call = c
                                    /\ gState[g] # "revoking"
                                    /\ part[u] = c
                                    /\ row[u] = bind[g].row

(* Mutant of SlotAllowsRelease: forgets that a grant pins its participant. *)
SlotAllowsRelease_skipped(S) == TRUE

(* slotTransaction.allowLegacyRelease: nobody in the discovered slot holds *)
(* a grant.                                                                *)
SlotAllowsRelease(S) == Guarded => \A u \in S : HeldBy(u) = {}

(* discoverSlot for a participant exit: the user itself, and everyone with *)
(* a held grant in the call when the exit may end it.                      *)
LeaveSlot(c, u) ==
    {u} \cup (IF Cardinality(ActiveIn(c)) <= 1 THEN {UserOf(g) : g \in HeldInCall(c)} ELSE {})

(* discoverSlot for the end of a call.                                     *)
EndSlot(c) == ActiveIn(c) \cup {UserOf(g) : g \in HeldInCall(c)}

(* CreateParticipant: a new row for u in c.                                *)
NewRow(u, c) == /\ row[u] < MaxRow
                /\ row' = [row EXCEPT ![u] = @ + 1]
                /\ part' = [part EXCEPT ![u] = c]

-----------------------------------------------------------------------------
CreateCallWithParticipant(c, u) ==
    /\ callState[c] = "none"
    /\ \A d \in Calls : ~(ScopeOf[d] = ScopeOf[c] /\ callState[d] = "active")
    /\ ScopeOf[c] \in Groups =>
          ~\E d \in Calls : ScopeOf[d] = ScopeOf[c] /\ EndPending(d)
    /\ part[u] # NoCall => ~EndPending(part[u])
    /\ SlotAllowsCreate(u)
    /\ Free(u)
    /\ callState' = [callState EXCEPT ![c] = "active"]
    /\ creator' = [creator EXCEPT ![c] = u]
    /\ NewRow(u, c)
    /\ UNCHANGED mediaVars

(* JoinParticipant of a user that is not in the call yet; a repeated join  *)
(* returns the row it has and changes nothing.                             *)
JoinParticipant(c, u) ==
    /\ SlotAllowsJoin(c, u)
    /\ callState[c] = "active"
    /\ ~EndPending(c)
    /\ Free(u)
    /\ NewRow(u, c)
    /\ UNCHANGED <<callState, creator, mediaVars>>

(* Mutant: the last exit does not end the call.                            *)
EndIfEmpty_never(c, S) == callState' = callState

(* Ends call c when S, the participants that remain, is empty.             *)
EndIfEmpty(c, S) ==
    callState' = IF S = {} /\ callState[c] = "active"
                   THEN [callState EXCEPT ![c] = "ended"] ELSE callState

(* Also the removal of a stale participant by rtc.Service: the caller      *)
(* names a row it has read, which may be gone by now.                      *)
LeaveParticipantAndMaybeEndCall(c, u) ==
    /\ part[u] = c
    /\ SlotAllowsRelease(LeaveSlot(c, u))
    /\ ~EndPending(c)
    /\ part' = [part EXCEPT ![u] = NoCall]
    /\ EndIfEmpty(c, ActiveIn(c) \ {u})
    /\ UNCHANGED <<creator, row, mediaVars>>

EndCallWithParticipants(c, u) ==
    /\ callState[c] = "active"
    /\ ~EndPending(c)
    /\ creator[c] = u
    /\ SlotAllowsRelease(EndSlot(c))
    /\ part' = Update(part, ActiveIn(c), NoCall)
    /\ callState' = [callState EXCEPT ![c] = "ended"]
    /\ UNCHANGED <<creator, row, mediaVars>>

RepositoryNext ==
    \E c \in Calls, u \in Users :
        \/ CreateCallWithParticipant(c, u)
        \/ JoinParticipant(c, u)
        \/ LeaveParticipantAndMaybeEndCall(c, u)
        \/ EndCallWithParticipants(c, u)
=============================================================================

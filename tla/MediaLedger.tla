---------------------------- MODULE MediaLedger ----------------------------
(***************************************************************************)
(* The tables of the aero-rtc-control database: calls and call             *)
(* participants (db/schema/000000), the dormant media grant store          *)
(* (000001) and the media control coordinator (000003).  Every repository  *)
(* method runs in one transaction that first locks the call row, then the  *)
(* room, then the mutex row of each user it touches, so a committed        *)
(* transaction is one step here and a refused or rolled back one is no     *)
(* step at all.                                                            *)
(*                                                                         *)
(* Clocks: the store compares deadlines with a time its caller passes in,  *)
(* and callers' clocks are not synchronised.  A deadline is therefore a    *)
(* free choice: an action that needs "before" and one that needs "after"   *)
(* are both possible, in any order.                                        *)
(***************************************************************************)
EXTENDS Naturals, FiniteSets

CONSTANTS
    Users, Calls, Groups,
    Scopes,       \* what a call is held in: a group or a direct chat
    ScopeOf,      \* the scope a call is created in
    Subjects,     \* session/device pairs, devices and groups that can be denied
    Authorities,  \* authorities a caller may present when it reserves
    Events,       \* deny events of aero-identity and aero-chat
    Grants,       \* request ids of Reserve; a request id has at most one grant
    Leases,       \* media connection ids
    Workers,      \* cleanup workers
    Intents,      \* (actor, request id) pairs of leave and end requests
    OldCalls,     \* calls that ended before this version; rows may be left over
    Guarded,      \* the mediaSlotGuard constructor policy
    RoomLimit,    \* 4 in the code
    MaxRow, MaxGen, MaxFence,   \* bounds of the model, see the README
    NoCall, NoUser, NoGrant, NoLease, NoWorker, NoAuthority, NoReceipt

Kinds == {"session", "device", "group"}
Actions == {"sfu", "proxy"}

Authority == [user: Users, subject: [Kinds -> Subjects], rev: [Kinds -> Nat \ {0}]]
SourceEvent == [id: Nat, kind: Kinds, subject: Subjects, user: Users, rev: Nat \ {0}]

ASSUME ScopeAssumption == /\ Groups \subseteq Scopes
                          /\ Groups \subseteq Subjects
                          /\ ScopeOf \in [Calls -> Scopes]
                          /\ OldCalls \subseteq Calls
ASSUME AuthorityAssumption == /\ Authorities \subseteq Authority
                              /\ Events \subseteq SourceEvent
ASSUME NoneAssumption == /\ NoCall \notin Calls
                         /\ NoUser \notin Users
                         /\ NoGrant \notin Grants
                         /\ NoLease \notin Leases
                         /\ NoWorker \notin Workers
                         /\ NoAuthority \notin Authorities
                         /\ NoReceipt \notin Grants \cup {NoGrant}
ASSUME BoundAssumption == /\ Guarded \in BOOLEAN
                          /\ RoomLimit \in Nat \ {0}
                          /\ MaxRow \in Nat
                          /\ MaxGen \in Nat
                          /\ MaxFence \in Nat

VARIABLES
    callState, creator,        \* rtc_calls
    part, row,                 \* rtc_call_participants: active call, latest row of a user
    roomGen, roomState,        \* rtc_media_rooms: latest generation and its state
    gState, bind,              \* rtc_media_grants: state and immutable binding
    lState, lGrant,            \* rtc_media_connection_leases
    opState, outcome, target,  \* rtc_media_operations and their lease target
    jState, jOwner, jFence,    \* rtc_media_cleanup_outbox
    claims,                    \* cleanup claims handed to workers so far
    mark,                      \* rtc_media_deny_watermarks, 0 when absent
    receipt,                   \* rtc_media_source_inbox: operation of an applied event
    iState, intent,            \* rtc_media_control_intents with their snapshots
    rState, rOwner, rFence,    \* rtc_media_control_rooms
    rClaims                    \* room claims handed to workers so far

callVars == <<callState, creator, part, row>>
roomVars == <<roomGen, roomState>>
grantVars == <<gState, bind>>
leaseVars == <<lState, lGrant>>
opVars == <<opState, outcome, target>>
jobVars == <<jState, jOwner, jFence, claims>>
denyVars == <<mark, receipt>>
intentVars == <<iState, intent>>
roomJobVars == <<rState, rOwner, rFence, rClaims>>
vars == <<callVars, roomVars, grantVars, leaseVars, opVars, jobVars, denyVars,
          intentVars, roomJobVars>>

-----------------------------------------------------------------------------
Jobs == Grants \X Actions
Marks == Kinds \X Subjects \X Users
Claim == [grant: Grants, action: Actions, worker: Workers, fence: Nat]
RoomClaim == [intent: Intents, worker: Workers, fence: Nat]
Binding == [call: Calls, row: Nat, room: Nat, auth: Authorities]
NoBinding == [call |-> NoCall, row |-> 0, room |-> 0, auth |-> NoAuthority]
Snapshot == [kind: {"leave", "end"}, call: Calls, actor: Users, known: BOOLEAN,
             children: SUBSET Grants, parts: SUBSET (Users \X Nat)]
NoSnapshot == [kind |-> "none", call |-> NoCall, actor |-> NoUser, known |-> FALSE,
               children |-> {}, parts |-> {}]

TypeOK ==
    /\ callState \in [Calls -> {"none", "active", "ended"}]
    /\ creator \in [Calls -> Users \cup {NoUser}]
    /\ part \in [Users -> Calls \cup {NoCall}]
    /\ row \in [Users -> Nat]
    /\ roomGen \in [Calls -> Nat]
    /\ roomState \in [Calls -> {"none", "prepared", "active", "closing", "closed"}]
    /\ gState \in [Grants -> {"none", "prepared", "active", "revoking", "revoked"}]
    /\ bind \in [Grants -> Binding \cup {NoBinding}]
    /\ lState \in [Leases -> {"none", "open", "closing", "closed"}]
    /\ lGrant \in [Leases -> Grants \cup {NoGrant}]
    /\ opState \in [Grants -> {"none", "pending", "complete"}]
    /\ outcome \in [Grants -> {"none", "unchanged", "unavailable", "revoked"}]
    /\ target \in [Grants -> Leases \cup {NoLease}]
    /\ jState \in [Jobs -> {"none", "pending", "claimed", "acked"}]
    /\ jOwner \in [Jobs -> Workers \cup {NoWorker}]
    /\ jFence \in [Jobs -> Nat]
    /\ claims \subseteq Claim
    /\ mark \in [Marks -> Nat]
    /\ receipt \in [Events -> Grants \cup {NoGrant, NoReceipt}]
    /\ iState \in [Intents -> {"none", "pending", "complete"}]
    /\ intent \in [Intents -> Snapshot \cup {NoSnapshot}]
    /\ rState \in [Intents -> {"none", "pending", "claimed", "acked"}]
    /\ rOwner \in [Intents -> Workers \cup {NoWorker}]
    /\ rFence \in [Intents -> Nat]
    /\ rClaims \subseteq RoomClaim
    /\ \A g \in Grants : gState[g] # "none" => bind[g] \in Binding

(* A database that this version of the service starts on: no media state   *)
(* yet, possibly active participant rows of calls that ended long ago.     *)
Init ==
    /\ callState = [c \in Calls |-> IF c \in OldCalls THEN "ended" ELSE "none"]
    /\ creator \in [Calls -> Users \cup {NoUser}]
    /\ \A c \in Calls : creator[c] = NoUser <=> c \notin OldCalls
    /\ part \in [Users -> OldCalls \cup {NoCall}]
    /\ row = [u \in Users |-> 0]
    /\ roomGen = [c \in Calls |-> 0]
    /\ roomState = [c \in Calls |-> "none"]
    /\ gState = [g \in Grants |-> "none"]
    /\ bind = [g \in Grants |-> NoBinding]
    /\ lState = [l \in Leases |-> "none"]
    /\ lGrant = [l \in Leases |-> NoGrant]
    /\ opState = [g \in Grants |-> "none"]
    /\ outcome = [g \in Grants |-> "none"]
    /\ target = [g \in Grants |-> NoLease]
    /\ jState = [j \in Jobs |-> "none"]
    /\ jOwner = [j \in Jobs |-> NoWorker]
    /\ jFence = [j \in Jobs |-> 0]
    /\ claims = {}
    /\ mark = [m \in Marks |-> 0]
    /\ receipt = [e \in Events |-> NoReceipt]
    /\ iState = [i \in Intents |-> "none"]
    /\ intent = [i \in Intents |-> NoSnapshot]
    /\ rState = [i \in Intents |-> "none"]
    /\ rOwner = [i \in Intents |-> NoWorker]
    /\ rFence = [i \in Intents |-> 0]
    /\ rClaims = {}

-----------------------------------------------------------------------------
(* Queries shared by the stores.                                           *)

UserOf(g) == bind[g].auth.user
Held(g) == gState[g] \in {"prepared", "active", "revoking"}

(* Mutant: a grant that is being revoked no longer occupies the slot.      *)
HeldBy_notRevoking(u) ==
    {g \in Grants : gState[g] \in {"prepared", "active"} /\ UserOf(g) = u}

HeldBy(u) == {g \in Grants : Held(g) /\ UserOf(g) = u}
HeldInCall(c) == {g \in Grants : Held(g) /\ bind[g].call = c}
HeldInRoom(c, n) == {g \in HeldInCall(c) : bind[g].room = n}
RoomHeld(c) == roomState[c] \in {"prepared", "active", "closing"}
ActiveIn(c) == {u \in Users : part[u] = c}
HeldLease(g) == {l \in Leases : lGrant[l] = g /\ lState[l] \in {"open", "closing"}}

(* The authority is at or below a deny watermark of its session, device or *)
(* group.                                                                  *)
Denied(a) == \E k \in Kinds : mark[<<k, a.subject[k], a.user>>] >= a.rev[k]

(* Mutant: an event of the very revision of the authority does not match.  *)
Matches_strict(e, a) == /\ e.user = a.user
                        /\ e.subject = a.subject[e.kind]
                        /\ a.rev[e.kind] < e.rev

(* SourceEvent.Matches: the event is about this authority and not older.   *)
Matches(e, a) == /\ e.user = a.user
                 /\ e.subject = a.subject[e.kind]
                 /\ a.rev[e.kind] <= e.rev

(* Mutant: a pending end holds nobody up.                                  *)
EndPending_ignored(c) == FALSE

(* mediaEndPending: the call has a durable end request.                    *)
EndPending(c) == \E i \in Intents : /\ iState[i] = "pending"
                                    /\ intent[i].kind = "end"
                                    /\ intent[i].call = c

(* The participant row that user u holds while part[u] is a call.          *)
RowActive(u, n) == part[u] # NoCall /\ row[u] = n

Update(f, S, v) == [x \in DOMAIN f |-> IF x \in S THEN v ELSE f[x]]
=============================================================================

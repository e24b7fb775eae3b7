-------------------------- MODULE SlotTransactions --------------------------
(***************************************************************************)
(* What the media slot guard of aero-rtc-control promises: a request that  *)
(* takes a place in a call, gives it up, or reserves or releases a grant   *)
(* is executed in one step that decides on the rows as they are, or it     *)
(* changes nothing.                                                        *)
(*                                                                         *)
(* Modules CallRepository and MediaStore have the whole of these           *)
(* transactions as single steps.  This one has the part of them that the   *)
(* guard decides on, for module SlotLocks to show that they may be taken   *)
(* for single steps.                                                       *)
(***************************************************************************)
EXTENDS Naturals, FiniteSets

CONSTANTS
    Procs,              \* requests that are executed at the same time
    UserIds, CallIds,   \* numbers: the guard sorts what it locks
    MaxHolds,           \* grants ever reserved
    NoPlace, NoHold, NoWish

\* A grant that is held: a room is named by the first grant in it.
Hold == [id: 1..MaxHolds, call: CallIds, room: 1..MaxHolds]

SlotRequest ==
    [op: {"create", "join", "leave", "reserve"}, call: CallIds, user: UserIds]
        \cup [op: {"end"}, call: CallIds]
        \cup [op: {"release"}, call: CallIds, user: UserIds, grant: Hold]

ASSUME SlotAssumption ==
    /\ UserIds \subseteq Nat /\ CallIds \subseteq Nat /\ MaxHolds \in Nat
    /\ NoPlace \notin CallIds /\ NoHold \notin Hold /\ NoWish \notin SlotRequest

VARIABLES
    status,     \* rtc_calls.status
    place,      \* the call of a user's active row in rtc_call_participants
    held,       \* the grant of a user that is not revoked
    room,       \* the room of a call that is not closed, 0 for none
    serial,     \* grants reserved so far
    wish        \* requests that are not answered yet

rowVars == <<status, place, held, room, serial>>
slotVars == <<rowVars, wish>>

SlotInit ==
    /\ status = [c \in CallIds |-> "none"]
    /\ place = [u \in UserIds |-> NoPlace]
    /\ held = [u \in UserIds |-> NoHold]
    /\ room = [c \in CallIds |-> 0]
    /\ serial = 0
    /\ wish = [p \in Procs |-> NoWish]

-----------------------------------------------------------------------------
Present(c) == {u \in UserIds : place[u] = c}
ActiveCalls == {c \in CallIds : status[c] = "active"}
Holders(c) == {u \in UserIds : held[u] # NoHold /\ held[u].call = c}

(* CreateCallWithParticipant, JoinParticipant and EndCallWithParticipants: *)
(* a row of the user in a call that has ended is released on the way.      *)
Creates(u, c) ==
    /\ status' = [status EXCEPT ![c] = "active"]
    /\ place' = [place EXCEPT ![u] = c]
    /\ UNCHANGED <<held, room, serial>>

Joins(u, c) ==
    /\ place' = [place EXCEPT ![u] = c]
    /\ UNCHANGED <<status, held, room, serial>>

Ends(c) ==
    /\ place' = [v \in UserIds |-> IF place[v] = c THEN NoPlace ELSE place[v]]
    /\ status' = [status EXCEPT ![c] = "ended"]
    /\ UNCHANGED <<held, room, serial>>

(* LeaveParticipant, and EndCall when nobody is left.                      *)
Departs(u, c) ==
    /\ place' = [place EXCEPT ![u] = IF @ = c THEN NoPlace ELSE @]
    /\ status' = [status EXCEPT ![c] =
                     IF @ = "active" /\ Present(c) \subseteq {u} THEN "ended" ELSE @]

(* LeaveParticipantAndMaybeEndCall of somebody who is in the call.         *)
Leaves(u, c) == place[u] = c /\ Departs(u, c) /\ UNCHANGED <<held, room, serial>>

Reserves(u, c) ==
    /\ serial < MaxHolds
    /\ serial' = serial + 1
    /\ room' = [room EXCEPT ![c] = IF @ = 0 THEN serial + 1 ELSE @]
    /\ held' = [held EXCEPT ![u] = [id |-> serial + 1, call |-> c, room |-> room'[c]]]
    /\ place' = [place EXCEPT ![u] = c]
    /\ UNCHANGED status

(* The last acknowledgement of a grant, or its expiry, with                *)
(* finishMediaParticipation.  The participant row of the grant is the one  *)
(* its user has in the call: the guard lets nobody go who holds a grant.   *)
Releases(u, c) ==
    /\ held' = [held EXCEPT ![u] = NoHold]
    /\ Departs(u, c)
    /\ room' = [room EXCEPT ![c] = IF Holders(c) = {u} THEN 0 ELSE @]
    /\ UNCHANGED serial

(* The writes of a request, once they are permitted.                       *)
Writes(q) ==
    LET c == q.call u == q.user IN
    CASE q.op = "create" -> Creates(u, c)
      [] q.op = "join" -> Joins(u, c)
      [] q.op = "leave" -> Leaves(u, c)
      [] q.op = "end" -> Ends(c)
      [] q.op = "reserve" -> Reserves(u, c)
      [] q.op = "release" -> held[u] = q.grant /\ Releases(u, c)

-----------------------------------------------------------------------------
(* What the guard permits on rows as it has seen them: which calls are     *)
(* active, and the participation and the grant of the users it has asked   *)
(* about.                                                                  *)
Elsewhere(q, active, p) == p[q.user] \in active \ {q.call}

(* allowLegacyJoin, allowReserve, allowLegacyRelease and the checks of     *)
(* lockedGrant; and the status of the call itself.                         *)
Permits(q, active, p, h) ==
    CASE q.op = "create" -> h[q.user] = NoHold /\ ~Elsewhere(q, active, p)
      [] q.op = "join" -> /\ q.call \in active
                          /\ IF h[q.user] # NoHold
                               THEN h[q.user].call = q.call /\ p[q.user] = q.call
                               ELSE ~Elsewhere(q, active, p)
      [] q.op = "reserve" -> /\ q.call \in active
                             /\ h[q.user] = NoHold
                             /\ ~Elsewhere(q, active, p)
      [] q.op = "leave" -> \A u \in DOMAIN h : h[u] = NoHold
      [] q.op = "end" -> q.call \in active /\ \A u \in DOMAIN h : h[u] = NoHold
      [] q.op = "release" -> h[q.user] = q.grant

(* The users a request is about, given who is in its call and who holds a  *)
(* grant in it.                                                            *)
SlotUsers(q, active, holders) ==
    CASE q.op = "end" -> active \cup holders
      [] q.op = "leave" -> {q.user} \cup (IF Cardinality(active) <= 1 THEN holders ELSE {})
      [] OTHER -> {q.user}

-----------------------------------------------------------------------------
(* A call is named by those who know it, a new one by an id of its own.    *)
Asks(p, q) ==
    /\ wish[p] = NoWish
    /\ IF q.op = "create"
         THEN status[q.call] = "none" /\ \A r \in Procs : wish[r] # NoWish => wish[r].call # q.call
         ELSE status[q.call] # "none"
    /\ q.op = "release" => held[q.user] = q.grant /\ q.call = q.grant.call
    /\ wish' = [wish EXCEPT ![p] = q]
    /\ UNCHANGED rowVars

Performs(p) ==
    LET q == wish[p]
        users == SlotUsers(q, Present(q.call), Holders(q.call))
    IN  /\ q # NoWish
        /\ Permits(q, ActiveCalls, place, [u \in users |-> held[u]])
        /\ Writes(q)
        /\ wish' = [wish EXCEPT ![p] = NoWish]

Refuses(p) ==
    /\ wish[p] # NoWish
    /\ wish' = [wish EXCEPT ![p] = NoWish]
    /\ UNCHANGED rowVars

SlotNext ==
    \E p \in Procs : \/ Performs(p) \/ Refuses(p)
                     \/ wish'[p] \in SlotRequest /\ Asks(p, wish'[p])

SlotSpec == SlotInit /\ [][SlotNext]_slotVars

-----------------------------------------------------------------------------
(* Who holds a grant is in its call, and the call is active: no request    *)
(* takes the row away that the release of the grant will leave.            *)
HoldsArePlaced ==
    \A u \in UserIds : held[u] # NoHold =>
        place[u] = held[u].call /\ status[held[u].call] = "active"
=============================================================================

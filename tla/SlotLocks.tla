------------------------------ MODULE SlotLocks ------------------------------
(***************************************************************************)
(* The media slot guard (internal/storage/postgres/media_slot_guard.go).   *)
(* A transaction has to lock the rows of all the calls, rooms and users it *)
(* may touch, calls before rooms before users and in the order of their    *)
(* ids, but which rows these are it has to find out by reading.  So it     *)
(* reads without locks (discoverSlot), locks what it has found, reads      *)
(* again, and begins anew when the two do not agree, three times at most.  *)
(* Every read is a query of its own, and other transactions commit between *)
(* any two of them; the reads of one user, and those of the rooms, are     *)
(* taken together.                                                         *)
(*                                                                         *)
(* lockedGrant of the media store locks the call, the room and the user of *)
(* a grant, which never change, without discovering them.                  *)
(***************************************************************************)
EXTENDS SlotTransactions, Functions

CONSTANT Attempts     \* of retrySlot

ASSUME AttemptsAssumption == Attempts \in Nat \ {0}

VARIABLES
    tx,     \* how far the transaction of a request has come
    owner   \* the locked rows, and the request that has each

lockVars == <<slotVars, tx, owner>>

(* A row that is locked: its kind and its id.                              *)
CallRow(c) == <<1, c>>
RoomRow(r) == <<2, r>>
UserRow(u) == <<3, u>>

(* Mutant: the rows are locked as they were found.                         *)
Precedes_found(r, s) == FALSE

(* sortedSlotIDs, and calls before rooms before users.                     *)
Precedes(r, s) == r[1] < s[1] \/ (r[1] = s[1] /\ r[2] < s[2])

(* What a discovery has found so far: the users it still has to ask about, *)
(* the rows, and the participations and grants of its users.               *)
NotFound == [todo |-> {}, rows |-> {}, place |-> <<>>, held |-> <<>>]

(* A transaction: its next step, its discovery, the rows it has to lock,   *)
(* which of the locked calls are active, and the attempts made before it.  *)
Fresh == [pc |-> "call", found |-> NotFound, plan |-> {}, active |-> {}, tries |-> 0]

LockInit == SlotInit /\ tx = [p \in Procs |-> Fresh] /\ owner = <<>>

(* Function f with value v at x, where it may not have had one.            *)
Extended(f, x, v) == [y \in DOMAIN f \cup {x} |-> IF y = x THEN v ELSE f[y]]

At(p, pc) == wish[p] # NoWish /\ tx[p].pc = pc
Quiet == UNCHANGED <<slotVars, owner>>

Locked(p) == {r \in DOMAIN owner : owner[r] = p}
Unlocks(p) == owner' = Restrict(owner, DOMAIN owner \ Locked(p))

-----------------------------------------------------------------------------
(* The binding of a grant, read before the transaction of lockedGrant.     *)
ReadGrant(p) ==
    LET g == wish[p].grant IN
    /\ At(p, "call") /\ wish[p].op = "release"
    /\ tx' = [tx EXCEPT ![p].pc = "lock",
                        ![p].plan = {CallRow(g.call), RoomRow(g.room), UserRow(wish[p].user)}]
    /\ Quiet

(* discoverSlot, before the rows are locked and when all of them are: who  *)
(* is in the call and who holds a grant in it.  lockedGrant reads only     *)
(* then.                                                                   *)
ReadCall(p) ==
    LET q == wish[p]
        users == SlotUsers(q, Present(q.call), Holders(q.call))
        call == IF q.op = "create" THEN {} ELSE {CallRow(q.call)}
    IN  /\ \/ At(p, "call") /\ q.op # "release"
           \/ At(p, "lock") /\ tx[p].plan \subseteq Locked(p)
        /\ tx' = [tx EXCEPT ![p].pc = "user",
                            ![p].found = [NotFound EXCEPT !.todo = users,
                                              !.rows = call \cup {UserRow(u) : u \in users}]]
        /\ Quiet

(* One more of the users, in the order in which Go goes through a map.     *)
ReadUser(p, u) ==
    LET g == held[u]
        call == IF place[u] = NoPlace THEN {} ELSE {CallRow(place[u])}
        grant == IF g = NoHold THEN {} ELSE {CallRow(g.call), RoomRow(g.room)}
    IN  /\ At(p, "user") /\ u \in tx[p].found.todo
        /\ tx' = [tx EXCEPT ![p].found =
                     [todo |-> @.todo \ {u}, rows |-> @.rows \cup call \cup grant,
                      place |-> Extended(@.place, u, place[u]), held |-> Extended(@.held, u, g)]]
        /\ Quiet

(* The rooms of the calls end a discovery; the first one says what to lock.*)
ReadRooms(p) ==
    LET calls == {c \in CallIds : CallRow(c) \in tx[p].found.rows /\ room[c] # 0}
        rows == tx[p].found.rows \cup {RoomRow(room[c]) : c \in calls}
    IN  /\ At(p, "user") /\ tx[p].found.todo = {}
        /\ tx' = IF tx[p].plan = {}
                   THEN [tx EXCEPT ![p].pc = "lock", ![p].plan = rows, ![p].found = NotFound]
                   ELSE [tx EXCEPT ![p].pc = "found", ![p].found.rows = rows]
        /\ Quiet

-----------------------------------------------------------------------------
(* The next row is locked; the status of a call is remembered.             *)
NextRows(p) ==
    LET left == tx[p].plan \ Locked(p) IN {r \in left : \A s \in left : ~Precedes(s, r)}

LockRow(p) ==
    /\ At(p, "lock")
    /\ \E r \in NextRows(p) :
          /\ r \notin DOMAIN owner
          /\ owner' = Extended(owner, r, p)
          /\ tx' = IF r[1] = 1
                     THEN [tx EXCEPT ![p].active = @ \cup ({r[2]} \cap ActiveCalls)]
                     ELSE tx
    /\ UNCHANGED slotVars

(* Mutant: what was found without locks is trusted.                        *)
Agrees_trusting(p) == TRUE

(* The second discovery has found the same rows; lockedGrant looks at its  *)
(* grant alone.                                                            *)
Agrees(p) == wish[p].op = "release" \/ tx[p].found.rows = tx[p].plan

(* The request is answered, its transaction committed or rolled back.      *)
Responds(p) ==
    /\ wish' = [wish EXCEPT ![p] = NoWish]
    /\ tx' = [tx EXCEPT ![p] = Fresh]
    /\ Unlocks(p)

Permitted(p) == Permits(wish[p], tx[p].active, tx[p].found.place, tx[p].found.held)

Commit(p) ==
    /\ At(p, "found")
    /\ Agrees(p) /\ Permitted(p)
    /\ Writes(wish[p])
    /\ Responds(p)

(* errSlotParentsChanged, and retrySlot.                                   *)
BeginAgain(p) ==
    /\ At(p, "found")
    /\ ~Agrees(p)
    /\ tx[p].tries + 1 < Attempts
    /\ tx' = [tx EXCEPT ![p] = [Fresh EXCEPT !.tries = tx[p].tries + 1]]
    /\ Unlocks(p)
    /\ UNCHANGED slotVars

(* The request is refused: by the guard, by a query that fails or writes   *)
(* nothing, by a context that is cancelled, after the last attempt.        *)
Fail(p) ==
    /\ wish[p] # NoWish
    /\ Responds(p)
    /\ UNCHANGED rowVars

-----------------------------------------------------------------------------
Ask(p) == (\E q \in SlotRequest : Asks(p, q)) /\ UNCHANGED <<tx, owner>>

Query(p) == \/ ReadGrant(p) \/ ReadCall(p) \/ ReadRooms(p)
            \/ \E u \in UserIds : ReadUser(p, u)

LockStep(p) == Query(p) \/ LockRow(p) \/ Commit(p) \/ BeginAgain(p) \/ Fail(p)

LockNext == \E p \in Procs : Ask(p) \/ LockStep(p)

LockSpec == LockInit /\ [][LockNext]_lockVars

-----------------------------------------------------------------------------
(* Whatever a transaction has read too early, it commits only what one     *)
(* step on the rows as they are when it commits would do.                  *)
OneStepEach == SlotSpec

(* No requests wait for each other's rows.                                 *)
Waits(p, W) ==
    /\ At(p, "lock") /\ NextRows(p) # {}
    /\ \A r \in NextRows(p) : r \in DOMAIN owner /\ owner[r] \in W

NoCircularWait == \A W \in (SUBSET Procs) \ {{}} : \E p \in W : ~Waits(p, W)
=============================================================================

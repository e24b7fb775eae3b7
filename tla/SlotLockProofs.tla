--------------------------- MODULE SlotLockProofs ---------------------------
(***************************************************************************)
(* Proofs about SlotLocks, for any number of requests, users, calls,       *)
(* grants and attempts.                                                    *)
(***************************************************************************)
EXTENDS SlotLocks, TLAPS

-----------------------------------------------------------------------------
(* The rows and the requests.                                              *)
RowsOK ==
    /\ status \in [CallIds -> {"none", "active", "ended"}]
    /\ place \in [UserIds -> CallIds \cup {NoPlace}]
    /\ held \in [UserIds -> Hold \cup {NoHold}]
    /\ room \in [CallIds -> 0..MaxHolds]
    /\ serial \in 0..MaxHolds
    /\ wish \in [Procs -> SlotRequest \cup {NoWish}]

(* Nobody is in a call that was not created, nor has a grant for it.       *)
CallsExist ==
    \A u \in UserIds : /\ place[u] # NoPlace => status[place[u]] # "none"
                       /\ held[u] # NoHold => status[held[u].call] # "none"

(* A request knows its call, and the one that is to create a call is the   *)
(* only one that does.                                                     *)
WishesOK ==
    \A p \in Procs : wish[p] # NoWish =>
        /\ IF wish[p].op = "create"
             THEN /\ status[wish[p].call] = "none"
                  /\ \A r \in Procs : wish[r] # NoWish /\ wish[r].call = wish[p].call => r = p
             ELSE status[wish[p].call] # "none"
        /\ wish[p].op = "release" => wish[p].call = wish[p].grant.call

-----------------------------------------------------------------------------
(* The transactions.                                                       *)
LockRows == {1, 2, 3} \X Nat
PlacesFound == UNION {[S -> CallIds \cup {NoPlace}] : S \in SUBSET UserIds}
HoldsFound == UNION {[S -> Hold \cup {NoHold}] : S \in SUBSET UserIds}
Found == [todo: SUBSET UserIds, rows: SUBSET LockRows, place: PlacesFound, held: HoldsFound]
Transaction == [pc: {"call", "user", "lock", "found"}, found: Found, plan: SUBSET LockRows,
                active: SUBSET CallIds, tries: Nat]

TxTypes == /\ tx \in [Procs -> Transaction]
           /\ DOMAIN owner \subseteq LockRows
           /\ \A r \in DOMAIN owner : owner[r] \in Procs

(* What a transaction has locked, and what it remembers of its calls.      *)
LocksOK(p) ==
    LET t == tx[p] q == wish[p] IN
    /\ q = NoWish => t = Fresh
    /\ Locked(p) \subseteq t.plan
    /\ t.pc = "call" => t.plan = {}
    /\ t.pc \in {"lock", "found"} => t.plan # {}
    /\ t.plan # {} /\ t.pc # "lock" => t.plan \subseteq Locked(p)
    /\ t.plan # {} /\ q.op # "create" => CallRow(q.call) \in t.plan
    /\ t.plan # {} /\ q.op = "release" => UserRow(q.user) \in t.plan
    /\ \A c \in CallIds :
          /\ CallRow(c) \in t.plan \cup t.found.rows => status[c] # "none"
          /\ c \in t.active <=> CallRow(c) \in Locked(p) /\ status[c] = "active"

(* What it has found: every row it will have to lock, and, once it has     *)
(* locked what it found first, the participations and the grants of the    *)
(* users whose rows these are, as long as it has them.                     *)
FoundOK(p) ==
    LET t == tx[p]
        f == tx[p].found
        q == wish[p]
        users == f.todo \cup DOMAIN f.place
    IN  /\ DOMAIN f.held = DOMAIN f.place
        /\ t.pc = "found" => f.todo = {}
        /\ t.pc \in {"user", "found"} =>
              /\ q.op # "create" => CallRow(q.call) \in f.rows
              /\ q.op # "end" => q.user \in users
              /\ \A u \in users : UserRow(u) \in f.rows
              /\ \A u \in DOMAIN f.place : f.place[u] # NoPlace => CallRow(f.place[u]) \in f.rows
              /\ t.plan # {} =>
                    /\ users = SlotUsers(q, Present(q.call), Holders(q.call))
                    /\ \A u \in DOMAIN f.place : UserRow(u) \in t.plan =>
                          f.place[u] = place[u] /\ f.held[u] = held[u]

LockInv == /\ RowsOK /\ CallsExist /\ WishesOK /\ TxTypes
           /\ \A p \in Procs : LocksOK(p) /\ FoundOK(p)

-----------------------------------------------------------------------------
(* Rows of different kinds or ids are different rows.                      *)
LEMMA RowsDiffer ==
    /\ \A x, y : /\ CallRow(x) = CallRow(y) => x = y
                 /\ UserRow(x) = UserRow(y) => x = y
                 /\ RoomRow(x) = RoomRow(y) => x = y
                 /\ CallRow(x) # UserRow(y)
                 /\ CallRow(x) # RoomRow(y)
                 /\ UserRow(x) # RoomRow(y)
                 /\ CallRow(x)[1] = 1 /\ CallRow(x)[2] = x
    /\ \A c \in CallIds : CallRow(c) \in LockRows
    /\ \A u \in UserIds : UserRow(u) \in LockRows
    /\ \A n \in Nat : RoomRow(n) \in LockRows
  BY SlotAssumption DEF CallRow, UserRow, RoomRow, LockRows

(* What Extended and Restrict return.                                      *)
LEMMA ExtendedAt ==
    ASSUME NEW f, NEW x, NEW v
    PROVE  /\ DOMAIN Extended(f, x, v) = DOMAIN f \cup {x}
           /\ Extended(f, x, v)[x] = v
           /\ \A y \in DOMAIN f : y # x => Extended(f, x, v)[y] = f[y]
  BY DEF Extended

LEMMA ExtendedFound ==
    ASSUME NEW D, NEW R, NEW f \in UNION {[S -> R] : S \in SUBSET D}, NEW x \in D, NEW v \in R
    PROVE  Extended(f, x, v) \in UNION {[S -> R] : S \in SUBSET D}
<1>1. PICK S \in SUBSET D : f \in [S -> R]
  OBVIOUS
<1>2. Extended(f, x, v) \in [S \cup {x} -> R]
  BY <1>1 DEF Extended
<1>3. QED
  BY <1>2

LEMMA FreshTypes ==
    /\ NotFound \in Found
    /\ DOMAIN NotFound.place = {} /\ DOMAIN NotFound.held = {}
    /\ Fresh \in Transaction
<1>1. <<>> \in [{} -> CallIds \cup {NoPlace}] /\ <<>> \in [{} -> Hold \cup {NoHold}] /\ DOMAIN <<>> = {}
  OBVIOUS
<1>2. <<>> \in PlacesFound /\ <<>> \in HoldsFound
  BY <1>1 DEF PlacesFound, HoldsFound
<1>3. QED
  BY <1>1, <1>2 DEF NotFound, Fresh, Found, Transaction

LEMMA UnlocksEffect ==
    ASSUME NEW p \in Procs, Unlocks(p)
    PROVE  /\ DOMAIN owner' \subseteq DOMAIN owner
           /\ \A r \in DOMAIN owner' : owner'[r] = owner[r]
           /\ Locked(p)' = {}
           /\ \A s \in Procs : s # p => Locked(s)' = Locked(s)
  BY DEF Unlocks, Restrict, Locked

LEMMA RequestFields ==
    ASSUME NEW q \in SlotRequest
    PROVE  /\ q.op \in {"create", "join", "leave", "reserve", "end", "release"}
           /\ q.call \in CallIds
           /\ q.op # "end" => q.user \in UserIds
           /\ q.op = "release" => q.grant \in Hold
  BY DEF SlotRequest

-----------------------------------------------------------------------------
(* When a transaction commits, what it goes by is what the rows say, and   *)
(* it has locked whatever its request is about.                            *)
LEMMA CommitReads ==
    ASSUME LockInv, NEW p \in Procs, Commit(p)
    PROVE  LET q == wish[p]
               users == SlotUsers(q, Present(q.call), Holders(q.call)) IN
           /\ q \in SlotRequest
           /\ Permits(q, ActiveCalls, place, [u \in users |-> held[u]])
           /\ \A u \in users : UserRow(u) \in Locked(p)
           /\ q.op # "create" => CallRow(q.call) \in Locked(p)
           /\ q.op \in {"create", "join", "reserve"} =>
                 (place[q.user] # NoPlace => CallRow(place[q.user]) \in Locked(p))
<1> DEFINE q == wish[p]
           t == tx[p]
           f == tx[p].found
           users == SlotUsers(q, Present(q.call), Holders(q.call))
           h == [u \in users |-> held[u]]
<1>1. q \in SlotRequest /\ q # NoWish
  BY DEF Commit, At, LockInv, RowsOK
<1>2. /\ q.op \in {"create", "join", "leave", "reserve", "end", "release"}
      /\ q.call \in CallIds /\ (q.op # "end" => q.user \in UserIds)
  BY <1>1, RequestFields
<1>3. /\ t.pc = "found" /\ LocksOK(p) /\ FoundOK(p)
      /\ q.op = "release" \/ f.rows = t.plan
      /\ Permits(q, t.active, f.place, f.held)
  BY DEF Commit, At, LockInv, Agrees, Permitted
<1>4. /\ t.plan # {} /\ t.plan \subseteq Locked(p)
      /\ q.op # "create" => CallRow(q.call) \in t.plan
      /\ q.op = "release" => UserRow(q.user) \in t.plan
      /\ \A c \in CallIds : c \in t.active <=> CallRow(c) \in Locked(p) /\ status[c] = "active"
  BY <1>3 DEF LocksOK
<1>5. /\ DOMAIN f.held = users /\ DOMAIN f.place = users
      /\ \A u \in users : UserRow(u) \in f.rows
      /\ \A u \in users : f.place[u] # NoPlace => CallRow(f.place[u]) \in f.rows
      /\ \A u \in users : UserRow(u) \in t.plan => f.place[u] = place[u] /\ f.held[u] = held[u]
  BY <1>3, <1>4 DEF FoundOK
<1>6. q.op \notin {"leave", "end"} => users = {q.user}
  BY <1>2 DEF SlotUsers
<1>7. \A u \in users : UserRow(u) \in t.plan
  BY <1>3, <1>4, <1>5, <1>6
<1>8. \A u \in users : f.place[u] = place[u] /\ f.held[u] = h[u]
  BY <1>5, <1>7
<1>9. \A c \in CallIds : CallRow(c) \in Locked(p) => (c \in t.active <=> c \in ActiveCalls)
  BY <1>4 DEF ActiveCalls
<1>10. q.op \in {"create", "join", "reserve"} =>
          /\ place[q.user] # NoPlace => CallRow(place[q.user]) \in Locked(p)
          /\ Elsewhere(q, t.active, f.place) <=> Elsewhere(q, ActiveCalls, place)
  <2> SUFFICES ASSUME q.op \in {"create", "join", "reserve"}
               PROVE  /\ place[q.user] # NoPlace => CallRow(place[q.user]) \in Locked(p)
                      /\ Elsewhere(q, t.active, f.place) <=> Elsewhere(q, ActiveCalls, place)
    OBVIOUS
  <2>1. q.user \in users /\ f.place[q.user] = place[q.user]
    BY <1>6, <1>8
  <2>2. place[q.user] # NoPlace => CallRow(place[q.user]) \in Locked(p)
    BY <1>3, <1>4, <1>5, <2>1
  <2>3. place[q.user] \in CallIds \cup {NoPlace} /\ t.active \subseteq CallIds
    BY <1>2 DEF LockInv, RowsOK, TxTypes, Transaction
  <2>4. QED
    BY <1>9, <2>1, <2>2, <2>3, SlotAssumption DEF Elsewhere, ActiveCalls
<1>11. q.op \in {"join", "reserve", "end"} => (q.call \in t.active <=> q.call \in ActiveCalls)
  BY <1>2, <1>4, <1>9
<1>12. Permits(q, ActiveCalls, place, h)
  <2>1. CASE q.op \in {"leave", "end"}
    <3>1. \A u \in DOMAIN f.held : f.held[u] = NoHold
      BY <1>3, <2>1 DEF Permits
    <3>2. \A u \in DOMAIN h : h[u] = NoHold
      BY <1>5, <1>8, <3>1
    <3>3. q.op = "end" => q.call \in ActiveCalls
      BY <1>3, <1>11 DEF Permits
    <3>4. QED
      <4> HIDE DEF h
      <4>1. QED
        BY <2>1, <3>2, <3>3 DEF Permits
  <2>2. CASE q.op \notin {"leave", "end"}
    <3>1. q.user \in users /\ f.place[q.user] = place[q.user] /\ f.held[q.user] = h[q.user]
      BY <1>6, <1>8, <2>2
    <3>2. QED
      BY <1>2, <1>3, <1>10, <1>11, <2>2, <3>1 DEF Permits
  <2>3. QED
    BY <2>1, <2>2
<1>13. QED
  BY <1>1, <1>4, <1>7, <1>10, <1>12

(* What the rest of the transactions see of a commit: only rows that it    *)
(* has locked have changed, and a call that was not there before.          *)
CommitEffect(p) ==
    LET q == wish[p] IN
    /\ RowsOK' /\ CallsExist'
    /\ \A c \in CallIds : status[c] # "none" => status'[c] # "none"
    /\ \A u \in UserIds : UserRow(u) \notin Locked(p) => place'[u] = place[u] /\ held'[u] = held[u]
    /\ \A c \in CallIds :
          CallRow(c) \notin Locked(p) /\ ~(q.op = "create" /\ c = q.call) =>
             /\ status'[c] = status[c]
             /\ Present(c)' = Present(c)
             /\ Holders(c)' = Holders(c)

LEMMA JoinEffect ==
    ASSUME LockInv, NEW p \in Procs, Commit(p), wish[p].op \in {"create", "join"}
    PROVE  CommitEffect(p)
<1> DEFINE q == wish[p]
           u == q.user
           c == q.call
<1>1. /\ q \in SlotRequest /\ u \in UserIds /\ c \in CallIds
      /\ place[u] # NoPlace => CallRow(place[u]) \in Locked(p)
      /\ q.op # "create" => CallRow(c) \in Locked(p)
      /\ UserRow(u) \in Locked(p)
  <2>1. q \in SlotRequest
    BY CommitReads
  <2>2. u \in SlotUsers(q, Present(c), Holders(c))
    BY DEF SlotUsers
  <2>3. QED
    BY <2>1, <2>2, CommitReads, RequestFields
<1>2. /\ q.op = "join" => status[c] = "active"
      /\ wish' = [wish EXCEPT ![p] = NoWish]
      /\ place' = [place EXCEPT ![u] = c]
      /\ status' = IF q.op = "create" THEN [status EXCEPT ![c] = "active"] ELSE status
      /\ UNCHANGED <<held, room, serial>>
  <2>1. q.op = "join" => status[c] = "active"
    BY CommitReads DEF Permits, ActiveCalls
  <2>2. Writes(q) /\ wish' = [wish EXCEPT ![p] = NoWish]
    BY DEF Commit, Responds
  <2>3. QED
    BY <2>1, <2>2 DEF Writes, Creates, Joins
<1>3. RowsOK' /\ CallsExist'
  BY <1>1, <1>2, SlotAssumption DEF LockInv, RowsOK, CallsExist, Hold
<1>4. \A d \in CallIds : d # c => Holders(d)' = Holders(d)
  BY <1>2 DEF Holders
<1>5. ASSUME NEW d \in CallIds, CallRow(d) \notin Locked(p), ~(q.op = "create" /\ d = c)
      PROVE  status'[d] = status[d] /\ Present(d)' = Present(d) /\ Holders(d)' = Holders(d)
  <2>1. d # c /\ place[u] # d
    BY <1>1, <1>5, SlotAssumption
  <2>2. QED
    BY <1>1, <1>2, <1>4, <2>1 DEF Present, LockInv, RowsOK
<1>6. QED
  BY <1>1, <1>2, <1>3, <1>5 DEF CommitEffect, LockInv, RowsOK

(* Somebody who departs has no row in the call, and the others keep theirs.*)
LEMMA DepartsEffect ==
    ASSUME LockInv, NEW u \in UserIds, NEW c \in CallIds, Departs(u, c)
    PROVE  /\ place' = [place EXCEPT ![u] = NoPlace] \/ place' = place
           /\ place[u] = c => place' = [place EXCEPT ![u] = NoPlace]
           /\ \A v \in UserIds : place'[v] = IF v = u /\ place[u] = c THEN NoPlace ELSE place[v]
           /\ status' = [status EXCEPT ![c] = "ended"] \/ status' = status
           /\ \A d \in CallIds : /\ d # c => status'[d] = status[d]
                                 /\ status[d] # "none" => status'[d] # "none"
<1>1. /\ status \in [CallIds -> {"none", "active", "ended"}]
      /\ place \in [UserIds -> CallIds \cup {NoPlace}]
  BY DEF LockInv, RowsOK
<1>2. status' = [status EXCEPT ![c] = "ended"] \/ status' = status
  BY <1>1 DEF Departs
<1>3. place' = IF place[u] = c THEN [place EXCEPT ![u] = NoPlace] ELSE place
  BY <1>1 DEF Departs
<1>4. QED
  BY <1>1, <1>2, <1>3

LEMMA LeaveEffect ==
    ASSUME LockInv, NEW p \in Procs, Commit(p), wish[p].op \in {"leave", "end"}
    PROVE  CommitEffect(p)
<1> DEFINE q == wish[p]
           c == q.call
           users == SlotUsers(q, Present(c), Holders(c))
           gone == IF q.op = "leave" THEN {q.user} ELSE Present(c)
<1>1. /\ q \in SlotRequest /\ c \in CallIds /\ (q.op = "leave" => q.user \in UserIds)
      /\ CallRow(c) \in Locked(p) /\ \A u \in users : UserRow(u) \in Locked(p)
  BY CommitReads, RequestFields
<1>2. /\ wish' = [wish EXCEPT ![p] = NoWish]
      /\ gone \subseteq Present(c)
      /\ place' = [v \in UserIds |-> IF v \in gone THEN NoPlace ELSE place[v]]
      /\ status' = [status EXCEPT ![c] = "ended"] \/ status' = status
      /\ UNCHANGED <<held, room, serial>>
  <2>1. Writes(q) /\ wish' = [wish EXCEPT ![p] = NoWish]
    BY DEF Commit, Responds
  <2>2. CASE q.op = "leave"
    <3>1. /\ place[q.user] = c /\ Departs(q.user, c)
          /\ UNCHANGED <<held, room, serial>>
      BY <2>1, <2>2 DEF Writes, Leaves
    <3>2. QED
      BY <1>1, <2>1, <2>2, <3>1, DepartsEffect DEF Present, LockInv, RowsOK
  <2>3. CASE q.op = "end"
    BY <2>1, <2>3 DEF Writes, Ends, Present
  <2>4. QED
    BY <2>2, <2>3
<1>3. gone \subseteq users
  BY DEF SlotUsers
<1>4. RowsOK' /\ CallsExist'
  BY <1>1, <1>2, SlotAssumption DEF LockInv, RowsOK, CallsExist, Hold
<1>5. ASSUME NEW d \in CallIds, CallRow(d) \notin Locked(p)
      PROVE  status'[d] = status[d] /\ Present(d)' = Present(d) /\ Holders(d)' = Holders(d)
  <2>1. d # c
    BY <1>1, <1>5
  <2>2. QED
    BY <1>1, <1>2, <2>1, SlotAssumption DEF Present, Holders, LockInv, RowsOK
<1>6. \A u \in UserIds : UserRow(u) \notin Locked(p) => place'[u] = place[u] /\ held'[u] = held[u]
  BY <1>1, <1>2, <1>3
<1>7. \A d \in CallIds : status[d] # "none" => status'[d] # "none"
  BY <1>1, <1>2 DEF LockInv, RowsOK
<1>8. QED
  BY <1>4, <1>5, <1>6, <1>7 DEF CommitEffect

LEMMA GrantEffect ==
    ASSUME LockInv, NEW p \in Procs, Commit(p), wish[p].op \in {"reserve", "release"}
    PROVE  CommitEffect(p)
<1> DEFINE q == wish[p]
           u == q.user
           c == q.call
<1>1. /\ q \in SlotRequest /\ u \in UserIds /\ c \in CallIds
      /\ q.op = "reserve" /\ place[u] # NoPlace => CallRow(place[u]) \in Locked(p)
      /\ CallRow(c) \in Locked(p)
      /\ UserRow(u) \in Locked(p)
  <2>1. q \in SlotRequest
    BY CommitReads
  <2>2. u \in SlotUsers(q, Present(c), Holders(c))
    BY DEF SlotUsers
  <2>3. QED
    BY <2>1, <2>2, CommitReads, RequestFields
<1>2. Writes(q) /\ wish' = [wish EXCEPT ![p] = NoWish] /\ q # NoWish
  BY DEF Commit, Responds, At
<1>3. CASE q.op = "reserve"
  <2>1. held[u] = NoHold /\ status[c] = "active"
    BY <1>3, CommitReads DEF Permits, SlotUsers, ActiveCalls
  <2>2. /\ serial < MaxHolds /\ serial' = serial + 1
        /\ room' = [room EXCEPT ![c] = IF @ = 0 THEN serial + 1 ELSE @]
        /\ held' = [held EXCEPT ![u] = [id |-> serial + 1, call |-> c, room |-> room'[c]]]
        /\ place' = [place EXCEPT ![u] = c]
        /\ status' = status
    BY <1>2, <1>3 DEF Writes, Reserves
  <2>3. /\ [id |-> serial + 1, call |-> c, room |-> room'[c]] \in Hold
        /\ room' \in [CallIds -> 0..MaxHolds] /\ serial' \in 0..MaxHolds
    <3>1. /\ room \in [CallIds -> 0..MaxHolds] /\ MaxHolds \in Nat
          /\ serial + 1 \in 1..MaxHolds /\ serial + 1 \in 0..MaxHolds
      BY <2>2, SlotAssumption DEF LockInv, RowsOK
    <3>2. room'[c] = (IF room[c] = 0 THEN serial + 1 ELSE room[c]) /\ room[c] \in 0..MaxHolds
      BY <1>1, <2>2, <3>1
    <3>3. room'[c] \in 1..MaxHolds
      BY <3>1, <3>2
    <3>4. QED
      BY <1>1, <2>2, <3>1, <3>3 DEF Hold
  <2>4. held'[u].call = c /\ \A v \in UserIds : v # u => held'[v] = held[v] /\ place'[v] = place[v]
    BY <1>1, <2>2 DEF LockInv, RowsOK
  <2>5. RowsOK'
    BY <1>1, <1>2, <2>2, <2>3 DEF LockInv, RowsOK
  <2>6. CallsExist'
    BY <1>1, <2>1, <2>2, <2>4 DEF LockInv, RowsOK, CallsExist
  <2>7. ASSUME NEW d \in CallIds, CallRow(d) \notin Locked(p)
        PROVE  Present(d)' = Present(d) /\ Holders(d)' = Holders(d)
    <3>1. d # c /\ place[u] # d
      BY <1>1, <1>3, <2>7, SlotAssumption
    <3>2. QED
      BY <1>1, <2>1, <2>2, <2>4, <3>1 DEF Present, Holders, LockInv, RowsOK
  <2>8. QED
    BY <1>1, <1>3, <2>2, <2>4, <2>5, <2>6, <2>7 DEF CommitEffect
<1>4. CASE q.op = "release"
  <2>1. /\ held[u] = q.grant /\ held' = [held EXCEPT ![u] = NoHold]
        /\ room' = [room EXCEPT ![c] = IF Holders(c) = {u} THEN 0 ELSE @]
        /\ Departs(u, c) /\ serial' = serial
    BY <1>2, <1>4 DEF Writes, Releases
  <2>2. q.grant.call = c
    BY <1>2, <1>4 DEF LockInv, WishesOK
  <2>3. /\ place' = [place EXCEPT ![u] = NoPlace] \/ place' = place
        /\ \A v \in UserIds : place'[v] = IF v = u /\ place[u] = c THEN NoPlace ELSE place[v]
        /\ status' = [status EXCEPT ![c] = "ended"] \/ status' = status
        /\ \A d \in CallIds : /\ d # c => status'[d] = status[d]
                              /\ status[d] # "none" => status'[d] # "none"
    BY <1>1, <2>1, DepartsEffect
  <2>4. \A v \in UserIds : v # u => held'[v] = held[v] /\ place'[v] = place[v]
    BY <1>1, <2>1, <2>3 DEF LockInv, RowsOK
  <2>5. RowsOK'
    <3>1. room' \in [CallIds -> 0..MaxHolds]
      <4>1. 0 \in 0..MaxHolds /\ room \in [CallIds -> 0..MaxHolds]
        BY SlotAssumption DEF LockInv, RowsOK
      <4>2. room' = [room EXCEPT ![c] = 0] \/ room' = room
        BY <2>1, <4>1
      <4>3. QED
        BY <4>1, <4>2
    <3>2. /\ status' \in [CallIds -> {"none", "active", "ended"}]
          /\ place' \in [UserIds -> CallIds \cup {NoPlace}]
          /\ held' \in [UserIds -> Hold \cup {NoHold}]
      BY <2>1, <2>3 DEF LockInv, RowsOK
    <3>3. QED
      BY <1>2, <2>1, <3>1, <3>2 DEF LockInv, RowsOK
  <2>6. CallsExist'
    <3>1. \A v \in UserIds : /\ place'[v] # NoPlace => place'[v] = place[v]
                             /\ held'[v] # NoHold => held'[v] = held[v]
      BY <2>1, <2>3, <2>4 DEF LockInv, RowsOK
    <3>2. \A v \in UserIds : place[v] \in CallIds \cup {NoPlace} /\ held[v] \in Hold \cup {NoHold}
      BY DEF LockInv, RowsOK
    <3>3. QED
      BY <2>3, <3>1, <3>2 DEF LockInv, CallsExist, Hold
  <2>7. ASSUME NEW d \in CallIds, CallRow(d) \notin Locked(p)
        PROVE  status'[d] = status[d] /\ Present(d)' = Present(d) /\ Holders(d)' = Holders(d)
    <3>1. d # c /\ held'[u] = NoHold
      BY <1>1, <2>1, <2>7 DEF LockInv, RowsOK
    <3>2. Present(d)' = Present(d)
      BY <2>3, <3>1, SlotAssumption DEF Present
    <3>3. Holders(d)' = Holders(d)
      BY <2>1, <2>2, <2>4, <3>1 DEF Holders
    <3>4. QED
      BY <2>3, <3>1, <3>2, <3>3
  <2>8. QED
    BY <1>1, <2>3, <2>4, <2>5, <2>6, <2>7 DEF CommitEffect
<1>5. QED
  BY <1>3, <1>4

LEMMA CommitChanges ==
    ASSUME LockInv, NEW p \in Procs, Commit(p)
    PROVE  CommitEffect(p)
  BY CommitReads, RequestFields, JoinEffect, LeaveEffect, GrantEffect

-----------------------------------------------------------------------------
(* A transaction does not notice what happens to rows it has not locked.   *)
LEMMA OthersStay ==
    ASSUME LockInv, NEW s \in Procs, tx'[s] = tx[s], wish'[s] = wish[s], Locked(s)' = Locked(s),
           \A c \in CallIds : status[c] # "none" => status'[c] # "none",
           \A c \in CallIds : CallRow(c) \in Locked(s) => /\ status'[c] = status[c]
                                                          /\ Present(c)' = Present(c)
                                                          /\ Holders(c)' = Holders(c),
           \A u \in UserIds : UserRow(u) \in Locked(s) => place'[u] = place[u] /\ held'[u] = held[u]
    PROVE  LocksOK(s)' /\ FoundOK(s)'
<1> DEFINE t == tx[s]
           f == tx[s].found
           q == wish[s]
<1>1. LocksOK(s) /\ FoundOK(s)
  BY DEF LockInv
<1>2. LocksOK(s)'
  BY <1>1 DEF LocksOK
<1>3. CASE q = NoWish
  <2>1. tx'[s].pc = "call" /\ DOMAIN tx'[s].found.held = DOMAIN tx'[s].found.place
    BY <1>1, <1>3 DEF LocksOK, FoundOK, Fresh
  <2>2. QED
    BY <1>2, <2>1 DEF FoundOK
<1>4. CASE q # NoWish
  <2>1. /\ q.op \in {"create", "join", "leave", "reserve", "end", "release"}
        /\ q.call \in CallIds
    BY <1>4, RequestFields DEF LockInv, RowsOK
  <2>2. DOMAIN f.place \subseteq UserIds
    BY DEF LockInv, TxTypes, Transaction, Found, PlacesFound
  <2>3. CASE t.plan # {} /\ t.pc # "lock"
    <3>1. t.plan \subseteq Locked(s) /\ (q.op # "create" => CallRow(q.call) \in Locked(s))
      BY <1>1, <2>3 DEF LocksOK
    <3>2. SlotUsers(q, Present(q.call), Holders(q.call))' = SlotUsers(q, Present(q.call), Holders(q.call))
      BY <2>1, <3>1 DEF SlotUsers
    <3>3. \A u \in DOMAIN f.place : UserRow(u) \in t.plan => place'[u] = place[u] /\ held'[u] = held[u]
      BY <2>2, <3>1
    <3>4. QED
      BY <1>1, <1>2, <3>2, <3>3 DEF FoundOK
  <2>4. CASE t.plan = {} \/ t.pc = "lock"
    <3>1. tx'[s].plan = {} \/ tx'[s].pc = "lock"
      BY <2>4
    <3>2. QED
      BY <1>1, <1>2, <3>1 DEF FoundOK
  <2>5. QED
    BY <2>3, <2>4
<1>5. QED
  BY <1>2, <1>3, <1>4

(* A step of one transaction that leaves the rows and the requests alone.  *)
LEMMA OneTransaction ==
    ASSUME LockInv, NEW p \in Procs, UNCHANGED slotVars,
           NEW t \in Transaction, tx' = [tx EXCEPT ![p] = t],
           DOMAIN owner' \subseteq LockRows, \A r \in DOMAIN owner' : owner'[r] \in Procs,
           \A s \in Procs : s # p => Locked(s)' = Locked(s),
           LocksOK(p)', FoundOK(p)'
    PROVE  LockInv'
<1> USE DEF slotVars, rowVars
<1>1. RowsOK' /\ CallsExist' /\ WishesOK'
  BY DEF LockInv, RowsOK, CallsExist, WishesOK
<1>2. TxTypes'
  BY DEF LockInv, TxTypes
<1>3. \A c \in CallIds : Present(c)' = Present(c) /\ Holders(c)' = Holders(c)
  BY DEF Present, Holders
<1>4. ASSUME NEW s \in Procs, s # p PROVE LocksOK(s)' /\ FoundOK(s)'
  <2>1. tx'[s] = tx[s]
    BY <1>4 DEF LockInv, TxTypes
  <2>2. QED
    BY <1>3, <1>4, <2>1, OthersStay
<1>5. QED
  BY <1>1, <1>2, <1>4 DEF LockInv

(* A transaction that begins, or begins again, has nothing.                *)
LEMMA BeginsOK ==
    ASSUME NEW p \in Procs, NEW n, tx'[p] = [Fresh EXCEPT !.tries = n], Locked(p)' = {},
           wish'[p] = NoWish => n = 0
    PROVE  LocksOK(p)' /\ FoundOK(p)'
<1>1. /\ tx'[p].pc = "call" /\ tx'[p].plan = {} /\ tx'[p].active = {} /\ tx'[p].found = NotFound
      /\ n = 0 => tx'[p] = Fresh
  BY DEF Fresh
<1>2. NotFound.rows = {} /\ NotFound.todo = {} /\ DOMAIN NotFound.held = DOMAIN NotFound.place
  BY FreshTypes DEF NotFound
<1>3. LocksOK(p)'
  BY <1>1, <1>2 DEF LocksOK
<1>4. FoundOK(p)'
  BY <1>1, <1>2 DEF FoundOK
<1>5. QED
  BY <1>3, <1>4

-----------------------------------------------------------------------------
(* The steps of one transaction.                                           *)
LEMMA TxFields ==
    ASSUME LockInv, NEW p \in Procs, wish[p] # NoWish
    PROVE  /\ tx[p] \in Transaction /\ tx[p].found \in Found
           /\ DOMAIN tx[p].found.place \subseteq UserIds
           /\ wish[p] \in SlotRequest
           /\ LocksOK(p) /\ FoundOK(p)
           /\ wish[p].op # "create" => status[wish[p].call] # "none"
<1>1. tx[p] \in Transaction /\ wish[p] \in SlotRequest
  BY DEF LockInv, TxTypes, RowsOK
<1>2. tx[p].found \in Found
  BY <1>1 DEF Transaction
<1>3. DOMAIN tx[p].found.place \subseteq UserIds
  BY <1>2 DEF Found, PlacesFound
<1>4. QED
  BY <1>1, <1>2, <1>3 DEF LockInv, WishesOK

LEMMA ReadGrantStep ==
    ASSUME LockInv, NEW p \in Procs, ReadGrant(p)
    PROVE  LockInv'
<1> DEFINE q == wish[p]
           g == q.grant
           plan == {CallRow(g.call), RoomRow(g.room), UserRow(q.user)}
           t == [tx[p] EXCEPT !.pc = "lock", !.plan = plan]
<1>1. /\ q # NoWish /\ q.op = "release" /\ tx[p].pc = "call"
      /\ UNCHANGED <<slotVars, owner>>
  BY DEF ReadGrant, At, Quiet
<1>2. /\ tx[p] \in Transaction /\ tx[p].found \in Found /\ LocksOK(p) /\ FoundOK(p)
      /\ g \in Hold /\ q.user \in UserIds /\ q.call \in CallIds
      /\ status[q.call] # "none" /\ g.call = q.call
  BY <1>1, TxFields, RequestFields DEF LockInv, WishesOK
<1>3. plan \in SUBSET LockRows
  <2>1. g.room \in Nat /\ g.call \in CallIds
    BY <1>2, SlotAssumption DEF Hold
  <2>2. QED
    BY <1>2, <2>1, RowsDiffer
<1>4. t \in Transaction
  BY <1>2, <1>3 DEF Transaction
<1>5. tx' = [tx EXCEPT ![p] = t] /\ tx'[p] = t
  BY DEF ReadGrant, LockInv, TxTypes
<1>6. /\ t.pc = "lock" /\ t.plan = plan /\ t.found = tx[p].found /\ t.active = tx[p].active
      /\ plan # {}
  BY <1>2 DEF Transaction
<1>7. /\ \A s \in Procs : Locked(s)' = Locked(s)
      /\ status' = status /\ wish' = wish
  BY <1>1 DEF Locked, slotVars, rowVars
<1>8. \A c \in CallIds : CallRow(c) \in plan => c = q.call
  BY <1>2, RowsDiffer
<1>9. Locked(p) = {}
  BY <1>1, <1>2 DEF LocksOK
<1>10. LocksOK(p)'
  <2> HIDE DEF t, plan
  <2>1. CallRow(q.call) \in plan /\ UserRow(q.user) \in plan
    BY <1>2 DEF plan
  <2>2. QED
    BY <1>1, <1>2, <1>5, <1>6, <1>7, <1>8, <1>9, <2>1 DEF LocksOK
<1>11. FoundOK(p)'
  <2> HIDE DEF t, plan
  <2>1. QED
    BY <1>2, <1>5, <1>6 DEF FoundOK
<1>12. UNCHANGED slotVars /\ owner' = owner
  BY <1>1
<1>13. DOMAIN owner' \subseteq LockRows /\ \A r \in DOMAIN owner' : owner'[r] \in Procs
  BY <1>12 DEF LockInv, TxTypes
<1> HIDE DEF t
<1>14. QED
  BY <1>4, <1>5, <1>7, <1>10, <1>11, <1>12, <1>13, OneTransaction

LEMMA ReadCallStep ==
    ASSUME LockInv, NEW p \in Procs, ReadCall(p)
    PROVE  LockInv'
<1> DEFINE q == wish[p]
           users == SlotUsers(q, Present(q.call), Holders(q.call))
           call == IF q.op = "create" THEN {} ELSE {CallRow(q.call)}
           rows == call \cup {UserRow(u) : u \in users}
           f == [NotFound EXCEPT !.todo = users, !.rows = rows]
           t == [tx[p] EXCEPT !.pc = "user", !.found = f]
<1>1. /\ q # NoWish
      /\ (tx[p].pc = "call" /\ q.op # "release") \/ (tx[p].pc = "lock" /\ tx[p].plan \subseteq Locked(p))
      /\ UNCHANGED <<slotVars, owner>>
  BY DEF ReadCall, At, Quiet
<1>2. /\ tx[p] \in Transaction /\ tx[p].found \in Found /\ LocksOK(p) /\ FoundOK(p)
      /\ q.call \in CallIds /\ (q.op # "end" => q.user \in UserIds)
      /\ q.op \in {"create", "join", "leave", "reserve", "end", "release"}
      /\ q.op # "create" => status[q.call] # "none"
  BY <1>1, TxFields, RequestFields
<1>3. users \subseteq UserIds /\ (q.op # "end" => q.user \in users)
  BY <1>2 DEF SlotUsers, Present, Holders
<1>4. rows \in SUBSET LockRows
  BY <1>2, <1>3, RowsDiffer
<1>5. /\ f.todo = users /\ f.rows = rows /\ f.place = NotFound.place /\ f.held = NotFound.held
      /\ DOMAIN f.place = {} /\ DOMAIN f.held = {}
  <2>1. DOMAIN NotFound.place = {} /\ DOMAIN NotFound.held = {}
    BY FreshTypes
  <2>2. QED
    BY <2>1 DEF NotFound
<1>6. f \in Found
  BY <1>3, <1>4, FreshTypes DEF Found
<1>7. t \in Transaction
  <2> HIDE DEF f
  <2>1. QED
    BY <1>2, <1>6 DEF Transaction
<1>8. tx' = [tx EXCEPT ![p] = t] /\ tx'[p] = t
  BY DEF ReadCall, LockInv, TxTypes
<1>9. t.pc = "user" /\ t.plan = tx[p].plan /\ t.found = f /\ t.active = tx[p].active
  <2> HIDE DEF f
  <2>1. QED
    BY <1>2 DEF Transaction
<1>10. /\ UNCHANGED slotVars /\ owner' = owner /\ \A s \in Procs : Locked(s)' = Locked(s)
       /\ status' = status /\ wish' = wish
       /\ \A c \in CallIds : Present(c)' = Present(c) /\ Holders(c)' = Holders(c)
  BY <1>1 DEF Locked, slotVars, rowVars, Present, Holders
<1>11. \A c \in CallIds : CallRow(c) \in rows => c = q.call /\ q.op # "create"
  BY RowsDiffer
<1>12. LocksOK(p)'
  <2> HIDE DEF t, f, rows
  <2>1. QED
    BY <1>1, <1>2, <1>5, <1>8, <1>9, <1>10, <1>11 DEF LocksOK
<1>13. FoundOK(p)'
  <2>1. (q.op # "create" => CallRow(q.call) \in rows) /\ \A u \in users : UserRow(u) \in rows
    OBVIOUS
  <2>2. SlotUsers(q, Present(q.call), Holders(q.call))' = users
    BY <1>2, <1>10
  <2> HIDE DEF t, f, rows, users
  <2>3. QED
    BY <1>3, <1>5, <1>8, <1>9, <1>10, <2>1, <2>2 DEF FoundOK
<1>14. DOMAIN owner' \subseteq LockRows /\ \A r \in DOMAIN owner' : owner'[r] \in Procs
  BY <1>10 DEF LockInv, TxTypes
<1> HIDE DEF t
<1>15. QED
  BY <1>7, <1>8, <1>10, <1>12, <1>13, <1>14, OneTransaction

LEMMA ReadUserStep ==
    ASSUME LockInv, NEW p \in Procs, NEW u \in UserIds, ReadUser(p, u)
    PROVE  LockInv'
<1> DEFINE q == wish[p]
           f == tx[p].found
           g == held[u]
           call == IF place[u] = NoPlace THEN {} ELSE {CallRow(place[u])}
           grant == IF g = NoHold THEN {} ELSE {CallRow(g.call), RoomRow(g.room)}
           rows == f.rows \cup call \cup grant
           places == Extended(f.place, u, place[u])
           holds == Extended(f.held, u, g)
           e == [todo |-> f.todo \ {u}, rows |-> rows, place |-> places, held |-> holds]
           t == [tx[p] EXCEPT !.found = e]
<1>1. /\ q # NoWish /\ tx[p].pc = "user" /\ u \in f.todo
      /\ UNCHANGED <<slotVars, owner>>
  BY DEF ReadUser, At, Quiet
<1>2. /\ tx[p] \in Transaction /\ f \in Found /\ LocksOK(p) /\ FoundOK(p)
      /\ DOMAIN f.place \subseteq UserIds /\ q.call \in CallIds
      /\ q.op \in {"create", "join", "leave", "reserve", "end", "release"}
  BY <1>1, TxFields, RequestFields
<1>3. /\ place[u] \in CallIds \cup {NoPlace} /\ g \in Hold \cup {NoHold}
      /\ place[u] # NoPlace => status[place[u]] # "none"
      /\ g # NoHold => status[g.call] # "none"
  BY DEF LockInv, RowsOK, CallsExist
<1>4. rows \in SUBSET LockRows
  <2>1. g # NoHold => g.call \in CallIds /\ g.room \in Nat
    BY <1>3, SlotAssumption DEF Hold
  <2>2. f.rows \in SUBSET LockRows
    BY <1>2 DEF Found
  <2>3. QED
    BY <1>3, <2>1, <2>2, RowsDiffer
<1>5. places \in PlacesFound /\ holds \in HoldsFound
  <2>1. f.place \in PlacesFound /\ f.held \in HoldsFound
    BY <1>2 DEF Found
  <2>2. QED
    BY <1>3, <2>1, ExtendedFound DEF PlacesFound, HoldsFound
<1>6. /\ DOMAIN places = DOMAIN f.place \cup {u} /\ DOMAIN holds = DOMAIN f.held \cup {u}
      /\ places[u] = place[u] /\ holds[u] = g
      /\ \A v \in DOMAIN f.place : v # u => places[v] = f.place[v]
      /\ \A v \in DOMAIN f.held : v # u => holds[v] = f.held[v]
  BY DEF Extended
<1> HIDE DEF places, holds
<1>7. f.todo \in SUBSET UserIds
  BY <1>2 DEF Found
<1>8. /\ e \in Found /\ e.todo = f.todo \ {u} /\ e.rows = rows /\ e.place = places /\ e.held = holds
  BY <1>4, <1>5, <1>7 DEF Found
<1>9. tx' = [tx EXCEPT ![p] = t]
  <2>1. tx' = [tx EXCEPT ![p].found =
                  [todo |-> @.todo \ {u}, rows |-> @.rows \cup call \cup grant,
                   place |-> Extended(@.place, u, place[u]), held |-> Extended(@.held, u, g)]]
    BY DEF ReadUser
  <2>2. QED
    BY <2>1 DEF places, holds
<1> HIDE DEF e
<1>10. /\ t \in Transaction /\ t.pc = "user" /\ t.plan = tx[p].plan /\ t.found = e
       /\ t.active = tx[p].active
  BY <1>1, <1>2, <1>8 DEF Transaction
<1>11. tx'[p] = t
  BY <1>9 DEF LockInv, TxTypes
<1>12. /\ UNCHANGED slotVars /\ owner' = owner /\ \A s \in Procs : Locked(s)' = Locked(s)
       /\ status' = status /\ wish' = wish /\ place' = place /\ held' = held
       /\ \A c \in CallIds : Present(c)' = Present(c) /\ Holders(c)' = Holders(c)
  BY <1>1 DEF Locked, slotVars, rowVars, Present, Holders
<1>13. \A c \in CallIds : CallRow(c) \in rows => CallRow(c) \in f.rows \/ status[c] # "none"
  <2>1. \A c \in CallIds : CallRow(c) \in call => status[c] # "none"
    BY <1>3, RowsDiffer
  <2>2. \A c \in CallIds : CallRow(c) \in grant => status[c] # "none"
    BY <1>3, RowsDiffer
  <2>3. QED
    BY <2>1, <2>2
<1>14. LocksOK(p)'
  <2> HIDE DEF t, f, rows
  <2>1. QED
    BY <1>1, <1>2, <1>8, <1>10, <1>11, <1>12, <1>13 DEF LocksOK, f
<1>15. FoundOK(p)'
  <2> DEFINE users == f.todo \cup DOMAIN f.place
  <2>1. e.todo \cup DOMAIN e.place = users /\ DOMAIN e.held = DOMAIN e.place
    BY <1>1, <1>2, <1>6, <1>8 DEF FoundOK
  <2>2. /\ q.op # "create" => CallRow(q.call) \in rows
        /\ q.op # "end" => q.user \in users
        /\ \A v \in users : UserRow(v) \in rows
    BY <1>1, <1>2 DEF FoundOK
  <2>3. \A v \in DOMAIN places : places[v] # NoPlace => CallRow(places[v]) \in rows
    BY <1>1, <1>2, <1>6 DEF FoundOK
  <2>4. t.plan # {} =>
           /\ users = SlotUsers(q, Present(q.call), Holders(q.call))
           /\ \A v \in DOMAIN places : UserRow(v) \in t.plan => places[v] = place[v] /\ holds[v] = held[v]
    <3>1. \A v \in DOMAIN f.place : v \in DOMAIN f.held
      BY <1>2 DEF FoundOK
    <3>2. QED
      BY <1>1, <1>2, <1>6, <1>10, <3>1 DEF FoundOK
  <2>5. SlotUsers(q, Present(q.call), Holders(q.call))' = SlotUsers(q, Present(q.call), Holders(q.call))
    BY <1>2, <1>12
  <2> HIDE DEF t, f, rows, users
  <2>6. QED
    BY <1>8, <1>10, <1>11, <1>12, <2>1, <2>2, <2>3, <2>4, <2>5 DEF FoundOK
<1>16. DOMAIN owner' \subseteq LockRows /\ \A r \in DOMAIN owner' : owner'[r] \in Procs
  BY <1>12 DEF LockInv, TxTypes
<1> HIDE DEF t
<1>17. QED
  BY <1>9, <1>10, <1>12, <1>14, <1>15, <1>16, OneTransaction

LEMMA ReadRoomsStep ==
    ASSUME LockInv, NEW p \in Procs, ReadRooms(p)
    PROVE  LockInv'
<1> DEFINE q == wish[p]
           f == tx[p].found
           calls == {c \in CallIds : CallRow(c) \in f.rows /\ room[c] # 0}
           rows == f.rows \cup {RoomRow(room[c]) : c \in calls}
           first == tx[p].plan = {}
           t == IF first THEN [tx[p] EXCEPT !.pc = "lock", !.plan = rows, !.found = NotFound]
                         ELSE [tx[p] EXCEPT !.pc = "found", !.found = [f EXCEPT !.rows = rows]]
<1>1. /\ q # NoWish /\ tx[p].pc = "user" /\ f.todo = {}
      /\ UNCHANGED <<slotVars, owner>>
  BY DEF ReadRooms, At, Quiet
<1>2. /\ tx[p] \in Transaction /\ f \in Found /\ LocksOK(p) /\ FoundOK(p)
      /\ q.call \in CallIds /\ (q.op # "create" => status[q.call] # "none")
      /\ q.op \in {"create", "join", "leave", "reserve", "end", "release"}
  BY <1>1, TxFields, RequestFields
<1>3. rows \in SUBSET LockRows
  <2>1. \A c \in CallIds : room[c] \in Nat
    BY SlotAssumption DEF LockInv, RowsOK
  <2>2. QED
    BY <1>2, <2>1, RowsDiffer DEF Found
<1>4. \A c \in CallIds : CallRow(c) \in rows => status[c] # "none"
  <2>1. \A c \in CallIds : CallRow(c) \in rows => CallRow(c) \in f.rows
    BY RowsDiffer
  <2>2. QED
    BY <1>2, <2>1 DEF LocksOK
<1>5. /\ q.op # "create" => CallRow(q.call) \in rows
      /\ q.op # "end" => UserRow(q.user) \in rows
      /\ rows # {}
  BY <1>1, <1>2 DEF FoundOK
<1>6. tx' = [tx EXCEPT ![p] = t] /\ tx'[p] = t
  <2>1. tx' = [tx EXCEPT ![p] = t]
    BY DEF ReadRooms
  <2>2. QED
    BY <2>1 DEF LockInv, TxTypes
<1>7. [f EXCEPT !.rows = rows] \in Found
  BY <1>2, <1>3 DEF Found
<1>8. t \in Transaction
  BY <1>2, <1>3, <1>7, FreshTypes DEF Transaction
<1>9. /\ UNCHANGED slotVars /\ owner' = owner /\ \A s \in Procs : Locked(s)' = Locked(s)
      /\ status' = status /\ wish' = wish /\ place' = place /\ held' = held
      /\ \A c \in CallIds : Present(c)' = Present(c) /\ Holders(c)' = Holders(c)
  BY <1>1 DEF Locked, slotVars, rowVars, Present, Holders
<1>10. SlotUsers(q, Present(q.call), Holders(q.call))' = SlotUsers(q, Present(q.call), Holders(q.call))
  BY <1>2, <1>9
<1> HIDE DEF rows
<1>11. LocksOK(p)' /\ FoundOK(p)'
  <2>1. CASE first
    <3>1. /\ t.pc = "lock" /\ t.plan = rows /\ t.found = NotFound /\ t.active = tx[p].active
      BY <1>2, <2>1 DEF Transaction
    <3>2. NotFound.rows = {} /\ DOMAIN NotFound.held = DOMAIN NotFound.place
      BY FreshTypes DEF NotFound
    <3>3. Locked(p) = {}
      BY <1>2, <2>1 DEF LocksOK
    <3>4. \A c \in CallIds : c \in tx[p].active <=> CallRow(c) \in Locked(p) /\ status[c] = "active"
      BY <1>2 DEF LocksOK
    <3> HIDE DEF t, f
    <3>5. LocksOK(p)'
      BY <1>1, <1>4, <1>5, <1>6, <1>9, <3>1, <3>2, <3>3, <3>4 DEF LocksOK
    <3>6. FoundOK(p)'
      BY <1>6, <3>1, <3>2 DEF FoundOK
    <3>7. QED
      BY <3>5, <3>6
  <2>2. CASE ~first
    <3>1. /\ t.pc = "found" /\ t.plan = tx[p].plan /\ t.active = tx[p].active
          /\ t.found = [f EXCEPT !.rows = rows]
      BY <1>2, <2>2 DEF Transaction
    <3>2. /\ t.found.rows = rows /\ t.found.todo = f.todo /\ t.found.place = f.place
          /\ t.found.held = f.held
      BY <1>2, <3>1 DEF Found
    <3>3. f.rows \subseteq rows
      BY DEF rows
    <3> HIDE DEF t
    <3>4. LocksOK(p)'
      BY <1>1, <1>2, <1>4, <1>6, <1>9, <2>2, <3>1, <3>2 DEF LocksOK
    <3>5. FoundOK(p)'
      <4> HIDE DEF f
      <4>1. /\ \A v \in f.todo \cup DOMAIN f.place : UserRow(v) \in rows
            /\ \A v \in DOMAIN f.place : f.place[v] # NoPlace => CallRow(f.place[v]) \in rows
        BY <1>1, <1>2, <3>3 DEF FoundOK, f
      <4>2. /\ DOMAIN f.held = DOMAIN f.place
            /\ q.op # "end" => q.user \in f.todo \cup DOMAIN f.place
        BY <1>1, <1>2 DEF FoundOK, f
      <4>3. /\ f.todo \cup DOMAIN f.place = SlotUsers(q, Present(q.call), Holders(q.call))
            /\ \A v \in DOMAIN f.place : UserRow(v) \in tx[p].plan =>
                  f.place[v] = place[v] /\ f.held[v] = held[v]
        BY <1>1, <1>2, <2>2 DEF FoundOK, f
      <4>4. /\ tx'[p].found.rows = rows /\ tx'[p].found.todo = {} /\ f.todo = {}
            /\ tx'[p].found.place = f.place /\ tx'[p].found.held = f.held
            /\ tx'[p].plan = tx[p].plan
        BY <1>1, <1>6, <3>1, <3>2 DEF f
      <4>5. /\ q.op # "create" => CallRow(q.call) \in rows
            /\ wish'[p] = q
        BY <1>5, <1>9
      <4>6. QED
        BY <1>9, <1>10, <4>1, <4>2, <4>3, <4>4, <4>5 DEF FoundOK
    <3>6. QED
      BY <3>4, <3>5
  <2>3. QED
    BY <2>1, <2>2
<1>12. DOMAIN owner' \subseteq LockRows /\ \A r \in DOMAIN owner' : owner'[r] \in Procs
  BY <1>9 DEF LockInv, TxTypes
<1> HIDE DEF t
<1>13. QED
  BY <1>6, <1>8, <1>9, <1>11, <1>12, OneTransaction

(* What the lock of a row changes.                                         *)
LEMMA LockEffect ==
    ASSUME LockInv, NEW p \in Procs, LockRow(p)
    PROVE  /\ wish[p] # NoWish /\ tx[p].pc = "lock"
           /\ \E r \in NextRows(p) :
                 /\ r \in tx[p].plan \ Locked(p) /\ r \in LockRows /\ r \notin DOMAIN owner
                 /\ DOMAIN owner' = DOMAIN owner \cup {r} /\ owner'[r] = p
                 /\ \A s \in DOMAIN owner : owner'[s] = owner[s]
                 /\ Locked(p)' = Locked(p) \cup {r}
                 /\ \A s \in Procs : s # p => Locked(s)' = Locked(s)
                 /\ tx' = [tx EXCEPT ![p] = [tx[p] EXCEPT !.active =
                              IF r[1] = 1 THEN @ \cup ({r[2]} \cap ActiveCalls) ELSE @]]
           /\ UNCHANGED slotVars
<1>1. wish[p] # NoWish /\ tx[p].pc = "lock" /\ UNCHANGED slotVars
  BY DEF LockRow, At
<1>2. PICK r \in NextRows(p) :
         /\ r \notin DOMAIN owner /\ owner' = Extended(owner, r, p)
         /\ tx' = IF r[1] = 1 THEN [tx EXCEPT ![p].active = @ \cup ({r[2]} \cap ActiveCalls)] ELSE tx
  BY DEF LockRow
<1>3. tx \in [Procs -> Transaction] /\ tx[p] \in Transaction /\ tx[p].plan \subseteq LockRows
  BY DEF LockInv, TxTypes, Transaction
<1>4. r \in tx[p].plan \ Locked(p) /\ r \in LockRows
  BY <1>3 DEF NextRows
<1>5. /\ DOMAIN owner' = DOMAIN owner \cup {r} /\ owner'[r] = p
      /\ \A s \in DOMAIN owner : owner'[s] = owner[s]
  BY <1>2 DEF Extended
<1>6. Locked(p)' = Locked(p) \cup {r} /\ \A s \in Procs : s # p => Locked(s)' = Locked(s)
  BY <1>2, <1>5 DEF Locked
<1>7. tx' = [tx EXCEPT ![p] = [tx[p] EXCEPT !.active =
                IF r[1] = 1 THEN @ \cup ({r[2]} \cap ActiveCalls) ELSE @]]
  <2>1. CASE r[1] = 1
    BY <1>2, <2>1
  <2>2. CASE r[1] # 1
    <3>1. [tx[p] EXCEPT !.active = tx[p].active] = tx[p]
      BY <1>3 DEF Transaction
    <3>2. [tx EXCEPT ![p] = tx[p]] = tx
      BY <1>3
    <3>3. QED
      BY <1>2, <2>2, <3>1, <3>2
  <2>3. QED
    BY <2>1, <2>2
<1>8. QED
  BY <1>1, <1>2, <1>4, <1>5, <1>6, <1>7

LEMMA LockRowStep ==
    ASSUME LockInv, NEW p \in Procs, LockRow(p)
    PROVE  LockInv'
<1>1. /\ wish[p] # NoWish /\ tx[p].pc = "lock" /\ UNCHANGED slotVars
  BY LockEffect
<1>2. PICK r :
         /\ r \in tx[p].plan \ Locked(p) /\ r \in LockRows /\ r \notin DOMAIN owner
         /\ DOMAIN owner' = DOMAIN owner \cup {r} /\ owner'[r] = p
         /\ \A s \in DOMAIN owner : owner'[s] = owner[s]
         /\ Locked(p)' = Locked(p) \cup {r}
         /\ \A s \in Procs : s # p => Locked(s)' = Locked(s)
         /\ tx' = [tx EXCEPT ![p] = [tx[p] EXCEPT !.active =
                      IF r[1] = 1 THEN @ \cup ({r[2]} \cap ActiveCalls) ELSE @]]
  BY LockEffect
<1> DEFINE active == IF r[1] = 1 THEN tx[p].active \cup ({r[2]} \cap ActiveCalls) ELSE tx[p].active
           t == [tx[p] EXCEPT !.active = active]
<1>3. /\ tx[p] \in Transaction /\ LocksOK(p) /\ FoundOK(p)
  BY <1>1, TxFields
<1>4. active \in SUBSET CallIds
  BY <1>3 DEF Transaction, ActiveCalls
<1>5. t \in Transaction
  BY <1>3, <1>4 DEF Transaction
<1>6. tx' = [tx EXCEPT ![p] = t] /\ tx'[p] = t
  BY <1>2 DEF LockInv, TxTypes
<1>7. /\ t.pc = "lock" /\ t.plan = tx[p].plan /\ t.found = tx[p].found /\ t.active = active
  BY <1>1, <1>3 DEF Transaction
<1>8. status' = status /\ wish' = wish
  BY <1>1 DEF slotVars, rowVars
<1>9. \A c \in CallIds : c \in active <=> CallRow(c) \in Locked(p) \cup {r} /\ status[c] = "active"
  <2>1. \A c \in CallIds : CallRow(c) = r <=> r[1] = 1 /\ r[2] = c
    BY <1>2 DEF CallRow, LockRows
  <2>2. \A c \in CallIds : c \in tx[p].active <=> CallRow(c) \in Locked(p) /\ status[c] = "active"
    BY <1>3 DEF LocksOK
  <2>3. QED
    BY <2>1, <2>2 DEF ActiveCalls
<1> HIDE DEF t, active
<1>10. LocksOK(p)'
  BY <1>1, <1>2, <1>3, <1>6, <1>7, <1>8, <1>9 DEF LocksOK
<1>11. FoundOK(p)'
  BY <1>3, <1>6, <1>7 DEF FoundOK
<1>12. DOMAIN owner' \subseteq LockRows /\ \A s \in DOMAIN owner' : owner'[s] \in Procs
  BY <1>2 DEF LockInv, TxTypes
<1>13. QED
  BY <1>1, <1>2, <1>5, <1>6, <1>10, <1>11, <1>12, OneTransaction

LEMMA BeginAgainStep ==
    ASSUME LockInv, NEW p \in Procs, BeginAgain(p)
    PROVE  LockInv'
<1> DEFINE n == tx[p].tries + 1
           t == [Fresh EXCEPT !.tries = n]
<1>1. /\ wish[p] # NoWish /\ tx' = [tx EXCEPT ![p] = t] /\ Unlocks(p) /\ UNCHANGED slotVars
  BY DEF BeginAgain, At
<1>2. n \in Nat /\ tx'[p] = t
  BY <1>1 DEF LockInv, TxTypes, Transaction
<1>3. t \in Transaction
  BY <1>2, FreshTypes DEF Transaction
<1>4. /\ DOMAIN owner' \subseteq DOMAIN owner
      /\ \A r \in DOMAIN owner' : owner'[r] = owner[r]
      /\ Locked(p)' = {}
      /\ \A s \in Procs : s # p => Locked(s)' = Locked(s)
  BY <1>1, UnlocksEffect
<1>5. DOMAIN owner' \subseteq LockRows /\ \A r \in DOMAIN owner' : owner'[r] \in Procs
  BY <1>4 DEF LockInv, TxTypes
<1>6. wish'[p] # NoWish
  BY <1>1 DEF slotVars
<1> HIDE DEF n
<1>7. LocksOK(p)' /\ FoundOK(p)'
  BY <1>2, <1>4, <1>6, BeginsOK
<1> HIDE DEF t
<1>8. QED
  BY <1>1, <1>3, <1>4, <1>5, <1>7, OneTransaction

(* The answer to a request, whether it was carried out or not.             *)
LEMMA AnswerStep ==
    ASSUME LockInv, NEW p \in Procs, wish[p] # NoWish, Responds(p), CommitEffect(p)
    PROVE  LockInv'
<1> DEFINE q == wish[p]
<1>1. /\ wish' = [wish EXCEPT ![p] = NoWish] /\ tx' = [tx EXCEPT ![p] = Fresh]
      /\ wish \in [Procs -> SlotRequest \cup {NoWish}] /\ tx \in [Procs -> Transaction]
      /\ RowsOK' /\ CallsExist'
  BY DEF Responds, CommitEffect, LockInv, RowsOK, TxTypes
<1>2. /\ wish'[p] = NoWish /\ tx'[p] = Fresh
      /\ \A s \in Procs : s # p => wish'[s] = wish[s] /\ tx'[s] = tx[s]
  BY <1>1
<1>3. /\ DOMAIN owner' \subseteq DOMAIN owner
      /\ \A r \in DOMAIN owner' : owner'[r] = owner[r]
      /\ Locked(p)' = {}
      /\ \A s \in Procs : s # p => Locked(s)' = Locked(s)
  BY UnlocksEffect DEF Responds
<1>4. TxTypes'
  BY <1>1, <1>3, FreshTypes DEF LockInv, TxTypes
<1>5. /\ \A s \in Procs, c \in CallIds : CallRow(c) \in Locked(s) => status[c] # "none"
      /\ \A c \in CallIds : status[c] # "none" => status'[c] # "none"
      /\ \A s \in Procs : wish[s] # NoWish => wish[s].call \in CallIds
  <2>1. \A s \in Procs, c \in CallIds : CallRow(c) \in Locked(s) => status[c] # "none"
    BY DEF LockInv, LocksOK
  <2>2. \A s \in Procs : wish[s] # NoWish => wish[s].call \in CallIds
    BY <1>1, RequestFields
  <2>3. QED
    BY <2>1, <2>2 DEF CommitEffect
<1>6. WishesOK'
  <2> SUFFICES ASSUME NEW s \in Procs, wish'[s] # NoWish
               PROVE  /\ IF wish'[s].op = "create"
                            THEN /\ status'[wish'[s].call] = "none"
                                 /\ \A r \in Procs : wish'[r] # NoWish /\ wish'[r].call = wish'[s].call => r = s
                            ELSE status'[wish'[s].call] # "none"
                      /\ wish'[s].op = "release" => wish'[s].call = wish'[s].grant.call
    BY DEF WishesOK
  <2>1. s # p /\ wish'[s] = wish[s] /\ wish[s] # NoWish
    BY <1>2
  <2>2. /\ IF wish[s].op = "create"
              THEN /\ status[wish[s].call] = "none"
                   /\ \A r \in Procs : wish[r] # NoWish /\ wish[r].call = wish[s].call => r = s
              ELSE status[wish[s].call] # "none"
        /\ wish[s].op = "release" => wish[s].call = wish[s].grant.call
    BY <2>1 DEF LockInv, WishesOK
  <2>3. CASE wish[s].op = "create"
    <3>1. \A r \in Procs : wish'[r] # NoWish /\ wish'[r].call = wish'[s].call => r = s
      BY <1>2, <2>1, <2>2, <2>3
    <3>2. wish[s].call # q.call /\ CallRow(wish[s].call) \notin Locked(p)
      BY <1>5, <2>1, <2>2, <2>3
    <3>3. status'[wish[s].call] = status[wish[s].call]
      BY <1>5, <2>1, <3>2 DEF CommitEffect
    <3>4. QED
      BY <2>1, <2>2, <2>3, <3>1, <3>3
  <2>4. CASE wish[s].op # "create"
    BY <1>5, <2>1, <2>2, <2>4
  <2>5. QED
    BY <2>3, <2>4
<1>7. LocksOK(p)' /\ FoundOK(p)'
  <2>1. Fresh = [Fresh EXCEPT !.tries = 0]
    BY DEF Fresh
  <2>2. QED
    BY <1>2, <1>3, <2>1, BeginsOK
<1>8. ASSUME NEW s \in Procs, s # p PROVE LocksOK(s)' /\ FoundOK(s)'
  <2>1. \A r \in Locked(s) : r \notin Locked(p)
    BY <1>8 DEF Locked
  <2>2. q.op = "create" => status[q.call] = "none"
    BY DEF LockInv, WishesOK
  <2>3. \A c \in CallIds : CallRow(c) \in Locked(s) => /\ status'[c] = status[c]
                                                        /\ Present(c)' = Present(c)
                                                        /\ Holders(c)' = Holders(c)
    BY <1>5, <2>1, <2>2 DEF CommitEffect
  <2>4. \A u \in UserIds : UserRow(u) \in Locked(s) => place'[u] = place[u] /\ held'[u] = held[u]
    BY <2>1 DEF CommitEffect
  <2>5. QED
    BY <1>2, <1>3, <1>5, <1>8, <2>3, <2>4, OthersStay
<1>9. QED
  BY <1>1, <1>4, <1>6, <1>7, <1>8 DEF LockInv

LEMMA CommitStep ==
    ASSUME LockInv, NEW p \in Procs, Commit(p)
    PROVE  LockInv'
  BY CommitChanges, AnswerStep DEF Commit, At

LEMMA FailStep ==
    ASSUME LockInv, NEW p \in Procs, Fail(p)
    PROVE  LockInv'
<1>1. wish[p] # NoWish /\ Responds(p) /\ UNCHANGED rowVars
  BY DEF Fail
<1>2. RowsOK' /\ CallsExist'
  BY <1>1 DEF rowVars, Responds, LockInv, RowsOK, CallsExist
<1>3. CommitEffect(p)
  BY <1>1, <1>2 DEF CommitEffect, rowVars, Present, Holders
<1>4. QED
  BY <1>1, <1>3, AnswerStep

LEMMA AskStep ==
    ASSUME LockInv, NEW p \in Procs, Ask(p)
    PROVE  /\ LockInv'
           /\ wish'[p] \in SlotRequest /\ Asks(p, wish'[p])
<1>1. PICK q \in SlotRequest : Asks(p, q)
  BY DEF Ask
<1>2. /\ UNCHANGED <<tx, owner>> /\ UNCHANGED rowVars
      /\ wish' = [wish EXCEPT ![p] = q] /\ wish[p] = NoWish
      /\ wish \in [Procs -> SlotRequest \cup {NoWish}]
  BY <1>1 DEF Ask, Asks, LockInv, RowsOK
<1>3. wish'[p] = q /\ q # NoWish /\ \A s \in Procs : s # p => wish'[s] = wish[s]
  BY <1>2, SlotAssumption
<1>4. RowsOK' /\ CallsExist' /\ TxTypes'
  BY <1>2 DEF rowVars, LockInv, RowsOK, CallsExist, TxTypes
<1>5. WishesOK'
  <2> SUFFICES ASSUME NEW s \in Procs, wish'[s] # NoWish
               PROVE  /\ IF wish'[s].op = "create"
                            THEN /\ status'[wish'[s].call] = "none"
                                 /\ \A r \in Procs : wish'[r] # NoWish /\ wish'[r].call = wish'[s].call => r = s
                            ELSE status'[wish'[s].call] # "none"
                      /\ wish'[s].op = "release" => wish'[s].call = wish'[s].grant.call
    BY DEF WishesOK
  <2>1. status' = status
    BY <1>2 DEF rowVars
  <2>2. /\ IF q.op = "create"
              THEN status[q.call] = "none" /\ \A r \in Procs : wish[r] # NoWish => wish[r].call # q.call
              ELSE status[q.call] # "none"
        /\ q.op = "release" => q.call = q.grant.call
    BY <1>1 DEF Asks
  <2>3. CASE s = p
    BY <1>3, <2>1, <2>2, <2>3
  <2>4. CASE s # p
    <3>1. wish'[s] = wish[s] /\ wish[s] # NoWish
      BY <1>3, <2>4
    <3>2. /\ IF wish[s].op = "create"
                THEN /\ status[wish[s].call] = "none"
                     /\ \A r \in Procs : wish[r] # NoWish /\ wish[r].call = wish[s].call => r = s
                ELSE status[wish[s].call] # "none"
          /\ wish[s].op = "release" => wish[s].call = wish[s].grant.call
      BY <3>1 DEF LockInv, WishesOK
    <3>3. wish[s].op = "create" => q.call # wish[s].call
      BY <2>2, <3>1, <3>2
    <3>4. wish[s].op = "create" =>
             \A r \in Procs : wish'[r] # NoWish /\ wish'[r].call = wish'[s].call => r = s
      BY <1>3, <3>1, <3>2, <3>3
    <3>5. QED
      BY <2>1, <3>1, <3>2, <3>4
  <2>5. QED
    BY <2>3, <2>4
<1>6. tx[p] = Fresh /\ Locked(p) = {}
  <2>1. tx[p] = Fresh /\ Locked(p) \subseteq tx[p].plan
    BY <1>2 DEF LockInv, LocksOK
  <2>2. Fresh.plan = {}
    BY DEF Fresh
  <2>3. QED
    BY <2>1, <2>2
<1>7. \A s \in Procs : Locked(s)' = Locked(s)
  BY <1>2 DEF Locked
<1>8. LocksOK(p)' /\ FoundOK(p)'
  <2>1. Fresh = [Fresh EXCEPT !.tries = 0]
    BY DEF Fresh
  <2>2. tx'[p] = [Fresh EXCEPT !.tries = 0] /\ Locked(p)' = {}
    BY <1>2, <1>6, <1>7, <2>1
  <2>3. QED
    BY <2>2, BeginsOK
<1>9. \A c \in CallIds : Present(c)' = Present(c) /\ Holders(c)' = Holders(c)
  BY <1>2 DEF rowVars, Present, Holders
<1>10. ASSUME NEW s \in Procs, s # p PROVE LocksOK(s)' /\ FoundOK(s)'
  BY <1>2, <1>3, <1>7, <1>9, <1>10, OthersStay DEF rowVars
<1>11. QED
  BY <1>1, <1>3, <1>4, <1>5, <1>8, <1>10 DEF LockInv

-----------------------------------------------------------------------------
(* The invariant.                                                          *)
LEMMA LockInit0 ==
    LockInit => LockInv
<1> SUFFICES ASSUME LockInit PROVE LockInv
  OBVIOUS
<1>1. /\ SlotInit /\ tx = [p \in Procs |-> Fresh] /\ owner = <<>> /\ DOMAIN owner = {}
  BY DEF LockInit
<1>2. RowsOK /\ CallsExist /\ WishesOK
  BY <1>1, SlotAssumption DEF SlotInit, RowsOK, CallsExist, WishesOK
<1>3. TxTypes
  BY <1>1, FreshTypes DEF TxTypes
<1>4. ASSUME NEW p \in Procs PROVE LocksOK(p) /\ FoundOK(p)
  <2>1. /\ tx[p] = Fresh /\ Locked(p) = {} /\ wish[p] = NoWish
        /\ Fresh.pc = "call" /\ Fresh.plan = {} /\ Fresh.active = {} /\ Fresh.found = NotFound
    BY <1>1 DEF Locked, SlotInit, Fresh
  <2>2. NotFound.rows = {} /\ NotFound.todo = {} /\ DOMAIN NotFound.held = DOMAIN NotFound.place
    BY FreshTypes DEF NotFound
  <2>3. LocksOK(p)
    BY <2>1, <2>2 DEF LocksOK
  <2>4. FoundOK(p)
    BY <2>1, <2>2 DEF FoundOK
  <2>5. QED
    BY <2>3, <2>4
<1>5. QED
  BY <1>2, <1>3, <1>4 DEF LockInv

LEMMA LockNextStep ==
    ASSUME LockInv, [LockNext]_lockVars
    PROVE  LockInv'
<1>1. CASE LockNext
  BY <1>1, AskStep, ReadGrantStep, ReadCallStep, ReadUserStep, ReadRoomsStep, LockRowStep,
     CommitStep, BeginAgainStep, FailStep DEF LockNext, LockStep, Query
<1>2. CASE UNCHANGED lockVars
  <2>1. UNCHANGED <<status, place, held, room, serial, wish, tx, owner>>
    BY <1>2 DEF lockVars, slotVars, rowVars
  <2>2. RowsOK' /\ CallsExist' /\ WishesOK' /\ TxTypes'
    BY <2>1 DEF LockInv, RowsOK, CallsExist, WishesOK, TxTypes
  <2>3. /\ \A s \in Procs : Locked(s)' = Locked(s)
        /\ \A c \in CallIds : Present(c)' = Present(c) /\ Holders(c)' = Holders(c)
    BY <2>1 DEF Locked, Present, Holders
  <2>4. ASSUME NEW s \in Procs PROVE LocksOK(s)' /\ FoundOK(s)'
    BY <2>1, <2>3, OthersStay
  <2>5. QED
    BY <2>2, <2>4 DEF LockInv
<1>3. QED
  BY <1>1, <1>2

THEOREM LocksAreKept == LockSpec => []LockInv
<1>1. LockInit => LockInv
  BY LockInit0
<1>2. LockInv /\ [LockNext]_lockVars => LockInv'
  BY LockNextStep
<1>3. QED
  BY <1>1, <1>2, PTL DEF LockSpec

-----------------------------------------------------------------------------
(* Every step of the guard is one of the contract's, or none of it.        *)
LEMMA ImplementsStep ==
    ASSUME LockInv, [LockNext]_lockVars
    PROVE  [SlotNext]_slotVars
<1>1. ASSUME NEW p \in Procs, Ask(p) PROVE SlotNext
  BY <1>1, AskStep DEF SlotNext
<1>2. ASSUME NEW p \in Procs, Query(p) \/ LockRow(p) \/ BeginAgain(p) PROVE UNCHANGED slotVars
  <2>1. CASE Query(p)
    BY <2>1 DEF Query, ReadGrant, ReadCall, ReadRooms, ReadUser, Quiet
  <2>2. CASE LockRow(p)
    BY <2>2 DEF LockRow
  <2>3. CASE BeginAgain(p)
    BY <2>3 DEF BeginAgain
  <2>4. QED
    BY <1>2, <2>1, <2>2, <2>3
<1>3. ASSUME NEW p \in Procs, Commit(p) PROVE SlotNext
  <2>1. /\ wish[p] # NoWish /\ Writes(wish[p])
        /\ wish' = [wish EXCEPT ![p] = NoWish]
    BY <1>3 DEF Commit, At, Responds
  <2>2. Performs(p)
    BY <1>3, <2>1, CommitReads DEF Performs
  <2>3. QED
    BY <2>2 DEF SlotNext
<1>4. ASSUME NEW p \in Procs, Fail(p) PROVE SlotNext
  BY <1>4 DEF Fail, Responds, Refuses, SlotNext
<1>5. UNCHANGED lockVars => UNCHANGED slotVars
  BY DEF lockVars
<1>6. QED
  BY <1>1, <1>2, <1>3, <1>4, <1>5 DEF LockNext, LockStep

(* What a transaction of the guard reads without locks, or before another  *)
(* transaction commits, does not count: each request is executed in one    *)
(* step that decides on the rows as they are, or changes nothing.          *)
THEOREM SlotsImplementContract == LockSpec => OneStepEach
<1>1. LockInit => SlotInit
  BY DEF LockInit
<1>2. LockInv /\ [LockNext]_lockVars => [SlotNext]_slotVars
  BY ImplementsStep
<1>3. QED
  BY <1>1, <1>2, LocksAreKept, PTL DEF LockSpec, OneStepEach, SlotSpec

-----------------------------------------------------------------------------
(* The contract keeps the row of who holds a grant, and the call active.   *)
LEMMA JoinKeepsPlaces ==
    ASSUME RowsOK, HoldsArePlaced, NEW u \in UserIds, NEW c \in CallIds,
           held[u] # NoHold => held[u].call = c, UNCHANGED held,
           status' = [status EXCEPT ![c] = "active"] \/ status' = status,
           place' = [place EXCEPT ![u] = c]
    PROVE  HoldsArePlaced'
<1>1. ASSUME NEW v \in UserIds, held'[v] # NoHold
      PROVE  place'[v] = held'[v].call /\ status'[held'[v].call] = "active"
  <2>1. held[v] # NoHold /\ held'[v] = held[v] /\ held[v].call \in CallIds
    BY <1>1 DEF RowsOK, Hold
  <2>2. place[v] = held[v].call /\ status[held[v].call] = "active"
    BY <2>1 DEF HoldsArePlaced
  <2>3. QED
    BY <2>1, <2>2 DEF RowsOK
<1>2. QED
  BY <1>1 DEF HoldsArePlaced

(* A call that ends, by whatever request, has no grant left in it, and     *)
(* who loses a row holds none.                                             *)
LEMMA EndKeepsPlaces ==
    ASSUME RowsOK, HoldsArePlaced, NEW c \in CallIds,
           \A v \in UserIds : held'[v] # NoHold => held'[v] = held[v] /\ place'[v] = place[v],
           \A d \in CallIds : status'[d] = status[d] \/ (d = c /\ Holders(c)' = {})
    PROVE  HoldsArePlaced'
<1>1. ASSUME NEW v \in UserIds, held'[v] # NoHold
      PROVE  place'[v] = held'[v].call /\ status'[held'[v].call] = "active"
  <2>1. held[v] # NoHold /\ held'[v] = held[v] /\ place'[v] = place[v] /\ held[v].call \in CallIds
    BY <1>1 DEF RowsOK, Hold
  <2>2. place[v] = held[v].call /\ status[held[v].call] = "active"
    BY <2>1 DEF HoldsArePlaced
  <2>3. v \in Holders(held[v].call)'
    BY <1>1, <2>1 DEF Holders
  <2>4. QED
    BY <2>1, <2>2, <2>3
<1>2. QED
  BY <1>1 DEF HoldsArePlaced

LEMMA PerformKeepsPlaces ==
    ASSUME RowsOK, HoldsArePlaced, NEW p \in Procs, Performs(p)
    PROVE  HoldsArePlaced'
<1> DEFINE q == wish[p]
           u == q.user
<1>0. PICK c \in CallIds : c = q.call
  BY RequestFields DEF Performs, RowsOK
<1> DEFINE users == SlotUsers(q, Present(c), Holders(c))
           h == [v \in users |-> held[v]]
<1>1. /\ q \in SlotRequest /\ (q.op # "end" => u \in UserIds)
      /\ q.op \in {"create", "join", "leave", "reserve", "end", "release"}
      /\ Permits(q, ActiveCalls, place, h) /\ Writes(q)
  BY <1>0, RequestFields DEF Performs, RowsOK
<1>2. /\ status \in [CallIds -> {"none", "active", "ended"}]
      /\ place \in [UserIds -> CallIds \cup {NoPlace}]
      /\ held \in [UserIds -> Hold \cup {NoHold}]
  BY DEF RowsOK
<1>3. q.op # "end" => u \in users
  BY <1>0, <1>1 DEF SlotUsers
<1>4. \A v \in Holders(c) : v \in Present(c)
  BY DEF Holders, Present, HoldsArePlaced
<1>5. CASE q.op \in {"create", "join"}
  <2>1. h[u] = held[u]
    BY <1>3, <1>5
  <2>2. held[u] # NoHold => held[u].call = c
    BY <1>0, <1>1, <1>5, <2>1 DEF Permits
  <2>3. /\ UNCHANGED held /\ place' = [place EXCEPT ![u] = c]
        /\ status' = [status EXCEPT ![c] = "active"] \/ status' = status
    BY <1>0, <1>1, <1>5 DEF Writes, Creates, Joins
  <2>4. QED
    BY <1>1, <1>5, <2>2, <2>3, JoinKeepsPlaces
<1>6. CASE q.op \in {"leave", "end"}
  <2>1. \A v \in users : held[v] = NoHold
    BY <1>0, <1>1, <1>6 DEF Permits
  <2>2. CASE q.op = "leave"
    <3>1. /\ place[u] = c /\ place' = [place EXCEPT ![u] = NoPlace] /\ held' = held
          /\ status' = [status EXCEPT ![c] = IF @ = "active" /\ Present(c) \subseteq {u}
                                               THEN "ended" ELSE @]
      BY <1>0, <1>1, <1>2, <2>2 DEF Writes, Leaves, Departs
    <3>2. \A v \in UserIds : held[v] # NoHold => v # u
      BY <1>3, <2>1, <2>2
    <3>3. Present(c) \subseteq {u} => Holders(c) = {}
      BY <1>4, <3>2 DEF Holders, Present
    <3>4. Holders(c)' = Holders(c)
      BY <3>1 DEF Holders
    <3>5. \A v \in UserIds : held'[v] # NoHold => held'[v] = held[v] /\ place'[v] = place[v]
      BY <1>2, <3>1, <3>2
    <3>6. \A d \in CallIds : status'[d] = status[d] \/ (d = c /\ Holders(c)' = {})
      BY <1>2, <3>1, <3>3, <3>4
    <3>7. QED
      BY <1>1, <3>5, <3>6, EndKeepsPlaces
  <2>3. CASE q.op = "end"
    <3>1. users = Present(c) \cup Holders(c)
      BY <2>3 DEF SlotUsers
    <3>2. /\ place' = [v \in UserIds |-> IF place[v] = c THEN NoPlace ELSE place[v]]
          /\ status' = [status EXCEPT ![c] = "ended"] /\ held' = held
      BY <1>0, <1>1, <2>3 DEF Writes, Ends
    <3>3. \A v \in UserIds : held[v] # NoHold => place[v] # c
      BY <2>1, <3>1 DEF Present
    <3>4. Holders(c)' = {}
      BY <2>1, <3>1, <3>2 DEF Holders
    <3>5. QED
      BY <1>1, <1>2, <3>2, <3>3, <3>4, EndKeepsPlaces
  <2>4. QED
    BY <1>6, <2>2, <2>3
<1>7. CASE q.op = "reserve"
  <2>1. status[c] = "active"
    BY <1>0, <1>1, <1>7 DEF Permits, ActiveCalls
  <2>2. /\ held' = [held EXCEPT ![u] = [id |-> serial + 1, call |-> c, room |-> room'[c]]]
        /\ place' = [place EXCEPT ![u] = c] /\ status' = status
    BY <1>0, <1>1, <1>7 DEF Writes, Reserves
  <2>3. /\ held'[u].call = c /\ place'[u] = c
        /\ \A v \in UserIds : v # u => held'[v] = held[v] /\ place'[v] = place[v]
    BY <1>1, <1>2, <1>7, <2>2
  <2>4. QED
    BY <2>1, <2>2, <2>3 DEF HoldsArePlaced
<1>8. CASE q.op = "release"
  <2>1. /\ held' = [held EXCEPT ![u] = NoHold]
        /\ place' = [place EXCEPT ![u] = IF @ = c THEN NoPlace ELSE @]
        /\ status' = [status EXCEPT ![c] = IF @ = "active" /\ Present(c) \subseteq {u}
                                             THEN "ended" ELSE @]
    BY <1>0, <1>1, <1>8 DEF Writes, Releases, Departs
  <2>2. \A v \in UserIds : held'[v] # NoHold =>
           v # u /\ held'[v] = held[v] /\ place'[v] = place[v]
    BY <1>1, <1>2, <1>8, <2>1
  <2>3. Present(c) \subseteq {u} => Holders(c)' = {}
    BY <1>4, <2>2 DEF Holders
  <2>4. \A d \in CallIds : status'[d] = status[d] \/ (d = c /\ Holders(c)' = {})
    BY <1>2, <2>1, <2>3
  <2>5. QED
    BY <1>1, <2>2, <2>4, EndKeepsPlaces
<1>9. QED
  BY <1>1, <1>5, <1>6, <1>7, <1>8

(* Whatever the transactions of the guard read too early, none takes the   *)
(* row of a user away, or ends the call, for which a grant is held: what   *)
(* finishMediaParticipation leaves is the row the grant was reserved for.  *)
THEOREM HoldsStayPlaced == LockSpec => []HoldsArePlaced
<1>1. LockInit => HoldsArePlaced
  BY DEF LockInit, SlotInit, HoldsArePlaced
<1>2. ASSUME LockInv, HoldsArePlaced, [LockNext]_lockVars
      PROVE  HoldsArePlaced'
  <2>1. [SlotNext]_slotVars
    BY <1>2, ImplementsStep
  <2>2. UNCHANGED rowVars => HoldsArePlaced'
    BY <1>2 DEF HoldsArePlaced, rowVars
  <2>3. ASSUME NEW p \in Procs, Performs(p) PROVE HoldsArePlaced'
    BY <1>2, <2>3, PerformKeepsPlaces DEF LockInv
  <2>4. UNCHANGED slotVars => UNCHANGED rowVars
    BY DEF slotVars
  <2>5. QED
    BY <2>1, <2>2, <2>3, <2>4 DEF SlotNext, Asks, Refuses
<1>3. QED
  BY <1>1, <1>2, LocksAreKept, PTL DEF LockSpec

-----------------------------------------------------------------------------
(* Deadlock.  What a transaction still has to lock comes after what it has.*)
LockOrder(p) ==
    tx[p].pc = "lock" =>
        \A r \in Locked(p) : \A s \in tx[p].plan \ Locked(p) : Precedes(r, s)

(* Among some locked rows there is always one that no other comes after.   *)
HasMaxima ==
    \A S \in SUBSET DOMAIN owner : S # {} => \E m \in S : \A r \in S : ~Precedes(m, r)

OrderInv == LockInv /\ HasMaxima /\ \A p \in Procs : LockOrder(p)

LEMMA RowOrder ==
    \A r, s, t \in LockRows :
        /\ ~Precedes(r, r)
        /\ Precedes(r, s) /\ Precedes(s, t) => Precedes(r, t)
        /\ r # s => Precedes(r, s) \/ Precedes(s, r)
  BY DEF LockRows, Precedes

LEMMA NobodyWaits ==
    ASSUME OrderInv
    PROVE  NoCircularWait
<1> SUFFICES ASSUME NEW W \in (SUBSET Procs) \ {{}}, \A p \in W : Waits(p, W)
             PROVE  FALSE
  BY DEF NoCircularWait
<1> DEFINE S == {r \in DOMAIN owner : owner[r] \in W}
<1>1. \A p \in W : /\ tx[p].pc = "lock"
                    /\ \E r \in NextRows(p) : r \in S
  BY DEF Waits, At
<1>2. S # {}
  <2>1. PICK p : p \in W
    OBVIOUS
  <2>2. PICK r : r \in S
    BY <1>1, <2>1
  <2>3. QED
    BY <2>2
<1>3. PICK m \in S : \A r \in S : ~Precedes(m, r)
  <2>1. S \in SUBSET DOMAIN owner
    OBVIOUS
  <2> HIDE DEF S
  <2>2. QED
    BY <1>2, <2>1 DEF OrderInv, HasMaxima
<1>4. owner[m] \in W /\ owner[m] \in Procs /\ m \in Locked(owner[m])
  BY DEF Locked
<1>5. PICK r \in NextRows(owner[m]) : r \in S
  BY <1>1, <1>4
<1>6. r \in tx[owner[m]].plan \ Locked(owner[m])
  BY DEF NextRows
<1>7. Precedes(m, r)
  BY <1>1, <1>4, <1>6 DEF OrderInv, LockOrder
<1>8. QED
  BY <1>3, <1>5, <1>7

(* Fewer locks, or the same.                                               *)
LEMMA MaximaStay ==
    ASSUME HasMaxima, DOMAIN owner' \subseteq DOMAIN owner
    PROVE  HasMaxima'
  BY DEF HasMaxima

LEMMA OrderStays ==
    ASSUME NEW p \in Procs, LockOrder(p), tx'[p] = tx[p], Locked(p)' = Locked(p)
    PROVE  LockOrder(p)'
  BY DEF LockOrder

(* A row is locked when no other that is left comes before it.             *)
LEMMA LockOrderStep ==
    ASSUME OrderInv, NEW p \in Procs, LockRow(p)
    PROVE  HasMaxima' /\ \A s \in Procs : LockOrder(s)'
<1> USE DEF OrderInv
<1>1. tx[p].pc = "lock" /\ tx \in [Procs -> Transaction] /\ DOMAIN owner \subseteq LockRows
  BY LockEffect DEF LockInv, TxTypes
<1>2. PICK r \in NextRows(p) :
         /\ r \in tx[p].plan \ Locked(p) /\ r \in LockRows /\ r \notin DOMAIN owner
         /\ DOMAIN owner' = DOMAIN owner \cup {r} /\ owner'[r] = p
         /\ \A s \in DOMAIN owner : owner'[s] = owner[s]
         /\ Locked(p)' = Locked(p) \cup {r}
         /\ \A s \in Procs : s # p => Locked(s)' = Locked(s)
         /\ tx' = [tx EXCEPT ![p] = [tx[p] EXCEPT !.active =
                      IF r[1] = 1 THEN @ \cup ({r[2]} \cap ActiveCalls) ELSE @]]
  BY LockEffect
<1>3. tx'[p].plan = tx[p].plan /\ \A s \in Procs : s # p => tx'[s] = tx[s]
  BY <1>1, <1>2 DEF Transaction
<1>4. LockOrder(p)'
  <2> SUFFICES ASSUME NEW a \in Locked(p)', NEW b \in tx'[p].plan \ Locked(p)'
               PROVE  Precedes(a, b)
    BY DEF LockOrder, Precedes
  <2>1. b \in tx[p].plan \ Locked(p) /\ b # r /\ b \in LockRows
    BY <1>1, <1>2, <1>3 DEF Transaction
  <2>2. CASE a = r
    <3>1. ~Precedes(b, r)
      BY <2>1 DEF NextRows
    <3>2. QED
      BY <1>2, <2>1, <2>2, <3>1, RowOrder
  <2>3. CASE a \in Locked(p)
    BY <1>1, <2>1, <2>3 DEF LockOrder
  <2>4. QED
    BY <1>2, <2>2, <2>3
<1>5. HasMaxima'
  <2> SUFFICES ASSUME NEW S \in SUBSET (DOMAIN owner \cup {r}), S # {}
               PROVE  \E m \in S : \A s \in S : ~Precedes(m, s)
    BY <1>2 DEF HasMaxima, Precedes
  <2> DEFINE T == S \ {r}
  <2>1. CASE T = {}
    BY <1>2, <2>1, RowOrder
  <2>2. CASE T # {}
    <3>1. T \in SUBSET DOMAIN owner /\ S \subseteq LockRows
      BY <1>1, <1>2
    <3> HIDE DEF T
    <3>2. PICK m \in T : \A s \in T : ~Precedes(m, s)
      BY <2>2, <3>1 DEF HasMaxima
    <3>3. m \in LockRows /\ \A s \in T : s \in LockRows
      BY <1>1, <3>1
    <3>4. CASE r \in S /\ Precedes(m, r)
      <4>1. \A s \in T : ~Precedes(r, s)
        BY <1>2, <3>2, <3>3, <3>4, RowOrder
      <4>2. QED
        BY <1>2, <3>4, <4>1, RowOrder DEF T
    <3>5. CASE ~(r \in S /\ Precedes(m, r))
      BY <3>2, <3>5 DEF T
    <3>6. QED
      BY <3>4, <3>5
  <2>3. QED
    BY <2>1, <2>2
<1>6. QED
  BY <1>2, <1>3, <1>4, <1>5, OrderStays

(* Every other step of a transaction leaves it with no locks, or out of    *)
(* the state in which it locks.                                            *)
LEMMA OtherOrderStep ==
    ASSUME OrderInv, NEW p \in Procs, Ask(p) \/ Query(p) \/ Commit(p) \/ BeginAgain(p) \/ Fail(p)
    PROVE  HasMaxima' /\ \A s \in Procs : LockOrder(s)'
<1> USE DEF OrderInv
<1>1. tx \in [Procs -> Transaction] /\ tx[p] \in Transaction
  BY DEF LockInv, TxTypes
<1>2. CASE Ask(p)
  <2>1. UNCHANGED <<tx, owner>> /\ \A s \in Procs : Locked(s)' = Locked(s)
    BY <1>2 DEF Ask, Locked
  <2>2. QED
    BY <2>1, MaximaStay, OrderStays
<1>3. CASE Query(p)
  <2>1. owner' = owner /\ \A s \in Procs : Locked(s)' = Locked(s)
    BY <1>3 DEF Query, ReadGrant, ReadCall, ReadRooms, ReadUser, Quiet, Locked
  <2>2. \A s \in Procs : s # p => tx'[s] = tx[s]
    BY <1>1, <1>3 DEF Query, ReadGrant, ReadCall, ReadRooms, ReadUser
  <2>3. tx'[p].pc # "lock" \/ Locked(p) = {}
    <3>1. wish[p] # NoWish /\ LocksOK(p)
      BY <1>3 DEF Query, ReadGrant, ReadCall, ReadRooms, ReadUser, At, LockInv
    <3>2. CASE ReadGrant(p)
      BY <3>1, <3>2 DEF ReadGrant, At, LocksOK
    <3>3. CASE ReadCall(p)
      BY <1>1, <3>3 DEF ReadCall, Transaction
    <3>4. CASE ReadRooms(p)
      <4>1. CASE tx[p].plan = {}
        BY <3>1, <4>1 DEF LocksOK
      <4>2. CASE tx[p].plan # {}
        BY <1>1, <3>4, <4>2 DEF ReadRooms, Transaction
      <4>3. QED
        BY <4>1, <4>2
    <3>5. ASSUME NEW u \in UserIds, ReadUser(p, u) PROVE tx'[p].pc # "lock"
      BY <1>1, <3>5 DEF ReadUser, At, Transaction
    <3>6. QED
      BY <1>3, <3>2, <3>3, <3>4, <3>5 DEF Query
  <2>4. LockOrder(p)'
    BY <2>1, <2>3 DEF LockOrder
  <2>5. QED
    BY <2>1, <2>2, <2>4, MaximaStay, OrderStays
<1>4. CASE Commit(p) \/ BeginAgain(p) \/ Fail(p)
  <2>1. /\ Unlocks(p)
        /\ \A s \in Procs : s # p => tx'[s] = tx[s]
    BY <1>1, <1>4 DEF Commit, BeginAgain, Fail, Responds
  <2>2. /\ DOMAIN owner' \subseteq DOMAIN owner /\ Locked(p)' = {}
        /\ \A s \in Procs : s # p => Locked(s)' = Locked(s)
    BY <2>1, UnlocksEffect
  <2>3. LockOrder(p)'
    BY <2>2 DEF LockOrder
  <2>4. QED
    BY <2>1, <2>2, <2>3, MaximaStay, OrderStays
<1>5. QED
  BY <1>2, <1>3, <1>4

(* Requests never wait for each other's rows, however many rows they have  *)
(* to lock: each locks calls before rooms before users, by their ids.      *)
THEOREM LocksAreOrdered == LockSpec => []NoCircularWait
<1>1. LockInit => OrderInv
  <2>1. LockInit => owner = <<>> /\ DOMAIN owner = {} /\ tx = [p \in Procs |-> Fresh]
    BY DEF LockInit
  <2>2. LockInit => HasMaxima /\ \A p \in Procs : LockOrder(p)
    BY <2>1 DEF HasMaxima, LockOrder, Locked
  <2>3. QED
    BY <2>2, LockInit0 DEF OrderInv
<1>2. OrderInv /\ [LockNext]_lockVars => OrderInv'
  <2> SUFFICES ASSUME OrderInv, [LockNext]_lockVars PROVE OrderInv'
    OBVIOUS
  <2>1. LockInv'
    BY LockNextStep DEF OrderInv
  <2>2. CASE LockNext
    BY <2>1, <2>2, LockOrderStep, OtherOrderStep DEF LockNext, LockStep, OrderInv
  <2>3. CASE UNCHANGED lockVars
    <3>1. tx' = tx /\ owner' = owner /\ \A s \in Procs : Locked(s)' = Locked(s)
      BY <2>3 DEF lockVars, Locked
    <3>2. QED
      BY <2>1, <3>1, MaximaStay, OrderStays DEF OrderInv
  <2>4. QED
    BY <2>2, <2>3
<1>3. OrderInv => NoCircularWait
  BY NobodyWaits
<1>4. QED
  BY <1>1, <1>2, <1>3, PTL DEF LockSpec

=============================================================================

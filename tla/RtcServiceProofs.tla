-------------------------- MODULE RtcServiceProofs --------------------------
(***************************************************************************)
(* Proofs about RtcService, for any number of requests, users and calls,   *)
(* with or without the slot guard.                                         *)
(***************************************************************************)
EXTENDS RtcService, MediaSystemProofs

(* A request knows the row it is about to leave, and only a start or a     *)
(* join looks for another participation of its user.                       *)
RequestOK(q) ==
    \/ q = Idle
    \/ /\ q \in Request
       /\ q.pc \in {"ensure", "evictOwn"} => q.op \in {"start", "join"}
       /\ q.pc = "find" => q.op = "start"
       /\ q.pc \in {"evictOwn", "evictLast"} => q.own \in Row
       /\ q.pc = "commit" /\ q.op \in {"leave", "touch", "signal"} =>
             q.own \in Row /\ q.own[1] = q.user

ServiceInv == /\ TypeOK
              /\ stale \in SUBSET Users
              /\ req \in [Procs -> Request \cup {Idle}]
              /\ \A p \in Procs : RequestOK(req[p])

(* LeaveRow is a leave of the repository, of that very row, or nothing.    *)
LEMMA LeaveRowEffect ==
    ASSUME TypeOK, stale \in SUBSET Users, NEW c, NEW r \in Row, LeaveRow(c, r)
    PROVE  /\ stale' \in SUBSET Users
           /\ \/ UNCHANGED <<callVars, mediaVars>>
              \/ /\ c \in Calls /\ r[1] \in Users
                 /\ LeaveParticipantAndMaybeEndCall(c, r[1])
                 /\ r = <<r[1], row[r[1]]>>
<1>1. r[1] \in Users /\ r = <<r[1], r[2]>>
  BY DEF Row
<1>2. CASE RowActive(r[1], r[2]) /\ part[r[1]] = c /\ LeaveParticipantAndMaybeEndCall(c, r[1])
           /\ stale' = stale \ {r[1]}
  BY <1>1, <1>2 DEF RowActive, TypeOK
<1>3. CASE Quiet
  BY <1>3 DEF Quiet
<1>4. QED
  BY <1>2, <1>3 DEF LeaveRow

(* What a handler does to the tables.                                      *)
TablesMove ==
    /\ stale' \in SUBSET Users
    /\ UNCHANGED <<callVars, mediaVars>> \/ RepositoryNext

LEMMA LeaveMoves ==
    ASSUME TypeOK, stale \in SUBSET Users, NEW c, NEW r \in Row, LeaveRow(c, r)
    PROVE  TablesMove
  BY LeaveRowEffect DEF TablesMove, RepositoryNext

LEMMA QuietMoves == stale \in SUBSET Users /\ Quiet => TablesMove
  BY DEF Quiet, TablesMove

LEMMA HandleMoves ==
    ASSUME ServiceInv, NEW p \in Procs, Handle(p)
    PROVE  TablesMove
<1> DEFINE q == req[p]
<1>1. TypeOK /\ stale \in SUBSET Users /\ RequestOK(q)
  BY DEF ServiceInv
<1>2. q.pc # "idle" => q \in Request
  BY <1>1 DEF RequestOK, Idle
<1>3. CASE Quiet
  BY <1>1, <1>3, QuietMoves
<1>4. ASSUME NEW c, NEW r \in Row, LeaveRow(c, r) PROVE TablesMove
  BY <1>1, <1>4, LeaveMoves
<1>5. CASE Evict(p)
  <2>1. PICK r \in q.todo : LeaveRow(q.seen, r)
    BY <1>5 DEF Evict
  <2>2. r \in Row
    BY <1>2, <1>5, <2>1 DEF Evict, Request
  <2>3. QED
    BY <1>4, <2>1, <2>2
<1>6. CASE EvictOwn(p) \/ EvictLast(p)
  <2>1. LeaveRow(q.seen, q.own) /\ q.pc \in {"evictOwn", "evictLast"}
    BY <1>6 DEF EvictOwn, EvictLast
  <2>2. q.own \in Row
    BY <1>1, <2>1 DEF RequestOK, Idle
  <2>3. QED
    BY <1>4, <2>1, <2>2
<1>7. CASE CommitLeave(p)
  <2>1. LeaveRow(q.call, q.own) /\ q.pc = "commit" /\ q.op = "leave"
    BY <1>7 DEF CommitLeave
  <2>2. q.own \in Row
    BY <1>1, <2>1 DEF RequestOK, Idle
  <2>3. QED
    BY <1>4, <2>1, <2>2
<1>8. CASE EvictTarget(p)
  <2>1. PICK r \in q.todo : LeaveRow(q.call, r)
    BY <1>8 DEF EvictTarget
  <2>2. r \in Row
    BY <1>2, <1>8, <2>1 DEF EvictTarget, Request
  <2>3. QED
    BY <1>4, <2>1, <2>2
<1>9. CASE CommitStart(p) \/ CommitJoin(p) \/ CommitEnd(p)
  <2>1. q.call \in Calls /\ q.user \in Users
    BY <1>2, <1>9 DEF CommitStart, CommitJoin, CommitEnd, Request
  <2>2. CASE CommitStart(p)
    BY <1>1, <1>3, <2>1, <2>2 DEF CommitStart, TablesMove, RepositoryNext
  <2>3. CASE CommitJoin(p)
    BY <1>1, <1>3, <2>1, <2>3 DEF CommitJoin, TablesMove, RepositoryNext
  <2>4. CASE CommitEnd(p)
    BY <1>1, <1>3, <2>1, <2>4 DEF CommitEnd, TablesMove, RepositoryNext
  <2>5. QED
    BY <1>9, <2>2, <2>3, <2>4
<1>10. CASE Touch(p)
  BY <1>1, <1>10 DEF Touch, TablesMove
<1>11. QED
  BY <1>3, <1>5, <1>6, <1>7, <1>8, <1>9, <1>10 DEF Handle, Load, List, Reread, Ensure, Find, Read,
     Resolve

LEMMA ServiceMoves ==
    ASSUME ServiceInv, [ServiceNext]_serviceVars
    PROVE  TablesMove
  BY HandleMoves, QuietMoves DEF ServiceInv, ServiceNext, serviceVars, Begin, GoesStale, TablesMove

-----------------------------------------------------------------------------
(* The requests: what a handler writes into its own.                       *)
RequestMoves(p) ==
    /\ RequestOK(req'[p])
    /\ req' \in [Procs -> Request \cup {Idle}]
    /\ \A s \in Procs : s # p => req'[s] = req[s]

LEMMA ReturnMoves ==
    ASSUME ServiceInv, NEW p \in Procs, Return(p)
    PROVE  RequestMoves(p)
  BY DEF ServiceInv, Return, RequestMoves, RequestOK

LEMMA GotoMoves ==
    ASSUME ServiceInv, NEW p \in Procs, NEW l, Goto(p, l), req[p] \in Request,
           \/ l \in {"list", "reread", "read", "resolve"}
           \/ l = "find" /\ req[p].op = "start"
           \/ l = "ensure" /\ req[p].op \in {"start", "join"}
           \/ l = "commit" /\ req[p].op \in {"start", "join", "end"}
    PROVE  RequestMoves(p)
<1> DEFINE q == [req[p] EXCEPT !.pc = l]
<1>1. q \in Request /\ q.pc = l /\ q.op = req[p].op
  BY DEF Request
<1>2. req' = [req EXCEPT ![p] = q]
  BY DEF Goto
<1>3. RequestOK(q)
  BY <1>1 DEF RequestOK
<1>4. QED
  BY <1>1, <1>2, <1>3 DEF RequestMoves, ServiceInv

LEMMA ProceedMoves ==
    ASSUME ServiceInv, NEW p \in Procs, Proceed(p), req[p] \in Request
    PROVE  RequestMoves(p)
<1>1. CASE AfterPrune(req[p].op) = "none"
  BY <1>1, ReturnMoves DEF Proceed
<1>2. CASE AfterPrune(req[p].op) # "none"
  <2>1. Goto(p, AfterPrune(req[p].op))
    BY <1>2 DEF Proceed
  <2>2. req[p].op \in Ops
    BY DEF Request
  <2>3. \/ AfterPrune(req[p].op) = "read"
        \/ AfterPrune(req[p].op) = "ensure" /\ req[p].op = "join"
        \/ AfterPrune(req[p].op) = "commit" /\ req[p].op = "end"
    BY <1>2, <2>2 DEF AfterPrune, Ops
  <2>4. QED
    BY <2>1, <2>3, GotoMoves
<1>3. QED
  BY <1>1, <1>2

(* A request whose handler writes record q, with the program counter among *)
(* its fields.                                                             *)
LEMMA WriteMoves ==
    ASSUME ServiceInv, NEW p \in Procs, NEW q \in Request, RequestOK(q),
           req' = [req EXCEPT ![p] = q]
    PROVE  RequestMoves(p)
  BY DEF ServiceInv, RequestMoves

LEMMA ReadMoves ==
    ASSUME ServiceInv, NEW p \in Procs, req[p] \in Request, Read(p)
    PROVE  RequestMoves(p)
<1> DEFINE u == req[p].user
           c == req[p].call
           q1 == [req[p] EXCEPT !.pc = "commit", !.own = <<u, row[u]>>]
           q2(v) == [req[p] EXCEPT !.pc = "commit", !.own = <<u, row[u]>>, !.todo = {<<v, row[v]>>}]
<1>1. u \in Users /\ \A v \in Users : <<v, row[v]>> \in Row
  BY DEF Request, Row, ServiceInv, TypeOK
<1>2. q1 \in Request /\ RequestOK(q1)
  BY <1>1 DEF Request, RequestOK
<1>3. ASSUME NEW v \in Users PROVE q2(v) \in Request /\ RequestOK(q2(v))
  BY <1>1 DEF Request, RequestOK
<1>4. \/ Return(p)
      \/ req' = [req EXCEPT ![p] = q1]
      \/ \E v \in Users : req' = [req EXCEPT ![p] = q2(v)]
  BY DEF Read
<1>5. CASE req' = [req EXCEPT ![p] = q1]
  <2> HIDE DEF q1
  <2>1. QED
    BY <1>2, <1>5, WriteMoves
<1>6. ASSUME NEW v \in Users, req' = [req EXCEPT ![p] = q2(v)] PROVE RequestMoves(p)
  <2> HIDE DEF q2
  <2>1. QED
    BY <1>3, <1>6, WriteMoves
<1>7. QED
  BY <1>4, <1>5, <1>6, ReturnMoves

LEMMA EvictMoves ==
    ASSUME ServiceInv, NEW p \in Procs, req[p] \in Request, Evict(p)
    PROVE  RequestMoves(p)
<1>1. PICK r \in req[p].todo :
        LET evicted == RowActive(r[1], r[2]) /\ part[r[1]] = req[p].seen
            any == req[p].pruned \/ evicted
            next == IF req[p].todo # {r} THEN "evict"
                    ELSE IF any THEN "reread" ELSE AfterPrune(req[p].op) IN
        IF next = "none" THEN Return(p)
        ELSE req' = [req EXCEPT ![p].pc = next, ![p].todo = @ \ {r}, ![p].pruned = any]
  BY DEF Evict
<1> DEFINE any == req[p].pruned \/ (RowActive(r[1], r[2]) /\ part[r[1]] = req[p].seen)
           next == IF req[p].todo # {r} THEN "evict"
                   ELSE IF any THEN "reread" ELSE AfterPrune(req[p].op)
           q == [req[p] EXCEPT !.pc = next, !.todo = @ \ {r}, !.pruned = any]
<1>2. any \in BOOLEAN /\ req[p].op \in Ops /\ req[p].todo \ {r} \in SUBSET Row
  BY DEF Request
<1>3. CASE next = "none"
  BY <1>1, <1>3, ReturnMoves
<1>4. CASE next # "none"
  <2>1. req' = [req EXCEPT ![p] = q]
    BY <1>1, <1>4
  <2>2. \/ next \in {"evict", "reread", "read"}
        \/ next = "ensure" /\ req[p].op = "join"
        \/ next = "commit" /\ req[p].op = "end"
    BY <1>2, <1>4 DEF AfterPrune, Ops
  <2>3. q \in Request /\ RequestOK(q)
    <3> HIDE DEF next, any
    <3>1. q \in Request /\ q.pc = next /\ q.op = req[p].op
      BY <1>2, <2>2 DEF Request
    <3>2. QED
      BY <2>2, <3>1 DEF RequestOK
  <2>4. QED
    <3> HIDE DEF q
    <3>1. QED
      BY <2>1, <2>3, WriteMoves
<1>5. QED
  BY <1>3, <1>4

LEMMA HandleRequests ==
    ASSUME ServiceInv, NEW p \in Procs, Handle(p)
    PROVE  RequestMoves(p)
<1> DEFINE q == req[p]
           u == q.user
<1>1. q \in Request /\ RequestOK(q)
  <2>1. q.pc # "idle"
    BY DEF Handle, Load, List, Evict, Reread, Ensure, EvictOwn, Find, Read, CommitStart, CommitJoin,
           CommitLeave, CommitEnd, Touch, EvictTarget, Resolve, EvictLast
  <2>2. QED
    BY <2>1 DEF ServiceInv, RequestOK, Idle
<1>2. u \in Users /\ <<u, row[u]>> \in Row /\ part[u] \in Calls \cup {NoCall}
  BY <1>1 DEF Request, Row, ServiceInv, TypeOK
<1>3. Idle.pc = "idle" /\ q # Idle
  BY <1>1 DEF Idle, Request
<1>4. CASE Load(p) \/ Reread(p)
  <2>1. \/ Return(p) \/ Goto(p, "list") \/ Proceed(p)
        \/ Goto(p, "commit") /\ q.op = "start"
    BY <1>4 DEF Load, Reread
  <2>2. QED
    BY <1>1, <2>1, ReturnMoves, GotoMoves, ProceedMoves
<1>5. CASE List(p)
  <2> DEFINE n == [q EXCEPT !.pc = "evict", !.todo = StaleRows(p)]
  <2>1. StaleRows(p) \in SUBSET Row
    BY DEF StaleRows, ActiveIn, Row, ServiceInv, TypeOK
  <2>2. n \in Request /\ RequestOK(n)
    BY <1>1, <2>1 DEF Request, RequestOK
  <2>3. Proceed(p) \/ req' = [req EXCEPT ![p] = n]
    BY <1>5 DEF List
  <2>4. QED
    <3> HIDE DEF n
    <3>1. QED
      BY <1>1, <2>2, <2>3, ProceedMoves, WriteMoves
<1>6. CASE Ensure(p)
  <2> DEFINE n == [q EXCEPT !.pc = "evictOwn", !.own = <<u, row[u]>>, !.seen = part[u]]
  <2>1. q.pc = "ensure" /\ q.op \in {"start", "join"}
    BY <1>1, <1>3, <1>6 DEF Ensure, RequestOK
  <2>2. n \in Request /\ RequestOK(n)
    BY <1>1, <1>2, <2>1 DEF Request, RequestOK
  <2>3. \/ Return(p) \/ req' = [req EXCEPT ![p] = n]
        \/ Goto(p, "find") /\ q.op = "start"
        \/ Goto(p, "commit")
    BY <1>6 DEF Ensure
  <2>4. QED
    <3> HIDE DEF n
    <3>1. QED
      BY <1>1, <2>1, <2>2, <2>3, ReturnMoves, GotoMoves, WriteMoves
<1>7. CASE EvictOwn(p)
  <2>1. q.op \in {"start", "join"} /\ Goto(p, IF q.op = "start" THEN "find" ELSE "commit")
    BY <1>1, <1>3, <1>7 DEF EvictOwn, RequestOK
  <2>2. QED
    BY <1>1, <2>1, GotoMoves
<1>8. CASE Find(p)
  <2>1. q.op = "start"
    BY <1>1, <1>3, <1>8 DEF Find, RequestOK
  <2>2. ASSUME NEW c \in Calls, req' = [req EXCEPT ![p].pc = "list", ![p].seen = c]
        PROVE  RequestMoves(p)
    <3> DEFINE n == [q EXCEPT !.pc = "list", !.seen = c]
    <3>1. n \in Request /\ RequestOK(n)
      BY <1>1 DEF Request, RequestOK
    <3>2. req' = [req EXCEPT ![p] = n]
      BY <2>2
    <3>3. QED
      <4> HIDE DEF n
      <4>1. QED
        BY <3>1, <3>2, WriteMoves
  <2>3. QED
    BY <1>1, <1>8, <2>1, <2>2, GotoMoves DEF Find
<1>9. CASE Resolve(p)
  <2> DEFINE n == [q EXCEPT !.pc = "evictLast", !.own = <<u, row[u]>>, !.seen = part[u]]
  <2>1. n \in Request /\ RequestOK(n)
    BY <1>1, <1>2 DEF Request, RequestOK
  <2>2. \/ Return(p) \/ req' = [req EXCEPT ![p] = n]
    BY <1>9 DEF Resolve
  <2>3. QED
    <3> HIDE DEF n
    <3>1. QED
      BY <2>1, <2>2, ReturnMoves, WriteMoves
<1>10. CASE CommitStart(p) \/ CommitJoin(p)
  <2>1. Return(p) \/ Goto(p, "resolve")
    BY <1>10 DEF CommitStart, CommitJoin
  <2>2. QED
    BY <1>1, <2>1, ReturnMoves, GotoMoves
<1>11. CASE CommitLeave(p) \/ CommitEnd(p) \/ Touch(p) \/ EvictTarget(p) \/ EvictLast(p)
  BY <1>11, ReturnMoves DEF CommitLeave, CommitEnd, Touch, EvictTarget, EvictLast
<1>12. QED
  BY <1>1, <1>4, <1>5, <1>6, <1>7, <1>8, <1>9, <1>10, <1>11, ReadMoves, EvictMoves DEF Handle

LEMMA BeginMoves ==
    ASSUME ServiceInv, NEW p \in Procs, NEW op \in Ops, NEW u \in Users, NEW c \in Calls,
           Begin(p, op, u, c)
    PROVE  RequestMoves(p)
<1> DEFINE n == [Idle EXCEPT !.pc = IF op = "start" THEN "ensure" ELSE "load",
                             !.op = op, !.user = u, !.call = c, !.seen = c]
<1>1. n \in Request /\ RequestOK(n)
  BY DEF Idle, Request, RequestOK, NoRow
<1>2. req' = [req EXCEPT ![p] = n]
  BY DEF Begin
<1>3. QED
  <2> HIDE DEF n
  <2>1. QED
    BY <1>1, <1>2, WriteMoves

LEMMA ServiceHolds == ServiceSpec => []ServiceInv
<1>1. ServiceInit => ServiceInv
  BY InitTypes DEF ServiceInit, ServiceInv, RequestOK
<1>2. ServiceInv /\ [ServiceNext]_serviceVars => ServiceInv'
  <2> SUFFICES ASSUME ServiceInv, [ServiceNext]_serviceVars PROVE ServiceInv'
    OBVIOUS
  <2>1. TypeOK'
    <3>1. CASE UNCHANGED <<callVars, mediaVars>>
      BY <3>1, SameTypes DEF ServiceInv, mediaVars, vars
    <3>2. CASE RepositoryNext
      BY <3>2, RepositoryTypes DEF ServiceInv, RepositoryNext
    <3>3. QED
      BY <3>1, <3>2, ServiceMoves DEF TablesMove
  <2>2. stale' \in SUBSET Users
    BY ServiceMoves DEF TablesMove
  <2>3. req' = req \/ \E p \in Procs : RequestMoves(p)
    BY HandleRequests, BeginMoves DEF ServiceNext, GoesStale, serviceVars
  <2>4. req' \in [Procs -> Request \cup {Idle}] /\ \A p \in Procs : RequestOK(req'[p])
    BY <2>3 DEF RequestMoves, ServiceInv
  <2>5. QED
    BY <2>1, <2>2, <2>4 DEF ServiceInv, RequestOK
<1>3. QED
  BY <1>1, <1>2, PTL DEF ServiceSpec

(* The tables, the requests and the rows they have read keep their types.  *)
THEOREM ServiceTypes == ServiceSpec => []ServiceTypeOK
<1>1. ServiceInv => ServiceTypeOK
  BY DEF ServiceInv, ServiceTypeOK, RequestOK, Idle
<1>2. QED
  BY <1>1, ServiceHolds, PTL

-----------------------------------------------------------------------------
(* Calls of an earlier version have ended and stay so.                     *)
PeopleInv == CallHasPeople /\ \A c \in OldCalls : callState[c] = "ended"

(* A user who is free comes from nowhere or from a call that had ended     *)
(* before: nobody is in a call of this version that has ended.             *)
LEMMA FreeUser ==
    ASSUME TypeOK, PeopleInv, NEW u \in Users, Free(u)
    PROVE  part[u] \in OldCalls \cup {NoCall}
  BY DEF TypeOK, PeopleInv, CallHasPeople, Free, ActiveIn

LEMMA PeopleStep ==
    ASSUME TypeOK, PeopleInv, RepositoryNext
    PROVE  PeopleInv'
<1>1. PICK c \in Calls, u \in Users : \/ CreateCallWithParticipant(c, u)
                                      \/ JoinParticipant(c, u)
                                      \/ LeaveParticipantAndMaybeEndCall(c, u)
                                      \/ EndCallWithParticipants(c, u)
  BY DEF RepositoryNext
<1> USE NoneAssumption, ScopeAssumption DEF PeopleInv, CallHasPeople
<1>2. CASE CreateCallWithParticipant(c, u) \/ JoinParticipant(c, u)
  <2>1. /\ part' = [part EXCEPT ![u] = c] /\ c \notin OldCalls
        /\ callState' = [callState EXCEPT ![c] = "active"]
        /\ part[u] \in OldCalls \cup {NoCall}
    <3>1. Free(u) /\ part' = [part EXCEPT ![u] = c] /\ callState[c] \in {"none", "active"}
      BY <1>2 DEF CreateCallWithParticipant, JoinParticipant, NewRow
    <3>2. callState' = [callState EXCEPT ![c] = "active"]
      BY <1>2 DEF CreateCallWithParticipant, JoinParticipant, TypeOK
    <3>3. QED
      BY <3>1, <3>2, FreeUser
  <2>2. u \in ActiveIn(c)'
    BY <2>1 DEF ActiveIn, TypeOK
  <2>3. \A d \in Calls \ OldCalls : d # c => ActiveIn(d)' = ActiveIn(d)
    BY <2>1 DEF ActiveIn, TypeOK
  <2>4. QED
    BY <2>1, <2>2, <2>3 DEF TypeOK
<1>3. CASE LeaveParticipantAndMaybeEndCall(c, u)
  <2>1. /\ part[u] = c /\ part' = [part EXCEPT ![u] = NoCall]
        /\ callState' = IF ActiveIn(c) \ {u} = {} /\ callState[c] = "active"
                          THEN [callState EXCEPT ![c] = "ended"] ELSE callState
    BY <1>3 DEF LeaveParticipantAndMaybeEndCall, EndIfEmpty
  <2>2. ActiveIn(c)' = ActiveIn(c) \ {u} /\ u \in ActiveIn(c)
    BY <2>1 DEF ActiveIn, TypeOK
  <2>3. \A d \in Calls : d # c => ActiveIn(d)' = ActiveIn(d)
    BY <2>1 DEF ActiveIn, TypeOK
  <2>4. QED
    BY <2>1, <2>2, <2>3 DEF TypeOK
<1>4. CASE EndCallWithParticipants(c, u)
  <2>1. /\ part' = Update(part, ActiveIn(c), NoCall)
        /\ callState' = [callState EXCEPT ![c] = "ended"]
    BY <1>4 DEF EndCallWithParticipants
  <2>2. \A v \in Users : part'[v] = IF part[v] = c THEN NoCall ELSE part[v]
    BY <2>1 DEF Update, ActiveIn, TypeOK
  <2>3. ActiveIn(c)' = {} /\ \A d \in Calls : d # c => ActiveIn(d)' = ActiveIn(d)
    BY <2>2 DEF ActiveIn
  <2>4. QED
    BY <2>1, <2>3 DEF TypeOK
<1>5. QED
  BY <1>1, <1>2, <1>3, <1>4

LEMMA PeopleHold == ServiceSpec => [](ServiceInv /\ PeopleInv)
<1>1. ServiceInit => PeopleInv
  BY NoneAssumption, ScopeAssumption DEF ServiceInit, Init, PeopleInv, CallHasPeople, ActiveIn
<1>2. ServiceInv /\ PeopleInv /\ [ServiceNext]_serviceVars => PeopleInv'
  <2> SUFFICES ASSUME ServiceInv, PeopleInv, [ServiceNext]_serviceVars PROVE PeopleInv'
    OBVIOUS
  <2>1. CASE UNCHANGED <<callVars, mediaVars>>
    BY <2>1 DEF PeopleInv, CallHasPeople, ActiveIn, callVars
  <2>2. CASE RepositoryNext
    BY <2>2, PeopleStep DEF ServiceInv
  <2>3. QED
    BY <2>1, <2>2, ServiceMoves DEF TablesMove
<1>3. QED
  BY <1>1, <1>2, ServiceHolds, PTL DEF ServiceSpec

(* A call is active as long as somebody is in it, whatever the requests    *)
(* under way have read before it changed.                                  *)
THEOREM CallsHavePeople == ServiceSpec => []CallHasPeople
<1>1. ServiceInv /\ PeopleInv => CallHasPeople
  BY DEF PeopleInv
<1>2. QED
  BY <1>1, PeopleHold, PTL

-----------------------------------------------------------------------------
(* Who loses a participation in a step of a handler.                       *)
LEMMA LeaveNames ==
    ASSUME TypeOK, stale \in SUBSET Users, NEW c, NEW r \in Row, LeaveRow(c, r),
           NEW u \in Users, part'[u] # part[u]
    PROVE  r = <<u, row[u]>>
<1>1. ~UNCHANGED <<callVars, mediaVars>>
  BY DEF callVars
<1>2. LeaveParticipantAndMaybeEndCall(c, r[1]) /\ r = <<r[1], row[r[1]]>>
  BY <1>1, LeaveRowEffect
<1>3. u = r[1]
  BY <1>2 DEF LeaveParticipantAndMaybeEndCall, TypeOK
<1>4. QED
  BY <1>2, <1>3

LEMMA HandleNames ==
    ASSUME ServiceInv, PeopleInv, NEW p \in Procs, Handle(p),
           NEW u \in Users, part[u] \notin OldCalls \cup {NoCall}, part'[u] # part[u]
    PROVE  \/ <<u, row[u]>> \in req[p].todo \cup {req[p].own}
           \/ req[p].op = "end" /\ req[p].user = creator[part[u]]
<1> DEFINE q == req[p]
<1>1. TypeOK /\ stale \in SUBSET Users /\ RequestOK(q)
  BY DEF ServiceInv
<1>2. q.pc # "idle" => q \in Request
  BY <1>1 DEF RequestOK, Idle
<1>3. ~Quiet /\ ~UNCHANGED <<callVars, mediaVars>>
  BY DEF Quiet, callVars
<1>4. ASSUME NEW c, NEW r \in Row, LeaveRow(c, r) PROVE r = <<u, row[u]>>
  BY <1>1, <1>4, LeaveNames
<1>5. CASE Evict(p) \/ EvictTarget(p)
  <2>1. PICK r \in q.todo, c \in {q.seen, q.call} : LeaveRow(c, r)
    BY <1>5 DEF Evict, EvictTarget
  <2>2. r \in Row
    BY <1>2, <1>5, <2>1 DEF Evict, EvictTarget, Request
  <2>3. QED
    BY <1>4, <2>1, <2>2
<1>6. CASE EvictOwn(p) \/ EvictLast(p) \/ CommitLeave(p)
  <2>1. /\ LeaveRow(q.seen, q.own) \/ LeaveRow(q.call, q.own)
        /\ q.pc \in {"evictOwn", "evictLast"} \/ (q.pc = "commit" /\ q.op = "leave")
    BY <1>6 DEF EvictOwn, EvictLast, CommitLeave
  <2>2. q.own \in Row
    BY <1>1, <2>1 DEF RequestOK, Idle
  <2>3. QED
    BY <1>4, <2>1, <2>2
<1>7. CASE CommitStart(p) \/ CommitJoin(p)
  <2>1. q.call \in Calls /\ q.user \in Users
    BY <1>2, <1>7 DEF CommitStart, CommitJoin, Request
  <2>2. Free(q.user) /\ part' = [part EXCEPT ![q.user] = q.call]
    BY <1>3, <1>7 DEF CommitStart, CommitJoin, CreateCallWithParticipant, JoinParticipant, NewRow
  <2>3. u = q.user
    BY <1>1, <2>1, <2>2 DEF TypeOK
  <2>4. QED
    BY <1>1, <2>2, <2>3, FreeUser
<1>8. CASE CommitEnd(p)
  <2>1. q.op = "end" /\ EndCallWithParticipants(q.call, q.user)
    BY <1>3, <1>8 DEF CommitEnd
  <2>2. part[u] = q.call /\ creator[q.call] = q.user
    BY <1>1, <2>1 DEF EndCallWithParticipants, Update, ActiveIn, TypeOK
  <2>3. QED
    BY <2>1, <2>2
<1>9. CASE Touch(p)
  BY <1>3, <1>9 DEF Touch
<1>10. QED
  BY <1>3, <1>5, <1>6, <1>7, <1>8, <1>9 DEF Handle, Load, List, Reread, Ensure, Find, Read, Resolve

(* A participation is taken only from the row that the request has named,  *)
(* or by the end of the call: an eviction that comes late misses the row   *)
(* of a user who has joined again.                                         *)
THEOREM OnlyNamedRows == ServiceSpec => OnlyNamedRowsLeave
<1> DEFINE Named == \A p \in Procs, u \in Users :
              req'[p] # req[p] /\ part[u] \notin OldCalls \cup {NoCall} /\ part'[u] # part[u] =>
                 \/ <<u, row[u]>> \in req[p].todo \cup {req[p].own}
                 \/ req[p].op = "end" /\ req[p].user = creator[part[u]]
<1>1. ServiceInv /\ PeopleInv /\ [ServiceNext]_serviceVars => [Named]_serviceVars
  <2> SUFFICES ASSUME ServiceInv, PeopleInv, [ServiceNext]_serviceVars,
                      NEW p \in Procs, NEW u \in Users, req'[p] # req[p],
                      part[u] \notin OldCalls \cup {NoCall}, part'[u] # part[u]
               PROVE  \/ <<u, row[u]>> \in req[p].todo \cup {req[p].own}
                      \/ req[p].op = "end" /\ req[p].user = creator[part[u]]
    OBVIOUS
  <2>1. PICK s \in Procs : Handle(s)
    BY DEF ServiceNext, Begin, GoesStale, Quiet, callVars, serviceVars
  <2>2. s = p
    BY <2>1, HandleRequests DEF RequestMoves
  <2>3. QED
    BY <2>1, <2>2, HandleNames
<1>2. QED
  BY <1>1, PeopleHold, PTL DEF ServiceSpec, OnlyNamedRowsLeave
=============================================================================

----------------------------- MODULE RtcService -----------------------------
(***************************************************************************)
(* The call service of aero-rtc-control (internal/domain/rtc/service.go)   *)
(* over the call repository, as cmd/aero-rtc-control/main.go wires them:   *)
(* no slot guard and no media.  A request is a process: each repository    *)
(* call is a step, and other requests run in between.  Participants that   *)
(* have not been heard of for the stale timeout are evicted on the way, by *)
(* whichever request meets them.                                           *)
(*                                                                         *)
(* Time enters as the set stale of users whose active row is older than    *)
(* the timeout.                                                            *)
(***************************************************************************)
EXTENDS CallRepository

CONSTANT Procs     \* request handlers

VARIABLES stale, req

serviceVars == <<callVars, mediaVars, stale, req>>

Ops == {"start", "join", "leave", "end", "touch", "signal", "list", "get"}
Row == Users \X Nat
NoRow == <<NoUser, 0>>

(* A request: where it is, what was asked, the call it looks at (for a     *)
(* start, first the one it would create), the rows it has found stale and  *)
(* has yet to evict, whether it evicted any, and a row it has read.        *)
Idle == [pc |-> "idle", op |-> "none", user |-> NoUser, call |-> NoCall, seen |-> NoCall,
         todo |-> {}, pruned |-> FALSE, own |-> NoRow]

Request == [pc: {"load", "list", "evict", "reread", "ensure", "evictOwn", "find", "read",
                 "commit", "resolve", "evictLast"},
            op: Ops, user: Users, call: Calls, seen: Calls \cup {NoCall},
            todo: SUBSET Row, pruned: BOOLEAN, own: Row \cup {NoRow}]

ServiceTypeOK == /\ TypeOK
                 /\ stale \in SUBSET Users
                 /\ req \in [Procs -> Request \cup {Idle}]
                 /\ \A p \in Procs : req[p].pc = "commit" /\ req[p].op \in {"leave", "touch", "signal"}
                                    => req[p].own[1] = req[p].user

ServiceInit == Init /\ stale = {} /\ req = [p \in Procs |-> Idle]

-----------------------------------------------------------------------------
Goto(p, l) == req' = [req EXCEPT ![p].pc = l]
Return(p) == req' = [req EXCEPT ![p] = Idle]
Quiet == UNCHANGED <<callVars, mediaVars, stale>>

(* A user's active participation in an active call: what                   *)
(* GetActiveParticipationByUserID returns.                                 *)
Participating(u) == part[u] # NoCall /\ callState[part[u]] = "active"

(* Where the request goes after the prune of the call it looks at.         *)
AfterPrune(op) == CASE op = "join" -> "ensure"
                    [] op \in {"leave", "touch", "signal"} -> "read"
                    [] op = "end" -> "commit"
                    [] OTHER -> "none"

(* After an active call has been loaded: a start meets a conflict, a read  *)
(* is answered, the others go on.                                          *)
Proceed(p) == IF AfterPrune(req[p].op) = "none" THEN Return(p)
                                                ELSE Goto(p, AfterPrune(req[p].op))

(* Mutant: whatever row the user has in the call is left.                  *)
LeaveRow_byUser(c, r) ==
    \/ /\ part[r[1]] = c
       /\ LeaveParticipantAndMaybeEndCall(c, r[1])
       /\ stale' = stale \ {r[1]}
    \/ part[r[1]] # c /\ Quiet

(* LeaveParticipantAndMaybeEndCall of row r of call c: no update when that *)
(* row is not active any more, even if its user has joined again.          *)
LeaveRow(c, r) ==
    \/ /\ RowActive(r[1], r[2]) /\ part[r[1]] = c
       /\ LeaveParticipantAndMaybeEndCall(c, r[1])
       /\ stale' = stale \ {r[1]}
    \/ /\ ~(RowActive(r[1], r[2]) /\ part[r[1]] = c)
       /\ Quiet

-----------------------------------------------------------------------------
Begin(p, op, u, c) ==
    /\ req[p] = Idle
    /\ op = "start" <=> callState[c] = "none"
    /\ req' = [req EXCEPT ![p] = [Idle EXCEPT !.pc = IF op = "start" THEN "ensure" ELSE "load",
                                              !.op = op, !.user = u, !.call = c, !.seen = c]]
    /\ Quiet

(* authorizeCallView, authorizeCallForActiveParticipation: the call row is *)
(* read before the identity and chat services are asked.                   *)
Load(p) ==
    /\ req[p].pc = "load"
    /\ IF callState[req[p].call] = "active" THEN Goto(p, "list") ELSE Return(p)
    /\ Quiet

(* ListActiveParticipants and isParticipantStale: the requester itself is  *)
(* spared, except by reads, which preserve nobody.                         *)
StaleRows(p) == {<<u, row[u]>> : u \in {v \in ActiveIn(req[p].seen) \cap stale :
                                          v = req[p].user => req[p].op = "get"}}

List(p) ==
    /\ req[p].pc = "list"
    /\ IF StaleRows(p) = {} THEN Proceed(p)
                            ELSE req' = [req EXCEPT ![p].pc = "evict", ![p].todo = StaleRows(p)]
    /\ Quiet

(* One iteration of pruneStaleParticipantsForCall; when the last row is    *)
(* done the call is read again if some row was really evicted.             *)
Evict(p) ==
    /\ req[p].pc = "evict"
    /\ \E r \in req[p].todo :
       LET evicted == RowActive(r[1], r[2]) /\ part[r[1]] = req[p].seen
           any == req[p].pruned \/ evicted
           next == IF req[p].todo # {r} THEN "evict"
                   ELSE IF any THEN "reread" ELSE AfterPrune(req[p].op) IN
       /\ LeaveRow(req[p].seen, r)
       /\ IF next = "none" THEN Return(p)
          ELSE req' = [req EXCEPT ![p].pc = next, ![p].todo = @ \ {r}, ![p].pruned = any]

(* GetCallByID after a prune: a start may create its call when the prune   *)
(* has ended the old one, everybody else needs the call active.            *)
Reread(p) ==
    /\ req[p].pc = "reread"
    /\ IF callState[req[p].seen] = "active" THEN Proceed(p)
       ELSE IF req[p].op = "start" THEN Goto(p, "commit") ELSE Return(p)
    /\ Quiet

(* ensureNoOtherActiveParticipation.                                       *)
Ensure(p) ==
    LET u == req[p].user
        free == IF req[p].op = "start" THEN "find" ELSE "commit" IN
    /\ req[p].pc = "ensure"
    /\ IF ~Participating(u) \/ (req[p].op = "join" /\ part[u] = req[p].call)
         THEN Goto(p, free)
         ELSE IF u \in stale
           THEN req' = [req EXCEPT ![p].pc = "evictOwn", ![p].own = <<u, row[u]>>,
                                   ![p].seen = part[u]]
           ELSE Return(p)
    /\ Quiet

EvictOwn(p) ==
    /\ req[p].pc = "evictOwn"
    /\ LeaveRow(req[p].seen, req[p].own)
    /\ Goto(p, IF req[p].op = "start" THEN "find" ELSE "commit")

(* GetActiveCallByScope of a start.                                        *)
Find(p) ==
    LET found == {c \in Calls : callState[c] = "active" /\ ScopeOf[c] = ScopeOf[req[p].call]} IN
    /\ req[p].pc = "find"
    /\ \/ found = {} /\ Goto(p, "commit")
       \/ \E c \in found : req' = [req EXCEPT ![p].pc = "list", ![p].seen = c]
    /\ Quiet

(* GetActiveParticipant of the requester and, for a signal, of the target. *)
Read(p) ==
    LET u == req[p].user
        c == req[p].call IN
    /\ req[p].pc = "read"
    /\ IF part[u] # c THEN Return(p)
       ELSE \/ /\ req[p].op # "signal"
               /\ req' = [req EXCEPT ![p].pc = "commit", ![p].own = <<u, row[u]>>]
            \/ \E v \in Users \ {u} :
               /\ req[p].op = "signal"
               /\ IF part[v] # c THEN Return(p)
                  ELSE req' = [req EXCEPT ![p].pc = "commit", ![p].own = <<u, row[u]>>,
                                          ![p].todo = {<<v, row[v]>>}]
    /\ Quiet

-----------------------------------------------------------------------------
(* The last repository call of each request.  The bound MaxRow shows as a  *)
(* refused start or join.                                                  *)

CanCreate(c, u) ==
    /\ callState[c] = "none"
    /\ \A d \in Calls : ~(ScopeOf[d] = ScopeOf[c] /\ callState[d] = "active")
    /\ Free(u)
    /\ row[u] < MaxRow

CanJoin(c, u) == callState[c] = "active" /\ Free(u) /\ row[u] < MaxRow

CommitStart(p) ==
    LET c == req[p].call
        u == req[p].user IN
    /\ req[p].pc = "commit" /\ req[p].op = "start"
    /\ \/ CreateCallWithParticipant(c, u) /\ stale' = stale \ {u} /\ Return(p)
       \/ ~CanCreate(c, u) /\ Goto(p, "resolve") /\ Quiet

CommitJoin(p) ==
    LET c == req[p].call
        u == req[p].user IN
    /\ req[p].pc = "commit" /\ req[p].op = "join"
    /\ \/ part[u] = c /\ callState[c] = "active" /\ Return(p) /\ Quiet
       \/ JoinParticipant(c, u) /\ stale' = stale \ {u} /\ Return(p)
       \/ ~(part[u] = c /\ callState[c] = "active") /\ ~CanJoin(c, u) /\ Goto(p, "resolve") /\ Quiet

CommitLeave(p) ==
    /\ req[p].pc = "commit" /\ req[p].op = "leave"
    /\ LeaveRow(req[p].call, req[p].own)
    /\ Return(p)

CommitEnd(p) ==
    LET c == req[p].call
        u == req[p].user IN
    /\ req[p].pc = "commit" /\ req[p].op = "end"
    /\ \/ EndCallWithParticipants(c, u) /\ stale' = stale \ ActiveIn(c)
       \/ ~(callState[c] = "active" /\ creator[c] = u) /\ Quiet
    /\ Return(p)

(* TouchParticipantSignal: no error when the row is not active any more.   *)
Touch(p) ==
    /\ req[p].pc = "commit" /\ req[p].op \in {"touch", "signal"}
    /\ stale' = IF RowActive(req[p].own[1], req[p].own[2]) THEN stale \ {req[p].user} ELSE stale
    /\ Return(p)
    /\ UNCHANGED <<callVars, mediaVars>>

(* SendSignal to a target that chat no longer lets participate.            *)
EvictTarget(p) ==
    /\ req[p].pc = "commit" /\ req[p].op = "signal"
    /\ \E r \in req[p].todo : LeaveRow(req[p].call, r)
    /\ Return(p)

(* resolveActiveParticipationConflict, then the conflict is reported.      *)
Resolve(p) ==
    LET u == req[p].user IN
    /\ req[p].pc = "resolve"
    /\ IF Participating(u) /\ u \in stale
         THEN req' = [req EXCEPT ![p].pc = "evictLast", ![p].own = <<u, row[u]>>,
                                 ![p].seen = part[u]]
         ELSE Return(p)
    /\ Quiet

EvictLast(p) ==
    /\ req[p].pc = "evictLast"
    /\ LeaveRow(req[p].seen, req[p].own)
    /\ Return(p)

(* The stale timeout of an active row runs out.                            *)
GoesStale(u) ==
    /\ part[u] # NoCall
    /\ u \notin stale
    /\ stale' = stale \cup {u}
    /\ UNCHANGED <<callVars, mediaVars, req>>

Handle(p) == \/ Load(p) \/ List(p) \/ Evict(p) \/ Reread(p) \/ Ensure(p) \/ EvictOwn(p)
             \/ Find(p) \/ Read(p) \/ CommitStart(p) \/ CommitJoin(p) \/ CommitLeave(p)
             \/ CommitEnd(p) \/ Touch(p) \/ EvictTarget(p) \/ Resolve(p) \/ EvictLast(p)

ServiceNext == \/ \E p \in Procs : Handle(p)
               \/ \E p \in Procs, op \in Ops, u \in Users, c \in Calls : Begin(p, op, u, c)
               \/ \E u \in Users : GoesStale(u)

ServiceSpec == ServiceInit /\ [][ServiceNext]_serviceVars

-----------------------------------------------------------------------------
(* Whatever requests overlap, a call is active exactly as long as somebody *)
(* participates in it: no abandoned call blocks its scope, no participant  *)
(* is left in an ended call (but for the rows that an earlier version left *)
(* over).                                                                  *)
CallHasPeople == \A c \in Calls \ OldCalls : callState[c] = "active" <=> ActiveIn(c) # {}

(* Nobody loses a participation the request has not named: an eviction     *)
(* decided on an old row never hits the row of a user who has joined       *)
(* again.  The only other way out is the end of the call by its creator.   *)
OnlyNamedRowsLeave ==
    [][\A p \in Procs, u \in Users :
          req'[p] # req[p] /\ part[u] \notin OldCalls \cup {NoCall} /\ part'[u] # part[u] =>
             \/ <<u, row[u]>> \in req[p].todo \cup {req[p].own}
             \/ req[p].op = "end" /\ req[p].user = creator[part[u]]]_serviceVars

(* The cutoff for eviction is the participant's activity timestamp, which  *)
(* a heartbeat updates: a participant that another request's prune removes *)
(* is stale when it is removed.                                            *)
OnlyStaleEvicted ==
    [][\A p \in Procs, u \in Users :
          req[p].pc = "evict" /\ req'[p] # req[p] /\ part[u] # NoCall /\ part'[u] = NoCall
             => u \in stale]_serviceVars
=============================================================================
